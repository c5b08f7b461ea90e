------------------------------- MODULE Texte -------------------------------
(* The likeness of two names (noyau/texte.ts): the port of difflib the 0.93     *)
(* threshold on communes is tuned against. A string is a sequence of numbers.   *)
EXTENDS Integers, SequencesExt, FiniteSetsExt

CONSTANTS
  Words,         \* the strings compared
  Possibilities, \* the sequences of strings a closest match is looked for in
  Cutoff,        \* out of 100
  NoWord

\* Of any instance: a string is not the absence of one, and the cutoff is a ratio above 0 (0.93,
\* outils/build.ts:301).
ASSUME TexteAssumption ==
  /\ Cutoff \in 1..100
  /\ \A w \in Words : w \in Seq(Nat)
  /\ \A p \in Possibilities : p \in Seq(Seq(Nat)) /\ NoWord \notin ToSet(p)

VARIABLES word, among, closest

texteVars == <<word, among, closest>>

\* j2len of longestMatch: for each character of a, the lengths of the blocks of the window that end
\* at it and at each one of b.
BlockLengths(a, b, alo, ahi, blo, bhi) ==
  LET row[i \in 0..ahi] ==
        [j \in 0..bhi |-> IF i < alo \/ j < blo \/ a[i] # b[j] THEN 0 ELSE 1 + row[i - 1][j - 1]]
  IN row

\* The longest block of a[alo..ahi] in b[blo..bhi]; of equals, the first met, i then j.
LongestMatch(a, b, alo, ahi, blo, bhi) ==
  LET length == BlockLengths(a, b, alo, ahi, blo, bhi)
      ends == (alo..ahi) \X (blo..bhi)
      best == Max({0} \union {length[e[1]][e[2]] : e \in ends})
      first == CHOOSE e \in {f \in ends : length[f[1]][f[2]] = best} :
                 \A f \in {g \in ends : length[g[1]][g[2]] = best} :
                   e[1] < f[1] \/ (e[1] = f[1] /\ e[2] <= f[2])
  IN IF best = 0 THEN [i |-> alo, j |-> blo, k |-> 0]
     ELSE [i |-> first[1] - best + 1, j |-> first[2] - best + 1, k |-> best]

\* What is left to compare: a[alo..ahi] and b[blo..bhi].
Windows(a, b) == [alo : 1..Len(a)+1, ahi : 0..Len(a), blo : 1..Len(b)+1, bhi : 0..Len(b)]
Window(alo, ahi, blo, bhi) == [alo |-> alo, ahi |-> ahi, blo |-> blo, bhi |-> bhi]

\* The stack of matched: the block, then what is left of it on both sides. Each block takes
\* a character at least, so that the depth is bounded by the length of a.
MatchedWithin(a, b, depth) ==
  LET m[d \in 0..depth] ==
        [w \in Windows(a, b) |->
           LET hit == LongestMatch(a, b, w.alo, w.ahi, w.blo, w.bhi)
           IN IF d = 0 \/ hit.k = 0 THEN 0
              ELSE hit.k + m[d - 1][Window(w.alo, hit.i - 1, w.blo, hit.j - 1)]
                         + m[d - 1][Window(hit.i + hit.k, w.ahi, hit.j + hit.k, w.bhi)]]
  IN m
Matched(a, b) == MatchedWithin(a, b, Len(a))[Len(a)][Window(1, Len(a), 1, Len(b))]

Count(s, c) == Cardinality({i \in DOMAIN s : s[i] = c})

\* Bug: a character of b serves several of a.
QuickMatchedOnce(a, b) == Cardinality(ToSet(a) \intersect ToSet(b))

\* quickRatio: the characters of a that b still has one left for, when its own went to those before.
QuickMatched(a, b) ==
  Cardinality({i \in DOMAIN a : Cardinality({h \in 1..i-1 : a[h] = a[i]}) < Count(b, a[i])})

\* 2 * n / total >= Cutoff / 100, and 1 for two empty strings.
Reaches(n, a, b) == a \o b = <<>> \/ 200 * n >= Cutoff * (Len(a) + Len(b))
Above(n, a, m, c, b) == n * (Len(c) + Len(b)) > m * (Len(a) + Len(b))

\* Strings compared as `>` does, character after character: a prefix is less.
Greater(x, y) ==
  \/ \E i \in 1..Min({Len(x), Len(y)}) :
       x[i] > y[i] /\ \A j \in 1..i-1 : x[j] = y[j]
  \/ Len(x) > Len(y) /\ SubSeq(x, 1, Len(y)) = y

\* One candidate after the other, the three cheaper tests first.
Consider(b, best, x) ==
  LET n == Matched(x, b)
      m == IF best = NoWord THEN 0 ELSE Matched(best, b)
  IN IF \/ ~Reaches(Min({Len(x), Len(b)}), x, b)
        \/ ~Reaches(QuickMatched(x, b), x, b)
        \/ ~Reaches(n, x, b)
     THEN best
     ELSE IF best = NoWord \/ Above(n, x, m, best, b) \/ (~Above(m, best, n, x, b) /\ Greater(x, best))
     THEN x ELSE best

\* The best after each possibility.
BestAfter(b, possibilities) ==
  LET best[i \in 0..Len(possibilities)] ==
        IF i = 0 THEN NoWord ELSE Consider(b, best[i - 1], possibilities[i])
  IN best
ClosestMatch(b, possibilities) == BestAfter(b, possibilities)[Len(possibilities)]

----------------------------------------------------------------------------

TexteInit == word \in Words /\ among \in Possibilities /\ closest = <<-1>>
Compare == /\ closest = <<-1>> /\ closest' = ClosestMatch(word, among) /\ UNCHANGED <<word, among>>

TexteSpec == TexteInit /\ [][Compare]_texteVars

----------------------------------------------------------------------------
(* The reference: difflib.get_close_matches(word, possibilities, n = 1, cutoff), which is
   heapq.nlargest over the pairs (ratio, string), ratio as Ratcliff and Obershelp define it. *)

\* A common block no other is longer than, the leftmost in a then in b.
IsBlock(a, b, i, j, k) ==
  /\ i + k - 1 <= Len(a) /\ j + k - 1 <= Len(b)
  /\ \A d \in 0..k-1 : a[i + d] = b[j + d]

Leftmost(a, b) ==
  LET blocks == {t \in (1..Len(a)) \X (1..Len(b)) \X (1..Len(a)) : IsBlock(a, b, t[1], t[2], t[3])}
      longest == {t \in blocks : \A u \in blocks : u[3] <= t[3]}
  IN CHOOSE t \in longest : \A u \in longest : t[1] < u[1] \/ (t[1] = u[1] /\ t[2] <= u[2])

InCommon(a, b) == ToSet(a) \intersect ToSet(b) # {}

\* The characters of the longest block, and those in common on its left and on its right.
InCommonAt(depth) ==
  LET r[d \in 0..depth] ==
        [p \in Seq(Nat) \X Seq(Nat) |->
           LET x == p[1]
               y == p[2]
               t == Leftmost(x, y)
           IN IF d = 0 \/ ~InCommon(x, y) THEN 0
              ELSE t[3] + r[d - 1][<<SubSeq(x, 1, t[1] - 1), SubSeq(y, 1, t[2] - 1)>>]
                        + r[d - 1][<<SubSeq(x, t[1] + t[3], Len(x)), SubSeq(y, t[2] + t[3], Len(y))>>]]
  IN r
RatcliffObershelp(a, b) == InCommonAt(Len(a))[Len(a)][<<a, b>>]

\* The commune found is the one the reference finds: the cheap tests drop nothing that counts,
\* and equals are told apart by the greater string.
ClosestIsTheReference ==
  closest # <<-1>> =>
    LET n(x) == RatcliffObershelp(x, word)
        close == {x \in ToSet(among) : Reaches(n(x), x, word)}
        best == {x \in close : \A y \in close \ {x} :
                   Above(n(x), x, n(y), y, word) \/ (~Above(n(y), y, n(x), x, word) /\ Greater(x, y))}
    IN IF close = {} THEN closest = NoWord ELSE best = {closest}
=============================================================================
