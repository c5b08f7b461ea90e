-------------------------------- MODULE Csv --------------------------------
(* Reading and writing lists (noyau/csv.ts). A text is a sequence of            *)
(* characters, of which the format tells five apart.                            *)
EXTENDS Integers, SequencesExt

CONSTANTS
  Cells,   \* the values a cell may hold
  Widths,  \* the numbers of columns
  Heights  \* the numbers of rows under the header

\* Of any instance: no list has a single column (outils/build.ts:435, :504, :561; the columns of
\* messages-masse.ts), where an empty cell would be written as a blank line, which the reader drops.
ASSUME CsvAssumption ==
  /\ Widths \subseteq Nat \ {0, 1} /\ Heights \subseteq Nat
  /\ \A c \in Cells : c \in Seq(ToSet(c))

VARIABLES table, read  \* rows of cells; what reading back the text of them gives

csvVars == <<table, read>>

Sep == ";"
Quote == "q"
CR == "r"
LF == "n"

\* replaceAll('"', '""')
Doubled(s) == FlattenSeq([i \in DOMAIN s |-> IF s[i] = Quote THEN <<Quote, Quote>> ELSE <<s[i]>>])
Quoted(s) == <<Quote>> \o Doubled(s) \o <<Quote>>

\* Bug: a carriage return alone is not a line ending.
EscapeFieldUnix(s) == IF ToSet(s) \intersect {Sep, Quote, LF} = {} THEN s ELSE Quoted(s)

\* QUOTE_MINIMAL: the separator, a quote or a line ending.
EscapeField(s) == IF ToSet(s) \intersect {Sep, Quote, CR, LF} = {} THEN s ELSE Quoted(s)

JoinField(s, i) == IF i = 1 THEN EscapeField(s) ELSE <<Sep>> \o EscapeField(s)
WriteRow(row) == FlattenSeq([i \in DOMAIN row |-> JoinField(row[i], i)]) \o <<CR, LF>>
WriteCsv(rows) == FlattenSeq([i \in DOMAIN rows |-> WriteRow(rows[i])])

----------------------------------------------------------------------------
(* The reader, one character at a time: started tells a row under way from the end of file,
   skip is the second character of a pair already consumed. *)

Blank == [rows |-> <<>>, fields |-> <<>>, current |-> <<>>, inQuotes |-> FALSE, started |-> FALSE,
          skip |-> FALSE]

EndRow(p) ==
  LET open == p.started \/ p.current # <<>> \/ p.fields # <<>>
  IN [p EXCEPT !.rows = IF open THEN Append(@, Append(p.fields, p.current)) ELSE @,
               !.fields = <<>>, !.current = <<>>, !.started = FALSE]

ReadChar(p, c, following) ==
  CASE p.skip -> [p EXCEPT !.skip = FALSE]
    [] ~p.skip /\ p.inQuotes ->
         IF c # Quote THEN [p EXCEPT !.current = Append(@, c)]
         ELSE IF following = Quote THEN [p EXCEPT !.current = Append(@, Quote), !.skip = TRUE]
         ELSE [p EXCEPT !.inQuotes = FALSE]
    [] OTHER ->
         IF c = Quote /\ p.current = <<>> THEN [p EXCEPT !.inQuotes = TRUE, !.started = TRUE]
         ELSE IF c = Sep THEN [p EXCEPT !.fields = Append(@, p.current), !.current = <<>>, !.started = TRUE]
         ELSE IF c \in {CR, LF} THEN [EndRow(p) EXCEPT !.skip = c = CR /\ following = LF]
         ELSE [p EXCEPT !.current = Append(@, c), !.started = TRUE]

Following(text, i) == IF i < Len(text) THEN text[i + 1] ELSE ""

\* Where the reader is after each character.
After(text) ==
  LET after[i \in 0..Len(text)] ==
        IF i = 0 THEN Blank ELSE ReadChar(after[i - 1], text[i], Following(text, i))
  IN after

ParseRows(text) == EndRow(After(text)[Len(text)]).rows

----------------------------------------------------------------------------

Tables ==
  UNION {{<<[i \in 1..w |-> <<"a">>]>> \o rows : rows \in [1..h -> [1..w -> Cells]]} :
           w \in Widths, h \in Heights}

CsvInit == table \in Tables /\ read = <<>>

Exchange == /\ read = <<>> /\ read' = ParseRows(WriteCsv(table)) /\ UNCHANGED table

CsvSpec == CsvInit /\ [][Exchange]_csvVars

\* A list that is written and read again is the same list, whatever separators, quotes and
\* line endings its cells hold: the files are an interchange format with three readers.
ListsComeBack == read # <<>> => read = table
=============================================================================
