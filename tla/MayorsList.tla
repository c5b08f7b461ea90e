----------------------------- MODULE MayorsList -----------------------------
(* The list of the team mode (TeamMayors.tsx): one question per filter, after a pause in the *)
(* typing, and one per page as the bottom of the list comes into view. The base moves        *)
(* underneath, so a page may hold any mayor; a row remembers the filter it was asked under.  *)
EXTENDS Naturals, Sequences

CONSTANTS Listed,       \* the mayors the base may answer with
          Filters, NoFilter,
          MaxChanges,   \* how many times the filter changes
          MaxRows       \* how long the list grows

\* Of any instance.
ASSUME MayorsListAssumption ==
  NoFilter \notin Filters /\ MaxChanges \in Nat /\ MaxRows \in Nat

VARIABLES
  filter,    \* the criteria on screen
  rows,      \* Seq([mayor, of]): the list, and the filter each row was asked under
  next,      \* there is a page after these
  failed,    \* the filter whose list « Réessayer » would ask again, or NoFilter
  listLoading,
  latest,    \* the request counter: one per filter change
  waiting,   \* the pause in the typing is not over
  questions, \* the calls not yet answered
  interrupted \* GHOST: a question failed since the list was whole

listVars == <<filter, rows, next, failed, listLoading, latest, waiting, questions, interrupted>>

Question(kind) == [kind |-> kind, mine |-> latest, of |-> filter]
\* A page: at most one mayor, and whether there is another after it.
Pages == {<<>>} \union {<<m>> : m \in Listed}
RowsOf(page, f) == [i \in DOMAIN page |-> [mayor |-> page[i], of |-> f]]

\* The filter changes: back to zero, and the pause starts again.
ChangesFilter(f) ==
  /\ f # filter /\ latest < MaxChanges
  /\ filter' = f /\ latest' = latest + 1
  /\ listLoading' = TRUE /\ waiting' = TRUE
  /\ UNCHANGED <<rows, next, failed, questions, interrupted>>

AsksList ==
  /\ waiting /\ waiting' = FALSE
  /\ questions' = questions \union {Question("list")}
  /\ UNCHANGED <<filter, rows, next, failed, listLoading, latest, interrupted>>

\* The sentinel is in view: one page at a time, and none after the last.
LoadNext ==
  /\ next /\ ~listLoading /\ Len(rows) < MaxRows
  /\ listLoading' = TRUE
  /\ questions' = questions \union {Question("page")}
  /\ UNCHANGED <<filter, rows, next, failed, latest, waiting, interrupted>>

RetriesList ==
  /\ failed # NoFilter /\ failed' = NoFilter
  /\ questions' = questions \union {Question("retry")}
  /\ UNCHANGED <<filter, rows, next, listLoading, latest, waiting, interrupted>>

\* Bug: the counter is compared for pages only.
HeededByKind(c) == c.kind # "page" \/ c.mine = latest

\* The counter keeps a slow answer from crushing the new list; a retry has none.
Heeded(c) == c.kind = "retry" \/ c.mine = latest

\* Cards enter and leave the filter between two pages: a mayor already shown is not repeated.
Repeats(page) == \E i \in DOMAIN page, j \in DOMAIN rows : page[i].mayor = rows[j].mayor
Appended(page) == IF Repeats(page) THEN rows ELSE rows \o page

ListAnswers(c) ==
  /\ questions' = questions \ {c}
  /\ IF Heeded(c)
     THEN \E page \in Pages, more \in BOOLEAN :
            /\ rows' = IF c.kind = "page" THEN Appended(RowsOf(page, c.of)) ELSE RowsOf(page, c.of)
            /\ next' = (more /\ page # <<>>)
            /\ failed' = IF c.kind = "list" THEN NoFilter ELSE failed
            /\ listLoading' = (c.kind = "retry" /\ listLoading)
     ELSE UNCHANGED <<rows, next, failed, listLoading>>
  /\ UNCHANGED <<filter, latest, waiting, interrupted>>

\* A page that fails STOPS the scroll and offers to retry; a list that fails says so, once.
ListFails(c) ==
  /\ questions' = questions \ {c}
  /\ IF Heeded(c)
     THEN /\ interrupted' = TRUE
          /\ next' = (next /\ c.kind # "page")
          /\ failed' = IF c.kind = "page" THEN filter ELSE failed
          /\ listLoading' = (c.kind = "retry" /\ listLoading)
     ELSE UNCHANGED <<next, failed, listLoading, interrupted>>
  /\ UNCHANGED <<filter, rows, latest, waiting>>

ListInit ==
  /\ filter \in Filters /\ rows = <<>> /\ next = FALSE /\ failed = NoFilter
  /\ listLoading = TRUE /\ latest = 1 /\ waiting = TRUE /\ questions = {} /\ interrupted = FALSE

ListNext ==
  \/ \E f \in Filters : ChangesFilter(f)
  \/ AsksList \/ LoadNext \/ RetriesList
  \/ \E c \in questions : ListAnswers(c) \/ ListFails(c)

ListSpec == ListInit /\ [][ListNext]_listVars

----------------------------------------------------------------------------

\* A list at rest shows each mayor once, and nobody the filter on screen did not ask for,
\* whatever the order of the answers and however the base moved between two pages, as long as
\* no question has failed (TeamMayors.tsx: « keeps a slow answer to the old filter from
\* crushing the new list »).
ListIsOfItsFilter ==
  /\ \A i, j \in DOMAIN rows : rows[i].mayor = rows[j].mayor => i = j
  /\ (~listLoading /\ ~interrupted) => \A i \in DOMAIN rows : rows[i].of = filter

\* The same, once a failed page has been asked again and everything has answered.
RetriedListIsOfItsFilter ==
  (~listLoading /\ questions = {} /\ failed = NoFilter) => \A i \in DOMAIN rows : rows[i].of = filter
=============================================================================
