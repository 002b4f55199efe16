-------------------------- MODULE HistoryPagesProofs --------------------------
(***************************************************************************)
(* Theorems of HistoryPages, for any tables, page sizes, caps and plans: an *)
(* answer stays with the page it was asked for, and without lost rows no   *)
(* operator is sent to an empty page.                                      *)
(***************************************************************************)
EXTENDS HistoryPages, TLAPS

-----------------------------------------------------------------------------
(* Pages and their numbers *)

\* A page within the number of pages starts before the last row.
LEMMA PageWithinTotal ==
    ASSUME NEW total \in Nat, NEW n \in Nat, n > 1, n <= TotalPages(total)
    PROVE  (n - 1) * RowsPerPage < total
<1> DEFINE R == RowsPerPage
           q == (total + R - 1) \div R
           k == q - n
<1>1. R \in Nat /\ R >= 1
  BY HistoryAssumption
<1>2. total # 0 /\ n <= q
  BY DEF TotalPages
<1>3. q \in Int /\ q * R <= total + R - 1
  <2>1. \A x \in Nat, r \in Nat : r >= 1 => x \div r \in Int /\ (x \div r) * r <= x
    BY Z3
  <2>2. total + R - 1 \in Nat
    BY <1>1
  <2> QED
    BY <1>1, <2>1, <2>2
<1>4. k \in Nat /\ q = n + k
  BY <1>2, <1>3
<1> HIDE DEF R, q, k
<1>5. k * R \in Nat /\ n * R \in Nat
  BY <1>1, <1>4
<1>6. q * R = n * R + k * R
  BY <1>1, <1>4
<1>7. (n - 1) * R = n * R - R
  BY <1>1
<1>8. (n - 1) * R < total
  BY <1>1, <1>3, <1>5, <1>6, <1>7
<1> QED
  BY <1>8 DEF R

\* A page before one that starts before the last row does so too.
LEMMA PageBefore ==
    ASSUME NEW kept \in Nat, NEW n \in Nat, n > 1, (n - 1) * RowsPerPage < kept
    PROVE  (n - 1 - 1) * RowsPerPage < kept
<1>1. RowsPerPage \in Nat /\ RowsPerPage >= 1
  BY HistoryAssumption
<1>2. (n - 1 - 1) * RowsPerPage = (n - 1) * RowsPerPage - RowsPerPage
  BY <1>1
<1>3. (n - 1) * RowsPerPage \in Nat
  BY <1>1
<1> QED
  BY <1>1, <1>2, <1>3

\* The rows of a page, in their places.
LEMMA ItemsInPlace ==
    ASSUME NEW t \in [newest : Nat, kept : Nat], NEW n \in Pages
    PROVE  /\ Items(t, n) \in Seq(Int)
           /\ \A i \in DOMAIN Items(t, n) :
                 Items(t, n)[i] <= t.newest - (n - 1) * RowsPerPage - i + 1
<1> DEFINE skipped == (n - 1) * RowsPerPage
           taken == IF t.kept <= skipped THEN 0
                    ELSE IF t.kept - skipped < RowsPerPage THEN t.kept - skipped
                    ELSE RowsPerPage
<1>1. RowsPerPage \in Nat /\ skipped \in Int /\ taken \in Nat
  <2>1. n \in Nat /\ RowsPerPage \in Nat
    BY HistoryAssumption DEF Pages
  <2>2. skipped \in Int
    BY <2>1
  <2> HIDE DEF skipped
  <2> QED
    BY <2>1, <2>2
<1>2. Items(t, n) = [i \in 1 .. taken |-> t.newest - skipped - i + 1]
  BY DEF Items
<1> HIDE DEF skipped, taken
<1>3. Items(t, n) \in Seq(Int)
  <2>1. \A i \in 1 .. taken : t.newest - skipped - i + 1 \in Int
    BY <1>1
  <2>2. [i \in 1 .. taken |-> t.newest - skipped - i + 1] \in [1 .. taken -> Int]
    BY <2>1
  <2> QED
    BY <1>1, <1>2, <2>2
<1>4. \A i \in DOMAIN Items(t, n) : Items(t, n)[i] <= t.newest - skipped - i + 1
  <2> SUFFICES ASSUME NEW i \in 1 .. taken
               PROVE  Items(t, n)[i] <= t.newest - skipped - i + 1
    BY <1>2
  <2>1. Items(t, n)[i] = t.newest - skipped - i + 1
    BY <1>2
  <2> QED
    BY <1>1, <2>1
<1> QED
  BY <1>3, <1>4 DEF skipped

-----------------------------------------------------------------------------
(* Types *)

Rows == Seq(Int)

RequestType ==
    [sent : BOOLEAN, items : {NoAnswer} \cup Rows, total : {NoAnswer} \cup Nat]

PagesTyped ==
    /\ stored \in [Sections -> [newest : Nat, kept : Nat]]
    /\ onPage \in [Sections -> Pages]
    /\ answers \in [Sections -> [Pages -> {NoAnswer} \cup [items : Rows, total : Nat]]]
    /\ requests \in [Sections -> [Pages -> RequestType]]

LEMMA ClearableSections == Clearable \subseteq Sections
BY HistoryAssumption

\* The request of a page, asked for or not.
LEMMA RequestTypes ==
    /\ Idle \in RequestType /\ Sent \in RequestType
    /\ Idle.items = NoAnswer /\ Idle.total = NoAnswer
    /\ Sent.items = NoAnswer /\ Sent.total = NoAnswer
BY DEF Idle, Sent, RequestType

\* A request that has read the rows, or their number.
LEMMA RequestReads ==
    ASSUME NEW r \in RequestType
    PROVE  /\ \A rows \in Rows : [r EXCEPT !.items = rows] \in RequestType
           /\ \A total \in Nat : [r EXCEPT !.total = total] \in RequestType
<1>1. ASSUME NEW rows \in {NoAnswer} \cup Rows
      PROVE  [r EXCEPT !.items = rows] \in RequestType
  BY Zenon DEF RequestType
<1>2. ASSUME NEW total \in {NoAnswer} \cup Nat
      PROVE  [r EXCEPT !.total = total] \in RequestType
  BY Zenon DEF RequestType
<1> QED
  BY <1>1, <1>2

\* What deleting the history leaves of the tables.
LEMMA EmptiedType ==
    ASSUME PagesTyped
    PROVE  /\ Emptied \in [Sections -> [newest : Nat, kept : Nat]]
           /\ \A s \in Sections : Emptied[s].newest = stored[s].newest
           /\ \A s \in Sections \ Clearable : Emptied[s] = stored[s]
BY DEF PagesTyped, Emptied

LEMMA InitTyped == HistoryInit => PagesTyped
<1> SUFFICES ASSUME HistoryInit PROVE PagesTyped
  OBVIOUS
<1>1. stored \in [Sections -> [newest : Nat, kept : Nat]]
  BY HistoryAssumption DEF HistoryInit
<1>2. 1 \in Pages
  BY HistoryAssumption DEF Pages
<1> QED
  BY <1>1, <1>2, RequestTypes DEF HistoryInit, PagesTyped

\* Every step keeps the types; the requests of a deletion are asked for or as before.
LEMMA StepTyped == PagesTyped /\ [HistoryNext]_pagesVars => PagesTyped'
<1> SUFFICES ASSUME PagesTyped, [HistoryNext]_pagesVars PROVE PagesTyped'
  OBVIOUS
<1> USE DEF PagesTyped
<1>1. ASSUME NEW s \in Sections, Insert(s) PROVE PagesTyped'
  BY <1>1 DEF Insert
<1>2. ASSUME NEW s \in Sections, PruneRows(s) PROVE PagesTyped'
  BY <1>2, HistoryAssumption DEF PruneRows
<1>3. ASSUME NEW s \in Sections, RefetchPage(s) PROVE PagesTyped'
  BY <1>3, RequestTypes DEF RefetchPage
<1>4. ASSUME NEW s \in Sections, NEW n \in Pages, TurnTo(s, n) PROVE PagesTyped'
  BY <1>4, RequestTypes DEF TurnTo, Fetched
<1>5. ASSUME NEW s \in Sections, NEW n \in Pages, ReadItems(s, n) PROVE PagesTyped'
  <2>1. Items(stored[s], n) \in Rows
    BY ItemsInPlace DEF Rows
  <2>2. [requests[s][n] EXCEPT !.items = Items(stored[s], n)] \in RequestType
    BY <2>1, RequestReads
  <2>3. requests' = [requests EXCEPT ![s][n] =
                        [requests[s][n] EXCEPT !.items = Items(stored[s], n)]]
    BY <1>5 DEF ReadItems
  <2>4. requests' \in [Sections -> [Pages -> RequestType]]
    BY <2>2, <2>3
  <2> QED
    BY <1>5, <2>4 DEF ReadItems
<1>6. ASSUME NEW s \in Sections, NEW n \in Pages, ReadTotal(s, n) PROVE PagesTyped'
  <2>1. [requests[s][n] EXCEPT !.total = stored[s].kept] \in RequestType
    BY RequestReads
  <2>2. requests' = [requests EXCEPT ![s][n] =
                        [requests[s][n] EXCEPT !.total = stored[s].kept]]
    BY <1>6 DEF ReadTotal
  <2>3. requests' \in [Sections -> [Pages -> RequestType]]
    BY <2>1, <2>2
  <2> QED
    BY <1>6, <2>3 DEF ReadTotal
<1>7. ASSUME NEW s \in Sections, NEW n \in Pages, EndRequest(s, n) PROVE PagesTyped'
  BY <1>7, RequestTypes DEF EndRequest, Keep, RequestType
<1>8. ASSUME NEW s \in Sections, NEW n \in Pages, FailRequest(s, n) PROVE PagesTyped'
  BY <1>8, RequestTypes DEF FailRequest
<1>9. ASSUME NEW s \in Sections, NEW n \in Pages, ForgetPage(s, n) PROVE PagesTyped'
  BY <1>9 DEF ForgetPage
<1>10. CASE DeletedElsewhere
  BY <1>10, EmptiedType DEF DeletedElsewhere
<1>11. CASE DeleteAll
  BY <1>11 DEF DeleteAll
<1>12. CASE ServeDeletion
  BY <1>12, EmptiedType DEF ServeDeletion
<1>13. CASE EndDeletion
  <2>1. 1 \in Pages
    BY HistoryAssumption DEF Pages
  <2> QED
    BY <1>13, <2>1, RequestTypes DEF EndDeletion, Fetched
<1>14. CASE FailDeletion
  BY <1>14 DEF FailDeletion
<1>15. CASE UNCHANGED pagesVars
  BY <1>15 DEF pagesVars
<1> QED
  BY <1>1, <1>2, <1>3, <1>4, <1>5, <1>6, <1>7, <1>8, <1>9, <1>10, <1>11, <1>12, <1>13,
     <1>14, <1>15 DEF HistoryNext

-----------------------------------------------------------------------------
(* Answers and their pages *)

\* The rows are not newer than their places on page n of table s allow.
InPlace(s, n, items) ==
    \A i \in DOMAIN items : items[i] <= stored[s].newest - (n - 1) * RowsPerPage - i + 1

\* The rows a request has read are those of its page.
RequestsInPlace ==
    \A s \in Sections, n \in Pages :
        requests[s][n].items # NoAnswer => InPlace(s, n, requests[s][n].items)

AnswersInPlace == PagesTyped /\ RequestsInPlace /\ AnswersKeepTheirPage

\* Rows stay in place when newer ones come.
LEMMA StaysInPlace ==
    ASSUME PagesTyped, PagesTyped', NEW s \in Sections, NEW n \in Pages,
           stored'[s].newest >= stored[s].newest,
           NEW items \in Rows, InPlace(s, n, items)
    PROVE  InPlace(s, n, items)'
<1> SUFFICES ASSUME NEW i \in DOMAIN items
             PROVE  items[i] <= stored'[s].newest - (n - 1) * RowsPerPage - i + 1
  BY DEF InPlace
<1>1. (n - 1) * RowsPerPage \in Int
  BY HistoryAssumption DEF Pages
<1>2. items[i] \in Int /\ i \in Nat
  BY DEF Rows
<1>3. stored[s].newest \in Nat /\ stored'[s].newest \in Nat
  BY DEF PagesTyped
<1>4. items[i] <= stored[s].newest - (n - 1) * RowsPerPage - i + 1
  BY DEF InPlace
<1> QED
  BY <1>1, <1>2, <1>3, <1>4

\* No step takes rows away at the new end.
LEMMA NewestGrows ==
    ASSUME PagesTyped, [HistoryNext]_pagesVars, NEW s \in Sections
    PROVE  stored'[s].newest >= stored[s].newest
<1> USE DEF PagesTyped
<1>1. ASSUME NEW t \in Sections, Insert(t) PROVE stored'[s].newest >= stored[s].newest
  BY <1>1 DEF Insert
<1>2. ASSUME NEW t \in Sections, PruneRows(t) PROVE stored'[s].newest >= stored[s].newest
  BY <1>2 DEF PruneRows
<1>3. CASE DeletedElsewhere \/ ServeDeletion
  BY <1>3, EmptiedType DEF DeletedElsewhere, ServeDeletion
<1>4. CASE UNCHANGED stored
  BY <1>4
<1> QED
  BY <1>1, <1>2, <1>3, <1>4
     DEF HistoryNext, RefetchPage, TurnTo, ReadItems, ReadTotal, EndRequest, FailRequest,
         ForgetPage, DeleteAll, EndDeletion, FailDeletion, pagesVars

LEMMA InitInPlace == HistoryInit => AnswersInPlace
<1> SUFFICES ASSUME HistoryInit PROVE AnswersInPlace
  OBVIOUS
<1>1. RequestsInPlace
  BY RequestTypes DEF HistoryInit, RequestsInPlace
<1>2. AnswersKeepTheirPage
  BY DEF HistoryInit, AnswersKeepTheirPage
<1> QED
  BY <1>1, <1>2, InitTyped DEF AnswersInPlace

\* The rows a request has read after a step: those it had, none, or those of its page.
LEMMA RowsOfRequests ==
    ASSUME PagesTyped, [HistoryNext]_pagesVars, NEW s \in Sections, NEW n \in Pages
    PROVE  \/ requests'[s][n].items = requests[s][n].items
           \/ requests'[s][n].items = NoAnswer
           \/ requests'[s][n].items = Items(stored[s], n) /\ UNCHANGED stored
<1> DEFINE Goal == \/ requests'[s][n].items = requests[s][n].items
                   \/ requests'[s][n].items = NoAnswer
                   \/ requests'[s][n].items = Items(stored[s], n) /\ UNCHANGED stored
<1> USE RequestTypes
<1>0. /\ requests \in [Sections -> [Pages -> RequestType]]
      /\ requests[s][n] \in RequestType
  BY DEF PagesTyped
<1>1. ASSUME NEW t \in Sections, RefetchPage(t) PROVE Goal
  BY <1>0, <1>1 DEF RefetchPage
<1>2. ASSUME NEW t \in Sections, NEW m \in Pages, TurnTo(t, m) PROVE Goal
  BY <1>0, <1>2 DEF TurnTo, Fetched
<1>3. ASSUME NEW t \in Sections, NEW m \in Pages, ReadItems(t, m) PROVE Goal
  BY <1>0, <1>3 DEF ReadItems, RequestType
<1>4. ASSUME NEW t \in Sections, NEW m \in Pages, ReadTotal(t, m) PROVE Goal
  BY <1>0, <1>4 DEF ReadTotal, RequestType
<1>5. ASSUME NEW t \in Sections, NEW m \in Pages, EndRequest(t, m) PROVE Goal
  BY <1>0, <1>5 DEF EndRequest
<1>6. ASSUME NEW t \in Sections, NEW m \in Pages, FailRequest(t, m) PROVE Goal
  BY <1>0, <1>6 DEF FailRequest
<1>7. CASE EndDeletion
  BY <1>0, <1>7 DEF EndDeletion, Fetched
<1>8. CASE UNCHANGED requests
  BY <1>8
<1> QED
  BY <1>1, <1>2, <1>3, <1>4, <1>5, <1>6, <1>7, <1>8
     DEF HistoryNext, Insert, PruneRows, ForgetPage, DeletedElsewhere, DeleteAll,
         ServeDeletion, FailDeletion, pagesVars

\* The answer of a page after a step: the same, none, or what its request has read.
LEMMA AnswersOfRequests ==
    ASSUME PagesTyped, [HistoryNext]_pagesVars, NEW s \in Sections, NEW n \in Pages
    PROVE  \/ answers'[s][n] = answers[s][n]
           \/ answers'[s][n] = NoAnswer
           \/ /\ requests[s][n].items # NoAnswer /\ requests[s][n].total # NoAnswer
              /\ answers'[s][n] = [items |-> requests[s][n].items,
                                   total |-> requests[s][n].total]
<1> DEFINE Goal ==
        \/ answers'[s][n] = answers[s][n]
        \/ answers'[s][n] = NoAnswer
        \/ /\ requests[s][n].items # NoAnswer /\ requests[s][n].total # NoAnswer
           /\ answers'[s][n] = [items |-> requests[s][n].items,
                                total |-> requests[s][n].total]
<1> USE DEF PagesTyped
<1>1. ASSUME NEW t \in Sections, NEW m \in Pages, EndRequest(t, m) PROVE Goal
  BY <1>1 DEF EndRequest, Keep
<1>2. ASSUME NEW t \in Sections, NEW m \in Pages, ForgetPage(t, m) PROVE Goal
  BY <1>2 DEF ForgetPage
<1>3. CASE UNCHANGED answers
  BY <1>3
<1> QED
  BY <1>1, <1>2, <1>3
     DEF HistoryNext, Insert, PruneRows, RefetchPage, TurnTo, ReadItems, ReadTotal,
         FailRequest, DeletedElsewhere, DeleteAll, ServeDeletion, EndDeletion,
         FailDeletion, pagesVars

LEMMA StepInPlace == AnswersInPlace /\ [HistoryNext]_pagesVars => AnswersInPlace'
<1> SUFFICES ASSUME AnswersInPlace, [HistoryNext]_pagesVars PROVE AnswersInPlace'
  OBVIOUS
<1>1. PagesTyped /\ PagesTyped'
  BY StepTyped DEF AnswersInPlace
<1>2. ASSUME NEW s \in Sections, NEW n \in Pages, NEW items \in Rows, InPlace(s, n, items)
      PROVE  InPlace(s, n, items)'
  BY <1>1, <1>2, NewestGrows, StaysInPlace
<1>3. RequestsInPlace'
  <2> SUFFICES ASSUME NEW s \in Sections, NEW n \in Pages,
                      requests'[s][n].items # NoAnswer
               PROVE  InPlace(s, n, requests[s][n].items)'
    BY DEF RequestsInPlace
  <2>1. CASE requests'[s][n].items = requests[s][n].items
    <3>1. requests[s][n].items \in Rows
      BY <1>1, <2>1 DEF PagesTyped, RequestType
    <3>2. InPlace(s, n, requests[s][n].items)
      BY <2>1 DEF AnswersInPlace, RequestsInPlace
    <3> QED
      BY <1>2, <2>1, <3>1, <3>2 DEF InPlace
  <2>2. CASE requests'[s][n].items = Items(stored[s], n) /\ UNCHANGED stored
    <3>1. stored[s] \in [newest : Nat, kept : Nat]
      BY <1>1 DEF PagesTyped
    <3> QED
      BY <2>2, <3>1, ItemsInPlace DEF InPlace
  <2> QED
    BY <1>1, <2>1, <2>2, RowsOfRequests
<1>4. AnswersKeepTheirPage'
  <2> SUFFICES ASSUME NEW s \in Sections, NEW n \in Pages, answers'[s][n] # NoAnswer
               PROVE  InPlace(s, n, answers[s][n].items)'
    BY DEF AnswersKeepTheirPage, InPlace
  <2>1. CASE answers'[s][n] = answers[s][n]
    <3>1. answers[s][n].items \in Rows
      BY <1>1, <2>1 DEF PagesTyped
    <3>2. InPlace(s, n, answers[s][n].items)
      BY <2>1 DEF AnswersInPlace, AnswersKeepTheirPage, InPlace
    <3> QED
      BY <1>2, <2>1, <3>1, <3>2 DEF InPlace
  <2>2. CASE /\ requests[s][n].items # NoAnswer
             /\ answers'[s][n] = [items |-> requests[s][n].items,
                                  total |-> requests[s][n].total]
    <3>1. requests[s][n].items \in Rows
      BY <1>1, <2>2 DEF PagesTyped, RequestType
    <3>2. InPlace(s, n, requests[s][n].items)
      BY <2>2 DEF AnswersInPlace, RequestsInPlace
    <3>3. answers'[s][n].items = requests[s][n].items
      BY <2>2
    <3> QED
      BY <1>2, <3>1, <3>2, <3>3 DEF InPlace
  <2> QED
    BY <1>1, <2>1, <2>2, AnswersOfRequests
<1> QED
  BY <1>1, <1>3, <1>4 DEF AnswersInPlace

\* An answer stays with the page it was asked for: whatever pages are turned to,
\* rows stored, pruned or deleted, and answers lost meanwhile, the query cache
\* never holds a row on a page it was too new for.
THEOREM AnswersStayOnTheirPage == HistorySpec => []AnswersKeepTheirPage
<1>1. AnswersInPlace => AnswersKeepTheirPage
  BY DEF AnswersInPlace
<1> QED
  BY <1>1, InitInPlace, StepInPlace, PTL DEF HistorySpec

-----------------------------------------------------------------------------
(* Pages past the end *)

\* Of a table that lost no rows, no total is more than there are now, and the
\* page on display starts before the last row.
Counted ==
    \A s \in Sections \ vanished :
        /\ \A n \in Pages :
              /\ requests[s][n].total # NoAnswer => requests[s][n].total <= stored[s].kept
              /\ answers[s][n] # NoAnswer => answers[s][n].total <= stored[s].kept
        /\ onPage[s] > 1 => (onPage[s] - 1) * RowsPerPage < stored[s].kept

TotalsCounted == PagesTyped /\ Counted

\* Without a loss, tables only grow.
LEMMA KeptGrows ==
    ASSUME PagesTyped, [HistoryNext]_pagesVars, NEW s \in Sections \ vanished'
    PROVE  s \notin vanished /\ stored'[s].kept >= stored[s].kept
<1> USE DEF PagesTyped
<1> DEFINE Goal == s \notin vanished /\ stored'[s].kept >= stored[s].kept
<1>1. ASSUME NEW t \in Sections, Insert(t) PROVE Goal
  BY <1>1 DEF Insert
<1>2. ASSUME NEW t \in Sections, PruneRows(t) PROVE Goal
  BY <1>2 DEF PruneRows
<1>3. CASE DeletedElsewhere \/ ServeDeletion
  BY <1>3, EmptiedType DEF DeletedElsewhere, ServeDeletion
<1>4. CASE UNCHANGED <<stored, vanished>>
  BY <1>4
<1> QED
  BY <1>1, <1>2, <1>3, <1>4
     DEF HistoryNext, RefetchPage, TurnTo, ReadItems, ReadTotal, EndRequest, FailRequest,
         ForgetPage, DeleteAll, EndDeletion, FailDeletion, pagesVars

\* The total a request has read after a step: the one it had, none, or the present one.
LEMMA TotalsOfRequests ==
    ASSUME PagesTyped, [HistoryNext]_pagesVars, NEW s \in Sections, NEW n \in Pages
    PROVE  \/ requests'[s][n].total = requests[s][n].total
           \/ requests'[s][n].total = NoAnswer
           \/ requests'[s][n].total = stored[s].kept
<1> DEFINE Goal == \/ requests'[s][n].total = requests[s][n].total
                   \/ requests'[s][n].total = NoAnswer
                   \/ requests'[s][n].total = stored[s].kept
<1> USE RequestTypes
<1>0. /\ requests \in [Sections -> [Pages -> RequestType]]
      /\ requests[s][n] \in RequestType
  BY DEF PagesTyped
<1>1. ASSUME NEW t \in Sections, RefetchPage(t) PROVE Goal
  BY <1>0, <1>1 DEF RefetchPage
<1>2. ASSUME NEW t \in Sections, NEW m \in Pages, TurnTo(t, m) PROVE Goal
  BY <1>0, <1>2 DEF TurnTo, Fetched
<1>3. ASSUME NEW t \in Sections, NEW m \in Pages, ReadItems(t, m) PROVE Goal
  BY <1>0, <1>3 DEF ReadItems, RequestType
<1>4. ASSUME NEW t \in Sections, NEW m \in Pages, ReadTotal(t, m) PROVE Goal
  BY <1>0, <1>4 DEF ReadTotal, RequestType
<1>5. ASSUME NEW t \in Sections, NEW m \in Pages, EndRequest(t, m) PROVE Goal
  BY <1>0, <1>5 DEF EndRequest
<1>6. ASSUME NEW t \in Sections, NEW m \in Pages, FailRequest(t, m) PROVE Goal
  BY <1>0, <1>6 DEF FailRequest
<1>7. CASE EndDeletion
  BY <1>0, <1>7 DEF EndDeletion, Fetched
<1>8. CASE UNCHANGED requests
  BY <1>8
<1> QED
  BY <1>1, <1>2, <1>3, <1>4, <1>5, <1>6, <1>7, <1>8
     DEF HistoryNext, Insert, PruneRows, ForgetPage, DeletedElsewhere, DeleteAll,
         ServeDeletion, FailDeletion, pagesVars

\* The page turned to starts before the last row the table is known to have.
LEMMA TurnsWithinTotal ==
    ASSUME TotalsCounted, NEW s \in Sections \ vanished, NEW n \in Pages, TurnTo(s, n), n > 1
    PROVE  (n - 1) * RowsPerPage < stored[s].kept
<1> DEFINE total == ShownIn(s).total
<1>1. onPage[s] \in Pages /\ stored[s].kept \in Nat
  BY DEF TotalsCounted, PagesTyped
<1>2. n \in Nat /\ onPage[s] \in Nat
  BY <1>1 DEF Pages
<1>3. CASE n = onPage[s] - 1
  <2>1. onPage[s] > 1 /\ n = onPage[s] - 1
    BY <1>2, <1>3
  <2>2. (onPage[s] - 1) * RowsPerPage < stored[s].kept
    BY <2>1 DEF TotalsCounted, Counted
  <2> QED
    BY <1>1, <1>2, <2>1, <2>2, PageBefore
<1>4. CASE n = onPage[s] + 1 /\ onPage[s] < TotalPages(total)
  <2>1. total \in Nat /\ total <= stored[s].kept
    BY <1>1 DEF TotalsCounted, Counted, PagesTyped, ShownIn
  <2>2. TotalPages(total) \in Int
    <3>1. RowsPerPage \in Nat \ {0}
      BY HistoryAssumption
    <3> HIDE DEF total
    <3>2. total + RowsPerPage - 1 \in Int
      BY <2>1, <3>1
    <3> QED
      BY <3>1, <3>2 DEF TotalPages
  <2> HIDE DEF total
  <2>3. n <= TotalPages(total)
    BY <1>2, <1>4, <2>2
  <2>4. (n - 1) * RowsPerPage < total
    BY <1>2, <2>1, <2>3, PageWithinTotal
  <2>5. (n - 1) * RowsPerPage \in Int
    BY <1>2, HistoryAssumption
  <2> QED
    BY <1>1, <2>1, <2>4, <2>5
<1> QED
  BY <1>3, <1>4 DEF TurnTo

\* The page on display after a step: the same, the first one, or the one turned to.
LEMMA PageAfter ==
    ASSUME PagesTyped, [HistoryNext]_pagesVars, NEW s \in Sections
    PROVE  \/ onPage'[s] = onPage[s]
           \/ onPage'[s] = 1
           \/ onPage'[s] \in Pages /\ TurnTo(s, onPage'[s]) /\ UNCHANGED stored
<1> DEFINE Goal == \/ onPage'[s] = onPage[s]
                   \/ onPage'[s] = 1
                   \/ onPage'[s] \in Pages /\ TurnTo(s, onPage'[s]) /\ UNCHANGED stored
<1>1. onPage \in [Sections -> Pages]
  BY DEF PagesTyped
<1>2. ASSUME NEW t \in Sections, NEW n \in Pages, TurnTo(t, n) PROVE Goal
  <2>1. onPage' = [onPage EXCEPT ![t] = n] /\ UNCHANGED stored
    BY <1>2 DEF TurnTo
  <2>2. CASE t = s
    BY <1>1, <1>2, <2>1, <2>2
  <2>3. CASE t # s
    BY <1>1, <2>1, <2>3
  <2> QED
    BY <2>2, <2>3
<1>3. CASE EndDeletion
  BY <1>3 DEF EndDeletion
<1>4. CASE UNCHANGED onPage
  BY <1>4
<1> QED
  BY <1>2, <1>3, <1>4
     DEF HistoryNext, Insert, PruneRows, RefetchPage, ReadItems, ReadTotal, EndRequest,
         FailRequest, ForgetPage, DeletedElsewhere, DeleteAll, ServeDeletion,
         FailDeletion, pagesVars

LEMMA InitCounted == HistoryInit => TotalsCounted
<1> SUFFICES ASSUME HistoryInit PROVE TotalsCounted
  OBVIOUS
<1>1. ASSUME NEW s \in Sections
      PROVE  /\ \A n \in Pages : requests[s][n].total = NoAnswer
             /\ \A n \in Pages : answers[s][n] = NoAnswer
             /\ ~(onPage[s] > 1)
  <2>1. \A n \in Pages : requests[s][n] \in {Idle, Sent}
    BY DEF HistoryInit
  <2>2. \A n \in Pages : answers[s][n] = NoAnswer
    BY DEF HistoryInit
  <2>3. onPage[s] = 1
    BY DEF HistoryInit
  <2> QED
    BY <2>1, <2>2, <2>3, RequestTypes
<1>2. Counted
  BY <1>1, Zenon DEF Counted
<1> QED
  BY <1>2, InitTyped DEF TotalsCounted

LEMMA StepCounted == TotalsCounted /\ [HistoryNext]_pagesVars => TotalsCounted'
<1> SUFFICES ASSUME TotalsCounted, [HistoryNext]_pagesVars PROVE TotalsCounted'
  OBVIOUS
<1>1. PagesTyped /\ PagesTyped'
  BY StepTyped DEF TotalsCounted
<1>2. ASSUME NEW s \in Sections \ vanished'
      PROVE  /\ \A n \in Pages :
                   /\ requests'[s][n].total # NoAnswer =>
                         requests'[s][n].total <= stored'[s].kept
                   /\ answers'[s][n] # NoAnswer =>
                         answers'[s][n].total <= stored'[s].kept
             /\ onPage'[s] > 1 => (onPage'[s] - 1) * RowsPerPage < stored'[s].kept
  <2>1. s \in Sections \ vanished /\ stored'[s].kept >= stored[s].kept
    BY <1>1, <1>2, KeptGrows
  <2>2. stored[s].kept \in Nat /\ stored'[s].kept \in Nat
    BY <1>1 DEF PagesTyped
  <2>3. ASSUME NEW n \in Pages, requests'[s][n].total # NoAnswer
        PROVE  requests'[s][n].total <= stored'[s].kept
    <3>1. CASE requests'[s][n].total = requests[s][n].total
      <4>1. requests[s][n].total \in Nat
        BY <1>1, <2>3, <3>1 DEF PagesTyped, RequestType
      <4>2. requests[s][n].total <= stored[s].kept
        BY <2>1, <2>3, <3>1 DEF TotalsCounted, Counted
      <4> QED
        BY <2>1, <2>2, <3>1, <4>1, <4>2
    <3>2. CASE requests'[s][n].total = stored[s].kept
      BY <2>1, <3>2
    <3> QED
      BY <1>1, <2>3, <3>1, <3>2, TotalsOfRequests
  <2>4. ASSUME NEW n \in Pages, answers'[s][n] # NoAnswer
        PROVE  answers'[s][n].total <= stored'[s].kept
    <3>1. CASE answers'[s][n] = answers[s][n]
      <4>1. answers[s][n].total \in Nat
        BY <1>1, <2>4, <3>1 DEF PagesTyped
      <4>2. answers[s][n].total <= stored[s].kept
        BY <2>1, <2>4, <3>1 DEF TotalsCounted, Counted
      <4> QED
        BY <2>1, <2>2, <3>1, <4>1, <4>2
    <3>2. CASE /\ requests[s][n].total # NoAnswer
               /\ answers'[s][n] = [items |-> requests[s][n].items,
                                    total |-> requests[s][n].total]
      <4>1. requests[s][n].total \in Nat
        BY <1>1, <3>2 DEF PagesTyped, RequestType
      <4>2. requests[s][n].total <= stored[s].kept
        BY <2>1, <3>2 DEF TotalsCounted, Counted
      <4>3. answers'[s][n].total = requests[s][n].total
        BY <3>2
      <4> QED
        BY <2>1, <2>2, <4>1, <4>2, <4>3
    <3> QED
      BY <1>1, <2>4, <3>1, <3>2, AnswersOfRequests
  <2>5. ASSUME onPage'[s] > 1
        PROVE  (onPage'[s] - 1) * RowsPerPage < stored'[s].kept
    <3>1. onPage'[s] \in Nat /\ (onPage'[s] - 1) * RowsPerPage \in Int
      <4>1. onPage'[s] \in Nat
        BY <1>1 DEF PagesTyped, Pages
      <4> QED
        BY <4>1, HistoryAssumption
    <3>2. CASE onPage'[s] = onPage[s]
      <4>1. (onPage'[s] - 1) * RowsPerPage < stored[s].kept
        BY <2>1, <2>5, <3>2 DEF TotalsCounted, Counted
      <4> QED
        BY <2>1, <2>2, <3>1, <4>1
    <3>3. CASE onPage'[s] \in Pages /\ TurnTo(s, onPage'[s]) /\ UNCHANGED stored
      BY <2>1, <2>5, <3>3, TurnsWithinTotal
    <3> QED
      BY <1>1, <2>5, <3>2, <3>3, PageAfter
  <2> QED
    BY <2>3, <2>4, <2>5
<1>3. Counted'
  BY <1>2 DEF Counted
<1> QED
  BY <1>1, <1>3 DEF TotalsCounted

\* Although rows and their number are read at different moments, an operator is
\* sent past the last page only when the table lost rows meanwhile.
THEOREM OnlyLossLeadsPastTheEnd == HistorySpec => []PastEndExplained
<1>1. TotalsCounted => PastEndExplained
  <2> SUFFICES ASSUME TotalsCounted, NEW s \in Sections, s \notin vanished, onPage[s] > 1,
                      (onPage[s] - 1) * RowsPerPage >= stored[s].kept
               PROVE  FALSE
    BY DEF PastEndExplained
  <2>1. (onPage[s] - 1) * RowsPerPage < stored[s].kept
    BY DEF TotalsCounted, Counted
  <2>2. stored[s].kept \in Nat /\ (onPage[s] - 1) * RowsPerPage \in Int
    <3>1. onPage[s] \in Nat /\ stored[s].kept \in Nat
      BY DEF TotalsCounted, PagesTyped, Pages
    <3> QED
      BY <3>1, HistoryAssumption
  <2> QED
    BY <2>1, <2>2
<1> QED
  BY <1>1, InitCounted, StepCounted, PTL DEF HistorySpec

=============================================================================
