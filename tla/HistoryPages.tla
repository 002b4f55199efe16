---------------------------- MODULE HistoryPages ----------------------------
(***************************************************************************)
(* The paged tables of stored rows (fills, PnL and inventory on the history *)
(* page, log entries on the monitor) as one operator turns their pages, with *)
(* the answers the query cache keeps per page, the two queries the server    *)
(* makes of one request, and the deletion of all history.                    *)
(*                                                                         *)
(* Rows are numbered in the order of createdAt, oldest first.  A table     *)
(* holds the newest ones: it loses its oldest to pruning, or all of them.  *)
(***************************************************************************)
EXTENDS Integers, Sequences

CONSTANTS
    Sections,       \* the tables on the pages
    Clearable,      \* those DELETE /api/history empties
    RowsPerPage,    \* pageSize
    HistoryRows,    \* MAX_ROWS_PER_TABLE
    LastPage,       \* bound: pages an operator turns to
    HistoryPlans,   \* bounds: rows inserted, rows deleted by another operator,
                    \* pages turned, deletions asked for here, requests that fail
    NoAnswer

ASSUME HistoryAssumption ==
    /\ Clearable \subseteq Sections
    /\ RowsPerPage \in Nat \ {0} /\ HistoryRows \in Nat \ {0}
    /\ LastPage \in Nat \ {0}

VARIABLES
    stored,     \* table -> newest row and number of rows kept
    onPage,     \* table -> the page turned to
    answers,    \* table -> page -> the cached answer
    requests,   \* table -> page -> the request under way
    deletion,   \* the mutation: "idle", "sent" or "done" by the server
    left,       \* what is left of the plan
    vanished    \* history: tables that lost rows

pagesVars == <<stored, onPage, answers, requests, deletion, left, vanished>>

-----------------------------------------------------------------------------
Pages == 1 .. LastPage

\* Faulty variant of TotalPages: always one page more.
TotalPagesAndOne(total) == total \div RowsPerPage + 1

\* Math.max(1, Math.ceil(total / pageSize))
TotalPages(total) ==
    IF total = 0 THEN 1 ELSE (total + RowsPerPage - 1) \div RowsPerPage

\* ORDER BY createdAt DESC with skip and take.
Items(t, n) ==
    LET skipped == (n - 1) * RowsPerPage
        taken == IF t.kept <= skipped THEN 0
                 ELSE IF t.kept - skipped < RowsPerPage THEN t.kept - skipped
                 ELSE RowsPerPage
    IN [i \in 1 .. taken |-> t.newest - skipped - i + 1]

Idle == [sent |-> FALSE, items |-> NoAnswer, total |-> NoAnswer]
Sent == [Idle EXCEPT !.sent = TRUE]

\* What a table shows: no rows and a total of 0 until there is an answer.
ShownIn(s) ==
    IF answers[s][onPage[s]] = NoAnswer THEN [items |-> <<>>, total |-> 0]
    ELSE answers[s][onPage[s]]

HistoryInit ==
    /\ stored \in [Sections -> {[newest |-> HistoryRows, kept |-> HistoryRows]}]
    /\ onPage = [s \in Sections |-> 1]
    /\ answers = [s \in Sections |-> [n \in Pages |-> NoAnswer]]
    /\ requests = [s \in Sections |-> [n \in Pages |-> IF n = 1 THEN Sent ELSE Idle]]
    /\ deletion = "idle"
    /\ left \in HistoryPlans
    /\ vanished = {}

Use(what) ==
    /\ left[what] > 0
    /\ left' = [left EXCEPT ![what] = @ - 1]

-----------------------------------------------------------------------------
(* The tables *)

\* A bot stores a row; its task prunes the table later.
Insert(s) ==
    /\ Use("inserts")
    /\ stored' = [stored EXCEPT ![s] = [newest |-> @.newest + 1, kept |-> @.kept + 1]]
    /\ UNCHANGED <<onPage, answers, requests, deletion, vanished>>

PruneRows(s) ==
    /\ stored[s].kept > HistoryRows
    /\ stored' = [stored EXCEPT ![s].kept = HistoryRows]
    /\ vanished' = vanished \cup {s}
    /\ UNCHANGED <<onPage, answers, requests, deletion, left>>

Emptied == [s \in Sections |->
    IF s \in Clearable THEN [stored[s] EXCEPT !.kept = 0] ELSE stored[s]]

\* Another dashboard deletes the history, or resets all data.
DeletedElsewhere ==
    /\ Use("others")
    /\ stored' = Emptied
    /\ vanished' = vanished \cup Clearable
    /\ UNCHANGED <<onPage, answers, requests, deletion>>

-----------------------------------------------------------------------------
(* The queries *)

\* The query of a page is fetched unless it already is.
Fetched(r) == IF r.sent THEN r ELSE Sent

\* Prev and Next, which a table has when it knows of more than one page.
TurnTo(s, n) ==
    LET total == TotalPages(ShownIn(s).total) IN
    /\ total > 1
    /\ \/ n = onPage[s] - 1 /\ onPage[s] > 1
       \/ n = onPage[s] + 1 /\ onPage[s] < total
    /\ onPage' = [onPage EXCEPT ![s] = n]
    /\ requests' = [requests EXCEPT ![s][n] = Fetched(@)]
    /\ Use("turns")
    /\ UNCHANGED <<stored, answers, deletion, vanished>>

\* Faulty variant of RefetchPage: the timer is that of the first page.
RefetchFirst(s) ==
    /\ ~requests[s][1].sent
    /\ requests' = [requests EXCEPT ![s][1] = Sent]
    /\ UNCHANGED <<stored, onPage, answers, deletion, left, vanished>>

\* Every five seconds, for the page on display.
RefetchPage(s) ==
    /\ ~requests[s][onPage[s]].sent
    /\ requests' = [requests EXCEPT ![s][onPage[s]] = Sent]
    /\ UNCHANGED <<stored, onPage, answers, deletion, left, vanished>>

\* The server asks the database for the rows and for their number, each query
\* on its own.
ReadItems(s, n) ==
    /\ requests[s][n].sent /\ requests[s][n].items = NoAnswer
    /\ requests' = [requests EXCEPT ![s][n].items = Items(stored[s], n)]
    /\ UNCHANGED <<stored, onPage, answers, deletion, left, vanished>>

ReadTotal(s, n) ==
    /\ requests[s][n].sent /\ requests[s][n].total = NoAnswer
    /\ requests' = [requests EXCEPT ![s][n].total = stored[s].kept]
    /\ UNCHANGED <<stored, onPage, answers, deletion, left, vanished>>

\* Faulty variant of Keep: the answer is taken to be about the page on display.
KeepAsShown(s, n, answer) == [answers EXCEPT ![s][onPage[s]] = answer]

Keep(s, n, answer) == [answers EXCEPT ![s][n] = answer]

EndRequest(s, n) ==
    LET r == requests[s][n] IN
    /\ r.items # NoAnswer /\ r.total # NoAnswer
    /\ answers' = Keep(s, n, [items |-> r.items, total |-> r.total])
    /\ requests' = [requests EXCEPT ![s][n] = Idle]
    /\ UNCHANGED <<stored, onPage, deletion, left, vanished>>

\* The retries fail as well: what is cached stays.
FailRequest(s, n) ==
    /\ requests[s][n].sent
    /\ requests' = [requests EXCEPT ![s][n] = Idle]
    /\ Use("faults")
    /\ UNCHANGED <<stored, onPage, answers, deletion, vanished>>

\* A page that was not shown for five minutes is dropped from the cache.
ForgetPage(s, n) ==
    /\ n # onPage[s] /\ ~requests[s][n].sent /\ answers[s][n] # NoAnswer
    /\ answers' = [answers EXCEPT ![s][n] = NoAnswer]
    /\ UNCHANGED <<stored, onPage, requests, deletion, left, vanished>>

-----------------------------------------------------------------------------
(* Delete all history *)

DeleteAll ==
    /\ deletion = "idle"
    /\ deletion' = "sent"
    /\ Use("deletes")
    /\ UNCHANGED <<stored, onPage, answers, requests, vanished>>

\* DELETE /api/history, one transaction.
ServeDeletion ==
    /\ deletion = "sent"
    /\ stored' = Emptied
    /\ vanished' = vanished \cup Clearable
    /\ deletion' = "done"
    /\ UNCHANGED <<onPage, answers, requests, left>>

\* onSuccess: first pages; the pages on display so far are fetched anew (one
\* that has an answer drops the fetch under way for it), then the first ones,
\* which join a fetch that is under way.
EndDeletion ==
    /\ deletion = "done"
    /\ onPage' = [s \in Sections |-> IF s \in Clearable THEN 1 ELSE onPage[s]]
    /\ requests' = [s \in Sections |-> [n \in Pages |->
          IF s \notin Clearable THEN requests[s][n]
          ELSE IF n = onPage[s]
               THEN IF answers[s][n] # NoAnswer THEN Sent ELSE Fetched(requests[s][n])
          ELSE IF n = 1 THEN Fetched(requests[s][n])
          ELSE requests[s][n]]]
    /\ deletion' = "idle"
    /\ UNCHANGED <<stored, answers, left, vanished>>

\* "Delete failed", whether or not the transaction was committed.
FailDeletion ==
    /\ deletion # "idle"
    /\ deletion' = "idle"
    /\ Use("faults")
    /\ UNCHANGED <<stored, onPage, answers, requests, vanished>>

HistoryNext ==
    \/ \E s \in Sections :
          \/ Insert(s) \/ PruneRows(s) \/ RefetchPage(s)
          \/ \E n \in Pages :
                \/ TurnTo(s, n) \/ ReadItems(s, n) \/ ReadTotal(s, n)
                \/ EndRequest(s, n) \/ FailRequest(s, n) \/ ForgetPage(s, n)
    \/ DeletedElsewhere
    \/ DeleteAll \/ ServeDeletion \/ EndDeletion \/ FailDeletion

-----------------------------------------------------------------------------
(* Properties *)

HistorySpec == HistoryInit /\ [][HistoryNext]_pagesVars

\* The interval refetches the page on display, the database and the server
\* answer unless the request fails, and there are no more failures than planned.
HistoryFairSpec ==
    /\ HistorySpec
    /\ \A s \in Sections :
          /\ WF_pagesVars(RefetchPage(s))
          /\ \A n \in Pages : /\ WF_pagesVars(ReadItems(s, n))
                              /\ WF_pagesVars(ReadTotal(s, n))
                              /\ WF_pagesVars(EndRequest(s, n))

\* An answer is kept for the page it was asked for, however fast pages are
\* turned: every row in it had at least as many newer ones as its place says.
AnswersKeepTheirPage ==
    \A s \in Sections, n \in Pages :
        answers[s][n] # NoAnswer =>
            \A i \in DOMAIN answers[s][n].items :
                answers[s][n].items[i]
                    <= stored[s].newest - (n - 1) * RowsPerPage - i + 1

\* Although the rows and their number are read at different moments, the number
\* is no reason to turn to a page without rows; only lost rows are.
PastEndExplained ==
    \A s \in Sections :
        onPage[s] > 1 /\ (onPage[s] - 1) * RowsPerPage >= stored[s].kept => s \in vanished

ShowsItsPage(s) ==
    ShownIn(s) = [items |-> Items(stored[s], onPage[s]), total |-> stored[s].kept]

\* Once nothing changes any more, every table ends up with the rows of its page
\* and with their number, whatever answers were under way across turned pages,
\* a deletion, or failures.
ShownCatchesUp == \A s \in Sections : <>[]ShowsItsPage(s)

=============================================================================
