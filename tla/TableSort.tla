------------------------------ MODULE TableSort ------------------------------
(***************************************************************************)
(* A table of the history and monitor pages: one page of rows, as the      *)
(* query cache holds it, and the column and direction its headers select.  *)
(***************************************************************************)
EXTENDS Integers, Sequences, FiniteSets, Functions

CONSTANTS
    TablePages,     \* pages a query may return: rows with createdAt and value
    NoValue         \* null

\* A row: when it was written, and a column that may be null.
Rows == [createdAt : Int, value : Int \cup {NoValue}]

ASSUME TableAssumption ==
    /\ NoValue \notin Int
    /\ \A rows \in TablePages : rows \in Seq(Rows)

VARIABLES
    tableRows,  \* data.items
    sort        \* [col, dir]

tableVars == <<tableRows, sort>>

TableInit ==
    /\ tableRows \in TablePages
    /\ sort = [col |-> "createdAt", dir |-> "desc"]

\* Faulty variant of Precedes: the direction turns the whole comparison round.
PrecedesTurned(a, b) ==
    LET up == sort.dir = "asc"
        av == IF up THEN a[sort.col] ELSE b[sort.col]
        bv == IF up THEN b[sort.col] ELSE a[sort.col]
    IN av # NoValue /\ (bv = NoValue \/ av < bv)

\* Row a stands before row b, whatever their places on the page.
Precedes(a, b) ==
    LET av == a[sort.col]
        bv == b[sort.col]
    IN \/ av # NoValue /\ bv = NoValue
       \/ /\ av # NoValue /\ bv # NoValue
          /\ IF sort.dir = "asc" THEN av < bv ELSE av > bv

\* A stable sort of a copy.
Sorted(rows) ==
    LET Before(i) == {j \in DOMAIN rows :
                         \/ Precedes(rows[j], rows[i])
                         \/ ~Precedes(rows[i], rows[j]) /\ j < i}
    IN [k \in DOMAIN rows |-> rows[CHOOSE i \in DOMAIN rows : Cardinality(Before(i)) = k - 1]]

\* A click on a header: the cached page is not touched.
Toggle(col) ==
    /\ sort' = [col |-> col,
                dir |-> IF sort.col = col /\ sort.dir = "asc" THEN "desc" ELSE "asc"]
    /\ UNCHANGED tableRows

\* A refetch, or another page: the order selected stays.
ReplaceRows ==
    /\ tableRows' \in TablePages
    /\ UNCHANGED sort

TableNext ==
    \/ \E col \in {"createdAt", "value"} : Toggle(col)
    \/ ReplaceRows

-----------------------------------------------------------------------------
(* Properties *)

\* What a table shows is its page, each row once, in the order selected: rows
\* without a value are last in either direction, and rows with the same value
\* stay in the order of the page.
TableShowsPage ==
    LET shown == Sorted(tableRows) IN
    /\ DOMAIN shown = DOMAIN tableRows
    /\ \E at \in [DOMAIN tableRows -> DOMAIN tableRows] :
          /\ IsInjective(at)
          /\ \A k \in DOMAIN tableRows : shown[k] = tableRows[at[k]]
          /\ \A k, l \in DOMAIN tableRows :
                LET a == shown[k][sort.col]
                    b == shown[l][sort.col]
                IN k < l =>
                      \/ a = b /\ at[k] < at[l]
                      \/ a # NoValue /\ b = NoValue
                      \/ /\ NoValue \notin {a, b}
                         /\ IF sort.dir = "asc" THEN a < b ELSE a > b

=============================================================================
