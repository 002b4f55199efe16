----------------------------- MODULE EngineAudit -----------------------------
(***************************************************************************)
(* What the engine's books say against what the exchange executed, and what *)
(* the repository's documents claim of the engine.                         *)
(***************************************************************************)
EXTENDS Engine, Functions

\* The manual hedges of p that the exchange has executed and answered.
FilledHedges(p, H) == {r \in H : r.pair = p /\ r.status = "filled"}

\* What a set of manual hedges is still to add to the inventory of p.
HedgesDelta(p, H) ==
    SumFunctionOnSet([r \in H |-> Signed(r.side, r.size)], FilledHedges(p, H))

\* Executed at the exchange, answered, and not yet in the inventory of p.
Unbooked(p) == TickDelta(p, fills) + HedgesDelta(p, hedges)

\* Every execution is booked exactly once, with its side and size: what the
\* exchange holds is what the engine believes, plus what is still to be booked,
\* plus what lost answers, synthetic hedges and resets wrote off.
BooksBalance ==
    \A p \in Pairs : position[p] = inventory[p] + Unbooked(p) + gap[p]

-----------------------------------------------------------------------------
(* The abstract ledger *)

\* The orders the exchange can still execute, and those it has executed and
\* answered; a tick sends one per pair and side, a request by hand one.
TickOrder(o) ==
    [manual |-> FALSE, id |-> o[2], account |-> o[1], amount |-> Signed(o[2], OrderSize)]

HandOrder(r) ==
    [manual |-> TRUE, id |-> r.id, account |-> r.pair, amount |-> Signed(r.side, r.size)]

HandOrders(status) == {HandOrder(r) : r \in {q \in hedges : q.status = status}}

OrdersOut == {TickOrder(o) : o \in pending} \cup HandOrders("sent")

OrdersExecuted == {TickOrder(o) : o \in fills} \cup HandOrders("filled")

L == INSTANCE Ledger WITH Accounts <- Pairs, out <- OrdersOut,
                          executed <- OrdersExecuted, book <- inventory,
                          writtenOff <- gap

\* The engine keeps the books of Ledger: whatever the tick, the handlers and the
\* requests by hand do to each other, no order is executed twice (an order whose
\* answer is lost is not sent again), none is booked twice, for another pair, or
\* after its request is gone, and otherwise the inventory shrinks by an
\* auto-hedge or a reset only.
LedgerKept == L!Spec

-----------------------------------------------------------------------------
(* Statements of the repository about the engine *)

\* "When true, no orders are placed and all pairs are kept paused." (the comment
\* of kill_switch_engaged in EngineState): the first half, and the kill-switch
\* dialog: "No new orders will be placed until the kill switch is disengaged."
NoOrdersWhileKilled ==
    [][killSwitch /\ killSwitch' =>
          /\ pending' \subseteq pending
          /\ \A r \in hedges' : \E q \in hedges : q.id = r.id]_vars

=============================================================================
