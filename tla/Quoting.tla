------------------------------- MODULE Quoting -------------------------------
(***************************************************************************)
(* What a bot promises about which pairs it has orders out for, with the   *)
(* reasons a pair is active for left open: the engine may pause a pair at  *)
(* any time, an operator may change the set of active pairs to any other,  *)
(* and the kill switch empties it.  Engine implements this specification.  *)
(*                                                                         *)
(* It has no counters, so the tick loop is unbounded here.                 *)
(***************************************************************************)
CONSTANT Pairs

VARIABLES
    killSwitch,
    active,     \* configured, enabled, not paused
    phase,      \* "placing" from compute_orders until the answers are booked
    pending,    \* <<pair, side>> sent and not answered yet
    fills       \* <<pair, side>> answered as filled, not booked yet

vars == <<killSwitch, active, phase, pending, fills>>

Sides == {"buy", "sell"}

Live == pending \cup fills

Init ==
    /\ killSwitch = FALSE
    /\ active \in SUBSET Pairs
    /\ phase = "idle"
    /\ pending = {}
    /\ fills = {}

\* Faulty variant of Quotable: pause flags decide alone.
QuotableWhileKilled == active

\* Faulty variant of Quotable: pause flags are not read.
QuotablePaused == IF killSwitch THEN {} ELSE Pairs

\* The kill switch is read by itself: pairs may be unpaused while it is engaged.
Quotable == IF killSwitch THEN {} ELSE active

Quote ==
    /\ phase = "idle"
    /\ phase' = "placing"
    /\ pending' = Quotable \X Sides
    /\ UNCHANGED <<killSwitch, active, fills>>

\* An order of the batch ends: filled, not filled, or without an answer.
End(o) ==
    /\ o \in pending
    /\ pending' = pending \ {o}
    /\ fills' \in {fills, fills \cup {o}}
    /\ UNCHANGED <<killSwitch, active, phase>>

\* Building a payload may pause pairs and never unpauses one.
Book ==
    /\ phase = "placing"
    /\ pending = {}
    /\ active' \in SUBSET active
    /\ phase' = "idle"
    /\ fills' = {}
    /\ UNCHANGED <<killSwitch, pending>>

StreamConnect ==
    /\ active' \in SUBSET active
    /\ UNCHANGED <<killSwitch, phase, pending, fills>>

\* A config, a strategy, a pause flag: also while the kill switch is engaged.
Configure ==
    /\ active' \in SUBSET Pairs
    /\ UNCHANGED <<killSwitch, phase, pending, fills>>

Engage ==
    /\ killSwitch' = TRUE
    /\ active' = {}
    /\ UNCHANGED <<phase, pending, fills>>

\* By the kill switch itself or by a reset.
Disengage ==
    /\ killSwitch' = FALSE
    /\ active' \in SUBSET Pairs
    /\ UNCHANGED <<phase, pending, fills>>

Next ==
    \/ Quote
    \/ \E o \in pending : End(o)
    \/ Book
    \/ StreamConnect
    \/ Configure
    \/ Engage
    \/ Disengage

Spec == Init /\ [][Next]_vars

\* The interval keeps the loop running, the answers of a batch are booked once
\* they are in, and a call to the exchange is assumed to end, with an answer or
\* an error (the code sets no timeout of its own).  Operators owe nothing.
Fairness ==
    /\ WF_vars(Quote)
    /\ WF_vars(Book)
    /\ \A o \in Pairs \X Sides : WF_vars(End(o))

FairSpec == Spec /\ Fairness

-----------------------------------------------------------------------------
(* Properties *)

\* Every variable has its type and an idle loop has no order out.
TypeOK ==
    /\ killSwitch \in BOOLEAN
    /\ active \in SUBSET Pairs
    /\ phase \in {"idle", "placing"}
    /\ pending \subseteq Pairs \X Sides
    /\ fills \subseteq Pairs \X Sides
    /\ phase = "idle" => Live = {}

\* If the kill switch is engaged for good, tick orders die out for good, even
\* though operators may unpause pairs meanwhile.
KillSwitchQuiesces == <>[]killSwitch => <>[](Live = {})

\* If a pair is paused, disabled or dropped for good, at whatever point of a
\* tick, its orders die out for good while the others go on.
PauseQuiesces ==
    \A p \in Pairs :
        <>[](p \notin active) => <>[](\A side \in Sides : <<p, side>> \notin Live)

=============================================================================
