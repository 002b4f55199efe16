----------------------------- MODULE MCRecovery -----------------------------
(***************************************************************************)
(* What must eventually happen, for TLC: orders that die out, streams that *)
(* come back, selections and pages that catch up.  The specifications share *)
(* no state, so each behaviour runs one of them, named by part, while the  *)
(* others stay as they started; fairness is that of the one that runs.     *)
(***************************************************************************)
EXTENDS StrategyView, HistoryPages, TLC

CONSTANTS p1, p2, b1, u1, u2, s1, s2, noUrl, noSocket, noBot

VARIABLES
    part,
    \* Quoting
    killSwitch, active, phase, pending, fills,
    \* EngineRelay
    topology, relays, sockets, clients, log, reachable, updates, told, forgot

quotingVars == <<killSwitch, active, phase, pending, fills>>
relayVars == <<topology, relays, sockets, clients, log, reachable, updates, told, forgot>>
recoveryVars == <<part, quotingVars, relayVars, vars, pagesVars>>

Quoting == INSTANCE Quoting WITH Pairs <- {p1, p2}

\* One bot whose address changes once; no dashboard and no payload.
Streams ==
    INSTANCE EngineRelay WITH
        Bots <- {b1}, Urls <- {u1, u2}, Clients <- {}, Alerts <- {},
        SocketIds <- {s1, s2}, HistoryCap <- 2, MaxPayloads <- 0, MaxTopologies <- 1,
        NoUrl <- noUrl, NoSocket <- noSocket, NoBot <- noBot

MCHistoryPlan(inserts, others, turns, deletes, faults) ==
    [inserts |-> inserts, others |-> others, turns |-> turns, deletes |-> deletes,
     faults |-> faults]

MCHistoryPlans ==
    {MCHistoryPlan(1, 1, 1, 0, 0), MCHistoryPlan(1, 0, 1, 1, 0),
     MCHistoryPlan(1, 0, 2, 0, 0), MCHistoryPlan(0, 0, 1, 1, 1),
     MCHistoryPlan(0, 0, 2, 0, 1)}

-----------------------------------------------------------------------------
\* Only the part that runs starts in any of its initial states.
RecoveryInit ==
    /\ part \in {"quoting", "relay", "strategy", "pages"}
    /\ Quoting!Init
    /\ part # "quoting" => active = {}
    /\ Streams!Init
    /\ part # "relay" => reachable = {} /\ topology = (b1 :> u1)
    /\ Init
    /\ HistoryInit
    /\ part # "pages" => left = MCHistoryPlan(1, 1, 1, 0, 0)

RecoveryNext ==
    \/ /\ part = "quoting"
       /\ Quoting!Next
       /\ UNCHANGED <<part, relayVars, vars, pagesVars>>
    \/ /\ part = "relay"
       /\ Streams!Next
       /\ UNCHANGED <<part, quotingVars, vars, pagesVars>>
    \/ /\ part = "strategy"
       /\ Next
       /\ UNCHANGED <<part, quotingVars, relayVars, pagesVars>>
    \/ /\ part = "pages"
       /\ HistoryNext
       /\ UNCHANGED <<part, quotingVars, relayVars, vars>>

\* The fairness of Quoting, EngineRelay, StrategyView and HistoryPages.
RecoveryFairness ==
    /\ WF_quotingVars(part = "quoting" /\ Quoting!Quote)
    /\ WF_quotingVars(part = "quoting" /\ Quoting!Book)
    /\ \A o \in {p1, p2} \X {"buy", "sell"} :
          WF_quotingVars(part = "quoting" /\ Quoting!End(o))
    /\ \A s \in {s1, s2} :
          /\ WF_relayVars(part = "relay" /\ Streams!Open(s))
          /\ WF_relayVars(part = "relay" /\ Streams!Message(s))
          /\ WF_relayVars(part = "relay" /\ Streams!Error(s))
          /\ WF_relayVars(part = "relay" /\ Streams!Close(s))
    /\ WF_relayVars(part = "relay" /\ Streams!Reconnect(b1))
    /\ WF_vars(part = "strategy" /\ LockExpires)
    /\ WF_vars(part = "strategy" /\ Rerender)
    /\ WF_vars(part = "strategy" /\ Poll)
    /\ WF_vars(part = "strategy" /\ AnswerPoll)
    /\ WF_vars(part = "strategy" /\ Receive)
    /\ \A i \in 1 .. MaxSelections :
          /\ WF_vars(part = "strategy" /\ \E r \in posts : r.id = i /\ ApplyPreset(r))
          /\ WF_vars(part = "strategy" /\ \E r \in posts : r.id = i /\ Succeed(r))
    /\ WF_vars(part = "strategy" /\ Open)
    /\ WF_vars(part = "strategy" /\ Publish)
    /\ WF_vars(part = "strategy" /\ Ingest)
    /\ \A s \in Sections :
          /\ WF_pagesVars(part = "pages" /\ RefetchPage(s))
          /\ \A n \in Pages :
                /\ WF_pagesVars(part = "pages" /\ ReadItems(s, n))
                /\ WF_pagesVars(part = "pages" /\ ReadTotal(s, n))
                /\ WF_pagesVars(part = "pages" /\ EndRequest(s, n))

RecoverySpec == RecoveryInit /\ [][RecoveryNext]_recoveryVars /\ RecoveryFairness

-----------------------------------------------------------------------------
(* Properties of the specifications instantiated here *)

\* If the kill switch is engaged for good, tick orders die out for good, whatever
\* operators unpause or configure meanwhile.
KillSwitchQuiesces == Quoting!KillSwitchQuiesces

\* If a pair is paused for good, its orders die out for good while others go on.
PauseQuiesces == Quoting!PauseQuiesces

\* Once a relay runs at a reachable address for good, it gets a connection to
\* it for good, however often it failed before.
Reconnects == Streams!Reconnects

\* A table ends up with the rows of its page and their number, whatever answers
\* were under way across turned pages, a deletion, or failures.
PagesCatchUp == \A s \in Sections : <>[](part = "pages" => ShowsItsPage(s))

=============================================================================
