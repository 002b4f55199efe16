------------------------------ MODULE MCStorage ------------------------------
(* Instances of Storage for TLC: a payload table after the fills stands for   *)
(* the three there are.                                                       *)
EXTENDS Storage, TLC

CONSTANTS b1, b2

MCTables == <<"Fill", "PnLSnapshot">>

MCNames == {"bot-1", "bot-2", "bot", "bot1"}

MCIdOf == b1 :> "bot-1" @@ b2 :> "bot-2"

\* BOT_ID as documented, or left from a time when ids were others.
MCBotIds == {MCIdOf, b1 :> "bot" @@ b2 :> "bot1"}

MCBudget(t, l, r, s, f) ==
    [ticks |-> t, logs |-> l, resets |-> r, streams |-> s, failures |-> f]

MCOwnIds == {MCIdOf}

\* Retention over four payloads; a reset among three, with relays or failures;
\* failures among two; relays that come and go; the log.  What a budget allows
\* ends, and so do the behaviours.
MCBudgets == {MCBudget(4, 0, 0, 0, 0), MCBudget(3, 0, 1, 0, 0),
              MCBudget(2, 0, 1, 1, 0), MCBudget(2, 0, 1, 0, 1),
              MCBudget(2, 0, 0, 0, 2), MCBudget(3, 0, 0, 1, 0),
              MCBudget(1, 0, 0, 2, 2), MCBudget(0, 3, 0, 0, 1)}

=============================================================================
