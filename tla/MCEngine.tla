------------------------------ MODULE MCEngine ------------------------------
(* Instances of Engine for TLC.  Limits are a few orders wide, so that a      *)
(* handful of ticks reaches them.                                             *)
EXTENDS EngineAudit, TLC

CONSTANTS p1, p2, h1, h2

Cfg(en, max, hedging, threshold) ==
    [enabled |-> en, maxInventory |-> max,
     hedgingEnabled |-> hedging, hedgeThreshold |-> threshold]

\* Only the start-up preset, for runs about something else than strategies.
MCBalanced == "balanced" :> Cfg(TRUE, 4, TRUE, 3)

\* Two presets, the second with a lower limit than the inventory the first one
\* allows.
MCTwoPresets == "balanced" :> Cfg(TRUE, 4, TRUE, 3)
                @@ "aggressive" :> Cfg(TRUE, 3, FALSE, 4)

\* Custom configs: disabled, and enabled with a limit below one order.
MCNoConfigs == {}

MCConfigs == {Cfg(FALSE, 4, TRUE, 3), Cfg(TRUE, 1, FALSE, 1)}

\* Interchangeable requests: no definition tells one from the other, and no run
\* with this symmetry checks liveness.
HedgerSymmetry == Permutations(Hedgers)

=============================================================================
