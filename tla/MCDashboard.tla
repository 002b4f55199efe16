----------------------------- MODULE MCDashboard -----------------------------
(***************************************************************************)
(* The parts of a dashboard for TLC.  They share no state, so each behaviour *)
(* runs one of them, named by part, while the others stay as they started. *)
(***************************************************************************)
EXTENDS Topology, PanelData, PanelControls, Risk, TableSort, GeoMap

CONSTANTS d1, d2, r1, p1, p2

VARIABLE part

-----------------------------------------------------------------------------
(* Topology: an environment with two bots, and what browsers may have saved *)

MCBot(id, host, place) == [id |-> id, name |-> "given", host |-> host, place |-> place]

MCTopology(places, bots) ==
    [exchange |-> r1, exchangePlace |-> places, dashboardPlace |-> FALSE, bots |-> bots]

MCStart == MCTopology(TRUE, <<MCBot(1, "localhost", TRUE), MCBot(2, r1, FALSE)>>)

\* Another environment's, and one that no schema accepts any more.
MCStored == {MCTopology(FALSE, <<MCBot(3, r1, FALSE)>>),
             MCTopology(FALSE, <<MCBot(1, r1, FALSE), MCBot(1, r1, FALSE)>>)}

MCPlan(edits, mounts, leaves, tabs, faults, restarts) ==
    [edits |-> edits, mounts |-> mounts, leaves |-> leaves, tabs |-> tabs,
     faults |-> faults, restarts |-> restarts]

MCPlans == {MCPlan(2, 1, 0, 0, 0, 0), MCPlan(1, 2, 1, 0, 0, 0),
            MCPlan(1, 1, 0, 1, 1, 0), MCPlan(1, 1, 0, 0, 0, 1)}

(* PanelData *)

MCSays(quotes, fills, kill, paused) ==
    [quotes |-> quotes, fills |-> fills, kill |-> kill, paused |-> paused]

MCScripts ==
    {<<MCSays(TRUE, TRUE, FALSE, FALSE), MCSays(TRUE, FALSE, TRUE, TRUE)>>,
     <<MCSays(TRUE, FALSE, TRUE, TRUE), MCSays(FALSE, TRUE, FALSE, FALSE)>>}

MCPanelPlan(polled, losses, resets, restarts, tabs) ==
    [polled |-> polled, losses |-> losses, resets |-> resets, restarts |-> restarts,
     tabs |-> tabs]

MCPanelPlans ==
    {MCPanelPlan({"quotes"}, 1, 1, 0, 1), MCPanelPlan({"quotes"}, 1, 0, 1, 1),
     MCPanelPlan({"quotes", "fills"}, 1, 0, 0, 1),
     MCPanelPlan({"quotes", "pnl"}, 1, 0, 0, 1),
     MCPanelPlan({"inventory", "fills"}, 0, 0, 1, 1)}

(* PanelControls *)

MCControlPlan(kill, config, pause, hedge, edits, answers, switches, faults, restarts) ==
    [kill |-> kill, config |-> config, pause |-> pause, hedge |-> hedge, edits |-> edits,
     answers |-> answers, switches |-> switches, faults |-> faults,
     restarts |-> restarts]

MCControlPlans ==
    {MCControlPlan(3, 0, 0, 0, 0, 3, 1, 0, 0), MCControlPlan(2, 0, 0, 0, 0, 2, 0, 1, 1),
     MCControlPlan(0, 2, 0, 0, 2, 3, 0, 0, 0), MCControlPlan(0, 1, 1, 1, 1, 1, 0, 0, 0)}

(* Risk: figures on both sides of every threshold *)

MCInventory(a, b, skew) ==
    (p1 :> [size |-> a, skew |-> skew]) @@ (p2 :> [size |-> b, skew |-> 0])

MCQuotes(mid, volatility, paused1, paused2) ==
    (p1 :> [mid |-> mid, volatility |-> volatility, paused |-> paused1]) @@
    (p2 :> [mid |-> 100, volatility |-> 0, paused |-> paused2])

MCFeeds(up1, up2, staleness, latency) ==
    ("f1" :> [connected |-> up1, staleness |-> staleness, latency |-> latency]) @@
    ("f2" :> [connected |-> up2, staleness |-> 0, latency |-> 5])

MCPnl(adverse, fillRate, hedging) ==
    [adverse |-> adverse, fillRate |-> fillRate, hedging |-> hedging]

MCCalm ==
    [kill |-> FALSE, connected |-> TRUE, inventory |-> MCInventory(10, 0, 0),
     limits |-> (p1 :> 100) @@ (p2 :> 100), quotes |-> MCQuotes(100, 0, FALSE, FALSE),
     feeds |-> MCFeeds(TRUE, TRUE, 0, 5), pnl |-> MCPnl(0, 200, 0), spread |-> 5]

\* Nothing of the bot has been seen.
MCEmpty ==
    [kill |-> FALSE, connected |-> FALSE, inventory |-> <<>>, limits |-> NoFigure,
     quotes |-> <<>>, feeds |-> <<>>, pnl |-> NoFigure, spread |-> NoFigure]

MCStorm ==
    [kill |-> FALSE, connected |-> TRUE, inventory |-> MCInventory(-95, 80, 30),
     limits |-> (p1 :> 100) @@ (p2 :> 100), quotes |-> MCQuotes(30000, 3, TRUE, FALSE),
     feeds |-> MCFeeds(FALSE, TRUE, 1500, 600), pnl |-> MCPnl(350, 30, 20), spread |-> -5]

MCReadings ==
    [kill |-> BOOLEAN, connected |-> BOOLEAN,
     inventory |-> {MCInventory(a, b, 40) : a \in {-95, -90, 76}, b \in {0, 91}},
     limits |-> {NoFigure, p1 :> 100, (p1 :> 0) @@ (p2 :> 100)},
     quotes |-> {MCQuotes(30000, 5, TRUE, TRUE), p2 :> [mid |-> 1, volatility |-> 0,
                                                        paused |-> TRUE]},
     feeds |-> {MCFeeds(FALSE, FALSE, 2000, 100), MCFeeds(TRUE, TRUE, 2001, 5)},
     pnl |-> {NoFigure, MCPnl(401, 19, 10), MCPnl(500, 0, 50)},
     spread |-> {NoFigure, 0, -10}]

MCSheets == {MCCalm, MCEmpty, MCStorm}

(* TableSort *)

MCRow(createdAt, value) == [createdAt |-> createdAt, value |-> value]

\* No row, values that are missing and values that are equal, newest first.
MCTablePages ==
    {<<>>} \cup {<<MCRow(3, a), MCRow(2, b), MCRow(oldest, c)>> :
                    a, b, c \in {NoValue, 1, 2}, oldest \in {1, 2}}

(* GeoMap: two addresses, one of them on the web server's own host *)

MCService(id, url, place) == [id |-> id, url |-> url, place |-> place]

MCMap(exchange, dashboard, bots) ==
    [exchange |-> exchange, dashboardPlace |-> dashboard, bots |-> bots]

MCMaps ==
    LET exchange == MCService("exchange", "local", NoPlace)
        bot(url, place) == MCService("bot1", url, place)
    IN {MCMap(exchange, NoPlace, <<bot("local", NoPlace), MCService("bot2", "far", NoPlace)>>),
        MCMap(exchange, NoPlace, <<bot("far", NoPlace)>>),
        MCMap([exchange EXCEPT !.place = "known"], "there", <<bot("local", "there")>>)}

MCLookupOf ==
    [local |-> {"here"}, far |-> {"there"}, dashboard |-> {"here", "browser"}]

-----------------------------------------------------------------------------
dashboardVars ==
    <<topologyVars, panelVars, controlVars, riskVars, tableVars, geoVars, part>>

\* Only the part that runs starts in any of its initial states.
Init ==
    /\ part \in {"topology", "panel", "controls", "risk", "table", "map"}
    /\ TopologyInit
    /\ part # "topology" =>
          /\ saved = [d \in Browsers |-> None]
          /\ budget = CHOOSE b \in Plans : TRUE
    /\ PanelInit
    /\ part # "panel" =>
          /\ script = CHOOSE s \in Scripts : TRUE
          /\ plan = CHOOSE p \in PanelPlans : TRUE
    /\ ControlInit
    /\ part # "controls" =>
          /\ settings = DefaultSettings
          /\ allowed = CHOOSE a \in ControlPlans : TRUE
    /\ RiskInit
    /\ part # "risk" => sheet = MCEmpty
    /\ TableInit
    /\ part # "table" => tableRows = <<>>
    /\ GeoInit
    /\ part # "map" => network = MCMap(MCService("exchange", "local", NoPlace), NoPlace,
                                        <<MCService("bot1", "far", NoPlace)>>)

Next ==
    \/ /\ part = "topology"
       /\ TopologyNext
       /\ UNCHANGED <<panelVars, controlVars, riskVars, tableVars, geoVars, part>>
    \/ /\ part = "panel"
       /\ PanelNext
       /\ UNCHANGED <<topologyVars, controlVars, riskVars, tableVars, geoVars, part>>
    \/ /\ part = "controls"
       /\ ControlNext
       /\ UNCHANGED <<topologyVars, panelVars, riskVars, tableVars, geoVars, part>>
    \/ /\ part = "risk"
       /\ RiskNext
       /\ UNCHANGED <<topologyVars, panelVars, controlVars, tableVars, geoVars, part>>
    \/ /\ part = "table"
       /\ TableNext
       /\ UNCHANGED <<topologyVars, panelVars, controlVars, riskVars, geoVars, part>>
    \/ /\ part = "map"
       /\ GeoNext
       /\ UNCHANGED <<topologyVars, panelVars, controlVars, riskVars, tableVars, part>>

Spec == Init /\ [][Next]_dashboardVars

\* d1 and d2 are the browsers and the operators.
Symmetry == Permutations({d1, d2})

=============================================================================
