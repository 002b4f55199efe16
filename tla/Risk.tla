-------------------------------- MODULE Risk --------------------------------
(***************************************************************************)
(* Two judgements of the same figures of a bot: the alerts of the alert    *)
(* panel and the metrics of the risk section, each with thresholds of its  *)
(* own.  The figures change one at a time, as payloads bring them.         *)
(*                                                                         *)
(* Sizes, skews and volatilities are in hundredths, rates in thousandths,  *)
(* the average spread in ten-thousandths, the rest in units.               *)
(***************************************************************************)
EXTENDS Integers, Sequences, SequencesExt, FiniteSetsExt, Places

CONSTANTS
    Sheets,     \* what the figures may be at first
    Readings,   \* figure -> the values it may take
    MaxMoves,   \* bound: figures that change
    NoFigure    \* null, no snapshot

VARIABLES
    sheet,      \* kill, connected, inventory, limits, quotes, feeds, pnl, spread
    moves       \* figures that changed

riskVars == <<sheet, moves>>

Figures == {"kill", "connected", "inventory", "limits", "quotes", "feeds", "pnl", "spread"}

\* What the stream's schema lets a figure be; a limit is positive, and 0 when it
\* is less than a hundredth.
IsFigure(figure, value) ==
    /\ figure \in {"kill", "connected"} => value \in BOOLEAN
    /\ figure = "inventory" =>
          /\ IsFiniteSet(DOMAIN value)
          /\ \A p \in DOMAIN value : value[p] \in [size : Int, skew : Int]
    /\ figure = "limits" =>
          value = NoFigure \/ \A p \in DOMAIN value : value[p] \in Nat
    /\ figure = "quotes" =>
          /\ IsFiniteSet(DOMAIN value)
          /\ \A p \in DOMAIN value :
                value[p] \in [mid : Int, volatility : Int, paused : BOOLEAN]
    /\ figure = "feeds" =>
          /\ IsFiniteSet(DOMAIN value)
          /\ \A f \in DOMAIN value :
                value[f] \in [connected : BOOLEAN, staleness : Int, latency : Int]
    /\ figure = "pnl" =>
          value = NoFigure \/ value \in [adverse : Int, fillRate : Int, hedging : Int]
    /\ figure = "spread" => value = NoFigure \/ value \in Int

ASSUME RiskAssumption ==
    /\ \A s \in Sheets :
          DOMAIN s = Figures /\ \A figure \in Figures : IsFigure(figure, s[figure])
    /\ \A figure \in DOMAIN Readings :
          figure \in Figures /\ \A value \in Readings[figure] : IsFigure(figure, value)

RiskInit == sheet \in Sheets /\ moves = 0

\* A payload brings another value of a figure.
Read(figure) ==
    /\ moves < MaxMoves
    /\ \E value \in Readings[figure] \ {sheet[figure]} :
          sheet' = [sheet EXCEPT ![figure] = value]
    /\ moves' = moves + 1

RiskNext == \E figure \in DOMAIN Readings : Read(figure)

-----------------------------------------------------------------------------
AbsOf(n) == IF n < 0 THEN -n ELSE n

\* The largest value of a set, and zero at least.
Highest(S) == Max(S \cup {0})

(* Exposure *)

\* Faulty variant of PctOfLimit: a short position is not counted.
PctOfLong(p) ==
    LET limit == IF sheet.limits # NoFigure /\ p \in DOMAIN sheet.limits
                 THEN sheet.limits[p] ELSE 100
    IN IF limit > 0 THEN (sheet.inventory[p].size * 100) \div limit ELSE 0

\* A pair without a limit in the config has one of 1.
PctOfLimit(p) ==
    LET limit == IF sheet.limits # NoFigure /\ p \in DOMAIN sheet.limits
                 THEN sheet.limits[p] ELSE 100
    IN IF limit > 0 THEN (AbsOf(sheet.inventory[p].size) * 100) \div limit ELSE 0

\* In hundredths; a pair without a quote counts for nothing.
Notional(p) ==
    IF p \in DOMAIN sheet.quotes
    THEN AbsOf(sheet.inventory[p].size) * sheet.quotes[p].mid ELSE 0

-----------------------------------------------------------------------------
(* The risk report *)

Above(value, warn, critical) ==
    CASE value >= critical -> "red"
      [] value < critical /\ value >= warn -> "yellow"
      [] OTHER -> "green"

Below(value, warn, critical) == Above(-value, -warn, -critical)

Metric(name, status) == [metric |-> name, status |-> status]

ExposureMetrics ==
    LET held == DOMAIN sheet.inventory IN
    <<Metric("inventory_skew_pct",
             Above(Highest({AbsOf(sheet.inventory[p].skew) : p \in held}), 25, 40)),
      Metric("position_pct_of_limit",
             Above(Highest({PctOfLimit(p) : p \in held}), 70, 90)),
      Metric("total_notional_usd",
             Above(SumFunctionOnSet([p \in held |-> Notional(p)], held),
                   1000000, 2500000))>>

PnlMetrics ==
    (IF sheet.spread = NoFigure THEN <<>>
     ELSE <<Metric("avg_realized_spread", Below(sheet.spread, 0, -10))>>)
    \o
    (IF sheet.pnl = NoFigure THEN <<>>
     ELSE <<Metric("adverse_selection_rate", Above(sheet.pnl.adverse, 300, 500)),
            Metric("fill_rate", Below(sheet.pnl.fillRate, 50, 10)),
            Metric("hedging_costs", Above(sheet.pnl.hedging, 10, 50))>>)

MarketMetrics ==
    LET feeds == DOMAIN sheet.feeds IN
    <<Metric("feed_staleness_ms",
             Above(Highest({sheet.feeds[f].staleness : f \in feeds}), 1000, 2000)),
      Metric("realized_volatility",
             Above(Highest({sheet.quotes[p].volatility : p \in DOMAIN sheet.quotes}), 2, 5)),
      Metric("tick_latency_ms",
             Above(Highest({sheet.feeds[f].latency : f \in feeds}), 100, 500))>>

Disconnected == {f \in DOMAIN sheet.feeds : ~sheet.feeds[f].connected}
Paused == {p \in DOMAIN sheet.quotes : sheet.quotes[p].paused}

\* Some is a warning, all of them is critical.
SomeOrAll(some, all) ==
    Above(Cardinality(some), 1, IF all = {} THEN 1 ELSE Cardinality(all))

ExecMetrics ==
    <<Metric("bot_connected", IF sheet.connected THEN "green" ELSE "red"),
      Metric("exchange_disconnects", SomeOrAll(Disconnected, DOMAIN sheet.feeds)),
      Metric("paused_pairs", SomeOrAll(Paused, DOMAIN sheet.quotes)),
      Metric("kill_switch", IF sheet.kill THEN "red" ELSE "green")>>

AllMetrics == ExposureMetrics \o PnlMetrics \o MarketMetrics \o ExecMetrics

\* Faulty variant of Breaches: they stay in the order of the table.
BreachesAsListed(metrics) ==
    ElementsAt(metrics, {i \in DOMAIN metrics : metrics[i].status # "green"})

\* Red ones first, otherwise as in the table.
Breaches(metrics) ==
    LET With(status) ==
            ElementsAt(metrics, {i \in DOMAIN metrics : metrics[i].status = status})
    IN With("red") \o With("yellow")

OverallStatus(breaches) ==
    LET some(status) == \E i \in DOMAIN breaches : breaches[i].status = status
    IN IF some("red") THEN "red" ELSE IF some("yellow") THEN "yellow" ELSE "green"

\* "Top Active Breaches"
TopBreaches(breaches) == SubSeq(breaches, 1, Min({5, Len(breaches)}))

-----------------------------------------------------------------------------
(* The alerts *)

Alert(id, severity) == [id |-> id, severity |-> severity]

\* The pairs whose position is beyond a share of their limit.
Beyond(pct) ==
    IF sheet.limits = NoFigure THEN {}
    ELSE {p \in DOMAIN sheet.inventory \cap DOMAIN sheet.limits :
             /\ sheet.limits[p] # 0
             /\ AbsOf(sheet.inventory[p].size) * 100 > pct * sheet.limits[p]}

DeriveAlerts ==
    (IF sheet.kill THEN {Alert("kill-switch", "critical")} ELSE {})
    \cup (IF Disconnected # {} THEN {Alert("exchange-disconnect", "critical")} ELSE {})
    \cup (IF \E f \in DOMAIN sheet.feeds : sheet.feeds[f].staleness > 2000
          THEN {Alert("feed-stale", "warning")} ELSE {})
    \cup (IF Beyond(90) # {} THEN {Alert("inv-crit", "critical")} ELSE {})
    \cup (IF Beyond(75) \ Beyond(90) # {} THEN {Alert("inv-warn", "warning")} ELSE {})
    \cup (IF sheet.pnl # NoFigure /\ sheet.pnl.adverse > 400
          THEN {Alert("adverse-high", "warning")} ELSE {})
    \cup (IF sheet.pnl # NoFigure /\ sheet.pnl.fillRate \in 1 .. 19
          THEN {Alert("fill-low", "warning")} ELSE {})
    \cup (IF Paused # {} /\ Paused = DOMAIN sheet.quotes /\ ~sheet.kill
          THEN {Alert("all-paused", "warning")} ELSE {})

-----------------------------------------------------------------------------
(* Properties *)

\* The metric that judges what an alert is about.
MetricOf(alert) ==
    CASE alert.id = "kill-switch" -> "kill_switch"
      [] alert.id = "exchange-disconnect" -> "exchange_disconnects"
      [] alert.id = "feed-stale" -> "feed_staleness_ms"
      [] alert.id \in {"inv-crit", "inv-warn"} -> "position_pct_of_limit"
      [] alert.id = "adverse-high" -> "adverse_selection_rate"
      [] alert.id = "fill-low" -> "fill_rate"
      [] alert.id = "all-paused" -> "paused_pairs"

\* The alert panel and the risk section never contradict each other: whatever
\* raises an alert is a breach in the risk report too, and a critical alert is a
\* red one (a feed that is disconnected while others are not is a yellow one).
AlertsAreBreaches ==
    \A alert \in DeriveAlerts : \E m \in Range(Breaches(AllMetrics)) :
        /\ m.metric = MetricOf(alert)
        /\ alert.severity = "critical" /\ alert.id # "exchange-disconnect" =>
              m.status = "red"

\* The five breaches on display hide no red one behind a yellow one, and the
\* badge above them says the worst of all.
TopBreachesAreTheWorst ==
    LET metrics == AllMetrics
        breaches == Breaches(metrics)
        shown == Range(TopBreaches(breaches))
        reds == {m \in Range(metrics) : m.status = "red"}
    IN /\ \/ reds \subseteq shown
          \/ Cardinality(shown) = 5 /\ shown \subseteq reds
       /\ OverallStatus(breaches) = "red" <=> reds # {}
       /\ OverallStatus(breaches) = "green" <=>
             \A m \in Range(metrics) : m.status = "green"

=============================================================================
