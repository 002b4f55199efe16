------------------------------- MODULE Engine -------------------------------
(***************************************************************************)
(* The trading engine of one market-maker bot: EngineState, the 250 ms     *)
(* tick loop that quotes through it, and the operator handlers that share  *)
(* it behind one RwLock.                                                   *)
(*                                                                         *)
(* A critical section of the lock is one action.  What the code does with  *)
(* the lock released is where the interleavings are: the tick awaits the   *)
(* exchange's answers between compute_orders and build_payload, and a      *)
(* manual hedge awaits the exchange between reading an inventory and       *)
(* changing it.                                                            *)
(*                                                                         *)
(* Inventory is counted in integer units; prices, spreads and PnL are left *)
(* out.  The exchange's matching engine is reduced to its outcomes.        *)
(***************************************************************************)
EXTENDS Integers, FiniteSets

CONSTANTS
    Pairs,        \* every pair name that may ever appear in a config
    StartPairs,   \* PAIRS: the pairs EngineState::new() creates
    OrderSize,    \* size of a tick order, in inventory units (0.5 in the code)
    Presets,      \* [strategy name -> PairConfig] of strategy_pair_configs
    PairConfigs,  \* the pair configs an operator may post
    Hedgers,      \* identities of concurrent manual-hedge requests
    MaxTicks,     \* bound: ticks that run
    MaxHedges     \* bound: manual hedges that send an order

Strategies == DOMAIN Presets

PairConfig == [enabled : BOOLEAN, maxInventory : Nat,
               hedgingEnabled : BOOLEAN, hedgeThreshold : Nat]

ASSUME PairsAssumption ==
    /\ IsFiniteSet(Pairs)
    /\ StartPairs \subseteq Pairs

ASSUME SizesAssumption ==
    /\ OrderSize \in Nat \ {0}
    /\ MaxTicks \in Nat
    /\ MaxHedges \in Nat

ASSUME ConfigAssumption ==
    /\ PairConfigs \subseteq PairConfig
    /\ Presets \in [Strategies -> PairConfig]
    /\ "balanced" \in Strategies
    /\ \A s \in Strategies : Presets[s].enabled

VARIABLES
    (* EngineState *)
    known,          \* keys of the pairs map
    config,         \* MMConfig: configured pair -> PairConfig
    inventory,      \* per pair
    paused,         \* per pair
    killSwitch,     \* kill_switch_engaged
    activeStrategy,
    totalQuotes,
    totalFills,
    adverseFills,
    (* the tick in progress *)
    phase,          \* "idle" or "placing": between compute_orders and build_payload
    pending,        \* <<pair, side>> sent and not answered yet
    fills,          \* <<pair, side>> answered as filled, not booked yet
    adverse,        \* the fills flagged as adverse selection
    (* manual hedges whose handler is awaiting the exchange or the lock *)
    hedges,
    (* history: what the exchange really executed, and bookkeeping of bounds *)
    position,       \* net executed size per pair
    gap,            \* position the engine has given up tracking, per pair
    carry,          \* tick orders that were live when the session was last reset
    ticks,
    hedgeCount

engineVars == <<known, config, inventory, paused, killSwitch, activeStrategy,
                totalQuotes, totalFills, adverseFills>>
tickVars == <<phase, pending, fills, adverse>>
historyVars == <<position, gap, carry, ticks, hedgeCount>>
vars == <<engineVars, tickVars, hedges, historyVars>>

-----------------------------------------------------------------------------
(* Arithmetic *)

Abs(n) == IF n < 0 THEN -n ELSE n

\* apply_ratio on inventory units, rounding towards zero.
ApplyRatio(v, n, d) == IF v < 0 THEN -((-v * n) \div d) ELSE (v * n) \div d

Sides == {"buy", "sell"}

Signed(side, size) == IF side = "buy" THEN size ELSE -size

\* What a set of filled tick orders adds to the inventory of p.
TickDelta(p, F) == (IF <<p, "buy">> \in F THEN OrderSize ELSE 0)
                   - (IF <<p, "sell">> \in F THEN OrderSize ELSE 0)

HedgeOrder == [id : Hedgers, pair : Pairs, side : Sides, size : Nat \ {0},
               seen : Int, status : {"sent", "filled", "unfilled"}]

PresetConfig(s, P) == [p \in P |-> Presets[s]]

\* Every MMConfig an operator may post: any set of pairs, any config for each.
Configs == UNION {[P -> PairConfigs] : P \in SUBSET Pairs}

Configured == DOMAIN config \cap known

\* Faulty variant of Active: the pause flag is not consulted.
ActiveIgnoringPause == {p \in Configured : config[p].enabled}

\* Pairs whose quote loop body runs past both early exits.
Active == {p \in Configured : config[p].enabled /\ ~paused[p]}

Live == pending \cup fills

-----------------------------------------------------------------------------
Init ==
    /\ known = StartPairs
    /\ config = PresetConfig("balanced", StartPairs)
    /\ inventory = [p \in Pairs |-> 0]
    /\ paused = [p \in Pairs |-> FALSE]
    /\ killSwitch = FALSE
    /\ activeStrategy = "balanced"
    /\ totalQuotes = 0
    /\ totalFills = 0
    /\ adverseFills = 0
    /\ phase = "idle"
    /\ pending = {}
    /\ fills = {}
    /\ adverse = {}
    /\ hedges = {}
    /\ position = [p \in Pairs |-> 0]
    /\ gap = [p \in Pairs |-> 0]
    /\ carry = 0
    /\ ticks = 0
    /\ hedgeCount = 0

-----------------------------------------------------------------------------
(* The tick *)

\* A disabled pair is (re)paused whenever a loop over the config meets it.
PauseDisabled == {p \in Configured : ~config[p].enabled}

\* Faulty variant of QuotingAllowed: relies on the pause flags alone.
QuotingAlways == TRUE

QuotingAllowed == ~killSwitch

\* bot_tick_once, step 1: nothing is quoted while the kill switch is engaged;
\* otherwise one buy and one sell for every active pair.
ComputeOrders ==
    /\ phase = "idle"
    /\ ticks < MaxTicks
    /\ phase' = "placing"
    /\ ticks' = ticks + 1
    /\ \/ /\ ~QuotingAllowed
          /\ UNCHANGED <<pending, totalQuotes, paused>>
       \/ /\ QuotingAllowed
          /\ pending' = Active \X Sides
          /\ totalQuotes' = totalQuotes + Cardinality(Active)
          /\ paused' = [p \in Pairs |-> paused[p] \/ p \in PauseDisabled]
    /\ UNCHANGED <<known, config, inventory, killSwitch, activeStrategy,
                   totalFills, adverseFills, fills, adverse, hedges,
                   position, gap, carry, hedgeCount>>

Execute(p, side, size) ==
    position' = [position EXCEPT ![p] = @ + Signed(side, size)]

\* The exchange answers one order of the batch.
AnswerOrder(o) ==
    /\ o \in pending
    /\ pending' = pending \ {o}
    /\ \/ UNCHANGED <<fills, adverse, position>>
       \/ /\ fills' = fills \cup {o}
          /\ adverse' \in {adverse, adverse \cup {o}}
          /\ Execute(o[1], o[2], OrderSize)
    /\ UNCHANGED <<engineVars, phase, hedges, gap, carry, ticks, hedgeCount>>

\* Faulty variant of LoseOrder: an order without an answer is sent again.
LoseOrderRetried(o) ==
    /\ o \in pending
    /\ \/ UNCHANGED <<position, gap>>
       \/ /\ Execute(o[1], o[2], OrderSize)
          /\ gap' = [gap EXCEPT ![o[1]] = @ + Signed(o[2], OrderSize)]
    /\ UNCHANGED <<engineVars, tickVars, hedges, carry, ticks, hedgeCount>>

\* The request or its answer is lost, or the answer does not parse: the order
\* is dropped from the batch, whether or not the exchange executed it.
LoseOrder(o) ==
    /\ o \in pending
    /\ pending' = pending \ {o}
    /\ \/ UNCHANGED <<position, gap>>
       \/ /\ Execute(o[1], o[2], OrderSize)
          /\ gap' = [gap EXCEPT ![o[1]] = @ + Signed(o[2], OrderSize)]
    /\ UNCHANGED <<engineVars, phase, fills, adverse, hedges,
                   carry, ticks, hedgeCount>>

\* process_exchange_fills: responses for pairs that are not known are skipped.
Booked(F) == {f \in F : f[1] \in known}

FilledInventory(F) == [p \in Pairs |-> inventory[p] + TickDelta(p, Booked(F))]

\* Faulty variant of Breached: checks the inventory from before the fills.
BreachedBeforeFills(inv) ==
    {p \in Active : Abs(inventory[p]) > config[p].maxInventory}

\* update_quotes_and_inventory: only active pairs are checked against their
\* limit and auto-hedged; the limit is checked before the hedge shrinks the
\* inventory.  No order backs the hedge.
Breached(inv) == {p \in Active : Abs(inv[p]) > config[p].maxInventory}

AutoHedged(inv) == {p \in Active : /\ config[p].hedgingEnabled
                                   /\ Abs(inv[p]) > config[p].hedgeThreshold}

BuildPayload(F, A) ==
    LET inv == FilledInventory(F) IN
    /\ inventory' = [p \in Pairs |-> IF p \in AutoHedged(inv)
                                     THEN ApplyRatio(inv[p], 55, 100)
                                     ELSE inv[p]]
    /\ paused' = [p \in Pairs |-> paused[p] \/ p \in PauseDisabled \cup Breached(inv)]
    /\ totalFills' = totalFills + Cardinality(Booked(F))
    /\ adverseFills' = adverseFills + Cardinality(Booked(A))
    /\ gap' = [p \in Pairs |-> gap[p] + inv[p] - inventory'[p]]
    /\ UNCHANGED <<known, config, killSwitch, activeStrategy, totalQuotes>>

\* bot_tick_once, step 3: join_all has every answer; book them and publish.
Publish ==
    /\ phase = "placing"
    /\ pending = {}
    /\ BuildPayload(fills, adverse)
    /\ phase' = "idle"
    /\ fills' = {}
    /\ adverse' = {}
    /\ UNCHANGED <<pending, hedges, position, carry, ticks, hedgeCount>>

\* A dashboard opens /stream: its first message is a payload built on the spot,
\* with every side effect of building one.
StreamConnect ==
    /\ BuildPayload({}, {})
    /\ UNCHANGED <<tickVars, hedges, position, carry, ticks, hedgeCount>>

-----------------------------------------------------------------------------
(* Operator handlers *)

\* Faulty variant of KnownWith: a configured pair is not entered in the map.
KnownUnchanged(c) == known

\* entry().or_insert_with(): a pair met for the first time starts from scratch.
KnownWith(c) == known \cup DOMAIN c

UpdateConfig(c) ==
    /\ config' = c
    /\ known' = KnownWith(c)
    /\ paused' = [p \in Pairs |-> IF p \in DOMAIN c THEN ~c[p].enabled ELSE paused[p]]
    /\ UNCHANGED <<inventory, killSwitch, activeStrategy, totalQuotes,
                   totalFills, adverseFills, tickVars, hedges, historyVars>>

PausePair(p, flag) ==
    /\ p \in known
    /\ paused' = [paused EXCEPT ![p] = flag]
    /\ UNCHANGED <<known, config, inventory, killSwitch, activeStrategy,
                   totalQuotes, totalFills, adverseFills, tickVars, hedges,
                   historyVars>>

\* The flag is copied to every known pair, in both directions.
KillSwitch(engaged) ==
    /\ killSwitch' = engaged
    /\ paused' = [p \in Pairs |-> IF p \in known THEN engaged ELSE paused[p]]
    /\ UNCHANGED <<known, config, inventory, activeStrategy, totalQuotes,
                   totalFills, adverseFills, tickVars, hedges, historyVars>>

\* apply_strategy_preset: new configs for the pairs that are configured now.
ApplyStrategyPreset(s) ==
    /\ config' = PresetConfig(s, DOMAIN config)
    /\ paused' = [p \in Pairs |-> IF p \in Configured THEN ~Presets[s].enabled
                                                      ELSE paused[p]]
    /\ activeStrategy' = s

SetStrategy(s) ==
    /\ ApplyStrategyPreset(s)
    /\ UNCHANGED <<known, inventory, killSwitch, totalQuotes, totalFills,
                   adverseFills, tickVars, hedges, historyVars>>

\* Faulty variant of ClearCounters: the fill counter survives.
ClearCountersButFills ==
    /\ totalQuotes' = 0
    /\ adverseFills' = 0
    /\ UNCHANGED totalFills

ClearCounters ==
    /\ totalQuotes' = 0
    /\ totalFills' = 0
    /\ adverseFills' = 0

\* reset_session: the inventory of every known pair, but the config and the
\* pause flags of the configured pairs only.
ResetSession ==
    /\ inventory' = [p \in Pairs |-> IF p \in known THEN 0 ELSE inventory[p]]
    /\ ClearCounters
    /\ killSwitch' = FALSE
    /\ ApplyStrategyPreset("balanced")
    /\ gap' = [p \in Pairs |-> gap[p] + inventory[p] - inventory'[p]]
    /\ carry' = Cardinality(Live)
    /\ UNCHANGED <<known, tickVars, hedges, position, ticks, hedgeCount>>

-----------------------------------------------------------------------------
(* Manual hedge: read under the lock, order without it, apply under it *)

HedgeSize(inv) == Abs(inv - ApplyRatio(inv, 25, 100))

\* A flat pair is answered without an order; an unknown one with 404.
StartHedge(h, p) ==
    /\ \A r \in hedges : r.id # h
    /\ hedgeCount < MaxHedges
    /\ p \in known
    /\ HedgeSize(inventory[p]) # 0
    /\ hedges' = hedges \cup
          {[id |-> h, pair |-> p, size |-> HedgeSize(inventory[p]),
            side |-> IF inventory[p] >= 0 THEN "sell" ELSE "buy",
            seen |-> inventory[p], status |-> "sent"]}
    /\ hedgeCount' = hedgeCount + 1
    /\ UNCHANGED <<engineVars, tickVars, position, gap, carry, ticks>>

AnswerHedge(r) ==
    /\ r.status = "sent"
    /\ \/ /\ hedges' = (hedges \ {r}) \cup {[r EXCEPT !.status = "unfilled"]}
          /\ UNCHANGED position
       \/ /\ hedges' = (hedges \ {r}) \cup {[r EXCEPT !.status = "filled"]}
          /\ Execute(r.pair, r.side, r.size)
    /\ UNCHANGED <<engineVars, tickVars, gap, carry, ticks, hedgeCount>>

\* Faulty variant of HedgeDelta: books the order without looking at "filled".
HedgeDeltaUnchecked(r) == Signed(r.side, r.size)

HedgeDelta(r) == IF r.status = "filled" THEN Signed(r.side, r.size) ELSE 0

\* update_pair_after_hedge, against whatever the inventory is by now.
ApplyHedge(r) ==
    /\ r.status # "sent"
    /\ inventory' = [inventory EXCEPT ![r.pair] = @ + HedgeDelta(r)]
    /\ hedges' = hedges \ {r}
    /\ UNCHANGED <<known, config, paused, killSwitch, activeStrategy, totalQuotes,
                   totalFills, adverseFills, tickVars, historyVars>>

\* The POST fails (502), or the client goes away and its handler is dropped at
\* an await: nothing is applied, whether or not the exchange executed.
FailHedge(r) ==
    /\ hedges' = hedges \ {r}
    /\ \/ /\ r.status # "filled"
          /\ UNCHANGED <<position, gap>>
       \/ /\ r.status = "sent"
          /\ Execute(r.pair, r.side, r.size)
          /\ gap' = [gap EXCEPT ![r.pair] = @ + Signed(r.side, r.size)]
       \/ /\ r.status = "filled"
          /\ gap' = [gap EXCEPT ![r.pair] = @ + Signed(r.side, r.size)]
          /\ UNCHANGED position
    /\ UNCHANGED <<engineVars, tickVars, carry, ticks, hedgeCount>>

-----------------------------------------------------------------------------
TickNext ==
    \/ ComputeOrders
    \/ \E o \in pending : AnswerOrder(o) \/ LoseOrder(o)
    \/ Publish
    \/ StreamConnect

OperatorNext ==
    \/ \E c \in Configs : UpdateConfig(c)
    \/ \E p \in Pairs, flag \in BOOLEAN : PausePair(p, flag)
    \/ \E engaged \in BOOLEAN : KillSwitch(engaged)
    \/ \E s \in Strategies : SetStrategy(s)
    \/ ResetSession

HedgeNext ==
    \/ \E h \in Hedgers, p \in Pairs : StartHedge(h, p)
    \/ \E r \in hedges : AnswerHedge(r) \/ ApplyHedge(r) \/ FailHedge(r)

Next == TickNext \/ OperatorNext \/ HedgeNext

Spec == Init /\ [][Next]_vars

-----------------------------------------------------------------------------
(* Operating discipline: whatever can put a pair (back) into quoting is done  *)
(* on a flat book with no order out, and nobody hedges by hand.  Stopping and *)
(* resetting are allowed at any time.                                         *)

FlatBook == Live = {} /\ \A p \in Pairs : inventory[p] = 0

CautiousOperatorNext ==
    \/ \E p \in Pairs : PausePair(p, TRUE)
    \/ KillSwitch(TRUE)
    \/ ResetSession
    \/ /\ FlatBook
       /\ \/ \E c \in Configs : UpdateConfig(c)
          \/ \E p \in Pairs : PausePair(p, FALSE)
          \/ KillSwitch(FALSE)
          \/ \E s \in Strategies : SetStrategy(s)

CautiousNext == TickNext \/ CautiousOperatorNext

CautiousSpec == Init /\ [][CautiousNext]_vars

-----------------------------------------------------------------------------
(* Properties *)

\* The engine quotes as Quoting promises: whatever else the handlers, the tick
\* and the hedges do to it, the pairs that get orders, and when, are as there.
Q == INSTANCE Quoting WITH active <- Active

QuotesAsPromised == Q!Spec

\* Every variable has its type, the pairs that are configured are known, and
\* an idle loop has no order out.
TypeOK ==
    /\ known \subseteq Pairs
    /\ config \in [DOMAIN config -> PairConfig]
    /\ DOMAIN config \subseteq known
    /\ inventory \in [Pairs -> Int]
    /\ paused \in [Pairs -> BOOLEAN]
    /\ killSwitch \in BOOLEAN
    /\ activeStrategy \in Strategies
    /\ totalQuotes \in Nat
    /\ totalFills \in Nat
    /\ adverseFills \in Nat
    /\ phase \in {"idle", "placing"}
    /\ pending \subseteq known \X Sides
    /\ fills \subseteq known \X Sides
    /\ adverse \subseteq fills
    /\ hedges \subseteq HedgeOrder
    /\ position \in [Pairs -> Int]
    /\ gap \in [Pairs -> Int]
    /\ carry \in Nat
    /\ ticks \in Nat
    /\ hedgeCount \in Nat
    /\ phase = "idle" => Live = {}

\* fill_rate and adverse_selection_rate stay meaningful across a reset that
\* lands while a tick is out: fills are at most two per quote counted, up to
\* the orders that were live at the reset, and adverse fills are among fills.
FillsCovered ==
    /\ totalFills + Cardinality(Live) <= 2 * totalQuotes + carry
    /\ adverseFills <= totalFills

\* Active pairs whose inventory is over their limit.
Exposed == {p \in Active : Abs(inventory[p]) > config[p].maxInventory}

\* The tick and the stream never put an over-limit pair into quoting, and
\* whenever a payload is built none is left there: only an operator's handler
\* or a manual hedge can, until the next payload.
TickNeverExposes ==
    [][/\ TickNext => Exposed' \subseteq Exposed
       /\ Publish \/ StreamConnect => Exposed' = {}]_vars

\* Under the operating discipline no pair is ever further beyond its
\* max_inventory than the one order the limit check comes too late for.
ExposureBound ==
    \A p \in DOMAIN config :
        Abs(inventory[p]) <= config[p].maxInventory + OrderSize

=============================================================================
