---------------------------- MODULE EngineProofs ----------------------------
(* Theorems of Engine, for every set of pairs, order size, preset and bound.  *)
EXTENDS EngineAudit, FiniteLemmas, FiniteSetTheorems, TLAPS

-----------------------------------------------------------------------------
(* Lemmas: arithmetic of inventories *)

\* What the code's apply_ratio does to an inventory in the two places that call
\* it: an auto-hedge never changes its sign or grows it.
LEMMA AutoHedgeShrinks ==
    ASSUME NEW v \in Int
    PROVE  /\ ApplyRatio(v, 55, 100) \in Int
           /\ Abs(ApplyRatio(v, 55, 100)) <= Abs(v)
BY DEF ApplyRatio, Abs

\* A manual hedge sends a whole number of units, none for a flat pair.
LEMMA HedgeSizeType ==
    ASSUME NEW v \in Int
    PROVE  HedgeSize(v) \in Nat
BY DEF HedgeSize, ApplyRatio, Abs

LEMMA SignedType ==
    ASSUME NEW side \in Sides, NEW size \in Int
    PROVE  Signed(side, size) \in Int
BY DEF Signed

LEMMA TickDeltaType ==
    ASSUME NEW p, NEW F
    PROVE  TickDelta(p, F) \in Int /\ Abs(TickDelta(p, F)) <= OrderSize
BY SizesAssumption DEF TickDelta, Abs

-----------------------------------------------------------------------------
(* Type correctness *)

LEMMA SidesFinite == IsFiniteSet(Sides) /\ Cardinality(Sides) = 2
<1>1. IsFiniteSet({"buy"}) /\ Cardinality({"buy"}) = 1
  BY FS_Singleton
<1>2. Sides = {"buy"} \cup {"sell"}
  BY DEF Sides
<1> QED
  BY <1>1, <1>2, FS_AddElement

\* Every set of tick orders is finite: the loop sends two per pair.
LEMMA OrdersFinite ==
    ASSUME NEW F \in SUBSET (Pairs \X Sides)
    PROVE  IsFiniteSet(F) /\ Cardinality(F) \in Nat
<1>1. IsFiniteSet(Pairs \X Sides)
  BY PairsAssumption, SidesFinite, FS_Product
<1> QED
  BY <1>1, FS_Subset, FS_CardinalityType

LEMMA ActiveFinite ==
    ASSUME TypeOK
    PROVE  /\ Active \subseteq known
           /\ IsFiniteSet(Active)
           /\ Cardinality(Active) \in Nat
<1>1. Active \in SUBSET Pairs /\ Active \subseteq known
  BY DEF TypeOK, Active, Configured
<1> QED
  BY <1>1, PairsAssumption, FS_Subset, FS_CardinalityType

\* Building a payload, in the tick or for a stream, keeps the engine typed.
LEMMA BuildPayloadType ==
    ASSUME TypeOK, NEW F \in SUBSET (Pairs \X Sides),
           NEW A \in SUBSET (Pairs \X Sides), BuildPayload(F, A)
    PROVE  /\ inventory' \in [Pairs -> Int]
           /\ paused' \in [Pairs -> BOOLEAN]
           /\ gap' \in [Pairs -> Int]
           /\ totalFills' \in Nat
           /\ adverseFills' \in Nat
           /\ UNCHANGED <<known, config, killSwitch, activeStrategy, totalQuotes>>
<1> DEFINE inv == FilledInventory(F)
<1>1. inv \in [Pairs -> Int]
  BY TickDeltaType DEF TypeOK, FilledInventory
<1>2. \A p \in Pairs : ApplyRatio(inv[p], 55, 100) \in Int
  BY <1>1, AutoHedgeShrinks
<1>3. /\ inventory' = [p \in Pairs |-> IF p \in AutoHedged(inv)
                                       THEN ApplyRatio(inv[p], 55, 100)
                                       ELSE inv[p]]
      /\ gap' = [p \in Pairs |-> gap[p] + inv[p] - inventory'[p]]
  BY DEF BuildPayload
<1> HIDE DEF inv
<1>4. inventory' \in [Pairs -> Int]
  BY <1>1, <1>2, <1>3
<1>5. gap' \in [Pairs -> Int]
  BY <1>1, <1>3, <1>4 DEF TypeOK
<1>6. Booked(F) \in SUBSET (Pairs \X Sides) /\ Booked(A) \in SUBSET (Pairs \X Sides)
  BY DEF Booked
<1>7. Cardinality(Booked(F)) \in Nat /\ Cardinality(Booked(A)) \in Nat
  BY <1>6, OrdersFinite
<1>8. totalFills' \in Nat /\ adverseFills' \in Nat
  BY <1>7 DEF TypeOK, BuildPayload
<1>9. paused' \in [Pairs -> BOOLEAN]
  BY DEF TypeOK, BuildPayload
<1> QED
  BY <1>4, <1>5, <1>8, <1>9 DEF BuildPayload

LEMMA PresetType ==
    ASSUME NEW s \in Strategies, NEW P
    PROVE  /\ PresetConfig(s, P) \in [P -> PairConfig]
           /\ DOMAIN PresetConfig(s, P) = P
BY ConfigAssumption DEF PresetConfig

LEMMA InitType == Init => TypeOK
<1> SUFFICES ASSUME Init PROVE TypeOK
  OBVIOUS
<1>1. "balanced" \in Strategies
  BY ConfigAssumption
<1>2. config \in [StartPairs -> PairConfig] /\ DOMAIN config = StartPairs
  BY <1>1, PresetType DEF Init
<1>3. DOMAIN config \subseteq known /\ known \subseteq Pairs
  BY <1>2, PairsAssumption DEF Init
<1>4. /\ inventory \in [Pairs -> Int] /\ paused \in [Pairs -> BOOLEAN]
      /\ position \in [Pairs -> Int] /\ gap \in [Pairs -> Int]
  BY DEF Init
<1>5. config \in [DOMAIN config -> PairConfig]
  BY <1>2
<1> QED
  BY <1>1, <1>3, <1>4, <1>5 DEF Init, TypeOK, Live

LEMMA NextType == TypeOK /\ [Next]_vars => TypeOK'
<1> SUFFICES ASSUME TypeOK, [Next]_vars PROVE TypeOK'
  OBVIOUS
<1> USE DEF Live
<1>1. CASE ComputeOrders
  <2>1. pending' \subseteq known \X Sides
    BY <1>1, ActiveFinite DEF ComputeOrders, TypeOK
  <2>2. totalQuotes' \in Nat
    BY <1>1, ActiveFinite DEF ComputeOrders, TypeOK
  <2>3. paused' \in [Pairs -> BOOLEAN]
    BY <1>1 DEF ComputeOrders, TypeOK
  <2> QED
    BY <1>1, <2>1, <2>2, <2>3 DEF ComputeOrders, TypeOK
<1>2. ASSUME NEW o \in pending, AnswerOrder(o) PROVE TypeOK'
  <2>1. o \in Pairs \X Sides /\ o[1] \in Pairs /\ o[2] \in Sides
    BY <1>2 DEF TypeOK
  <2>2. Signed(o[2], OrderSize) \in Int
    BY <2>1, SignedType, SizesAssumption
  <2>3. position' \in [Pairs -> Int]
    BY <1>2, <2>1, <2>2 DEF AnswerOrder, Execute, TypeOK
  <2>4. /\ pending' \subseteq known \X Sides
        /\ fills' \subseteq known \X Sides
        /\ adverse' \subseteq fills'
    BY <1>2 DEF AnswerOrder, TypeOK
  <2> QED
    BY <1>2, <2>3, <2>4 DEF AnswerOrder, TypeOK, engineVars
<1>3. ASSUME NEW o \in pending, LoseOrder(o) PROVE TypeOK'
  <2>1. o \in Pairs \X Sides /\ o[1] \in Pairs /\ o[2] \in Sides
    BY <1>3 DEF TypeOK
  <2>2. Signed(o[2], OrderSize) \in Int
    BY <2>1, SignedType, SizesAssumption
  <2>3. position' \in [Pairs -> Int] /\ gap' \in [Pairs -> Int]
    BY <1>3, <2>1, <2>2 DEF LoseOrder, Execute, TypeOK
  <2> QED
    BY <1>3, <2>3 DEF LoseOrder, TypeOK, engineVars
<1>4. CASE Publish
  <2>1. fills \in SUBSET (Pairs \X Sides) /\ adverse \in SUBSET (Pairs \X Sides)
    BY DEF TypeOK
  <2> QED
    BY <1>4, <2>1, BuildPayloadType DEF Publish, TypeOK
<1>5. CASE StreamConnect
  <2>1. {} \in SUBSET (Pairs \X Sides)
    OBVIOUS
  <2> QED
    BY <1>5, <2>1, BuildPayloadType DEF StreamConnect, TypeOK, tickVars
<1>6. ASSUME NEW c \in Configs, UpdateConfig(c) PROVE TypeOK'
  <2>1. c \in [DOMAIN c -> PairConfig] /\ DOMAIN c \subseteq Pairs
    BY ConfigAssumption DEF Configs
  <2>2. paused' \in [Pairs -> BOOLEAN]
    BY <1>6, <2>1 DEF UpdateConfig, TypeOK, PairConfig
  <2> QED
    BY <1>6, <2>1, <2>2 DEF UpdateConfig, KnownWith, TypeOK, tickVars, historyVars
<1>7. ASSUME NEW p \in Pairs, NEW flag \in BOOLEAN, PausePair(p, flag)
      PROVE  TypeOK'
  BY <1>7 DEF PausePair, TypeOK, tickVars, historyVars
<1>8. ASSUME NEW engaged \in BOOLEAN, KillSwitch(engaged) PROVE TypeOK'
  BY <1>8 DEF KillSwitch, TypeOK, tickVars, historyVars
<1>9. ASSUME NEW s \in Strategies, SetStrategy(s) PROVE TypeOK'
  <2>1. config' \in [DOMAIN config' -> PairConfig] /\ DOMAIN config' = DOMAIN config
    BY <1>9, PresetType DEF SetStrategy, ApplyStrategyPreset
  <2>2. paused' \in [Pairs -> BOOLEAN]
    BY <1>9, ConfigAssumption
    DEF SetStrategy, ApplyStrategyPreset, TypeOK, PairConfig
  <2> QED
    BY <1>9, <2>1, <2>2
    DEF SetStrategy, ApplyStrategyPreset, TypeOK, tickVars, historyVars
<1>10. CASE ResetSession
  <2>1. "balanced" \in Strategies
    BY ConfigAssumption
  <2>2. config' \in [DOMAIN config' -> PairConfig] /\ DOMAIN config' = DOMAIN config
    BY <1>10, <2>1, PresetType DEF ResetSession, ApplyStrategyPreset
  <2>3. paused' \in [Pairs -> BOOLEAN]
    BY <1>10, <2>1, ConfigAssumption
    DEF ResetSession, ApplyStrategyPreset, TypeOK, PairConfig
  <2>4. inventory' \in [Pairs -> Int] /\ gap' \in [Pairs -> Int]
    BY <1>10 DEF ResetSession, TypeOK
  <2>5. carry' \in Nat
    <3>1. Live \in SUBSET (Pairs \X Sides)
      BY DEF TypeOK
    <3> QED
      BY <1>10, <3>1, OrdersFinite DEF ResetSession
  <2> QED
    BY <1>10, <2>1, <2>2, <2>3, <2>4, <2>5
    DEF ResetSession, ApplyStrategyPreset, ClearCounters, TypeOK, tickVars
<1>11. ASSUME NEW h \in Hedgers, NEW p \in Pairs, StartHedge(h, p) PROVE TypeOK'
  <2>1. HedgeSize(inventory[p]) \in Nat \ {0}
    BY <1>11, HedgeSizeType DEF StartHedge, TypeOK
  <2>2. hedges' \subseteq HedgeOrder
    BY <1>11, <2>1 DEF StartHedge, TypeOK, HedgeOrder, Sides
  <2>3. hedgeCount' \in Nat
    BY <1>11 DEF StartHedge, TypeOK
  <2> QED
    BY <1>11, <2>2, <2>3 DEF StartHedge, TypeOK, engineVars, tickVars
<1>12. ASSUME NEW r \in hedges, AnswerHedge(r) PROVE TypeOK'
  <2>1. r \in HedgeOrder
    BY DEF TypeOK
  <2>2. hedges' \subseteq HedgeOrder
    BY <1>12, <2>1 DEF AnswerHedge, TypeOK, HedgeOrder
  <2>3. Signed(r.side, r.size) \in Int /\ r.pair \in Pairs
    BY <2>1, SignedType DEF HedgeOrder
  <2>4. position' \in [Pairs -> Int]
    BY <1>12, <2>3 DEF AnswerHedge, Execute, TypeOK
  <2> QED
    BY <1>12, <2>2, <2>4 DEF AnswerHedge, TypeOK, engineVars, tickVars
<1>13. ASSUME NEW r \in hedges, ApplyHedge(r) PROVE TypeOK'
  <2>1. r \in HedgeOrder
    BY DEF TypeOK
  <2>2. HedgeDelta(r) \in Int /\ r.pair \in Pairs
    BY <2>1, SignedType DEF HedgeOrder, HedgeDelta
  <2>3. inventory' \in [Pairs -> Int]
    BY <1>13, <2>2 DEF ApplyHedge, TypeOK
  <2> QED
    BY <1>13, <2>3 DEF ApplyHedge, TypeOK, tickVars, historyVars
<1>14. ASSUME NEW r \in hedges, FailHedge(r) PROVE TypeOK'
  <2>1. r \in HedgeOrder
    BY DEF TypeOK
  <2>2. Signed(r.side, r.size) \in Int /\ r.pair \in Pairs
    BY <2>1, SignedType DEF HedgeOrder
  <2>3. position' \in [Pairs -> Int] /\ gap' \in [Pairs -> Int]
    BY <1>14, <2>2 DEF FailHedge, Execute, TypeOK
  <2> QED
    BY <1>14, <2>3 DEF FailHedge, TypeOK, engineVars, tickVars
<1>15. CASE UNCHANGED vars
  BY <1>15 DEF TypeOK, vars, engineVars, tickVars, historyVars
<1> QED
  BY <1>1, <1>2, <1>3, <1>4, <1>5, <1>6, <1>7, <1>8, <1>9, <1>10, <1>11, <1>12,
     <1>13, <1>14, <1>15
  DEF Next, TickNext, OperatorNext, HedgeNext

\* The engine's state has its types in every behaviour: in particular no order
\* is out while the loop is idle and every configured pair has its state.
THEOREM TypeCorrect == Spec => []TypeOK
<1>1. Init => TypeOK
  BY InitType
<1>2. TypeOK /\ [Next]_vars => TypeOK'
  BY NextType
<1> QED
  BY <1>1, <1>2, PTL DEF Spec


-----------------------------------------------------------------------------
(* The tick never exposes a pair *)

\* The limit check of a payload: whoever is still active after it is within
\* its limit, because the auto-hedge only shrinks an inventory.
LEMMA PayloadUnexposes ==
    ASSUME TypeOK, NEW F \in SUBSET (Pairs \X Sides),
           NEW A \in SUBSET (Pairs \X Sides), BuildPayload(F, A)
    PROVE  Exposed' = {} /\ Active' \subseteq Active
<1> DEFINE inv == FilledInventory(F)
<1>1. inv \in [Pairs -> Int]
  BY TickDeltaType DEF TypeOK, FilledInventory
<1>2. /\ inventory' = [p \in Pairs |-> IF p \in AutoHedged(inv)
                                       THEN ApplyRatio(inv[p], 55, 100)
                                       ELSE inv[p]]
      /\ paused' = [p \in Pairs |-> paused[p] \/ p \in PauseDisabled \cup Breached(inv)]
      /\ UNCHANGED <<known, config>>
  BY DEF BuildPayload
<1> HIDE DEF inv
<1>3. \A p \in Pairs : Abs(inventory'[p]) <= Abs(inv[p]) /\ Abs(inv[p]) \in Nat
                       /\ Abs(inventory'[p]) \in Nat
  <2> SUFFICES ASSUME NEW p \in Pairs
               PROVE  /\ Abs(inventory'[p]) <= Abs(inv[p])
                      /\ Abs(inv[p]) \in Nat
                      /\ Abs(inventory'[p]) \in Nat
    OBVIOUS
  <2>1. inv[p] \in Int
    BY <1>1
  <2>2. /\ ApplyRatio(inv[p], 55, 100) \in Int
        /\ Abs(ApplyRatio(inv[p], 55, 100)) <= Abs(inv[p])
    BY <2>1, AutoHedgeShrinks
  <2>3. inventory'[p] \in {inv[p], ApplyRatio(inv[p], 55, 100)}
    BY <1>2
  <2> QED
    BY <2>1, <2>2, <2>3 DEF Abs
<1>4. Active' \subseteq Active /\ Active \subseteq Pairs
  BY <1>2 DEF Active, Configured, TypeOK
<1>5. ASSUME NEW p \in Exposed' PROVE FALSE
  <2>1. p \in Active' /\ p \in Active /\ p \in Pairs
    BY <1>4, <1>5 DEF Exposed
  <2>2. Abs(inventory'[p]) > config[p].maxInventory
    BY <1>2, <1>5 DEF Exposed
  <2>3. ~ paused'[p]
    BY <2>1 DEF Active
  <2>4. p \notin Breached(inv)
    BY <1>2, <2>1, <2>3
  <2>5. ~ (Abs(inv[p]) > config[p].maxInventory)
    BY <2>1, <2>4 DEF Breached
  <2>6. config[p].maxInventory \in Nat
    BY <2>1 DEF Active, Configured, TypeOK, PairConfig
  <2> QED
    BY <1>3, <2>1, <2>2, <2>5, <2>6
<1> QED
  BY <1>4, <1>5

LEMMA NextTickNeverExposes ==
    ASSUME TypeOK, TickNext
    PROVE  /\ Exposed' \subseteq Exposed
           /\ Publish \/ StreamConnect => Exposed' = {}
<1>0. fills \in SUBSET (Pairs \X Sides) /\ adverse \in SUBSET (Pairs \X Sides)
  BY DEF TypeOK
<1>1. CASE ComputeOrders
  <2>1. /\ Active' \subseteq Active
        /\ UNCHANGED <<config, inventory>>
    BY <1>1 DEF ComputeOrders, Active, Configured, TypeOK
  <2>2. Exposed' \subseteq Exposed
    BY <2>1 DEF Exposed
  <2>3. ~ Publish /\ (StreamConnect => Exposed' = {})
    <3>1. ~ Publish
      BY <1>1 DEF ComputeOrders, Publish
    <3>2. ASSUME StreamConnect PROVE Exposed' = {}
      BY <3>2, PayloadUnexposes DEF StreamConnect
    <3> QED
      BY <3>1, <3>2
  <2> QED
    BY <2>2, <2>3
<1>2. ASSUME Publish \/ StreamConnect PROVE Exposed' = {}
  <2>1. CASE Publish
    BY <1>0, <2>1, PayloadUnexposes DEF Publish
  <2>2. CASE StreamConnect
    BY <2>2, PayloadUnexposes DEF StreamConnect
  <2> QED
    BY <1>2, <2>1, <2>2
<1>3. ASSUME NEW o \in pending, AnswerOrder(o) \/ LoseOrder(o)
      PROVE  Exposed' \subseteq Exposed
  <2>1. UNCHANGED engineVars
    BY <1>3 DEF AnswerOrder, LoseOrder
  <2> QED
    BY <2>1 DEF engineVars, Exposed, Active, Configured
<1> QED
  BY <1>1, <1>2, <1>3 DEF TickNext

\* Placing orders, collecting fills and building payloads never puts a pair
\* that is over its max_inventory into quoting, and after a payload no active
\* pair is over it, whatever operators did meanwhile.
THEOREM TickSafe == Spec => TickNeverExposes
<1>1. TypeOK /\ [Next]_vars =>
        [/\ TickNext => Exposed' \subseteq Exposed
         /\ Publish \/ StreamConnect => Exposed' = {}]_vars
  BY NextTickNeverExposes DEF TickNext
<1>2. Spec => []TypeOK
  BY TypeCorrect
<1> QED
  BY <1>1, <1>2, PTL DEF Spec, TickNeverExposes

-----------------------------------------------------------------------------
(* Fills are covered by quotes *)

LEMMA InitCovered == Init => FillsCovered
<1> SUFFICES ASSUME Init PROVE FillsCovered
  OBVIOUS
<1>1. Live = {} /\ Cardinality(Live) = 0
  BY FS_EmptySet DEF Init, Live
<1> QED
  BY <1>1 DEF Init, FillsCovered

LEMMA NextCovered == TypeOK /\ FillsCovered /\ [Next]_vars => FillsCovered'
<1> SUFFICES ASSUME TypeOK, FillsCovered, [Next]_vars PROVE FillsCovered'
  OBVIOUS
<1>0. /\ Live \in SUBSET (Pairs \X Sides)
      /\ fills \in SUBSET (Pairs \X Sides)
      /\ adverse \in SUBSET fills
      /\ IsFiniteSet(Live) /\ Cardinality(Live) \in Nat
      /\ IsFiniteSet(fills) /\ Cardinality(fills) \in Nat
      /\ IsFiniteSet(adverse) /\ Cardinality(adverse) \in Nat
      /\ Cardinality(adverse) <= Cardinality(fills)
  <2>1. /\ Live \in SUBSET (Pairs \X Sides) /\ fills \in SUBSET (Pairs \X Sides)
        /\ adverse \in SUBSET fills
    BY DEF TypeOK, Live
  <2> QED
    BY <2>1, OrdersFinite, FS_Subset
\* What leaves the counters alone and adds no live order.
<1>a. ASSUME UNCHANGED <<totalQuotes, totalFills, adverseFills, carry>>,
             Live' \subseteq Live
      PROVE  FillsCovered'
  <2>1. Cardinality(Live') \in Nat /\ Cardinality(Live') <= Cardinality(Live)
    BY <1>0, <1>a, FS_Subset, FS_CardinalityType
  <2> QED
    BY <1>0, <1>a, <2>1 DEF FillsCovered, TypeOK
<1>1. CASE ComputeOrders
  <2>1. CASE ~QuotingAllowed
    <3>1. UNCHANGED <<totalQuotes, totalFills, adverseFills, carry>>
      BY <1>1, <2>1 DEF ComputeOrders
    <3>2. Live' = Live
      BY <1>1, <2>1 DEF ComputeOrders, Live
    <3> QED
      BY <1>a, <3>1, <3>2
  <2>2. CASE QuotingAllowed
    <3>1. Live' = Active \X Sides
      BY <1>1, <2>2 DEF ComputeOrders, Live, TypeOK
    <3>2. /\ Cardinality(Live') = Cardinality(Active) * Cardinality(Sides)
          /\ Cardinality(Active) \in Nat
      BY <3>1, ActiveFinite, SidesFinite, FS_Product
    <3>3. Cardinality(Live') = Cardinality(Active) * 2
      BY <3>2, SidesFinite
    <3>4. Cardinality(Live) = 0
      BY <1>1, FS_EmptySet DEF ComputeOrders, TypeOK
    <3>5. /\ totalQuotes' = totalQuotes + Cardinality(Active)
          /\ UNCHANGED <<totalFills, adverseFills, carry>>
      BY <1>1, <2>2 DEF ComputeOrders
    <3> QED
      BY <3>2, <3>3, <3>4, <3>5 DEF FillsCovered, TypeOK
  <2> QED
    BY <2>1, <2>2
<1>2. ASSUME NEW o \in pending, AnswerOrder(o) PROVE FillsCovered'
  <2>1. Live' \subseteq Live
    BY <1>2 DEF AnswerOrder, Live
  <2> QED
    BY <1>2, <1>a, <2>1 DEF AnswerOrder, engineVars
<1>3. ASSUME NEW o \in pending, LoseOrder(o) PROVE FillsCovered'
  <2>1. Live' \subseteq Live
    BY <1>3 DEF LoseOrder, Live
  <2> QED
    BY <1>3, <1>a, <2>1 DEF LoseOrder, engineVars
<1>4. CASE Publish
  <2>1. Booked(fills) = fills /\ Booked(adverse) = adverse
    BY DEF Booked, TypeOK
  <2>2. Live = fills /\ Live' = {}
    BY <1>4 DEF Publish, Live
  <2>3. Cardinality(Live') = 0
    BY <2>2, FS_EmptySet
  <2>4. /\ totalFills' = totalFills + Cardinality(fills)
        /\ adverseFills' = adverseFills + Cardinality(adverse)
        /\ UNCHANGED <<totalQuotes, carry>>
    BY <1>4, <2>1 DEF Publish, BuildPayload
  <2> QED
    BY <1>0, <2>2, <2>3, <2>4 DEF FillsCovered, TypeOK
<1>5. CASE StreamConnect
  <2>1. Booked({}) = {} /\ Cardinality({}) = 0
    BY FS_EmptySet DEF Booked
  <2>2. UNCHANGED <<totalQuotes, totalFills, adverseFills, carry>>
    <3>1. /\ totalFills' = totalFills + Cardinality(Booked({}))
          /\ adverseFills' = adverseFills + Cardinality(Booked({}))
          /\ UNCHANGED <<totalQuotes, carry>>
      BY <1>5 DEF StreamConnect, BuildPayload
    <3>2. Cardinality(Booked({})) = 0
      BY <2>1
    <3>3. totalFills \in Nat /\ adverseFills \in Nat
      BY DEF TypeOK
    <3> QED
      BY <3>1, <3>2, <3>3
  <2> QED
    BY <1>5, <1>a, <2>2 DEF StreamConnect, tickVars, Live
<1>6. ASSUME NEW c \in Configs, UpdateConfig(c) PROVE FillsCovered'
  BY <1>6, <1>a DEF UpdateConfig, tickVars, historyVars, Live
<1>7. ASSUME NEW p \in Pairs, NEW flag \in BOOLEAN, PausePair(p, flag)
      PROVE  FillsCovered'
  BY <1>7, <1>a DEF PausePair, tickVars, historyVars, Live
<1>8. ASSUME NEW engaged \in BOOLEAN, KillSwitch(engaged) PROVE FillsCovered'
  BY <1>8, <1>a DEF KillSwitch, tickVars, historyVars, Live
<1>9. ASSUME NEW s \in Strategies, SetStrategy(s) PROVE FillsCovered'
  BY <1>9, <1>a DEF SetStrategy, tickVars, historyVars, Live
<1>10. CASE ResetSession
  <2>1. Live' = Live
    BY <1>10 DEF ResetSession, tickVars, Live
  <2>2. /\ totalQuotes' = 0 /\ totalFills' = 0 /\ adverseFills' = 0
        /\ carry' = Cardinality(Live)
    BY <1>10 DEF ResetSession, ClearCounters
  <2> QED
    BY <1>0, <2>1, <2>2 DEF FillsCovered
<1>11. ASSUME NEW h \in Hedgers, NEW p \in Pairs, StartHedge(h, p)
       PROVE  FillsCovered'
  BY <1>11, <1>a DEF StartHedge, engineVars, tickVars, Live
<1>12. ASSUME NEW r \in hedges, AnswerHedge(r) PROVE FillsCovered'
  BY <1>12, <1>a DEF AnswerHedge, engineVars, tickVars, Live
<1>13. ASSUME NEW r \in hedges, ApplyHedge(r) PROVE FillsCovered'
  BY <1>13, <1>a DEF ApplyHedge, tickVars, historyVars, Live
<1>14. ASSUME NEW r \in hedges, FailHedge(r) PROVE FillsCovered'
  BY <1>14, <1>a DEF FailHedge, engineVars, tickVars, Live
<1>15. CASE UNCHANGED vars
  BY <1>15, <1>a DEF vars, engineVars, tickVars, historyVars, Live
<1> QED
  BY <1>1, <1>2, <1>3, <1>4, <1>5, <1>6, <1>7, <1>8, <1>9, <1>10, <1>11, <1>12,
     <1>13, <1>14, <1>15
  DEF Next, TickNext, OperatorNext, HedgeNext

\* The fill counters never outrun the quotes counted since the last reset by
\* more than the orders that were out at that reset, for any number of pairs.
THEOREM CountersCovered == Spec => []FillsCovered
<1>1. Init => FillsCovered
  BY InitCovered
<1>2. TypeOK /\ FillsCovered /\ [Next]_vars => FillsCovered'
  BY NextCovered
<1>3. Spec => []TypeOK
  BY TypeCorrect
<1> QED
  BY <1>1, <1>2, <1>3, PTL DEF Spec


-----------------------------------------------------------------------------
(* Exposure under the operating discipline *)

\* ExposureBound is not inductive: it must be known that whoever is quoting, or
\* still has an order out, is within the limit itself, so that one fill is all
\* that can carry it over.
QuotersWithinLimit ==
    \A p \in DOMAIN config :
        p \in Active \/ (\E side \in Sides : <<p, side>> \in Live)
            => Abs(inventory[p]) <= config[p].maxInventory

ExposureInv == ExposureBound /\ QuotersWithinLimit

LEMMA CautiousIsNext == [CautiousNext]_vars => [Next]_vars
<1>1. CautiousOperatorNext => OperatorNext
  BY DEF CautiousOperatorNext, OperatorNext
<1> QED
  BY <1>1 DEF CautiousNext, Next

\* A flat inventory is within every limit.
LEMMA FlatWithin ==
    ASSUME TypeOK, NEW p \in DOMAIN config, inventory[p] = 0
    PROVE  /\ Abs(inventory[p]) <= config[p].maxInventory
           /\ Abs(inventory[p]) <= config[p].maxInventory + OrderSize
<1>1. config[p].maxInventory \in Nat
  BY DEF TypeOK, PairConfig
<1> QED
  BY <1>1, SizesAssumption DEF Abs

LEMMA InitExposure == Init => ExposureInv
<1> SUFFICES ASSUME Init PROVE ExposureInv
  OBVIOUS
<1>1. TypeOK
  BY InitType
<1>2. \A p \in DOMAIN config : inventory[p] = 0
  BY <1>1 DEF Init, TypeOK
<1> QED
  BY <1>1, <1>2, FlatWithin DEF ExposureInv, ExposureBound, QuotersWithinLimit

LEMMA NextExposure ==
    ASSUME TypeOK, TypeOK', ExposureInv, [CautiousNext]_vars
    PROVE  ExposureInv'
<1>0. \A p \in DOMAIN config :
          /\ p \in Pairs
          /\ inventory[p] \in Int
          /\ config[p].maxInventory \in Nat
  BY DEF TypeOK, PairConfig
<1>0a. \A p \in DOMAIN config' :
          /\ p \in Pairs
          /\ inventory'[p] \in Int
          /\ config'[p].maxInventory \in Nat
  BY DEF TypeOK, PairConfig
\* No inventory or config change, and nobody starts to quote.
<1>a. ASSUME UNCHANGED <<inventory, config>>, Active' \subseteq Active,
             Live' \subseteq Live
      PROVE  ExposureInv'
  BY <1>a DEF ExposureInv, ExposureBound, QuotersWithinLimit
\* A flat book is within whatever limits it is given.
<1>b. ASSUME \A p \in DOMAIN config' : inventory'[p] = 0 PROVE ExposureInv'
  <2>1. \A p \in DOMAIN config' :
            /\ Abs(inventory'[p]) <= config'[p].maxInventory
            /\ Abs(inventory'[p]) <= config'[p].maxInventory + OrderSize
    BY <1>b, <1>0a, SizesAssumption DEF Abs
  <2> QED
    BY <2>1 DEF ExposureInv, ExposureBound, QuotersWithinLimit
<1>1. CASE ComputeOrders
  <2>1. Active' \subseteq Active /\ UNCHANGED <<inventory, config>>
    BY <1>1 DEF ComputeOrders, Active, Configured, TypeOK
  <2>2. CASE ~QuotingAllowed
    <3>1. Live' = Live
      BY <1>1, <2>2 DEF ComputeOrders, Live
    <3> QED
      BY <1>a, <2>1, <3>1
  <2>3. CASE QuotingAllowed
    <3>1. Live' = Active \X Sides
      BY <1>1, <2>3 DEF ComputeOrders, Live, TypeOK
    <3>2. \A p, side : <<p, side>> \in Live' => p \in Active
      BY <3>1
    <3> QED
      BY <2>1, <3>2 DEF ExposureInv, ExposureBound, QuotersWithinLimit
  <2> QED
    BY <2>2, <2>3
<1>2. ASSUME NEW o \in pending, AnswerOrder(o) \/ LoseOrder(o) PROVE ExposureInv'
  <2>1. UNCHANGED engineVars
    BY <1>2 DEF AnswerOrder, LoseOrder
  <2>2. Live' \subseteq Live
    BY <1>2 DEF AnswerOrder, LoseOrder, Live
  <2>3. Active' = Active
    BY <2>1 DEF engineVars, Active, Configured
  <2> QED
    BY <1>a, <2>1, <2>2, <2>3 DEF engineVars
<1>3. ASSUME NEW F \in SUBSET fills, NEW A \in SUBSET fills, BuildPayload(F, A),
             (F = {} /\ Live' = Live) \/ Live' = {}
      PROVE  ExposureInv'
  <2>1. F \in SUBSET (Pairs \X Sides) /\ A \in SUBSET (Pairs \X Sides)
    BY DEF TypeOK
  <2>2. /\ Exposed' = {} /\ Active' \subseteq Active
        /\ UNCHANGED <<known, config>>
    BY <1>3, <2>1, PayloadUnexposes DEF BuildPayload
  <2>3. ASSUME NEW p \in DOMAIN config
        PROVE  Abs(inventory'[p]) <= Abs(inventory[p] + TickDelta(p, Booked(F)))
    BY <1>0, <1>3, TickDeltaType, AutoHedgeShrinks
    DEF BuildPayload, FilledInventory, Abs
  <2>4. ASSUME NEW p \in DOMAIN config, \A side \in Sides : <<p, side>> \notin F
        PROVE  Abs(inventory'[p]) <= Abs(inventory[p])
    <3>1. TickDelta(p, Booked(F)) = 0
      BY <2>4, SizesAssumption DEF TickDelta, Booked, Sides
    <3> QED
      BY <1>0, <2>3, <3>1
  <2>5. ASSUME NEW p \in DOMAIN config, NEW side \in Sides, <<p, side>> \in F
        PROVE  Abs(inventory'[p]) <= config[p].maxInventory + OrderSize
    <3>1. Abs(inventory[p]) <= config[p].maxInventory
      BY <2>5 DEF ExposureInv, QuotersWithinLimit, Live
    <3>2. /\ TickDelta(p, Booked(F)) \in Int
          /\ Abs(TickDelta(p, Booked(F))) <= OrderSize
      BY TickDeltaType
    <3>3. Abs(inventory[p] + TickDelta(p, Booked(F)))
            <= Abs(inventory[p]) + Abs(TickDelta(p, Booked(F)))
      BY <1>0, <3>2 DEF Abs
    <3> QED
      BY <1>0, <1>0a, <2>2, <2>3, <3>1, <3>2, <3>3, SizesAssumption DEF Abs
  <2>6. ExposureBound'
    <3> SUFFICES ASSUME NEW p \in DOMAIN config
                 PROVE  Abs(inventory'[p]) <= config[p].maxInventory + OrderSize
      BY <2>2 DEF ExposureBound
    <3>1. Abs(inventory[p]) <= config[p].maxInventory + OrderSize
      BY DEF ExposureInv, ExposureBound
    <3> QED
      BY <1>0, <1>0a, <2>2, <2>4, <2>5, <3>1, SizesAssumption DEF Abs
  <2>7. QuotersWithinLimit'
    <3> SUFFICES ASSUME NEW p \in DOMAIN config,
                        \/ p \in Active'
                        \/ \E side \in Sides : <<p, side>> \in Live'
                 PROVE  Abs(inventory'[p]) <= config[p].maxInventory
      BY <2>2 DEF QuotersWithinLimit
    <3>1. CASE p \in Active'
      BY <1>0, <1>0a, <2>2, <3>1 DEF Exposed, Abs
    <3>2. CASE \E side \in Sides : <<p, side>> \in Live'
      <4>1. F = {} /\ Live' = Live
        BY <1>3, <3>2
      <4>2. Abs(inventory[p]) <= config[p].maxInventory
        BY <3>2, <4>1 DEF ExposureInv, QuotersWithinLimit
      <4> QED
        BY <1>0, <1>0a, <2>2, <2>4, <4>1, <4>2 DEF Abs
    <3> QED
      BY <3>1, <3>2
  <2> QED
    BY <2>6, <2>7 DEF ExposureInv
<1>4. CASE Publish
  <2>1. Live' = {}
    BY <1>4 DEF Publish, Live
  <2> QED
    BY <1>3, <1>4, <2>1 DEF Publish, TypeOK
<1>5. CASE StreamConnect
  <2>1. Live' = Live
    BY <1>5 DEF StreamConnect, tickVars, Live
  <2> QED
    BY <1>3, <1>5, <2>1 DEF StreamConnect
<1>6. ASSUME NEW p \in Pairs, PausePair(p, TRUE) PROVE ExposureInv'
  <2>1. Active' \subseteq Active
    BY <1>6 DEF PausePair, Active, Configured, TypeOK
  <2> QED
    BY <1>6, <1>a, <2>1 DEF PausePair, tickVars, Live
<1>7. CASE KillSwitch(TRUE)
  <2>1. Active' \subseteq Active
    BY <1>7 DEF KillSwitch, Active, Configured, TypeOK
  <2> QED
    BY <1>7, <1>a, <2>1 DEF KillSwitch, tickVars, Live
<1>8. CASE ResetSession
  <2>1. DOMAIN config' = DOMAIN config
    BY <1>8, ConfigAssumption, PresetType DEF ResetSession, ApplyStrategyPreset
  <2>2. \A p \in DOMAIN config' : inventory'[p] = 0
    BY <1>8, <2>1 DEF ResetSession, TypeOK
  <2> QED
    BY <1>b, <2>2
<1>9. ASSUME FlatBook, UNCHANGED inventory PROVE ExposureInv'
  <2>1. \A p \in DOMAIN config' : inventory'[p] = 0
    BY <1>0a, <1>9 DEF FlatBook
  <2> QED
    BY <1>b, <2>1
<1>10. ASSUME FlatBook,
              \/ \E c \in Configs : UpdateConfig(c)
              \/ \E p \in Pairs : PausePair(p, FALSE)
              \/ KillSwitch(FALSE)
              \/ \E s \in Strategies : SetStrategy(s)
       PROVE  ExposureInv'
  BY <1>9, <1>10 DEF UpdateConfig, PausePair, KillSwitch, SetStrategy
<1>11. CASE UNCHANGED vars
  BY <1>11, <1>a DEF vars, engineVars, tickVars, Active, Configured, Live
<1> QED
  BY <1>1, <1>2, <1>4, <1>5, <1>6, <1>7, <1>8, <1>10, <1>11
  DEF CautiousNext, TickNext, CautiousOperatorNext

\* If operators (re)start quoting only on a flat book, and nobody hedges by
\* hand, no configured pair is ever further over its max_inventory than the one
\* order the limit check comes too late for, whatever answers are lost.
THEOREM ExposureBounded == CautiousSpec => []ExposureBound
<1>1. Init => TypeOK /\ ExposureInv
  BY InitType, InitExposure
<1>2. TypeOK /\ ExposureInv /\ [CautiousNext]_vars => TypeOK' /\ ExposureInv'
  BY CautiousIsNext, NextType, NextExposure
<1>3. ExposureInv => ExposureBound
  BY DEF ExposureInv
<1> QED
  BY <1>1, <1>2, <1>3, PTL DEF CautiousSpec


-----------------------------------------------------------------------------
(* Engine implements Quoting *)

LEMMA NextQuotes ==
    ASSUME TypeOK, [Next]_vars
    PROVE  [Q!Next]_(Q!vars)
<1> USE DEF Q!vars
<1>0. Active \in SUBSET Pairs
  BY DEF Active, Configured, TypeOK
<1>0a. ASSUME TypeOK' PROVE Active' \in SUBSET Pairs
  BY <1>0a DEF Active, Configured, TypeOK
<1>0b. Active' \in SUBSET Pairs
  BY <1>0a, NextType
\* Handlers that touch neither the tick nor the kill switch.
<1>a. ASSUME UNCHANGED <<killSwitch, tickVars>> PROVE [Q!Next]_(Q!vars)
  BY <1>0b, <1>a DEF Q!Next, Q!Configure, tickVars
\* Actions that leave the engine and the tick alone.
<1>b. ASSUME UNCHANGED <<engineVars, tickVars>> PROVE [Q!Next]_(Q!vars)
  BY <1>a, <1>b DEF engineVars
<1>1. CASE ComputeOrders
  <2>1. Active' = Active
    BY <1>1 DEF ComputeOrders, PauseDisabled, Active, Configured, TypeOK
  <2>2. pending' = Q!Quotable \X Q!Sides
    <3>1. CASE killSwitch
      <4>1. pending' = {}
        BY <1>1, <3>1 DEF ComputeOrders, QuotingAllowed, TypeOK, Live
      <4> QED
        BY <3>1, <4>1 DEF Q!Quotable
    <3>2. CASE ~killSwitch
      BY <1>1, <3>2 DEF ComputeOrders, QuotingAllowed, Q!Quotable, Q!Sides, Sides
    <3> QED
      BY <3>1, <3>2
  <2>3. Q!Quote
    BY <1>1, <2>1, <2>2 DEF ComputeOrders, Q!Quote
  <2> QED
    BY <2>3 DEF Q!Next
<1>2. ASSUME NEW o \in pending, AnswerOrder(o) \/ LoseOrder(o)
      PROVE  [Q!Next]_(Q!vars)
  <2>1. UNCHANGED <<engineVars, phase>>
    BY <1>2 DEF AnswerOrder, LoseOrder
  <2>2. Active' = Active
    BY <2>1 DEF engineVars, Active, Configured
  <2>3. pending' = pending \ {o} /\ fills' \in {fills, fills \cup {o}}
    BY <1>2 DEF AnswerOrder, LoseOrder
  <2>4. Q!End(o)
    BY <2>1, <2>2, <2>3 DEF engineVars, Q!End
  <2> QED
    BY <2>4 DEF Q!Next
<1>3. fills \in SUBSET (Pairs \X Sides) /\ adverse \in SUBSET (Pairs \X Sides)
  BY DEF TypeOK
<1>4. CASE Publish
  <2>1. Active' \subseteq Active /\ killSwitch' = killSwitch
    BY <1>3, <1>4, PayloadUnexposes DEF Publish, BuildPayload
  <2>2. Q!Book
    BY <1>4, <2>1 DEF Publish, Q!Book
  <2> QED
    BY <2>2 DEF Q!Next
<1>5. CASE StreamConnect
  <2>1. UNCHANGED <<killSwitch, tickVars>>
    BY <1>5 DEF StreamConnect, BuildPayload
  <2> QED
    BY <1>a, <2>1
<1>6. ASSUME NEW engaged \in BOOLEAN, KillSwitch(engaged)
      PROVE  [Q!Next]_(Q!vars)
  <2>1. CASE engaged = TRUE
    <3>1. \A p \in known : paused'[p]
      BY <1>6, <2>1 DEF KillSwitch, TypeOK
    <3>2. Active' = {}
      BY <1>6, <3>1 DEF KillSwitch, Active, Configured
    <3>3. Q!Engage
      BY <1>6, <2>1, <3>2 DEF KillSwitch, Q!Engage, tickVars
    <3> QED
      BY <3>3 DEF Q!Next
  <2>2. CASE engaged = FALSE
    <3>1. Q!Disengage
      BY <1>0b, <1>6, <2>2 DEF KillSwitch, Q!Disengage, tickVars
    <3> QED
      BY <3>1 DEF Q!Next
  <2> QED
    BY <2>1, <2>2
<1>7. CASE ResetSession
  <2>1. Q!Disengage
    BY <1>0b, <1>7 DEF ResetSession, Q!Disengage, tickVars
  <2> QED
    BY <2>1 DEF Q!Next
<1>8. ASSUME \/ \E c \in Configs : UpdateConfig(c)
             \/ \E p \in Pairs, flag \in BOOLEAN : PausePair(p, flag)
             \/ \E s \in Strategies : SetStrategy(s)
      PROVE  [Q!Next]_(Q!vars)
  <2>1. UNCHANGED <<killSwitch, tickVars>>
    BY <1>8 DEF UpdateConfig, PausePair, SetStrategy
  <2> QED
    BY <1>a, <2>1
<1>9. ASSUME HedgeNext PROVE [Q!Next]_(Q!vars)
  <2>1. UNCHANGED <<killSwitch, tickVars>>
    BY <1>9
    DEF HedgeNext, StartHedge, AnswerHedge, ApplyHedge, FailHedge, engineVars
  <2> QED
    BY <1>a, <2>1
<1>10. CASE UNCHANGED vars
  BY <1>10, <1>b DEF vars
<1> QED
  BY <1>1, <1>2, <1>4, <1>5, <1>6, <1>7, <1>8, <1>9, <1>10
  DEF Next, TickNext, OperatorNext

\* The engine implements Quoting: which pairs get orders, and when, is decided
\* by the kill switch and the active pairs at the moment of compute_orders and
\* by nothing else the handlers, the hedges or lost answers do.
THEOREM EngineQuotesAsPromised == Spec => QuotesAsPromised
<1>1. Init => Q!Init
  <2> SUFFICES ASSUME Init PROVE Q!Init
    OBVIOUS
  <2>1. Active \in SUBSET Pairs
    BY InitType DEF Active, Configured, TypeOK
  <2> QED
    BY <2>1 DEF Init, Q!Init
<1>2. TypeOK /\ [Next]_vars => [Q!Next]_(Q!vars)
  BY NextQuotes
<1>3. Spec => []TypeOK
  BY TypeCorrect
<1> QED
  BY <1>1, <1>2, <1>3, PTL DEF Spec, QuotesAsPromised, Q!Spec

\* Quoting has no order out while the tick loop is idle, nor any that is not of
\* a pair, whoever implements it.
LEMMA QuotingType == Q!Spec => []Q!TypeOK
<1>1. Q!Init => Q!TypeOK
  BY DEF Q!Init, Q!TypeOK, Q!Live
<1>2. Q!TypeOK /\ [Q!Next]_(Q!vars) => Q!TypeOK'
  <2> SUFFICES ASSUME Q!TypeOK, [Q!Next]_(Q!vars) PROVE Q!TypeOK'
    OBVIOUS
  <2> USE DEF Q!TypeOK, Q!Live
  <2>1. CASE Q!Quote
    BY <2>1 DEF Q!Quote, Q!Quotable
  <2>2. ASSUME NEW o \in pending, Q!End(o) PROVE Q!TypeOK'
    <3>1. phase = "placing"
      OBVIOUS
    <3> QED
      BY <2>2, <3>1 DEF Q!End
  <2>3. CASE Q!Book
    BY <2>3 DEF Q!Book
  <2>4. CASE Q!StreamConnect
    BY <2>4 DEF Q!StreamConnect
  <2>5. CASE Q!Configure
    BY <2>5 DEF Q!Configure
  <2>6. CASE Q!Engage
    BY <2>6 DEF Q!Engage
  <2>7. CASE Q!Disengage
    BY <2>7 DEF Q!Disengage
  <2>8. CASE UNCHANGED Q!vars
    BY <2>8 DEF Q!vars
  <2> QED
    BY <2>1, <2>2, <2>3, <2>4, <2>5, <2>6, <2>7, <2>8 DEF Q!Next
<1> QED
  BY <1>1, <1>2, PTL DEF Q!Spec

\* What Quoting promises of its orders holds of the engine, which implements it:
\* whatever the handlers do, an idle tick loop has no order out.
THEOREM OrdersEndWithTheirTick == Spec => []Q!TypeOK
BY EngineQuotesAsPromised, QuotingType, PTL DEF QuotesAsPromised

\* A step that sends orders is one of the tick with the kill switch off.
LEMMA QuotingDrains ==
    ASSUME Q!TypeOK, [Q!Next]_(Q!vars)
    PROVE  /\ killSwitch => Live' \subseteq Live
           /\ \A o \in Live' \ Live : o[1] \in Active
<1>1. CASE Q!Quote
  <2>1. Live' = Q!Quotable \X Q!Sides
    BY <1>1 DEF Q!Quote, Q!TypeOK, Q!Live, Live
  <2> QED
    BY <2>1 DEF Q!Quotable
<1>2. ASSUME NEW o \in pending, Q!End(o) PROVE Live' \subseteq Live
  BY <1>2 DEF Q!End, Live
<1>3. CASE Q!Book
  BY <1>3 DEF Q!Book, Live
<1>4. CASE \/ Q!StreamConnect \/ Q!Configure \/ Q!Engage \/ Q!Disengage
           \/ UNCHANGED Q!vars
  BY <1>4 DEF Q!StreamConnect, Q!Configure, Q!Engage, Q!Disengage, Q!vars, Live
<1> QED
  BY <1>1, <1>2, <1>3, <1>4 DEF Q!Next

\* While the kill switch is engaged the tick's orders only get fewer, and at any
\* time a new one is of a pair that is active when it is sent: paused, disabled or
\* dropped pairs keep what was out and get no more (compute_orders).  This is the
\* safety half of KillSwitchQuiesces and PauseQuiesces.
THEOREM TickOrdersOnlyDrain ==
    Spec => [][/\ killSwitch => Live' \subseteq Live
               /\ \A o \in Live' \ Live : o[1] \in Active]_vars
<1>1. Q!TypeOK /\ [Q!Next]_(Q!vars) => /\ killSwitch => Live' \subseteq Live
                                       /\ \A o \in Live' \ Live : o[1] \in Active
  BY QuotingDrains
<1> QED
  BY <1>1, EngineQuotesAsPromised, OrdersEndWithTheirTick, PTL
  DEF QuotesAsPromised, Q!Spec

-----------------------------------------------------------------------------
(* The books balance *)

\* BooksBalance is not inductive: an order must not be answered twice, and a
\* manual hedge not be summed under two records.
OrdersOnce == pending \cap fills = {}

HedgesOnce ==
    /\ IsFiniteSet(hedges)
    /\ \A a, b \in hedges : a.id = b.id => a = b

AuditInv == OrdersOnce /\ HedgesOnce /\ BooksBalance

\* What one more filled order adds.
LEMMA TickDeltaAdd ==
    ASSUME NEW F, NEW q \in Pairs, NEW side \in Sides, <<q, side>> \notin F, NEW p
    PROVE  TickDelta(p, F \cup {<<q, side>>})
           = TickDelta(p, F) + (IF p = q THEN Signed(side, OrderSize) ELSE 0)
BY SizesAssumption DEF TickDelta, Signed, Sides

LEMMA TickDeltaEmpty == ASSUME NEW p PROVE TickDelta(p, {}) = 0
BY DEF TickDelta

LEMMA FilledHedgesFinite ==
    ASSUME NEW H \in SUBSET HedgeOrder, IsFiniteSet(H), NEW p
    PROVE  /\ IsFiniteSet(FilledHedges(p, H))
           /\ \A r \in FilledHedges(p, H) :
                 [x \in H |-> Signed(x.side, x.size)][r] = Signed(r.side, r.size)
           /\ \A r \in H : Signed(r.side, r.size) \in Int
<1>1. FilledHedges(p, H) \subseteq H
  BY DEF FilledHedges
<1>2. IsFiniteSet(FilledHedges(p, H))
  BY <1>1, FS_Subset
<1>3. \A r \in H : Signed(r.side, r.size) \in Int
  BY SignedType DEF HedgeOrder
<1> QED
  BY <1>1, <1>2, <1>3

LEMMA HedgesDeltaType ==
    ASSUME NEW H \in SUBSET HedgeOrder, IsFiniteSet(H), NEW p
    PROVE  HedgesDelta(p, H) \in Int
<1> DEFINE f == [x \in H |-> Signed(x.side, x.size)]
           S == FilledHedges(p, H)
<1>1. IsFiniteSet(S) /\ \A r \in S : f[r] \in Int
  BY FilledHedgesFinite DEF FilledHedges
<1> HIDE DEF f, S
<1>2. SumFunctionOnSet(f, S) \in Int
  BY <1>1, SumType
<1> QED
  BY <1>2 DEF HedgesDelta, f, S

\* Hedges that are not filled, or not of p, count for nothing.
LEMMA HedgesDeltaSame ==
    ASSUME NEW H \in SUBSET HedgeOrder, IsFiniteSet(H),
           NEW G \in SUBSET HedgeOrder, IsFiniteSet(G), NEW p,
           FilledHedges(p, H) = FilledHedges(p, G)
    PROVE  HedgesDelta(p, H) = HedgesDelta(p, G)
<1> DEFINE f == [x \in H |-> Signed(x.side, x.size)]
           g == [x \in G |-> Signed(x.side, x.size)]
           S == FilledHedges(p, H)
<1>1. IsFiniteSet(S) /\ \A r \in S : f[r] = g[r]
  BY FilledHedgesFinite
<1>2. S = FilledHedges(p, G)
  OBVIOUS
<1> HIDE DEF f, g, S
<1>3. SumFunctionOnSet(f, S) = SumFunctionOnSet(g, S)
  BY <1>1, SumSame
<1> QED
  BY <1>2, <1>3 DEF HedgesDelta, f, g, S

\* A filled hedge adds its size to its pair.
LEMMA HedgesDeltaAdd ==
    ASSUME NEW H \in SUBSET HedgeOrder, IsFiniteSet(H),
           NEW G \in SUBSET HedgeOrder, IsFiniteSet(G), NEW p, NEW r \in G,
           r.status = "filled", r \notin FilledHedges(p, H),
           FilledHedges(p, G) = IF r.pair = p THEN FilledHedges(p, H) \cup {r}
                                              ELSE FilledHedges(p, H)
    PROVE  HedgesDelta(p, G) = HedgesDelta(p, H)
               + (IF p = r.pair THEN Signed(r.side, r.size) ELSE 0)
<1>0. HedgesDelta(p, H) \in Int
  BY HedgesDeltaType
<1>1. CASE r.pair # p
  BY <1>0, <1>1, HedgesDeltaSame
<1>2. CASE r.pair = p
  <2> DEFINE f == [x \in H |-> Signed(x.side, x.size)]
             g == [x \in G |-> Signed(x.side, x.size)]
             S == FilledHedges(p, H)
             T == FilledHedges(p, G)
  <2>a. r \notin S /\ T = S \cup {r}
    BY <1>2
  <2>b. /\ IsFiniteSet(S) /\ IsFiniteSet(T)
        /\ \A x \in H : Signed(x.side, x.size) \in Int
        /\ \A x \in G : Signed(x.side, x.size) \in Int
    BY FilledHedgesFinite
  <2>c. S \subseteq H /\ T \subseteq G /\ S \subseteq T
    BY <2>a DEF FilledHedges
  <2>d. (\A x \in S : f[x] = g[x]) /\ \A x \in T : g[x] \in Int
    BY <2>b, <2>c
  <2>1. /\ IsFiniteSet(S) /\ IsFiniteSet(T) /\ r \notin S /\ T = S \cup {r}
        /\ \A x \in S : f[x] = g[x]
        /\ \A x \in T : g[x] \in Int
    BY <2>a, <2>b, <2>d
  <2>2. g[r] = Signed(r.side, r.size)
    OBVIOUS
  <2> HIDE DEF f, g, S, T
  <2>3. SumFunctionOnSet(f, S) = SumFunctionOnSet(g, S)
    BY <2>1, SumSame
  <2>4. SumFunctionOnSet(g, S \cup {r}) = g[r] + SumFunctionOnSet(g, S)
    BY <2>1, SumAdd
  <2>5. HedgesDelta(p, G) = Signed(r.side, r.size) + HedgesDelta(p, H)
    BY <2>1, <2>2, <2>3, <2>4 DEF HedgesDelta, f, g, S, T
  <2>6. Signed(r.side, r.size) \in Int
    BY SignedType DEF HedgeOrder
  <2> QED
    BY <1>0, <1>2, <2>5, <2>6
<1> QED
  BY <1>1, <1>2

LEMMA InitAudit == Init => AuditInv
<1> SUFFICES ASSUME Init PROVE AuditInv
  OBVIOUS
<1>1. OrdersOnce /\ HedgesOnce
  BY FS_EmptySet DEF Init, OrdersOnce, HedgesOnce
<1>2. ASSUME NEW p \in Pairs PROVE Unbooked(p) = 0
  <2>1. FilledHedges(p, {}) = {}
    BY DEF FilledHedges
  <2>2. HedgesDelta(p, {}) = 0
    BY <2>1, SumEmpty DEF HedgesDelta
  <2> QED
    BY <2>2, TickDeltaEmpty DEF Init, Unbooked
<1>3. BooksBalance
  BY <1>2 DEF Init, BooksBalance
<1> QED
  BY <1>1, <1>3 DEF AuditInv

LEMMA NextOnce ==
    ASSUME TypeOK, OrdersOnce, HedgesOnce, [Next]_vars
    PROVE  OrdersOnce' /\ HedgesOnce'
<1>1. OrdersOnce'
  <2>1. CASE ComputeOrders
    BY <2>1 DEF ComputeOrders, TypeOK, Live, OrdersOnce
  <2>2. ASSUME NEW o \in pending, AnswerOrder(o) \/ LoseOrder(o) PROVE OrdersOnce'
    BY <2>2 DEF AnswerOrder, LoseOrder, OrdersOnce
  <2>3. CASE Publish
    BY <2>3 DEF Publish, OrdersOnce
  <2>4. ASSUME UNCHANGED tickVars PROVE OrdersOnce'
    BY <2>4 DEF tickVars, OrdersOnce
  <2>5. OperatorNext \/ HedgeNext \/ StreamConnect \/ UNCHANGED vars => UNCHANGED tickVars
    BY DEF OperatorNext, HedgeNext, StreamConnect, UpdateConfig, PausePair, KillSwitch,
           SetStrategy, ResetSession, StartHedge, AnswerHedge, ApplyHedge, FailHedge, vars
  <2> QED
    BY <2>1, <2>2, <2>3, <2>4, <2>5 DEF Next, TickNext
<1>2. HedgesOnce'
  <2>1. CASE UNCHANGED hedges
    BY <2>1 DEF HedgesOnce
  <2>2. ASSUME NEW h \in Hedgers, NEW p \in Pairs, StartHedge(h, p) PROVE HedgesOnce'
    <3> DEFINE r == [id |-> h, pair |-> p, size |-> HedgeSize(inventory[p]),
                     side |-> IF inventory[p] >= 0 THEN "sell" ELSE "buy",
                     seen |-> inventory[p], status |-> "sent"]
    <3>1. r.id = h /\ hedges' = hedges \cup {r}
      BY <2>2 DEF StartHedge
    <3> HIDE DEF r
    <3>2. IsFiniteSet(hedges')
      BY <3>1, FS_AddElement DEF HedgesOnce
    <3>3. \A q \in hedges : q.id # h
      BY <2>2 DEF StartHedge
    <3> QED
      BY <3>1, <3>2, <3>3 DEF HedgesOnce
  <2>3. ASSUME NEW r \in hedges, AnswerHedge(r) PROVE HedgesOnce'
    <3>1. PICK q : q.id = r.id /\ hedges' = (hedges \ {r}) \cup {q}
      BY <2>3 DEF AnswerHedge, TypeOK, HedgeOrder
    <3>2. IsFiniteSet(hedges')
      BY <3>1, FS_RemoveElement, FS_AddElement DEF HedgesOnce
    <3> QED
      BY <3>1, <3>2 DEF HedgesOnce
  <2>4. ASSUME NEW r \in hedges, hedges' = hedges \ {r} PROVE HedgesOnce'
    BY <2>4, FS_RemoveElement DEF HedgesOnce
  <2>5. TickNext \/ OperatorNext \/ UNCHANGED vars => UNCHANGED hedges
    BY DEF TickNext, OperatorNext, ComputeOrders, AnswerOrder, LoseOrder, Publish,
           StreamConnect, UpdateConfig, PausePair, KillSwitch, SetStrategy,
           ResetSession, vars
  <2> QED
    BY <2>1, <2>2, <2>3, <2>4, <2>5 DEF Next, HedgeNext, ApplyHedge, FailHedge
<1> QED
  BY <1>1, <1>2

LEMMA NextBalance ==
    ASSUME TypeOK, TypeOK', AuditInv, HedgesOnce', [Next]_vars
    PROVE  BooksBalance'
<1>0. /\ hedges \in SUBSET HedgeOrder /\ IsFiniteSet(hedges)
      /\ hedges' \in SUBSET HedgeOrder /\ IsFiniteSet(hedges')
  BY DEF TypeOK, AuditInv, HedgesOnce
<1>1. \A p \in Pairs :
          /\ position[p] \in Int /\ inventory[p] \in Int /\ gap[p] \in Int
          /\ HedgesDelta(p, hedges) \in Int
          /\ TickDelta(p, fills) \in Int
  BY <1>0, HedgesDeltaType, TickDeltaType DEF TypeOK
<1>2. \A p \in Pairs :
          position[p] = inventory[p] + TickDelta(p, fills) + HedgesDelta(p, hedges) + gap[p]
  BY <1>1 DEF AuditInv, BooksBalance, Unbooked
<1>3. SUFFICES ASSUME NEW p \in Pairs
      PROVE  position'[p] = inventory'[p] + TickDelta(p, fills') + HedgesDelta(p, hedges')
                                + gap'[p]
  <2>1. \A p \in Pairs :
          /\ position'[p] \in Int /\ inventory'[p] \in Int /\ gap'[p] \in Int
          /\ HedgesDelta(p, hedges') \in Int
          /\ TickDelta(p, fills') \in Int
    BY <1>0, HedgesDeltaType, TickDeltaType DEF TypeOK
  <2> QED
    BY <1>3, <2>1 DEF BooksBalance, Unbooked
\* An order that is executed, whether or not its answer arrives.
<1>a. ASSUME NEW q \in Pairs, NEW n \in Int,
             position' = [position EXCEPT ![q] = @ + n]
      PROVE  position'[p] = position[p] + (IF p = q THEN n ELSE 0)
  BY <1>1, <1>a DEF TypeOK
<1>b. ASSUME NEW q \in Pairs, NEW n \in Int, gap' = [gap EXCEPT ![q] = @ + n]
      PROVE  gap'[p] = gap[p] + (IF p = q THEN n ELSE 0)
  BY <1>1, <1>b DEF TypeOK
<1>4. CASE ComputeOrders
  BY <1>2, <1>4 DEF ComputeOrders
<1>5. ASSUME NEW o \in pending, AnswerOrder(o) \/ LoseOrder(o)
      PROVE  position'[p] = inventory'[p] + TickDelta(p, fills')
                                + HedgesDelta(p, hedges') + gap'[p]
  <2> DEFINE n == Signed(o[2], OrderSize)
  <2>1. o[1] \in Pairs /\ o[2] \in Sides /\ o = <<o[1], o[2]>> /\ o \notin fills
    BY DEF TypeOK, AuditInv, OrdersOnce
  <2>2. n \in Int
    BY <2>1, SignedType, SizesAssumption
  <2>3. inventory' = inventory /\ hedges' = hedges
    BY <1>5 DEF AnswerOrder, LoseOrder, engineVars
  <2>4. CASE UNCHANGED <<fills, position, gap>>
    BY <1>2, <2>3, <2>4
  <2>5. CASE fills' = fills \cup {o} /\ Execute(o[1], o[2], OrderSize) /\ gap' = gap
    <3>1. position'[p] = position[p] + (IF p = o[1] THEN n ELSE 0)
      BY <1>a, <2>1, <2>2, <2>5 DEF Execute
    <3>2. TickDelta(p, fills') = TickDelta(p, fills) + (IF p = o[1] THEN n ELSE 0)
      BY SMTT(20), <2>1, <2>5, TickDeltaAdd
    <3> HIDE DEF n
    <3> QED
      BY <1>1, <1>2, <2>2, <2>3, <2>5, <3>1, <3>2
  <2>6. CASE /\ fills' = fills /\ Execute(o[1], o[2], OrderSize)
             /\ gap' = [gap EXCEPT ![o[1]] = @ + Signed(o[2], OrderSize)]
    <3>1. position'[p] = position[p] + (IF p = o[1] THEN n ELSE 0)
      BY <1>a, <2>1, <2>2, <2>6 DEF Execute
    <3>2. gap'[p] = gap[p] + (IF p = o[1] THEN n ELSE 0)
      BY <1>b, <2>1, <2>2, <2>6
    <3> HIDE DEF n
    <3> QED
      BY <1>1, <1>2, <2>2, <2>3, <2>6, <3>1, <3>2
  <2> QED
    BY <1>5, <2>4, <2>5, <2>6 DEF AnswerOrder, LoseOrder
\* A payload books the fills it is given, and writes off what the auto-hedges
\* take away.
<1>6. ASSUME NEW F \in SUBSET fills, NEW A, BuildPayload(F, A),
             UNCHANGED <<position, hedges>>,
             TickDelta(p, fills) = TickDelta(p, F) + TickDelta(p, fills')
      PROVE  position'[p] = inventory'[p] + TickDelta(p, fills')
                                + HedgesDelta(p, hedges') + gap'[p]
  <2>1. Booked(F) = F
    BY DEF Booked, TypeOK
  <2>2. TickDelta(p, F) \in Int /\ TickDelta(p, fills') \in Int
    BY TickDeltaType
  <2>3. FilledInventory(F)[p] = inventory[p] + TickDelta(p, F)
    BY <2>1 DEF FilledInventory
  <2>4. gap'[p] = gap[p] + FilledInventory(F)[p] - inventory'[p]
    BY <1>6 DEF BuildPayload
  <2>5. inventory'[p] \in Int
    BY DEF TypeOK
  <2> QED
    BY <1>1, <1>2, <1>6, <2>2, <2>3, <2>4, <2>5
<1>7. CASE Publish
  <2>1. TickDelta(p, fills) = TickDelta(p, fills) + TickDelta(p, fills')
    BY <1>1, <1>7, TickDeltaEmpty DEF Publish
  <2> QED
    BY <1>6, <1>7, <2>1 DEF Publish
<1>8. CASE StreamConnect
  <2>1. TickDelta(p, fills) = TickDelta(p, {}) + TickDelta(p, fills')
    BY <1>1, <1>8, TickDeltaEmpty DEF StreamConnect, tickVars
  <2> QED
    BY <1>6, <1>8, <2>1 DEF StreamConnect
<1>9. CASE ResetSession
  <2>1. gap'[p] = gap[p] + inventory[p] - inventory'[p]
    BY <1>9 DEF ResetSession
  <2>2. inventory'[p] \in Int
    BY DEF TypeOK
  <2> QED
    BY <1>1, <1>2, <1>9, <2>1, <2>2 DEF ResetSession, tickVars
\* The other handlers leave the books alone.
<1>10. ASSUME \/ \E c \in Configs : UpdateConfig(c)
              \/ \E q \in Pairs, flag \in BOOLEAN : PausePair(q, flag)
              \/ \E engaged \in BOOLEAN : KillSwitch(engaged)
              \/ \E s \in Strategies : SetStrategy(s)
              \/ UNCHANGED vars
       PROVE  position'[p] = inventory'[p] + TickDelta(p, fills')
                                 + HedgesDelta(p, hedges') + gap'[p]
  <2>1. UNCHANGED <<position, inventory, fills, hedges, gap>>
    BY <1>10 DEF UpdateConfig, PausePair, KillSwitch, SetStrategy, tickVars,
                 historyVars, vars, engineVars
  <2> QED
    BY <1>2, <2>1
<1>11. ASSUME NEW h \in Hedgers, NEW q \in Pairs, StartHedge(h, q)
       PROVE  position'[p] = inventory'[p] + TickDelta(p, fills')
                                 + HedgesDelta(p, hedges') + gap'[p]
  <2>1. FilledHedges(p, hedges) = FilledHedges(p, hedges')
    BY <1>11 DEF StartHedge, FilledHedges
  <2>2. HedgesDelta(p, hedges) = HedgesDelta(p, hedges')
    BY <1>0, <2>1, HedgesDeltaSame
  <2> QED
    BY <1>2, <1>11, <2>2 DEF StartHedge, engineVars, tickVars
<1>12. ASSUME NEW r \in hedges, AnswerHedge(r)
       PROVE  position'[p] = inventory'[p] + TickDelta(p, fills')
                                 + HedgesDelta(p, hedges') + gap'[p]
  <2>0. r \in HedgeOrder /\ r.status = "sent" /\ r.pair \in Pairs
    BY <1>0, <1>12 DEF AnswerHedge, HedgeOrder
  <2>1. UNCHANGED <<inventory, fills, gap>>
    BY <1>12 DEF AnswerHedge, engineVars, tickVars
  <2>2. CASE /\ hedges' = (hedges \ {r}) \cup {[r EXCEPT !.status = "unfilled"]}
             /\ UNCHANGED position
    <3>1. FilledHedges(p, hedges) = FilledHedges(p, hedges')
      BY <2>0, <2>2 DEF FilledHedges, HedgeOrder
    <3>2. HedgesDelta(p, hedges) = HedgesDelta(p, hedges')
      BY <1>0, <3>1, HedgesDeltaSame
    <3> QED
      BY <1>2, <2>1, <2>2, <3>2
  <2>3. CASE /\ hedges' = (hedges \ {r}) \cup {[r EXCEPT !.status = "filled"]}
             /\ Execute(r.pair, r.side, r.size)
    <3> DEFINE q == [r EXCEPT !.status = "filled"]
    <3>1. /\ q \in hedges' /\ q.status = "filled" /\ q # r
          /\ q.pair = r.pair /\ q.side = r.side /\ q.size = r.size /\ q.id = r.id
      BY <2>0, <2>3 DEF HedgeOrder
    <3>2. q \notin hedges
      BY <3>1 DEF AuditInv, HedgesOnce
    <3>3. hedges' = (hedges \ {r}) \cup {q}
      BY <2>3
    <3>4. Signed(r.side, r.size) \in Int
      BY <2>0, SignedType DEF HedgeOrder
    <3> HIDE DEF q
    <3>5. q \notin FilledHedges(p, hedges)
      BY <3>2 DEF FilledHedges
    <3>6. FilledHedges(p, hedges') = IF q.pair = p THEN FilledHedges(p, hedges) \cup {q}
                                                   ELSE FilledHedges(p, hedges)
      BY <2>0, <3>1, <3>3 DEF FilledHedges
    <3>7. HedgesDelta(p, hedges') = HedgesDelta(p, hedges)
              + (IF p = q.pair THEN Signed(q.side, q.size) ELSE 0)
      BY <1>0, <3>1, <3>5, <3>6, HedgesDeltaAdd
    <3>8. position'[p] = position[p] + (IF p = r.pair THEN Signed(r.side, r.size) ELSE 0)
      BY <1>a, <2>0, <2>3, <3>4 DEF Execute
    <3> QED
      BY <1>1, <1>2, <2>1, <3>1, <3>4, <3>7, <3>8
  <2> QED
    BY <1>12, <2>2, <2>3 DEF AnswerHedge
\* What is summed of a hedge that is filled goes with it.
<1>c. ASSUME NEW r \in hedges, hedges' = hedges \ {r}
      PROVE  HedgesDelta(p, hedges) = HedgesDelta(p, hedges')
                 + (IF p = r.pair /\ r.status = "filled" THEN Signed(r.side, r.size) ELSE 0)
  <2>1. CASE r.status = "filled"
    <3>1. r \notin FilledHedges(p, hedges')
      BY <1>c DEF FilledHedges
    <3>2. FilledHedges(p, hedges) = IF r.pair = p THEN FilledHedges(p, hedges') \cup {r}
                                                  ELSE FilledHedges(p, hedges')
      BY <1>c, <2>1 DEF FilledHedges
    <3>3. HedgesDelta(p, hedges) = HedgesDelta(p, hedges')
              + (IF p = r.pair THEN Signed(r.side, r.size) ELSE 0)
      BY <1>0, <2>1, <3>1, <3>2, HedgesDeltaAdd
    <3> QED
      BY <2>1, <3>3
  <2>2. CASE r.status # "filled"
    <3>1. FilledHedges(p, hedges) = FilledHedges(p, hedges')
      BY <1>c, <2>2 DEF FilledHedges
    <3>2. HedgesDelta(p, hedges) = HedgesDelta(p, hedges')
      BY <1>0, <3>1, HedgesDeltaSame
    <3> QED
      BY <1>1, <2>2, <3>2
  <2> QED
    BY <2>1, <2>2
<1>13. ASSUME NEW r \in hedges, ApplyHedge(r)
       PROVE  position'[p] = inventory'[p] + TickDelta(p, fills')
                                 + HedgesDelta(p, hedges') + gap'[p]
  <2>0. r \in HedgeOrder /\ r.pair \in Pairs /\ Signed(r.side, r.size) \in Int
    BY <1>0, SignedType DEF HedgeOrder
  <2>1. HedgesDelta(p, hedges) = HedgesDelta(p, hedges')
            + (IF p = r.pair /\ r.status = "filled" THEN Signed(r.side, r.size) ELSE 0)
    BY <1>c, <1>13 DEF ApplyHedge
  <2>2. inventory'[p] = inventory[p] + (IF p = r.pair THEN HedgeDelta(r) ELSE 0)
    BY <1>1, <1>13, <2>0 DEF ApplyHedge, TypeOK, HedgeDelta
  <2>3. UNCHANGED <<position, fills, gap>>
    BY <1>13 DEF ApplyHedge, tickVars, historyVars
  <2>4. HedgesDelta(p, hedges') \in Int
    BY <1>0, HedgesDeltaType
  <2> QED
    BY <1>1, <1>2, <2>0, <2>1, <2>2, <2>3, <2>4 DEF HedgeDelta
<1>14. ASSUME NEW r \in hedges, FailHedge(r)
       PROVE  position'[p] = inventory'[p] + TickDelta(p, fills')
                                 + HedgesDelta(p, hedges') + gap'[p]
  <2> DEFINE n == Signed(r.side, r.size)
  <2>0. r \in HedgeOrder /\ r.pair \in Pairs /\ n \in Int
    BY <1>0, SignedType DEF HedgeOrder
  <2>1. HedgesDelta(p, hedges) = HedgesDelta(p, hedges')
            + (IF p = r.pair /\ r.status = "filled" THEN n ELSE 0)
    BY <1>c, <1>14 DEF FailHedge
  <2>2. UNCHANGED <<inventory, fills>>
    BY <1>14 DEF FailHedge, engineVars, tickVars
  <2>3. HedgesDelta(p, hedges') \in Int
    BY <1>0, HedgesDeltaType
  <2>4. CASE r.status # "filled" /\ UNCHANGED <<position, gap>>
    BY <1>1, <1>2, <2>1, <2>2, <2>3, <2>4
  <2>5. CASE /\ r.status = "sent" /\ Execute(r.pair, r.side, r.size)
             /\ gap' = [gap EXCEPT ![r.pair] = @ + Signed(r.side, r.size)]
    <3>1. position'[p] = position[p] + (IF p = r.pair THEN n ELSE 0)
      BY <1>a, <2>0, <2>5 DEF Execute
    <3>2. gap'[p] = gap[p] + (IF p = r.pair THEN n ELSE 0)
      BY <1>b, <2>0, <2>5
    <3> HIDE DEF n
    <3> QED
      BY <1>1, <1>2, <2>0, <2>1, <2>2, <2>3, <2>5, <3>1, <3>2
  <2>6. CASE /\ r.status = "filled" /\ UNCHANGED position
             /\ gap' = [gap EXCEPT ![r.pair] = @ + Signed(r.side, r.size)]
    <3>1. gap'[p] = gap[p] + (IF p = r.pair THEN n ELSE 0)
      BY <1>b, <2>0, <2>6
    <3> HIDE DEF n
    <3> QED
      BY <1>1, <1>2, <2>0, <2>1, <2>2, <2>3, <2>6, <3>1
  <2> QED
    BY <1>14, <2>4, <2>5, <2>6 DEF FailHedge
<1> QED
  BY <1>4, <1>5, <1>7, <1>8, <1>9, <1>10, <1>11, <1>12, <1>13, <1>14
  DEF Next, TickNext, OperatorNext, HedgeNext

\* What the exchange holds of a pair is what the engine believes plus what is
\* answered and not booked yet plus what was written off, for any number of
\* pairs, ticks and concurrent manual hedges: nothing is booked twice, with the
\* wrong sign, or for another pair.
THEOREM BooksAlwaysBalance == Spec => []BooksBalance
<1>1. Init => AuditInv
  BY InitAudit
<1>2. TypeOK /\ TypeOK' /\ AuditInv /\ [Next]_vars => AuditInv'
  BY NextOnce, NextBalance DEF AuditInv
<1>3. AuditInv => BooksBalance
  BY DEF AuditInv
<1>4. Spec => []TypeOK
  BY TypeCorrect
<1> QED
  BY <1>1, <1>2, <1>3, <1>4, PTL DEF Spec

-----------------------------------------------------------------------------
(* The abstract ledger: what Ledger promises, whoever implements it *)

\* FiniteSets and Functions mean the same there.
LEMMA LedgerFinite == ASSUME NEW S PROVE L!IsFiniteSet(S) <=> IsFiniteSet(S)
BY DEF L!IsFiniteSet, IsFiniteSet

LEMMA LedgerSum ==
   ASSUME NEW f, NEW S
   PROVE L!SumFunctionOnSet(f, S) = SumFunctionOnSet(f, S)
BY DEF L!SumFunctionOnSet, L!FoldFunctionOnSet, L!MapThenFoldSet,
       SumFunctionOnSet, FoldFunctionOnSet, MapThenFoldSet

\* The total of an account is an integer.
LEMMA LedgerTotalType ==
    ASSUME NEW a, NEW O, IsFiniteSet(O), \A o \in O : o.amount \in Int
    PROVE  L!Total(a, O) \in Int
<1> DEFINE f == [o \in O |-> o.amount]
           S == {o \in O : o.account = a}
<1>1. IsFiniteSet(S) /\ \A o \in S : f[o] \in Int
  BY FS_Subset
<1> HIDE DEF f, S
<1>2. SumFunctionOnSet(f, S) \in Int
  BY <1>1, SumType
<1> QED
  BY <1>2, LedgerSum DEF L!Total, f, S

\* The total of one order.
LEMMA LedgerTotalOne ==
    ASSUME NEW a, NEW o, o.amount \in Int
    PROVE  L!Total(a, {o}) = IF o.account = a THEN o.amount ELSE 0
<1> DEFINE f == [x \in {o} |-> x.amount]
           T == {x \in {o} : x.account = a}
<1>1. L!Total(a, {o}) = SumFunctionOnSet(f, T)
  BY LedgerSum DEF L!Total
<1>2. f[o] = o.amount /\ \A x \in {} \cup {o} : f[x] \in Int
  OBVIOUS
<1>3. T = IF o.account = a THEN {} \cup {o} ELSE {}
  OBVIOUS
<1> HIDE DEF f, T
<1>4. SumFunctionOnSet(f, {} \cup {o}) = f[o] + SumFunctionOnSet(f, {})
  BY <1>2, SumAdd, FS_EmptySet
<1>5. SumFunctionOnSet(f, {}) = 0
  BY SumEmpty
<1>6. SumFunctionOnSet(f, T)
      = IF o.account = a THEN SumFunctionOnSet(f, {} \cup {o})
                         ELSE SumFunctionOnSet(f, {})
  BY <1>3
<1> QED
  BY <1>1, <1>2, <1>4, <1>5, <1>6

\* A total may be taken in two parts.
LEMMA LedgerTotalSplit ==
    ASSUME NEW a, NEW O, IsFiniteSet(O), \A o \in O : o.amount \in Int,
           NEW B \in SUBSET O
    PROVE  L!Total(a, O) = L!Total(a, O \ B) + L!Total(a, B)
<1> DEFINE f == [o \in O |-> o.amount]
           C == O \ B
           g == [o \in C |-> o.amount]
           h == [o \in B |-> o.amount]
           S == {o \in C : o.account = a}
           T == {o \in B : o.account = a}
<1>1. {o \in O : o.account = a} = S \cup T
  OBVIOUS
<1>2. /\ IsFiniteSet(S) /\ IsFiniteSet(T) /\ S \cap T = {}
      /\ \A x \in S \cup T : f[x] \in Int
      /\ \A x \in S : g[x] = f[x]
      /\ \A x \in T : h[x] = f[x]
  BY FS_Subset
<1>3. /\ L!Total(a, O) = SumFunctionOnSet(f, {o \in O : o.account = a})
      /\ L!Total(a, C) = SumFunctionOnSet(g, S)
      /\ L!Total(a, B) = SumFunctionOnSet(h, T)
  BY LedgerSum DEF L!Total
<1> HIDE DEF f, g, h, S, T
<1>4. SumFunctionOnSet(f, S \cup T) = SumFunctionOnSet(f, S) + SumFunctionOnSet(f, T)
  BY <1>2, SumUnion
<1>5. /\ SumFunctionOnSet(g, S) = SumFunctionOnSet(f, S)
      /\ SumFunctionOnSet(h, T) = SumFunctionOnSet(f, T)
  BY <1>2, SumSame
<1> QED
  BY <1>1, <1>3, <1>4, <1>5

\* One more order, or one less.
LEMMA LedgerTotalAdd ==
    ASSUME NEW a, NEW O, IsFiniteSet(O), NEW o, o \notin O,
           \A x \in O \cup {o} : x.amount \in Int
    PROVE  L!Total(a, O \cup {o})
           = L!Total(a, O) + (IF o.account = a THEN o.amount ELSE 0)
<1> DEFINE P == O \cup {o}
<1>1. IsFiniteSet(P) /\ P \ {o} = O /\ {o} \in SUBSET P /\ \A x \in P : x.amount \in Int
  BY FS_AddElement
<1> HIDE DEF P
<1>2. L!Total(a, P) = L!Total(a, P \ {o}) + L!Total(a, {o})
  BY <1>1, LedgerTotalSplit
<1>3. o.amount \in Int
  BY <1>1
<1> QED
  BY <1>1, <1>2, <1>3, LedgerTotalOne DEF P

LEMMA LedgerTotalRemove ==
    ASSUME NEW a, NEW O, IsFiniteSet(O), NEW o \in O, \A x \in O : x.amount \in Int
    PROVE  L!Total(a, O)
           = L!Total(a, O \ {o}) + (IF o.account = a THEN o.amount ELSE 0)
<1>1. L!Total(a, O) = L!Total(a, O \ {o}) + L!Total(a, {o})
  BY LedgerTotalSplit
<1> QED
  BY <1>1, LedgerTotalOne

\* What entering one order in an account's column does to it.
LEMMA LedgerAdd ==
    ASSUME NEW f \in [Pairs -> Int], NEW o, o.account \in Pairs, o.amount \in Int
    PROVE  /\ L!Add(f, o) \in [Pairs -> Int]
           /\ \A p \in Pairs :
                 L!Add(f, o)[p] = f[p] + (IF o.account = p THEN o.amount ELSE 0)
BY DEF L!Add

\* An empty ledger is balanced.
LEMMA LedgerInit == L!Init => L!TypeOK /\ L!Balanced
<1> SUFFICES ASSUME L!Init PROVE L!TypeOK /\ L!Balanced
  OBVIOUS
<1>1. IsFiniteSet({}) /\ \A p : L!Total(p, {}) = 0
  <2>1. ASSUME NEW p PROVE L!Total(p, {}) = 0
    <3> DEFINE f == [o \in {} |-> o.amount]
    <3>1. L!Total(p, {}) = SumFunctionOnSet(f, {})
      BY LedgerSum DEF L!Total
    <3> HIDE DEF f
    <3> QED
      BY <3>1, SumEmpty
  <2> QED
    BY <2>1, FS_EmptySet
<1> QED
  BY <1>1, LedgerFinite DEF L!Init, L!TypeOK, L!Balanced

\* Every entry of the ledger keeps it balanced.
LEMMA LedgerNext ==
    ASSUME L!TypeOK, L!Balanced, [L!Next]_(L!vars)
    PROVE  L!TypeOK' /\ L!Balanced'
<1>0. /\ IsFiniteSet(OrdersOut) /\ IsFiniteSet(OrdersExecuted)
      /\ \A o \in OrdersOut \cup OrdersExecuted : o.account \in Pairs /\ o.amount \in Int
      /\ \A p \in Pairs : /\ inventory[p] \in Int /\ gap[p] \in Int
                          /\ L!Total(p, OrdersExecuted) \in Int
  BY LedgerFinite, LedgerTotalType DEF L!TypeOK
<1>1. CASE L!Ask
  <2>1. L!TypeOK'
    BY <1>1, LedgerFinite DEF L!TypeOK, L!Ask
  <2>2. L!Balanced'
    BY <1>1 DEF L!Balanced, L!Ask
  <2> QED
    BY <2>1, <2>2
<1>2. ASSUME NEW o \in OrdersOut, L!Refuse(o) PROVE L!TypeOK' /\ L!Balanced'
  <2>1. IsFiniteSet(OrdersOut')
    BY <1>0, <1>2, FS_RemoveElement DEF L!Refuse
  <2>2. L!TypeOK'
    BY <1>2, <2>1, LedgerFinite DEF L!TypeOK, L!Refuse
  <2>3. L!Balanced'
    BY <1>2 DEF L!Balanced, L!Refuse
  <2> QED
    BY <2>2, <2>3
<1>3. ASSUME NEW o \in OrdersOut, L!Fill(o) PROVE L!TypeOK' /\ L!Balanced'
  <2>1. o.account \in Pairs /\ o.amount \in Int /\ o \notin OrdersExecuted
    BY <1>0 DEF L!TypeOK
  <2>2. IsFiniteSet(OrdersOut') /\ IsFiniteSet(OrdersExecuted')
    BY <1>0, <1>3, FS_RemoveElement, FS_AddElement DEF L!Fill
  <2>3. /\ position' \in [Pairs -> Int]
        /\ \A p \in Pairs :
              position'[p] = position[p] + (IF o.account = p THEN o.amount ELSE 0)
    BY <1>3, <2>1, LedgerAdd DEF L!TypeOK, L!Fill
  <2>4. L!TypeOK'
    BY <1>3, <2>2, <2>3, LedgerFinite DEF L!TypeOK, L!Fill
  <2>5. ASSUME NEW p \in Pairs
        PROVE  L!Total(p, OrdersExecuted') = L!Total(p, OrdersExecuted)
                   + (IF o.account = p THEN o.amount ELSE 0)
    <3>1. \A x \in OrdersExecuted \cup {o} : x.amount \in Int
      BY <1>0
    <3>2. L!Total(p, OrdersExecuted \cup {o}) = L!Total(p, OrdersExecuted)
              + (IF o.account = p THEN o.amount ELSE 0)
      BY <1>0, <2>1, <3>1, LedgerTotalAdd
    <3> QED
      BY <1>3, <3>2 DEF L!Fill
  <2>6. ASSUME NEW p \in Pairs
        PROVE  position'[p] = inventory'[p] + L!Total(p, OrdersExecuted') + gap'[p]
    <3>1. position[p] = inventory[p] + L!Total(p, OrdersExecuted) + gap[p]
      BY DEF L!Balanced
    <3>2. inventory' = inventory /\ gap' = gap
      BY <1>3 DEF L!Fill
    <3> QED
      BY <1>0, <2>1, <2>3, <2>5, <3>1, <3>2
  <2> QED
    BY <2>4, <2>6 DEF L!Balanced
<1>4. ASSUME NEW o \in OrdersOut, L!Miss(o) PROVE L!TypeOK' /\ L!Balanced'
  <2>1. o.account \in Pairs /\ o.amount \in Int
    BY <1>0
  <2>2. IsFiniteSet(OrdersOut')
    BY <1>0, <1>4, FS_RemoveElement DEF L!Miss
  <2>3. /\ position' \in [Pairs -> Int] /\ gap' \in [Pairs -> Int]
        /\ \A p \in Pairs :
              /\ position'[p] = position[p] + (IF o.account = p THEN o.amount ELSE 0)
              /\ gap'[p] = gap[p] + (IF o.account = p THEN o.amount ELSE 0)
    BY <1>4, <2>1, LedgerAdd DEF L!TypeOK, L!Miss
  <2>4. L!TypeOK'
    BY <1>4, <2>2, <2>3, LedgerFinite DEF L!TypeOK, L!Miss
  <2>5. ASSUME NEW p \in Pairs
        PROVE  position'[p] = inventory'[p] + L!Total(p, OrdersExecuted') + gap'[p]
    <3>1. position[p] = inventory[p] + L!Total(p, OrdersExecuted) + gap[p]
      BY DEF L!Balanced
    <3>2. inventory' = inventory /\ OrdersExecuted' = OrdersExecuted
      BY <1>4 DEF L!Miss
    <3> QED
      BY <1>0, <2>1, <2>3, <3>1, <3>2
  <2> QED
    BY <2>4, <2>5 DEF L!Balanced
<1>5. CASE L!Settle
  <2>1. PICK B \in {{}, L!Batch} :
          /\ OrdersExecuted' = OrdersExecuted \ B
          /\ inventory' \in [Pairs -> Int]
          /\ gap' \in [Pairs -> Int]
          /\ \A p \in Pairs :
                /\ inventory'[p] \in L!UpTo(inventory[p] + L!Total(p, B))
                /\ gap'[p] = gap[p] + (inventory[p] + L!Total(p, B)) - inventory'[p]
          /\ UNCHANGED <<OrdersOut, position>>
    BY <1>5 DEF L!Settle
  <2>2. B \in SUBSET OrdersExecuted
    BY DEF L!Batch
  <2>3. IsFiniteSet(OrdersExecuted')
    BY <1>0, <2>1, FS_Subset
  <2>4. L!TypeOK'
    BY <2>1, <2>3, LedgerFinite DEF L!TypeOK
  <2>5. ASSUME NEW p \in Pairs
        PROVE  position'[p] = inventory'[p] + L!Total(p, OrdersExecuted') + gap'[p]
    <3>1. position[p] = inventory[p] + L!Total(p, OrdersExecuted) + gap[p]
      BY DEF L!Balanced
    <3>2. L!Total(p, OrdersExecuted) = L!Total(p, OrdersExecuted \ B) + L!Total(p, B)
      BY <1>0, <2>2, LedgerTotalSplit
    <3>3. L!Total(p, B) \in Int
      <4>1. IsFiniteSet(B) /\ \A o \in B : o.amount \in Int
        BY <1>0, <2>2, FS_Subset
      <4> QED
        BY <4>1, LedgerTotalType
    <3>4. L!Total(p, OrdersExecuted \ B) \in Int
      <4>1. IsFiniteSet(OrdersExecuted \ B) /\ \A o \in OrdersExecuted \ B : o.amount \in Int
        BY <1>0, FS_Subset
      <4> QED
        BY <4>1, LedgerTotalType
    <3>5. /\ inventory'[p] \in Int
          /\ gap'[p] = gap[p] + (inventory[p] + L!Total(p, B)) - inventory'[p]
          /\ L!Total(p, OrdersExecuted') = L!Total(p, OrdersExecuted \ B)
          /\ position' = position
      BY <2>1
    <3> QED
      BY <1>0, <3>1, <3>2, <3>3, <3>4, <3>5
  <2> QED
    BY <2>4, <2>5 DEF L!Balanced
<1>6. ASSUME NEW o \in OrdersExecuted, L!Enter(o) \/ L!GiveUp(o)
      PROVE  L!TypeOK' /\ L!Balanced'
  <2>1. o.account \in Pairs /\ o.amount \in Int
    BY <1>0
  <2>2. /\ OrdersExecuted' = OrdersExecuted \ {o}
        /\ UNCHANGED <<OrdersOut, position>>
        /\ \/ inventory' = L!Add(inventory, o) /\ gap' = gap
           \/ gap' = L!Add(gap, o) /\ inventory' = inventory
    BY <1>6 DEF L!Enter, L!GiveUp
  <2>3. IsFiniteSet(OrdersExecuted')
    BY <1>0, <2>2, FS_RemoveElement
  <2>4. /\ inventory' \in [Pairs -> Int] /\ gap' \in [Pairs -> Int]
        /\ \A p \in Pairs :
              inventory'[p] + gap'[p]
              = inventory[p] + gap[p] + (IF o.account = p THEN o.amount ELSE 0)
    <3>1. inventory \in [Pairs -> Int] /\ gap \in [Pairs -> Int]
      BY DEF L!TypeOK
    <3>2. CASE inventory' = L!Add(inventory, o) /\ gap' = gap
      BY <1>0, <2>1, <3>1, <3>2, LedgerAdd
    <3>3. CASE gap' = L!Add(gap, o) /\ inventory' = inventory
      BY <1>0, <2>1, <3>1, <3>3, LedgerAdd
    <3> QED
      BY <2>2, <3>2, <3>3
  <2>5. L!TypeOK'
    BY <2>2, <2>3, <2>4, LedgerFinite DEF L!TypeOK
  <2>6. ASSUME NEW p \in Pairs
        PROVE  position'[p] = inventory'[p] + L!Total(p, OrdersExecuted') + gap'[p]
    <3>1. position[p] = inventory[p] + L!Total(p, OrdersExecuted) + gap[p]
      BY DEF L!Balanced
    <3>2. L!Total(p, OrdersExecuted) = L!Total(p, OrdersExecuted \ {o})
              + (IF o.account = p THEN o.amount ELSE 0)
      <4>1. \A x \in OrdersExecuted : x.amount \in Int
        BY <1>0
      <4> QED
        BY <1>0, <4>1, LedgerTotalRemove
    <3>3. L!Total(p, OrdersExecuted') = L!Total(p, OrdersExecuted \ {o})
      BY <2>2
    <3>4. L!Total(p, OrdersExecuted') \in Int
      <4>1. \A x \in OrdersExecuted' : x.amount \in Int
        BY <1>0, <2>2
      <4> QED
        BY <2>3, <4>1, LedgerTotalType
    <3>5. inventory'[p] \in Int /\ gap'[p] \in Int /\ position' = position
      BY <2>2, <2>4
    <3>6. inventory'[p] + gap'[p]
          = inventory[p] + gap[p] + (IF o.account = p THEN o.amount ELSE 0)
      BY <2>4
    <3> QED
      BY <1>0, <2>1, <3>1, <3>2, <3>3, <3>4, <3>5, <3>6
  <2> QED
    BY <2>5, <2>6 DEF L!Balanced
<1>7. CASE L!Clear
  <2>1. PICK A \in SUBSET Pairs :
          /\ inventory' = [p \in Pairs |-> IF p \in A THEN 0 ELSE inventory[p]]
          /\ gap' = [p \in Pairs |-> IF p \in A THEN gap[p] + inventory[p] ELSE gap[p]]
          /\ UNCHANGED <<OrdersOut, OrdersExecuted, position>>
    BY <1>7 DEF L!Clear
  <2>2. L!TypeOK'
    BY <1>0, <2>1, LedgerFinite DEF L!TypeOK
  <2>3. ASSUME NEW p \in Pairs
        PROVE  position'[p] = inventory'[p] + L!Total(p, OrdersExecuted') + gap'[p]
    <3>1. position[p] = inventory[p] + L!Total(p, OrdersExecuted) + gap[p]
      BY DEF L!Balanced
    <3> QED
      BY <1>0, <2>1, <3>1
  <2> QED
    BY <2>2, <2>3 DEF L!Balanced
<1>8. CASE UNCHANGED L!vars
  <2>1. UNCHANGED <<OrdersOut, OrdersExecuted, inventory, position, gap>>
    BY <1>8 DEF L!vars
  <2>2. L!TypeOK'
    BY <2>1, LedgerFinite DEF L!TypeOK
  <2> QED
    BY <2>1, <2>2 DEF L!Balanced
<1> QED
  BY <1>1, <1>2, <1>3, <1>4, <1>5, <1>6, <1>7, <1>8 DEF L!Next

\* What Ledger promises: no order is both out and executed, and nothing is held
\* that is neither booked, nor to be booked, nor on record as written off.
LEMMA LedgerKeepsBalance == L!Spec => [](L!TypeOK /\ L!Balanced)
BY LedgerInit, LedgerNext, PTL DEF L!Spec

-----------------------------------------------------------------------------
(* Engine implements Ledger *)

\* The ledger's view of a set of tick orders, and of the requests by hand.
TickOrders(F) == {TickOrder(o) : o \in F}

HandOrdersOf(H, status) == {HandOrder(r) : r \in {q \in H : q.status = status}}

LEMMA LedgerOrders ==
    /\ OrdersOut = TickOrders(pending) \cup HandOrdersOf(hedges, "sent")
    /\ OrdersExecuted = TickOrders(fills) \cup HandOrdersOf(hedges, "filled")
BY DEF OrdersOut, OrdersExecuted, TickOrders, HandOrders, HandOrdersOf

\* A tick order of the ledger tells its pair and side.
LEMMA TickOrderFields ==
    /\ \A o : /\ TickOrder(o).manual = FALSE /\ TickOrder(o).account = o[1]
              /\ TickOrder(o).amount = Signed(o[2], OrderSize)
    /\ \A o, q \in Pairs \X Sides : TickOrder(o) = TickOrder(q) => o = q
    /\ \A o \in Pairs \X Sides : /\ TickOrder(o).account \in Pairs
                                 /\ TickOrder(o).amount \in Int \ {0}
<1>1. \A o : /\ TickOrder(o).manual = FALSE /\ TickOrder(o).account = o[1]
             /\ TickOrder(o).amount = Signed(o[2], OrderSize)
             /\ TickOrder(o).id = o[2]
  BY DEF TickOrder
<1>2. ASSUME NEW o \in Pairs \X Sides, NEW q \in Pairs \X Sides,
             TickOrder(o) = TickOrder(q)
      PROVE  o = q
  <2>1. o[1] = q[1] /\ o[2] = q[2]
    BY <1>1, <1>2
  <2> QED
    BY <2>1
<1>3. ASSUME NEW o \in Pairs \X Sides
      PROVE  o[1] \in Pairs /\ Signed(o[2], OrderSize) \in Int \ {0}
  <2>1. o[1] \in Pairs /\ o[2] \in {"buy", "sell"}
    BY DEF Sides
  <2> QED
    BY <2>1, SizesAssumption DEF Signed
<1> QED
  BY <1>1, <1>2, <1>3

\* So does one sent by hand, and its request.
LEMMA HandOrderFields ==
    /\ \A r : /\ HandOrder(r).manual = TRUE /\ HandOrder(r).account = r.pair
              /\ HandOrder(r).amount = Signed(r.side, r.size)
              /\ HandOrder(r).id = r.id
    /\ \A r \in HedgeOrder : /\ HandOrder(r).account \in Pairs
                             /\ HandOrder(r).amount \in Int \ {0}
<1>1. \A r : /\ HandOrder(r).manual = TRUE /\ HandOrder(r).account = r.pair
             /\ HandOrder(r).amount = Signed(r.side, r.size)
             /\ HandOrder(r).id = r.id
  BY DEF HandOrder
<1>2. ASSUME NEW r \in HedgeOrder
      PROVE  r.pair \in Pairs /\ Signed(r.side, r.size) \in Int \ {0}
  <2>1. r.pair \in Pairs /\ r.size \in Nat \ {0}
    BY DEF HedgeOrder
  <2> QED
    BY <2>1 DEF Signed
<1> QED
  BY <1>1, <1>2

LEMMA TickOrdersChange ==
    ASSUME NEW F \in SUBSET (Pairs \X Sides), NEW o \in Pairs \X Sides
    PROVE  /\ TickOrders(F \cup {o}) = TickOrders(F) \cup {TickOrder(o)}
           /\ TickOrders(F \ {o}) = TickOrders(F) \ {TickOrder(o)}
           /\ TickOrder(o) \in TickOrders(F) <=> o \in F
<1>1. \A q \in Pairs \X Sides : TickOrder(q) = TickOrder(o) <=> q = o
  BY TickOrderFields
<1> QED
  BY <1>1 DEF TickOrders

\* A request that has just come in is in no set that has not its id.
LEMMA HandOrderNew ==
    ASSUME NEW H, NEW r, \A q \in H : q.id # r.id, NEW status
    PROVE  HandOrder(r) \notin HandOrdersOf(H, status)
BY HandOrderFields DEF HandOrdersOf

\* An order of a tick is never one sent by hand.
LEMMA TickNotHand ==
    ASSUME NEW F, NEW H, NEW status
    PROVE  /\ TickOrders(F) \cap HandOrdersOf(H, status) = {}
           /\ \A o : TickOrder(o) \notin HandOrdersOf(H, status)
           /\ \A r : HandOrder(r) \notin TickOrders(F)
<1>1. \A o, r : TickOrder(o) # HandOrder(r)
  <2> SUFFICES ASSUME NEW o, NEW r PROVE TickOrder(o) # HandOrder(r)
    OBVIOUS
  <2>1. TickOrder(o).manual = FALSE /\ HandOrder(r).manual = TRUE
    BY TickOrderFields, HandOrderFields
  <2> QED
    BY <2>1
<1> QED
  BY <1>1 DEF TickOrders, HandOrdersOf

LEMMA TickOrdersFinite ==
    ASSUME NEW F \in SUBSET (Pairs \X Sides)
    PROVE  /\ IsFiniteSet(TickOrders(F))
           /\ \A x \in TickOrders(F) : /\ x.manual = FALSE /\ x.account \in Pairs
                                       /\ x.amount \in Int \ {0}
<1> DEFINE f == [o \in F |-> TickOrder(o)]
<1>1. IsFiniteSet(F)
  BY OrdersFinite
<1>2. f \in Surjection(F, TickOrders(F))
  BY DEF Surjection, TickOrders
<1> HIDE DEF f
<1>3. IsFiniteSet(TickOrders(F))
  BY <1>1, <1>2, FS_Surjection
<1>4. ASSUME NEW x \in TickOrders(F)
      PROVE  x.manual = FALSE /\ x.account \in Pairs /\ x.amount \in Int \ {0}
  <2>1. PICK o \in F : x = TickOrder(o)
    BY DEF TickOrders
  <2> QED
    BY <2>1, TickOrderFields
<1> QED
  BY <1>3, <1>4

LEMMA HandOrdersFinite ==
    ASSUME NEW H \in SUBSET HedgeOrder, IsFiniteSet(H), NEW status
    PROVE  /\ IsFiniteSet(HandOrdersOf(H, status))
           /\ \A x \in HandOrdersOf(H, status) : /\ x.manual = TRUE /\ x.account \in Pairs
                                                 /\ x.amount \in Int \ {0}
<1> DEFINE G == {q \in H : q.status = status}
           f == [r \in G |-> HandOrder(r)]
<1>1. IsFiniteSet(G)
  BY FS_Subset
<1>2. f \in Surjection(G, HandOrdersOf(H, status))
  BY DEF Surjection, HandOrdersOf
<1> HIDE DEF f, G
<1>3. IsFiniteSet(HandOrdersOf(H, status))
  BY <1>1, <1>2, FS_Surjection
<1>4. ASSUME NEW x \in HandOrdersOf(H, status)
      PROVE  x.manual = TRUE /\ x.account \in Pairs /\ x.amount \in Int \ {0}
  <2>1. PICK r \in H : x = HandOrder(r)
    BY DEF HandOrdersOf
  <2> QED
    BY <2>1, HandOrderFields
<1> QED
  BY <1>3, <1>4

\* No other account's order counts.
LEMMA LedgerTotalNone ==
    ASSUME NEW p, NEW O, \A o \in O : o.account # p
    PROVE  L!Total(p, O) = 0
<1> DEFINE f == [o \in O |-> o.amount]
<1>1. {o \in O : o.account = p} = {}
  OBVIOUS
<1>2. L!Total(p, O) = SumFunctionOnSet(f, {})
  BY <1>1, LedgerSum DEF L!Total
<1> HIDE DEF f
<1> QED
  BY <1>2, SumEmpty

\* The batch of a tick has at most two orders of a pair, which are what the
\* engine adds to its inventory.
LEMMA BatchTotal ==
    ASSUME NEW F \in SUBSET (Pairs \X Sides), NEW p \in Pairs
    PROVE  L!Total(p, TickOrders(F)) = TickDelta(p, F)
<1> DEFINE b == <<p, "buy">>
           s == <<p, "sell">>
           G == F \ {b}
           R == G \ {s}
           Size(o, E) == IF o \in E THEN Signed(o[2], OrderSize) ELSE 0
<1>1. b \in Pairs \X Sides /\ s \in Pairs \X Sides /\ b # s /\ b[1] = p /\ s[1] = p
  BY DEF Sides
<1>2. ASSUME NEW E \in SUBSET (Pairs \X Sides), NEW o \in Pairs \X Sides, o[1] = p
      PROVE  L!Total(p, TickOrders(E)) = L!Total(p, TickOrders(E \ {o})) + Size(o, E)
  <2>0. IsFiniteSet(TickOrders(E)) /\ \A x \in TickOrders(E) : x.amount \in Int
    BY TickOrdersFinite
  <2>1. CASE o \in E
    <3>1. TickOrder(o) \in TickOrders(E)
      BY <2>1, TickOrdersChange
    <3>2. L!Total(p, TickOrders(E)) = L!Total(p, TickOrders(E) \ {TickOrder(o)})
              + (IF TickOrder(o).account = p THEN TickOrder(o).amount ELSE 0)
      BY <2>0, <3>1, LedgerTotalRemove
    <3>3. TickOrders(E) \ {TickOrder(o)} = TickOrders(E \ {o})
      BY TickOrdersChange
    <3>4. TickOrder(o).account = p /\ TickOrder(o).amount = Signed(o[2], OrderSize)
      BY <1>2, TickOrderFields
    <3> QED
      BY <2>1, <3>2, <3>3, <3>4
  <2>2. CASE o \notin E
    <3>1. E \ {o} = E
      BY <2>2
    <3>2. L!Total(p, TickOrders(E)) \in Int
      BY <2>0, LedgerTotalType
    <3> QED
      BY <2>2, <3>1, <3>2
  <2> QED
    BY <2>1, <2>2
<1>3. L!Total(p, TickOrders(R)) = 0
  <2>1. \A o \in R : o[1] # p
    BY DEF Sides
  <2>2. \A x \in TickOrders(R) : x.account # p
    <3> HIDE DEF R
    <3> QED
      BY <2>1, TickOrderFields DEF TickOrders
  <2> HIDE DEF R
  <2> QED
    BY <2>2, LedgerTotalNone
<1>4. L!Total(p, TickOrders(F)) = L!Total(p, TickOrders(G)) + Size(b, F)
  BY <1>1, <1>2
<1>5. L!Total(p, TickOrders(G)) = L!Total(p, TickOrders(R)) + Size(s, G)
  <2> HIDE DEF Size
  <2> QED
    BY <1>1, <1>2
<1>6. /\ Size(b, F) = IF b \in F THEN OrderSize ELSE 0
      /\ Size(s, G) = IF s \in F THEN -OrderSize ELSE 0
  BY <1>1 DEF Signed
<1>7. TickDelta(p, F) = (IF b \in F THEN OrderSize ELSE 0) - (IF s \in F THEN OrderSize ELSE 0)
  BY DEF TickDelta
<1>8. OrderSize \in Int
  BY SizesAssumption
<1> HIDE DEF b, s, G, R, Size
<1> QED
  BY <1>3, <1>4, <1>5, <1>6, <1>7, <1>8

\* What a payload does to the books, whichever fills it is given.
LEMMA PayloadSettles ==
    ASSUME TypeOK, TypeOK', NEW F \in SUBSET fills, NEW A, BuildPayload(F, A),
           UNCHANGED <<OrdersOut, position>>,
           NEW B \in {{}, L!Batch}, OrdersExecuted' = OrdersExecuted \ B,
           \A p \in Pairs : L!Total(p, B) = TickDelta(p, F)
    PROVE  L!Settle
<1>1. ASSUME NEW p \in Pairs
      PROVE  LET booked == inventory[p] + L!Total(p, B)
             IN  /\ inventory'[p] \in L!UpTo(booked)
                 /\ gap'[p] = gap[p] + booked - inventory'[p]
  <2> DEFINE booked == inventory[p] + TickDelta(p, F)
  <2>1. Booked(F) = F
    BY DEF Booked, TypeOK
  <2>2. FilledInventory(F)[p] = booked
    BY <2>1 DEF FilledInventory
  <2>3. booked \in Int
    BY TickDeltaType DEF TypeOK
  <2>4. /\ inventory'[p] \in {booked, ApplyRatio(booked, 55, 100)}
        /\ gap'[p] = gap[p] + booked - inventory'[p]
    BY <2>2 DEF BuildPayload
  <2> HIDE DEF booked
  <2>5. inventory'[p] \in L!UpTo(booked)
    BY <2>3, <2>4 DEF L!UpTo, ApplyRatio
  <2> QED
    BY <2>4, <2>5 DEF booked
<1>2. inventory' \in [Pairs -> Int] /\ gap' \in [Pairs -> Int]
  BY DEF TypeOK
<1> QED
  BY <1>1, <1>2 DEF L!Settle

\* Every step of the engine is one of the ledger, or leaves the books alone.
LEMMA NextLedger ==
    ASSUME TypeOK, TypeOK', OrdersOnce, HedgesOnce, HedgesOnce', [Next]_vars
    PROVE  [L!Next]_(L!vars)
<1>0. /\ pending \in SUBSET (Pairs \X Sides) /\ fills \in SUBSET (Pairs \X Sides)
      /\ pending' \in SUBSET (Pairs \X Sides) /\ fills' \in SUBSET (Pairs \X Sides)
      /\ hedges \in SUBSET HedgeOrder /\ IsFiniteSet(hedges)
      /\ hedges' \in SUBSET HedgeOrder /\ IsFiniteSet(hedges')
      /\ \A q, r \in hedges : q.id = r.id => q = r
  BY DEF TypeOK, HedgesOnce
<1>1. /\ OrdersOut = TickOrders(pending) \cup HandOrdersOf(hedges, "sent")
      /\ OrdersExecuted = TickOrders(fills) \cup HandOrdersOf(hedges, "filled")
      /\ OrdersOut' = TickOrders(pending') \cup HandOrdersOf(hedges', "sent")
      /\ OrdersExecuted' = TickOrders(fills') \cup HandOrdersOf(hedges', "filled")
  BY LedgerOrders DEF OrdersOut, OrdersExecuted, TickOrders, HandOrders, HandOrdersOf
\* Orders that are sent.
<1>2. /\ IsFiniteSet(OrdersOut')
      /\ \A x \in OrdersOut' : x.account \in Pairs /\ x.amount \in Int \ {0}
  <2>1. IsFiniteSet(TickOrders(pending')) /\ IsFiniteSet(HandOrdersOf(hedges', "sent"))
    BY <1>0, TickOrdersFinite, HandOrdersFinite
  <2>2. IsFiniteSet(OrdersOut')
    BY <1>1, <2>1, FS_Union
  <2> QED
    BY <1>0, <1>1, <2>2, TickOrdersFinite, HandOrdersFinite
<1>3. CASE ComputeOrders
  <2>1. pending = {} /\ fills = {} /\ fills' = fills /\ hedges' = hedges
    BY <1>3 DEF ComputeOrders, TypeOK, Live
  <2>2. OrdersOut \subseteq OrdersOut' /\ OrdersExecuted' = OrdersExecuted
    BY <1>1, <2>1 DEF TickOrders
  <2>3. \A x \in OrdersOut' \ OrdersOut : x \notin OrdersExecuted
    BY <1>1, <2>1, TickNotHand DEF TickOrders
  <2> QED
    BY <1>2, <1>3, <2>2, <2>3, LedgerFinite DEF L!Next, L!Ask, ComputeOrders
<1>4. ASSUME NEW o \in pending, AnswerOrder(o) \/ LoseOrder(o) PROVE L!Next
  <2> DEFINE x == TickOrder(o)
  <2>0. /\ o \in Pairs \X Sides /\ x.account = o[1]
        /\ x.amount = Signed(o[2], OrderSize)
    BY <1>0, TickOrderFields
  <2>1. /\ pending' = pending \ {o} /\ hedges' = hedges /\ inventory' = inventory
    BY <1>4 DEF AnswerOrder, LoseOrder, engineVars
  <2>2. x \in OrdersOut /\ OrdersOut' = OrdersOut \ {x}
    <3>1. TickOrders(pending') = TickOrders(pending) \ {x} /\ x \in TickOrders(pending)
      BY <1>0, <2>0, <2>1, TickOrdersChange
    <3>2. x \notin HandOrdersOf(hedges, "sent")
      BY TickNotHand
    <3> QED
      BY <1>1, <2>1, <3>1, <3>2
  <2>3. CASE UNCHANGED <<fills, position, gap>>
    <3>1. OrdersExecuted' = OrdersExecuted
      BY <1>1, <2>1, <2>3
    <3>2. L!Refuse(x)
      BY <2>1, <2>2, <2>3, <3>1 DEF L!Refuse
    <3> QED
      BY <2>2, <3>2 DEF L!Next
  <2>4. CASE fills' = fills \cup {o} /\ Execute(o[1], o[2], OrderSize) /\ gap' = gap
    <3>1. OrdersExecuted' = OrdersExecuted \cup {x}
      <4>1. TickOrders(fills') = TickOrders(fills) \cup {x}
        BY <1>0, <2>0, <2>4, TickOrdersChange
      <4> QED
        BY <1>1, <2>1, <4>1
    <3>2. position' = L!Add(position, x)
      BY <2>0, <2>4 DEF Execute, L!Add
    <3>3. L!Fill(x)
      BY <2>1, <2>2, <2>4, <3>1, <3>2 DEF L!Fill
    <3> QED
      BY <2>2, <3>3 DEF L!Next
  <2>5. CASE /\ fills' = fills /\ Execute(o[1], o[2], OrderSize)
             /\ gap' = [gap EXCEPT ![o[1]] = @ + Signed(o[2], OrderSize)]
    <3>1. OrdersExecuted' = OrdersExecuted
      BY <1>1, <2>1, <2>5
    <3>2. position' = L!Add(position, x) /\ gap' = L!Add(gap, x)
      BY <2>0, <2>5 DEF Execute, L!Add
    <3>3. L!Miss(x)
      BY <2>1, <2>2, <3>1, <3>2 DEF L!Miss
    <3> QED
      BY <2>2, <3>3 DEF L!Next
  <2> QED
    BY <1>4, <2>3, <2>4, <2>5 DEF AnswerOrder, LoseOrder
\* The batch of the ledger is the tick's.
<1>5. L!Batch = TickOrders(fills)
  <2>1. /\ \A x \in TickOrders(fills) : ~x.manual
        /\ \A x \in HandOrdersOf(hedges, "filled") : x.manual
    BY <1>0, TickOrdersFinite, HandOrdersFinite
  <2> QED
    BY <1>1, <2>1 DEF L!Batch
<1>6. CASE Publish
  <2>1. /\ pending' = pending /\ hedges' = hedges /\ fills' = {} /\ position' = position
        /\ BuildPayload(fills, adverse)
    BY <1>6 DEF Publish
  <2>2. OrdersOut' = OrdersOut /\ OrdersExecuted' = OrdersExecuted \ L!Batch
    <3>1. TickOrders(fills') = {}
      BY <2>1 DEF TickOrders
    <3>2. TickOrders(fills) \cap HandOrdersOf(hedges, "filled") = {}
      BY TickNotHand
    <3> QED
      BY <1>1, <1>5, <2>1, <3>1, <3>2
  <2>3. \A p \in Pairs : L!Total(p, L!Batch) = TickDelta(p, fills)
    BY <1>0, <1>5, BatchTotal
  <2>4. L!Settle
    BY <2>1, <2>2, <2>3, PayloadSettles
  <2> QED
    BY <2>4 DEF L!Next
<1>7. CASE StreamConnect
  <2>1. /\ pending' = pending /\ fills' = fills /\ hedges' = hedges
        /\ position' = position /\ BuildPayload({}, {})
    BY <1>7 DEF StreamConnect, tickVars
  <2>2. OrdersOut' = OrdersOut /\ OrdersExecuted' = OrdersExecuted \ {}
    BY <1>1, <2>1
  <2>3. \A p \in Pairs : L!Total(p, {}) = TickDelta(p, {})
    BY LedgerTotalNone, TickDeltaEmpty
  <2>4. L!Settle
    BY <2>1, <2>2, <2>3, PayloadSettles
  <2> QED
    BY <2>4 DEF L!Next
<1>8. CASE ResetSession
  <2>1. /\ pending' = pending /\ fills' = fills /\ hedges' = hedges
        /\ position' = position
        /\ inventory' = [p \in Pairs |-> IF p \in known THEN 0 ELSE inventory[p]]
        /\ gap' = [p \in Pairs |-> gap[p] + inventory[p] - inventory'[p]]
    BY <1>8 DEF ResetSession, tickVars
  <2>2. OrdersOut' = OrdersOut /\ OrdersExecuted' = OrdersExecuted
    BY <1>1, <2>1
  <2>3. gap' = [p \in Pairs |-> IF p \in known THEN gap[p] + inventory[p] ELSE gap[p]]
    <3>1. \A p \in Pairs : inventory[p] \in Int /\ gap[p] \in Int
      BY DEF TypeOK
    <3>2. \A p \in Pairs : gap[p] + inventory[p] - inventory'[p]
                           = IF p \in known THEN gap[p] + inventory[p] ELSE gap[p]
      BY <2>1, <3>1
    <3> QED
      BY <2>1, <3>2
  <2>4. known \in SUBSET Pairs
    BY DEF TypeOK
  <2>5. L!Clear
    BY <2>1, <2>2, <2>3, <2>4 DEF L!Clear
  <2> QED
    BY <2>5 DEF L!Next
<1>9. ASSUME \/ \E c \in Configs : UpdateConfig(c)
             \/ \E q \in Pairs, flag \in BOOLEAN : PausePair(q, flag)
             \/ \E engaged \in BOOLEAN : KillSwitch(engaged)
             \/ \E s \in Strategies : SetStrategy(s)
             \/ UNCHANGED vars
      PROVE  UNCHANGED L!vars
  <2>1. UNCHANGED <<position, inventory, pending, fills, hedges, gap>>
    BY <1>9 DEF UpdateConfig, PausePair, KillSwitch, SetStrategy, tickVars,
                historyVars, vars, engineVars
  <2>2. OrdersOut' = OrdersOut /\ OrdersExecuted' = OrdersExecuted
    BY <1>1, <2>1
  <2> QED
    BY <2>1, <2>2 DEF L!vars
<1>10. ASSUME NEW h \in Hedgers, NEW p \in Pairs, StartHedge(h, p) PROVE L!Next
  <2> DEFINE r == [id |-> h, pair |-> p, size |-> HedgeSize(inventory[p]),
                   side |-> IF inventory[p] >= 0 THEN "sell" ELSE "buy",
                   seen |-> inventory[p], status |-> "sent"]
  <2>1. /\ hedges' = hedges \cup {r} /\ r.status = "sent"
        /\ \A q \in hedges : q.id # r.id
        /\ UNCHANGED <<pending, fills, inventory, position, gap>>
    BY <1>10 DEF StartHedge, engineVars, tickVars
  <2> HIDE DEF r
  <2>2. /\ HandOrdersOf(hedges \cup {r}, "sent")
           = HandOrdersOf(hedges, "sent") \cup {HandOrder(r)}
        /\ HandOrdersOf(hedges \cup {r}, "filled") = HandOrdersOf(hedges, "filled")
    <3>1. r.status = "sent" /\ r.status # "filled"
      BY <2>1
    <3> QED
      BY <3>1 DEF HandOrdersOf
  <2>a. HandOrder(r) \notin HandOrdersOf(hedges, "filled")
    BY <2>1, HandOrderNew
  <2>3. HandOrder(r) \notin TickOrders(fills)
    BY TickNotHand
  <2>4. /\ OrdersOut' = OrdersOut \cup {HandOrder(r)}
        /\ OrdersExecuted' = OrdersExecuted
        /\ HandOrder(r) \notin OrdersExecuted
    BY <1>1, <2>1, <2>2, <2>3, <2>a
  <2>5. L!Ask
    BY <1>2, <2>1, <2>4, LedgerFinite DEF L!Ask
  <2> QED
    BY <2>5 DEF L!Next
\* A request by hand that is out, and one that is executed.
<1>11. ASSUME NEW r \in hedges
       PROVE  /\ \A q \in hedges : q.id = r.id => q = r
              /\ HandOrder(r).account = r.pair
              /\ HandOrder(r).amount = Signed(r.side, r.size)
              /\ HandOrder(r) \notin TickOrders(pending)
              /\ HandOrder(r) \notin TickOrders(fills)
              /\ HandOrder(r).manual
  BY <1>0, HandOrderFields, TickNotHand
<1>12. ASSUME NEW r \in hedges, UNCHANGED <<pending, fills>>, hedges' = hedges \ {r}
       PROVE  /\ r.status = "sent" => /\ HandOrder(r) \in OrdersOut
                                      /\ OrdersOut' = OrdersOut \ {HandOrder(r)}
                                      /\ OrdersExecuted' = OrdersExecuted
              /\ r.status = "filled" => /\ HandOrder(r) \in OrdersExecuted
                                        /\ OrdersExecuted' = OrdersExecuted \ {HandOrder(r)}
                                        /\ OrdersOut' = OrdersOut
              /\ r.status = "unfilled" => UNCHANGED <<OrdersOut, OrdersExecuted>>
  <2>1. \A q \in hedges : HandOrder(q) = HandOrder(r) <=> q = r
    BY <1>11, HandOrderFields
  <2>2. ASSUME NEW s, r.status = s
        PROVE  /\ HandOrder(r) \in HandOrdersOf(hedges, s)
               /\ HandOrdersOf(hedges', s) = HandOrdersOf(hedges, s) \ {HandOrder(r)}
    <3>1. /\ HandOrder(r) \in HandOrdersOf(hedges, s)
          /\ HandOrdersOf(hedges \ {r}, s) = HandOrdersOf(hedges, s) \ {HandOrder(r)}
      BY <2>1, <2>2 DEF HandOrdersOf
    <3> QED
      BY <1>12, <3>1
  <2>3. ASSUME NEW s, r.status # s
        PROVE  HandOrdersOf(hedges', s) = HandOrdersOf(hedges, s)
    <3>1. HandOrdersOf(hedges \ {r}, s) = HandOrdersOf(hedges, s)
      BY <2>1, <2>3 DEF HandOrdersOf
    <3> QED
      BY <1>12, <3>1
  <2>4. CASE r.status = "sent"
    BY <1>1, <1>11, <1>12, <2>2, <2>3, <2>4
  <2>5. CASE r.status = "filled"
    BY <1>1, <1>11, <1>12, <2>2, <2>3, <2>5
  <2>6. CASE r.status = "unfilled"
    BY <1>1, <1>12, <2>3, <2>6
  <2> QED
    BY <2>4, <2>5, <2>6
<1>13. ASSUME NEW r \in hedges, AnswerHedge(r) PROVE L!Next
  <2> DEFINE x == HandOrder(r)
             K == hedges \ {r}
  <2>1. /\ r.status = "sent" /\ r \in HedgeOrder
        /\ UNCHANGED <<pending, fills, inventory, gap>>
    BY <1>0, <1>13 DEF AnswerHedge, engineVars, tickVars
  <2>2. /\ x \in OrdersOut
        /\ HandOrdersOf(K, "sent") = HandOrdersOf(hedges, "sent") \ {x}
        /\ HandOrdersOf(K, "filled") = HandOrdersOf(hedges, "filled")
    <3>1. /\ x \in HandOrdersOf(hedges, "sent")
          /\ HandOrdersOf(K, "sent") = HandOrdersOf(hedges, "sent") \ {x}
          /\ HandOrdersOf(K, "filled") = HandOrdersOf(hedges, "filled")
      <4>1. \A q \in hedges : HandOrder(q) = HandOrder(r) <=> q = r
        BY <1>11, HandOrderFields
      <4>2. /\ HandOrder(r) \in HandOrdersOf(hedges, "sent")
            /\ HandOrdersOf(hedges \ {r}, "sent")
               = HandOrdersOf(hedges, "sent") \ {HandOrder(r)}
        BY <2>1, <4>1 DEF HandOrdersOf
      <4>3. HandOrdersOf(hedges \ {r}, "filled") = HandOrdersOf(hedges, "filled")
        BY <2>1, <4>1 DEF HandOrdersOf
      <4> QED
        BY <4>2, <4>3
    <3> QED
      BY <1>1, <3>1
  <2>3. ASSUME NEW status \in {"filled", "unfilled"},
               hedges' = K \cup {[r EXCEPT !.status = status]}
        PROVE  /\ OrdersOut' = OrdersOut \ {x}
               /\ OrdersExecuted' = IF status = "filled" THEN OrdersExecuted \cup {x}
                                                         ELSE OrdersExecuted
    <3> DEFINE q == [r EXCEPT !.status = status]
    <3>1. /\ q.status = status /\ q.id = r.id /\ q.pair = r.pair
          /\ q.side = r.side /\ q.size = r.size
      BY <2>1 DEF HedgeOrder
    <3>2. HandOrder(q) = x
      BY <3>1 DEF HandOrder
    <3>3. hedges' = K \cup {q}
      BY <2>3
    <3> HIDE DEF q, K, x
    <3>5. /\ HandOrdersOf(hedges', "sent") = HandOrdersOf(K, "sent")
          /\ HandOrdersOf(hedges', "filled")
             = IF status = "filled" THEN HandOrdersOf(K, "filled") \cup {x}
                                    ELSE HandOrdersOf(K, "filled")
      <4>1. HandOrdersOf(K \cup {q}, "sent") = HandOrdersOf(K, "sent")
        <5>1. q.status # "sent"
          BY <2>3, <3>1
        <5> QED
          BY <5>1 DEF HandOrdersOf
      <4>2. HandOrdersOf(K \cup {q}, "filled")
            = IF status = "filled" THEN HandOrdersOf(K, "filled") \cup {HandOrder(q)}
                                   ELSE HandOrdersOf(K, "filled")
        BY <3>1 DEF HandOrdersOf
      <4> QED
        BY <3>2, <3>3, <4>1, <4>2
    <3>6. x \notin TickOrders(pending)
      BY <1>11 DEF x
    <3> QED
      BY <1>1, <2>1, <2>2, <3>5, <3>6
  <2>4. CASE hedges' = K \cup {[r EXCEPT !.status = "unfilled"]} /\ UNCHANGED position
    <3>1. L!Refuse(x)
      BY <2>1, <2>2, <2>3, <2>4 DEF L!Refuse
    <3> QED
      BY <2>2, <3>1 DEF L!Next
  <2>5. CASE /\ hedges' = K \cup {[r EXCEPT !.status = "filled"]}
             /\ Execute(r.pair, r.side, r.size)
    <3>1. position' = L!Add(position, x)
      BY <1>11, <2>5 DEF Execute, L!Add
    <3>2. L!Fill(x)
      BY <2>1, <2>2, <2>3, <2>5, <3>1 DEF L!Fill
    <3> QED
      BY <2>2, <3>2 DEF L!Next
  <2> QED
    BY <1>13, <2>4, <2>5 DEF AnswerHedge
<1>14. ASSUME NEW r \in hedges, ApplyHedge(r) PROVE [L!Next]_(L!vars)
  <2>1. /\ r.status \in {"filled", "unfilled"} /\ hedges' = hedges \ {r}
        /\ UNCHANGED <<pending, fills, position, gap>>
        /\ inventory' = [inventory EXCEPT ![r.pair] = @ + HedgeDelta(r)]
        /\ r.pair \in Pairs /\ inventory \in [Pairs -> Int]
    BY <1>0, <1>14 DEF ApplyHedge, tickVars, historyVars, HedgeOrder, TypeOK
  <2>2. CASE r.status = "filled"
    <3>1. inventory' = L!Add(inventory, HandOrder(r))
      BY <1>11, <2>1, <2>2 DEF HedgeDelta, L!Add
    <3>2. L!Enter(HandOrder(r)) /\ HandOrder(r) \in OrdersExecuted
      BY <1>11, <1>12, <2>1, <2>2, <3>1 DEF L!Enter
    <3> QED
      BY <3>2 DEF L!Next
  <2>3. CASE r.status = "unfilled"
    <3>1. inventory' = inventory
      BY <2>1, <2>3 DEF HedgeDelta
    <3> QED
      BY <1>12, <2>1, <2>3, <3>1 DEF L!vars
  <2> QED
    BY <2>1, <2>2, <2>3
<1>15. ASSUME NEW r \in hedges, FailHedge(r) PROVE [L!Next]_(L!vars)
  <2> DEFINE x == HandOrder(r)
  <2>1. /\ hedges' = hedges \ {r} /\ UNCHANGED <<pending, fills, inventory>>
        /\ r.status \in {"sent", "filled", "unfilled"}
    BY <1>0, <1>15 DEF FailHedge, engineVars, tickVars, HedgeOrder
  <2>2. CASE r.status = "unfilled" /\ UNCHANGED <<position, gap>>
    BY <1>12, <2>1, <2>2 DEF L!vars
  <2>3. CASE r.status = "sent" /\ UNCHANGED <<position, gap>>
    <3>1. L!Refuse(x) /\ x \in OrdersOut
      BY <1>12, <2>1, <2>3 DEF L!Refuse
    <3> QED
      BY <3>1 DEF L!Next
  <2>4. CASE /\ r.status = "sent" /\ Execute(r.pair, r.side, r.size)
             /\ gap' = [gap EXCEPT ![r.pair] = @ + Signed(r.side, r.size)]
    <3>1. position' = L!Add(position, x) /\ gap' = L!Add(gap, x)
      BY <1>11, <2>4 DEF Execute, L!Add
    <3>2. L!Miss(x) /\ x \in OrdersOut
      BY <1>12, <2>1, <2>4, <3>1 DEF L!Miss
    <3> QED
      BY <3>2 DEF L!Next
  <2>5. CASE /\ r.status = "filled" /\ UNCHANGED position
             /\ gap' = [gap EXCEPT ![r.pair] = @ + Signed(r.side, r.size)]
    <3>1. gap' = L!Add(gap, x)
      BY <1>11, <2>5 DEF L!Add
    <3>2. L!GiveUp(x) /\ x \in OrdersExecuted
      BY <1>11, <1>12, <2>1, <2>5, <3>1 DEF L!GiveUp
    <3> QED
      BY <3>2 DEF L!Next
  <2> QED
    BY <1>15, <2>1, <2>2, <2>3, <2>4, <2>5 DEF FailHedge
<1> QED
  BY <1>3, <1>4, <1>6, <1>7, <1>8, <1>9, <1>10, <1>13, <1>14, <1>15
  DEF Next, TickNext, OperatorNext, HedgeNext

LEMMA InitLedger == Init => L!Init
BY DEF Init, L!Init, OrdersOut, OrdersExecuted, HandOrders

\* For any pairs, presets, order sizes and number of requests by hand: the engine
\* keeps the books of Ledger.  No order is executed twice, an order whose answer is
\* lost is not sent again, an answered execution is booked once, those of the tick
\* all together, and only auto-hedges and resets shrink the inventory otherwise.
THEOREM EngineKeepsTheLedger == Spec => LedgerKept
<1>1. Init => AuditInv
  BY InitAudit
<1>2. TypeOK /\ TypeOK' /\ AuditInv /\ [Next]_vars => AuditInv'
  BY NextOnce, NextBalance DEF AuditInv
<1>3. TypeOK /\ TypeOK' /\ AuditInv /\ AuditInv' /\ [Next]_vars => [L!Next]_(L!vars)
  BY NextLedger DEF AuditInv
<1>4. Spec => []TypeOK
  BY TypeCorrect
<1> QED
  BY <1>1, <1>2, <1>3, <1>4, InitLedger, PTL DEF Spec, LedgerKept, L!Spec

\* What Ledger promises holds of the engine: no order is both out and executed,
\* and every unit held at the exchange is booked, to be booked, or written off.
THEOREM LedgerBalances == Spec => [](L!TypeOK /\ L!Balanced)
BY EngineKeepsTheLedger, LedgerKeepsBalance, PTL DEF LedgerKept

=============================================================================
