---------------------------- MODULE StorageProofs ----------------------------
(***************************************************************************)
(* Theorems of Storage, for every set of bots and names, every list of     *)
(* tables and every cap, page size and budget.                             *)
(***************************************************************************)
EXTENDS Storage, FiniteLemmas, SequenceTheorems, TLAPS

-----------------------------------------------------------------------------
(* Lemmas: what LIMIT and the relay's cap leave *)

LEMMA NewestProperties ==
    ASSUME NEW S, NEW s \in Seq(S), NEW n \in Nat
    PROVE  /\ Newest(s, n) \in Seq(S)
           /\ Len(Newest(s, n)) <= n
           /\ Len(Newest(s, n)) <= Len(s)
           /\ Len(Newest(s, n)) = IF Len(s) < n THEN Len(s) ELSE n
           /\ \A i \in 1 .. Len(Newest(s, n)) : i \in 1 .. Len(s) /\ Newest(s, n)[i] = s[i]
<1> DEFINE m == IF Len(s) < n THEN Len(s) ELSE n
<1>1. Len(s) \in Nat /\ \A i \in 1 .. Len(s) : s[i] \in S
  BY LenProperties, ElementOfSeq
<1>2. m \in Nat /\ m <= n /\ m <= Len(s)
  BY <1>1
<1>3. Newest(s, n) = SubSeq(s, 1, m)
  BY DEF Newest
<1> HIDE DEF m
<1>4. /\ SubSeq(s, 1, m) \in Seq(S)
      /\ Len(SubSeq(s, 1, m)) = IF 1 <= m THEN m - 1 + 1 ELSE 0
      /\ \A i \in 1 .. m - 1 + 1 : SubSeq(s, 1, m)[i] = s[1 + i - 1]
  <2>1. \A i \in 1 .. m : s[i] \in S
    BY <1>1, <1>2
  <2>2. 1 \in Int /\ m \in Int
    BY <1>2
  <2> QED
    BY <2>1, <2>2, SubSeqProperties
<1>5. Len(SubSeq(s, 1, m)) = m
  BY <1>2, <1>4
<1>6. \A i \in 1 .. m : SubSeq(s, 1, m)[i] = s[i]
  BY <1>2, <1>4
<1> QED
  BY <1>1, <1>2, <1>3, <1>4, <1>5, <1>6 DEF m

LEMMA RepeatProperties ==
    ASSUME NEW S, NEW x \in S, NEW n \in Nat
    PROVE  Repeat(x, n) \in Seq(S) /\ Len(Repeat(x, n)) = n
BY DEF Repeat

\* Every tick's row is one of a table.
LEMMA ConsProperties ==
    ASSUME NEW S, NEW s \in Seq(S), NEW x \in S
    PROVE  /\ <<x>> \o s \in Seq(S)
           /\ Len(<<x>> \o s) = Len(s) + 1
           /\ \A i \in 1 .. Len(s) + 1 :
                 (<<x>> \o s)[i] = IF i = 1 THEN x ELSE s[i - 1]
<1>1. <<x>> \in Seq(S) /\ Len(<<x>>) = 1
  OBVIOUS
<1> QED
  BY <1>1, ConcatProperties

LEMMA TableSetFacts ==
    /\ "Fill" \in TableSet /\ "SystemLog" \notin TableSet
    /\ Tables \in Seq(TableSet)
    /\ \A t \in TableSet : \E i \in 1 .. Len(Tables) : Tables[i] = t
<1>1. Tables \in Seq(STRING) /\ Len(Tables) \in Nat /\ DOMAIN Tables = 1 .. Len(Tables)
  BY StorageAssumption, LenProperties
<1>2. \A i \in 1 .. Len(Tables) : Tables[i] \in TableSet
  BY DEF TableSet
<1>3. Tables \in Seq(TableSet)
  BY <1>1, <1>2, SeqDef
<1>4. "Fill" \in TableSet
  BY <1>1, StorageAssumption DEF TableSet
<1>5. "SystemLog" \notin TableSet
  BY <1>1, StorageAssumption DEF TableSet
<1> QED
  BY <1>3, <1>4, <1>5 DEF TableSet

-----------------------------------------------------------------------------
(* Type correctness *)

Persisting == [row : Row, left : [TableSet -> 0 .. TickRows], prune : Seq(TableSet)]

LEMMA NoTickType == NoTick \in Persisting
<1>1. NoTick.row \in Row
  BY StorageAssumption DEF NoTick, Row
<1>2. NoTick.left \in [TableSet -> 0 .. TickRows]
  BY StorageAssumption DEF NoTick
<1>3. NoTick.prune \in Seq(TableSet)
  BY DEF NoTick
<1> QED
  BY <1>1, <1>2, <1>3 DEF NoTick, Persisting

LEMMA PersistingParts ==
    ASSUME NEW x \in Persisting
    PROVE  /\ x.row \in Row /\ x.left \in [TableSet -> 0 .. TickRows]
           /\ x.prune \in Seq(TableSet)
           /\ \A left \in [TableSet -> 0 .. TickRows] :
                 [x EXCEPT !.left = left] \in Persisting
           /\ \A prune \in Seq(TableSet) : [x EXCEPT !.prune = prune] \in Persisting
BY DEF Persisting

LEMMA SpendType ==
    ASSUME budget \in Budget, NEW what, Spend(what),
           what \in {"ticks", "logs", "resets", "streams", "failures"}
    PROVE  budget' \in Budget
BY DEF Spend, Budget

LEMMA InitType == Init => TypeOK
<1> SUFFICES ASSUME Init PROVE TypeOK
  OBVIOUS
<1> USE StorageAssumption
<1>1. persisting \in [Bots -> Persisting]
  BY NoTickType DEF Init
<1>2. budget \in Budget
  BY DEF Init
<1>3. tables \in [TableSet -> Seq(Row)] /\ relayFills \in [Bots -> Seq(Row)]
  BY DEF Init
<1>4. \A b \in Bots : Len(relayFills[b]) <= RelayCap
  BY DEF Init
<1> QED
  BY <1>1, <1>2, <1>3, <1>4 DEF Init, TypeOK, Persisting

LEMMA NextType == TypeOK /\ [Next]_vars => TypeOK'
<1> SUFFICES ASSUME TypeOK, [Next]_vars PROVE TypeOK'
  OBVIOUS
<1> USE StorageAssumption
<1>0. /\ persisting \in [Bots -> Persisting] /\ tables \in [TableSet -> Seq(Row)]
      /\ relayFills \in [Bots -> Seq(Row)] /\ session \in [Bots -> Nat]
      /\ botId \in [Bots -> Names] /\ budget \in Budget
      /\ unpruned \in [TableSet \cup {"SystemLog"} -> Nat]
  BY DEF TypeOK, Persisting
<1>1. ASSUME NEW b \in Bots, NEW n \in 0 .. TickRows, Tick(b, n) PROVE TypeOK'
  <2> DEFINE row == [bot |-> b, name |-> botId[b], tick |-> budget.ticks,
                     session |-> session[b]]
             now == [row |-> row,
                     left |-> [t \in TableSet |-> IF t = "Fill" THEN n ELSE TickRows],
                     prune |-> Tables]
  <2>1. row \in Row
    BY <1>0 DEF Row, Budget
  <2>2. now \in Persisting
    <3>1. now.left \in [TableSet -> 0 .. TickRows]
      OBVIOUS
    <3>2. now.prune \in Seq(TableSet)
      BY TableSetFacts
    <3> QED
      BY <2>1, <3>1, <3>2 DEF Persisting
  <2>3. persisting' = [persisting EXCEPT ![b] = now]
    BY <1>1 DEF Tick
  <2> HIDE DEF now
  <2>4. persisting' \in [Bots -> Persisting]
    BY <1>0, <2>2, <2>3
  <2>5. \/ relayFills' = [relayFills EXCEPT ![b] = Newest(Repeat(row, n) \o @, RelayCap)]
        \/ UNCHANGED relayFills
    BY <1>1 DEF Tick
  <2>6. stream' \in [Bots -> {"closed", "open", "reset"}]
    BY <1>1 DEF Tick, TypeOK
  <2> HIDE DEF row
  <2>7. /\ relayFills' \in [Bots -> Seq(Row)]
        /\ \A c \in Bots : Len(relayFills'[c]) <= RelayCap
    <3> DEFINE fresh == Newest(Repeat(row, n) \o relayFills[b], RelayCap)
    <3>1. Repeat(row, n) \o relayFills[b] \in Seq(Row)
      BY <1>0, <2>1, RepeatProperties, ConcatProperties
    <3>2. fresh \in Seq(Row) /\ Len(fresh) <= RelayCap
      BY <3>1, NewestProperties
    <3>3. relayFills' = [relayFills EXCEPT ![b] = fresh] \/ UNCHANGED relayFills
      BY <2>5
    <3> HIDE DEF fresh
    <3>4. \A c \in Bots : relayFills'[c] \in {fresh, relayFills[c]}
      BY <1>0, <3>3
    <3>5. relayFills' \in [Bots -> Seq(Row)]
      BY <1>0, <3>2, <3>3
    <3> QED
      BY <3>2, <3>4, <3>5 DEF TypeOK
  <2>8. budget' \in Budget
    BY <1>0, <1>1, SpendType DEF Tick
  <2> QED
    BY <1>1, <2>4, <2>6, <2>7, <2>8 DEF Tick, TypeOK, Persisting, databaseVars
<1>2. ASSUME NEW b \in Bots, NEW t \in TableSet, Write(b, t) PROVE TypeOK'
  <2>1. persisting[b] \in Persisting /\ persisting[b].left[t] \in 0 .. TickRows
        /\ persisting[b].left[t] > 0
    BY <1>0, <1>2 DEF Write, Persisting
  <2>2. tables' \in [TableSet -> Seq(Row)]
    <3>1. <<persisting[b].row>> \o tables[t] \in Seq(Row)
      BY <1>0, <2>1, ConsProperties DEF Persisting
    <3> QED
      BY <1>0, <1>2, <3>1 DEF Write
  <2>3. persisting' \in [Bots -> Persisting]
    <3>1. persisting' = [persisting EXCEPT ![b] =
              [persisting[b] EXCEPT !.left = [persisting[b].left EXCEPT ![t] = @ - 1]]]
      BY <1>0, <1>2 DEF Write
    <3>a. persisting[b].left \in [TableSet -> 0 .. TickRows]
      BY <2>1, PersistingParts
    <3>b. [persisting[b].left EXCEPT ![t] = @ - 1] \in [TableSet -> 0 .. TickRows]
      BY <2>1, <3>a
    <3>2. [persisting[b] EXCEPT !.left = [persisting[b].left EXCEPT ![t] = @ - 1]]
            \in Persisting
      BY <2>1, <3>b, PersistingParts
    <3> QED
      BY <1>0, <3>1, <3>2
  <2> QED
    BY <1>2, <2>2, <2>3 DEF Write, TypeOK, Persisting, webVars
<1>3. ASSUME NEW b \in Bots, NEW t \in TableSet, WriteFails(b, t) PROVE TypeOK'
  <2>1. persisting' = [persisting EXCEPT ![b] =
              [persisting[b] EXCEPT !.left = [persisting[b].left EXCEPT ![t] = 0]]]
    BY <1>0, <1>3 DEF WriteFails
  <2>a. persisting[b] \in Persisting /\ persisting[b].left \in [TableSet -> 0 .. TickRows]
    BY <1>0, PersistingParts
  <2>b. [persisting[b].left EXCEPT ![t] = 0] \in [TableSet -> 0 .. TickRows]
    BY <2>a
  <2>2. [persisting[b] EXCEPT !.left = [persisting[b].left EXCEPT ![t] = 0]]
            \in Persisting
    BY <2>a, <2>b, PersistingParts
  <2>3. persisting' \in [Bots -> Persisting]
    BY <1>0, <2>1, <2>2
  <2>4. budget' \in Budget
    BY <1>0, <1>3, SpendType DEF WriteFails
  <2> QED
    BY <1>3, <2>3, <2>4 DEF WriteFails, TypeOK, Persisting, webVars, databaseVars
\* Both outcomes of a prune end it.
<1>a. ASSUME NEW b \in Bots, persisting[b].prune # <<>>,
             persisting' = [persisting EXCEPT ![b].prune = Tail(@)]
      PROVE  persisting' \in [Bots -> Persisting] /\ Head(persisting[b].prune) \in TableSet
  <2>1. /\ persisting[b].prune \in Seq(TableSet)
        /\ Tail(persisting[b].prune) \in Seq(TableSet)
        /\ Head(persisting[b].prune) \in TableSet
    BY <1>0, <1>a, HeadTailProperties DEF Persisting
  <2>2. [persisting[b] EXCEPT !.prune = Tail(persisting[b].prune)] \in Persisting
    BY <1>0, <2>1, PersistingParts
  <2>3. persisting' = [persisting EXCEPT ![b] =
                           [persisting[b] EXCEPT !.prune = Tail(persisting[b].prune)]]
    BY <1>0, <1>a
  <2> QED
    BY <1>0, <2>1, <2>2, <2>3
<1>4. ASSUME NEW b \in Bots, Prune(b) PROVE TypeOK'
  <2>1. persisting' \in [Bots -> Persisting]
    BY <1>4, <1>a DEF Prune
  <2>2. tables' \in [TableSet -> Seq(Row)]
    <3> DEFINE t == Head(persisting[b].prune)
    <3>1. t \in TableSet
      BY <1>4, <1>a DEF Prune
    <3>2. Pruned(tables[t]) \in Seq(Row)
      BY <1>0, <3>1, NewestProperties DEF Pruned
    <3>3. tables' = [tables EXCEPT ![t] = Pruned(@)]
      BY <1>4 DEF Prune
    <3> HIDE DEF t
    <3> QED
      BY <1>0, <3>1, <3>2, <3>3
  <2> QED
    BY <1>4, <2>1, <2>2 DEF Prune, TypeOK, Persisting, webVars
<1>5. ASSUME NEW b \in Bots, PruneFails(b) PROVE TypeOK'
  <2>1. persisting' \in [Bots -> Persisting] /\ Head(persisting[b].prune) \in TableSet
    BY <1>5, <1>a DEF PruneFails
  <2>2. unpruned' \in [TableSet \cup {"SystemLog"} -> Nat]
    <3> DEFINE t == Head(persisting[b].prune)
    <3>1. unpruned' = [unpruned EXCEPT ![t] = @ + 1]
      BY <1>5 DEF PruneFails
    <3>2. t \in TableSet \cup {"SystemLog"}
      BY <2>1
    <3> HIDE DEF t
    <3> QED
      BY <1>0, <3>1, <3>2
  <2>3. budget' \in Budget
    BY <1>0, <1>5, SpendType DEF PruneFails
  <2> QED
    BY <1>5, <2>1, <2>2, <2>3 DEF PruneFails, TypeOK, Persisting, webVars, databaseVars
<1>6. ASSUME NEW b \in Bots, Crash(b) PROVE TypeOK'
  <2>1. PICK k \in 0 .. logging :
          /\ logging' = logging - k
          /\ unpruned' = [t \in DOMAIN unpruned |->
                IF t = "SystemLog" THEN unpruned[t] + k
                ELSE IF \E i \in DOMAIN persisting[b].prune : persisting[b].prune[i] = t
                THEN unpruned[t] + 1 ELSE unpruned[t]]
    BY <1>6 DEF Crash
  <2>2. logging' \in Nat /\ unpruned' \in [TableSet \cup {"SystemLog"} -> Nat]
    <3>1. logging \in Nat /\ k \in Nat /\ logging - k \in Nat
      BY DEF TypeOK
    <3>2. DOMAIN unpruned = TableSet \cup {"SystemLog"}
          /\ \A t \in DOMAIN unpruned : unpruned[t] \in Nat
      BY <1>0
    <3> QED
      BY <2>1, <3>1, <3>2
  <2>3. [NoTick EXCEPT !.row = persisting[b].row] \in Persisting
    BY <1>0, NoTickType DEF Persisting
  <2>4. persisting' \in [Bots -> Persisting]
    BY <1>0, <1>6, <2>3 DEF Crash
  <2>5. budget' \in Budget
    BY <1>0, <1>6, SpendType DEF Crash
  <2>6. stream' \in [Bots -> {"closed", "open", "reset"}]
    BY <1>6 DEF Crash, TypeOK
  <2> QED
    BY <1>6, <2>2, <2>4, <2>5, <2>6 DEF Crash, TypeOK, Persisting, databaseVars
<1>7. CASE Log
  <2>1. budget' \in Budget
    BY <1>0, <1>7, SpendType DEF Log
  <2> QED
    BY <1>7, <2>1 DEF Log, TypeOK, webVars
<1>8. CASE PruneLogs
  <2>1. logs' \in Nat
    BY <1>8 DEF PruneLogs, PrunedLogs, TypeOK
  <2>2. budget' \in Budget
    BY <1>0, <1>8, SpendType DEF PruneLogs
  <2>3. unpruned' \in [TableSet \cup {"SystemLog"} -> Nat]
    BY <1>0, <1>8 DEF PruneLogs
  <2>4. logging' \in Nat
    BY <1>8 DEF PruneLogs, TypeOK
  <2> QED
    BY <1>8, <2>1, <2>2, <2>3, <2>4 DEF PruneLogs, TypeOK, webVars
<1>9. ASSUME NEW b \in Bots, Connect(b) \/ Disconnect(b) PROVE TypeOK'
  <2>1. budget' \in Budget
    BY <1>0, <1>9, SpendType DEF Connect, Disconnect
  <2> QED
    BY <1>9, <2>1 DEF Connect, Disconnect, TypeOK, databaseVars, botVars
<1>10. ASSUME NEW b \in Bots, ResetBot(b) PROVE TypeOK'
  <2>1. session' \in [Bots -> Nat]
    BY <1>0, <1>10 DEF ResetBot
  <2>2. reset' \in [status : {"idle", "bots"}, pending : SUBSET Bots]
    BY <1>10 DEF ResetBot, TypeOK
  <2> QED
    BY <1>10, <2>1, <2>2 DEF ResetBot, TypeOK, databaseVars
<1>11. ASSUME NEW b \in Bots, ResetBotFails(b) PROVE TypeOK'
  <2>1. budget' \in Budget
    BY <1>0, <1>11, SpendType DEF ResetBotFails
  <2> QED
    BY <1>11, <2>1 DEF ResetBotFails, TypeOK, databaseVars, botVars
<1>12. CASE BeginReset
  <2>1. budget' \in Budget
    BY <1>0, <1>12, SpendType DEF BeginReset
  <2>2. /\ relayFills' \in [Bots -> Seq(Row)]
        /\ \A b \in Bots : Len(relayFills'[b]) <= RelayCap
    BY <1>12 DEF BeginReset
  <2>3. stream' \in [Bots -> {"closed", "open", "reset"}]
    BY <1>12 DEF BeginReset, TypeOK
  <2> QED
    BY <1>12, <2>1, <2>2, <2>3 DEF BeginReset, TypeOK, databaseVars, botVars
<1>13. CASE DeleteRows
  <2>1. tables' \in [TableSet -> Seq(Row)]
    BY <1>13 DEF DeleteRows
  <2>2. reset' \in [status : {"idle", "bots"}, pending : SUBSET Bots]
    BY <1>13 DEF DeleteRows, TypeOK
  <2> QED
    BY <1>13, <2>1, <2>2 DEF DeleteRows, TypeOK, botVars
<1>14. CASE DeleteHistory
  <2>1. budget' \in Budget
    BY <1>0, <1>14, SpendType DEF DeleteHistory
  <2> QED
    BY <1>14, <2>1 DEF DeleteHistory, TypeOK, botVars, webVars
<1>15. CASE UNCHANGED vars
  BY <1>15 DEF TypeOK, vars, databaseVars, botVars, webVars
<1> QED
  BY <1>1, <1>2, <1>3, <1>4, <1>5, <1>6, <1>7, <1>8, <1>9, <1>10, <1>11, <1>12,
     <1>13, <1>14, <1>15
  DEF Next, BotNext, WebNext

\* What is stored, what the bots are storing and what the relays keep has its
\* type in every behaviour; a relay never keeps more fills than its cap.
THEOREM TypeCorrect == Spec => []TypeOK
<1>1. Init => TypeOK
  BY InitType
<1>2. TypeOK /\ [Next]_vars => TypeOK'
  BY NextType
<1> QED
  BY <1>1, <1>2, PTL DEF Spec

-----------------------------------------------------------------------------
(* Retention *)

\* Retained is not inductive: what the bots are still to insert counts, and
\* that their next prune may come too late for it.  A bot that has written
\* owes a table the rows it has left, and those of one payload more when no
\* prune of the table is to come; a prune, whoever does it, pays for all.
PlansFor(p) == {p.prune[i] : i \in DOMAIN p.prune}

Owed(p, t) == IF p.row.tick = 0 THEN 0
              ELSE p.left[t] + (IF t \in PlansFor(p) THEN 0 ELSE TickRows)

Owing(all, t) == SumFunctionOnSet([b \in Bots |-> Owed(all[b], t)], Bots)

WritersOf(all) == {b \in Bots : all[b].row.tick > 0}

Limit(c, u) == MaxRows + TickRows * (2 * c + u)

\* A bot that persists has begun a tick, and what it persists is its own.
PersistOwn ==
    \A b \in Bots : IF persisting[b].row.tick = 0 THEN Idle(b)
                    ELSE persisting[b].row.bot = b

RetainedInv ==
    /\ \A t \in TableSet :
          Len(tables[t]) + Owing(persisting, t)
              <= Limit(Cardinality(Writers), unpruned[t])
    /\ logs <= MaxRows + logging + unpruned["SystemLog"]

LEMMA OwedType ==
    ASSUME NEW p \in Persisting, NEW t \in TableSet
    PROVE  /\ Owed(p, t) \in 0 .. 2 * TickRows
           /\ p.row.tick = 0 => Owed(p, t) = 0
           /\ p.left[t] \in 0 .. TickRows
           /\ p.row.tick \in Nat
<1>1. p.left[t] \in 0 .. TickRows /\ p.row.tick \in Nat
  BY PersistingParts DEF Row
<1> QED
  BY <1>1, StorageAssumption DEF Owed

LEMMA WritersFinite ==
    ASSUME NEW all \in [Bots -> Persisting]
    PROVE  /\ WritersOf(all) \subseteq Bots
           /\ IsFiniteSet(WritersOf(all))
           /\ Cardinality(WritersOf(all)) \in Nat
<1>1. WritersOf(all) \subseteq Bots
  BY DEF WritersOf
<1> QED
  BY <1>1, StorageAssumption, FS_Subset, FS_CardinalityType

\* Nobody who has not written owes, and nobody owes more than two payloads.
LEMMA OwingBound ==
    ASSUME NEW all \in [Bots -> Persisting], NEW t \in TableSet
    PROVE  /\ Owing(all, t) \in Nat
           /\ Owing(all, t) <= (2 * TickRows) * Cardinality(WritersOf(all))
<1> DEFINE f == [b \in Bots |-> Owed(all[b], t)]
           k == 2 * TickRows
           W == WritersOf(all)
<1>1. \A b \in Bots : f[b] \in 0 .. k /\ (b \notin W => f[b] = 0)
  <2> SUFFICES ASSUME NEW b \in Bots
               PROVE  f[b] \in 0 .. k /\ (b \notin W => f[b] = 0)
    OBVIOUS
  <2>1. /\ Owed(all[b], t) \in 0 .. k
        /\ all[b].row.tick = 0 => Owed(all[b], t) = 0
        /\ all[b].row.tick \in Nat
    BY OwedType
  <2> QED
    BY <2>1 DEF WritersOf
<1>2. k \in Nat /\ IsFiniteSet(Bots) /\ Bots \cap W = W
  BY StorageAssumption DEF WritersOf
<1> HIDE DEF f, k, W
<1>3. SumFunctionOnSet(f, Bots) \in Nat
      /\ SumFunctionOnSet(f, Bots) <= k * Cardinality(Bots \cap W)
  BY <1>1, <1>2, SumBound
<1> QED
  BY <1>2, <1>3 DEF Owing, f, k, W

LEMMA OwingChange ==
    ASSUME NEW old \in [Bots -> Persisting], NEW new \in [Bots -> Persisting],
           NEW t \in TableSet
    PROVE  \A b \in Bots :
              (\A c \in Bots : c # b => new[c] = old[c])
              => Owing(new, t) = Owing(old, t) - Owed(old[b], t) + Owed(new[b], t)
<1> SUFFICES ASSUME NEW b \in Bots, \A c \in Bots : c # b => new[c] = old[c]
             PROVE  Owing(new, t) = Owing(old, t) - Owed(old[b], t) + Owed(new[b], t)
  OBVIOUS
<1> DEFINE f == [c \in Bots |-> Owed(old[c], t)]
           g == [c \in Bots |-> Owed(new[c], t)]
<1>1. \A c \in Bots : f[c] \in Int /\ g[c] \in Int
  BY OwedType
<1>2. \A c \in Bots : c # b => f[c] = g[c]
  OBVIOUS
<1>3. f[b] = Owed(old[b], t) /\ g[b] = Owed(new[b], t)
  OBVIOUS
<1> HIDE DEF f, g
<1>4. SumFunctionOnSet(g, Bots) = SumFunctionOnSet(f, Bots) - f[b] + g[b]
  BY <1>1, <1>2, StorageAssumption, SumChange
<1> QED
  BY <1>3, <1>4 DEF Owing, f, g

\* The rows of a table and what is owed it stay within the limit when they grow
\* together by no more than it does.
LEMMA WithinLimit ==
    ASSUME NEW l \in Nat, NEW owed \in Nat, NEW w \in Nat, NEW limit \in Nat,
           NEW l2 \in Nat, NEW owed2 \in Nat, NEW w2 \in Nat, NEW d \in Nat,
           l + owed <= limit, owed2 = owed - w + w2, l2 + w2 <= l + w + d
    PROVE  l2 + owed2 <= limit + d
OBVIOUS

\* How the limit grows: with a writer, and with a prune that does not happen.
LEMMA LimitSteps ==
    ASSUME NEW c \in Nat, NEW u \in Nat
    PROVE  /\ Limit(c, u) \in Nat
           /\ Limit(c + 1, u) = Limit(c, u) + 2 * TickRows
           /\ Limit(c, u + 1) = Limit(c, u) + TickRows
           /\ MaxRows + (2 * TickRows) * c <= Limit(c, u)
<1>1. \A k \in Nat : /\ k * (2 * c + u) \in Nat
                     /\ k * (2 * (c + 1) + u) = k * (2 * c + u) + 2 * k
                     /\ k * (2 * c + (u + 1)) = k * (2 * c + u) + k
                     /\ k * (2 * c + u) = (2 * k) * c + k * u
                     /\ k * u \in Nat /\ (2 * k) * c \in Nat
  OBVIOUS
<1> QED
  BY <1>1, StorageAssumption DEF Limit

LEMMA InitRetained == Init => PersistOwn /\ RetainedInv
<1> SUFFICES ASSUME Init PROVE PersistOwn /\ RetainedInv
  OBVIOUS
<1> USE StorageAssumption
<1>0. persisting \in [Bots -> Persisting] /\ \A b \in Bots : persisting[b] = NoTick
  BY NoTickType DEF Init
<1>1. PersistOwn
  BY <1>0 DEF PersistOwn, Idle, NoTick
<1>2. Writers = {} /\ Cardinality(Writers) = 0
  <2>1. \A b \in Bots : ~ (persisting[b].row.tick > 0)
    BY <1>0 DEF NoTick
  <2>2. Writers = {}
    BY <2>1 DEF Writers
  <2> QED
    BY <2>2, FS_EmptySet
<1>3. ASSUME NEW t \in TableSet
      PROVE  Len(tables[t]) + Owing(persisting, t)
                 <= Limit(Cardinality(Writers), unpruned[t])
  <2>1. Owing(persisting, t) \in Nat /\ Owing(persisting, t) <= (2 * TickRows) * 0
    BY <1>0, <1>2, OwingBound DEF Writers, WritersOf
  <2>2. Len(tables[t]) = 0 /\ unpruned[t] = 0
    BY DEF Init
  <2>3. MaxRows + (2 * TickRows) * 0 <= Limit(0, 0) /\ Limit(0, 0) \in Nat
    BY LimitSteps
  <2> QED
    BY <1>1, <1>2, <2>1, <2>2, <2>3
<1> QED
  BY <1>1, <1>3 DEF Init, RetainedInv

\* What a step that persists for one bot has to show, table by table.
PaysItsWay(p, x, t) ==
    \/ /\ x.row.tick > 0 <=> p.row.tick > 0
       /\ Len(tables'[t]) + Owed(x, t) <= Len(tables[t]) + Owed(p, t)
       /\ unpruned'[t] = unpruned[t]
    \/ /\ x.row.tick > 0 <=> p.row.tick > 0
       /\ Len(tables'[t]) + Owed(x, t) <= Len(tables[t]) + Owed(p, t) + TickRows
       /\ unpruned'[t] = unpruned[t] + 1
    \/ /\ x.row.tick > 0 /\ p.row.tick = 0
       /\ Len(tables'[t]) + Owed(x, t) <= Len(tables[t]) + Owed(p, t) + 2 * TickRows
       /\ unpruned'[t] = unpruned[t]
    \/ Len(tables'[t]) <= MaxRows

\* A step that persists for one bot: what it owes a table may grow by as much
\* as the limit does.
LEMMA StepRetained ==
    ASSUME TypeOK, RetainedInv, NEW b \in Bots, NEW x \in Persisting,
           persisting' = [persisting EXCEPT ![b] = x], NEW t \in TableSet,
           persisting[b].row.tick > 0 => x.row.tick > 0,
           Len(tables'[t]) \in Nat, unpruned'[t] \in Nat,
           PaysItsWay(persisting[b], x, t)
    PROVE  Len(tables'[t]) + Owing(persisting', t)
               <= Limit(Cardinality(Writers'), unpruned'[t])
<1> USE StorageAssumption
<1>0. /\ persisting \in [Bots -> Persisting] /\ persisting' \in [Bots -> Persisting]
      /\ Len(tables[t]) \in Nat /\ unpruned[t] \in Nat
  BY LenProperties DEF TypeOK, Persisting
<1>1. /\ Owing(persisting, t) \in Nat /\ Owing(persisting', t) \in Nat
      /\ Owing(persisting', t) <= (2 * TickRows) * Cardinality(Writers')
      /\ Writers = WritersOf(persisting) /\ Writers' = WritersOf(persisting')
  BY <1>0, OwingBound DEF Writers, WritersOf
<1>2. /\ Cardinality(Writers) \in Nat /\ Cardinality(Writers') \in Nat
      /\ IsFiniteSet(Writers)
  BY <1>0, <1>1, WritersFinite
<1>7. \A d \in Bots : d # b => persisting'[d] = persisting[d]
  BY <1>0
<1>8. persisting'[b] = x
  BY <1>0
<1>3. Owing(persisting', t) = Owing(persisting, t) - Owed(persisting[b], t) + Owed(x, t)
  <2> DEFINE old == persisting
             new == persisting'
  <2>1. old \in [Bots -> Persisting] /\ new \in [Bots -> Persisting]
    BY <1>0
  <2> HIDE DEF old, new
  <2>2. \A d \in Bots :
           (\A c \in Bots : c # d => new[c] = old[c])
           => Owing(new, t) = Owing(old, t) - Owed(old[d], t) + Owed(new[d], t)
    BY <2>1, OwingChange
  <2> QED
    BY <1>7, <1>8, <2>2 DEF old, new
<1>4. /\ Owed(persisting[b], t) \in Nat /\ Owed(x, t) \in Nat
      /\ x.row.tick \in Nat /\ persisting[b].row.tick \in Nat
  BY <1>0, OwedType
<1>5. Len(tables[t]) + Owing(persisting, t) <= Limit(Cardinality(Writers), unpruned[t])
  BY DEF RetainedInv
<1> DEFINE c == Cardinality(Writers)
<1>6. /\ Limit(c, unpruned[t]) \in Nat
      /\ Limit(c + 1, unpruned[t]) = Limit(c, unpruned[t]) + 2 * TickRows
      /\ Limit(c, unpruned[t] + 1) = Limit(c, unpruned[t]) + TickRows
  BY <1>0, <1>2, LimitSteps
<1>9. ASSUME x.row.tick > 0 <=> persisting[b].row.tick > 0 PROVE Writers' = Writers
  BY <1>7, <1>8, <1>9 DEF Writers
<1>10. ASSUME NEW d \in Nat,
              Limit(Cardinality(Writers'), unpruned'[t]) = Limit(c, unpruned[t]) + d,
              Len(tables'[t]) + Owed(x, t) <= Len(tables[t]) + Owed(persisting[b], t) + d
       PROVE  Len(tables'[t]) + Owing(persisting', t)
                  <= Limit(Cardinality(Writers'), unpruned'[t])
  <2> HIDE DEF c
  <2>1. Len(tables'[t]) + Owing(persisting', t) <= Limit(c, unpruned[t]) + d
    <3> DEFINE l == Len(tables[t])
               owed == Owing(persisting, t)
               w == Owed(persisting[b], t)
               limit == Limit(c, unpruned[t])
               l2 == Len(tables'[t])
               owed2 == Owing(persisting', t)
               w2 == Owed(x, t)
    <3>1. /\ l \in Nat /\ owed \in Nat /\ w \in Nat /\ limit \in Nat
          /\ l2 \in Nat /\ owed2 \in Nat /\ w2 \in Nat
          /\ l + owed <= limit /\ owed2 = owed - w + w2 /\ l2 + w2 <= l + w + d
      BY <1>0, <1>1, <1>3, <1>4, <1>5, <1>6, <1>10 DEF c
    <3> HIDE DEF l, owed, w, limit, l2, owed2, w2
    <3>2. l2 + owed2 <= limit + d
      BY <3>1, WithinLimit
    <3> QED
      BY <3>2 DEF l2, owed2, limit
  <2> QED
    BY <1>10, <2>1
<1>11. CASE /\ x.row.tick > 0 <=> persisting[b].row.tick > 0
            /\ Len(tables'[t]) + Owed(x, t) <= Len(tables[t]) + Owed(persisting[b], t)
            /\ unpruned'[t] = unpruned[t]
  <2>1. Limit(Cardinality(Writers'), unpruned'[t]) = Limit(c, unpruned[t]) + 0
    BY <1>6, <1>9, <1>11
  <2>2. Len(tables'[t]) + Owed(x, t) <= Len(tables[t]) + Owed(persisting[b], t) + 0
    BY <1>0, <1>4, <1>11
  <2> QED
    BY <1>10, <2>1, <2>2
<1>12. CASE /\ x.row.tick > 0 <=> persisting[b].row.tick > 0
            /\ Len(tables'[t]) + Owed(x, t)
                  <= Len(tables[t]) + Owed(persisting[b], t) + TickRows
            /\ unpruned'[t] = unpruned[t] + 1
  <2>1. Limit(Cardinality(Writers'), unpruned'[t]) = Limit(c, unpruned[t]) + TickRows
    BY <1>6, <1>9, <1>12
  <2> QED
    BY <1>10, <1>12, <2>1
<1>14. CASE /\ x.row.tick > 0 /\ persisting[b].row.tick = 0
            /\ Len(tables'[t]) + Owed(x, t)
                  <= Len(tables[t]) + Owed(persisting[b], t) + 2 * TickRows
            /\ unpruned'[t] = unpruned[t]
  <2>1. Writers' = Writers \cup {b} /\ b \notin Writers
    BY <1>7, <1>8, <1>14 DEF Writers
  <2>2. Cardinality(Writers') = c + 1
    BY <1>2, <2>1, FS_AddElement
  <2>3. Limit(Cardinality(Writers'), unpruned'[t])
            = Limit(c, unpruned[t]) + 2 * TickRows
    BY <1>6, <1>14, <2>2
  <2>4. 2 * TickRows \in Nat
    OBVIOUS
  <2> QED
    BY <1>10, <1>14, <2>3, <2>4
<1>13. CASE Len(tables'[t]) <= MaxRows
  <2>1. MaxRows + (2 * TickRows) * Cardinality(Writers')
            <= Limit(Cardinality(Writers'), unpruned'[t])
    BY <1>2, LimitSteps
  <2> DEFINE m == (2 * TickRows) * Cardinality(Writers')
             l == Limit(Cardinality(Writers'), unpruned'[t])
  <2>2. m \in Nat /\ l \in Nat
    <3>1. l \in Nat
      BY <1>2, LimitSteps
    <3>2. \A i, j \in Nat : i * j \in Nat
      OBVIOUS
    <3> QED
      BY <1>2, <3>1, <3>2
  <2>3. Owing(persisting', t) <= m /\ MaxRows + m <= l
    BY <1>1, <2>1
  <2> HIDE DEF m, l
  <2>4. Len(tables'[t]) + Owing(persisting', t) <= l
    BY <1>1, <1>13, <2>2, <2>3
  <2> QED
    BY <2>4 DEF l
<1> QED
  BY <1>11, <1>12, <1>13, <1>14 DEF PaysItsWay

LEMMA HeadOrTail ==
    ASSUME NEW S, NEW s \in Seq(S), s # <<>>, NEW t, t # Head(s)
    PROVE  (\E i \in DOMAIN Tail(s) : Tail(s)[i] = t) <=> (\E i \in DOMAIN s : s[i] = t)
<1>1. /\ Len(s) \in Nat /\ DOMAIN s = 1 .. Len(s)
      /\ DOMAIN Tail(s) = 1 .. Len(Tail(s)) /\ Len(Tail(s)) = Len(s) - 1
      /\ \A i \in 1 .. Len(Tail(s)) : Tail(s)[i] = s[i + 1]
  BY HeadTailProperties, LenProperties
<1>2. s[1] = Head(s)
  OBVIOUS
<1>3. ASSUME NEW i \in DOMAIN s, s[i] = t PROVE \E j \in DOMAIN Tail(s) : Tail(s)[j] = t
  <2>1. i # 1 /\ i - 1 \in 1 .. Len(Tail(s)) /\ (i - 1) + 1 = i
    BY <1>1, <1>2, <1>3
  <2> QED
    BY <1>1, <1>3, <2>1
<1>4. ASSUME NEW i \in DOMAIN Tail(s), Tail(s)[i] = t PROVE \E j \in DOMAIN s : s[j] = t
  <2>1. i + 1 \in 1 .. Len(s)
    BY <1>1
  <2> QED
    BY <1>1, <1>4, <2>1
<1> QED
  BY <1>3, <1>4

\* What a bot that has written owes a table, in terms of its fields.
LEMMA OwedIs ==
    ASSUME NEW p \in Persisting, NEW t \in TableSet
    PROVE  /\ p.row.tick = 0 => Owed(p, t) = 0
           /\ p.row.tick > 0 /\ t \in PlansFor(p) => Owed(p, t) = p.left[t]
           /\ p.row.tick > 0 /\ t \notin PlansFor(p) => Owed(p, t) = p.left[t] + TickRows
<1>1. p.left[t] \in 0 .. TickRows /\ p.row.tick \in Nat
  BY OwedType
<1> QED
  BY <1>1, StorageAssumption DEF Owed

LEMMA NextRetained ==
    TypeOK /\ TypeOK' /\ PersistOwn /\ RetainedInv /\ [Next]_vars
        => PersistOwn' /\ RetainedInv'
<1> SUFFICES ASSUME TypeOK, TypeOK', PersistOwn, RetainedInv, [Next]_vars
             PROVE  PersistOwn' /\ RetainedInv'
  OBVIOUS
<1> USE StorageAssumption
<1>0. /\ persisting \in [Bots -> Persisting] /\ persisting' \in [Bots -> Persisting]
      /\ \A t \in TableSet : /\ Len(tables[t]) \in Nat /\ Len(tables'[t]) \in Nat
                             /\ unpruned[t] \in Nat /\ unpruned'[t] \in Nat
  BY LenProperties DEF TypeOK, Persisting
<1>1. ASSUME NEW b \in Bots, NEW x, persisting' = [persisting EXCEPT ![b] = x]
      PROVE  /\ x \in Persisting /\ persisting'[b] = x
             /\ \A c \in Bots : c # b => persisting'[c] = persisting[c]
  BY <1>0, <1>1
<1>2. ASSUME NEW b \in Bots, \A c \in Bots : c # b => persisting'[c] = persisting[c],
             \/ Idle(b)' /\ persisting'[b].row.tick = 0
             \/ persisting'[b].row.bot = b /\ persisting'[b].row.tick # 0
      PROVE  PersistOwn'
  <2> SUFFICES ASSUME NEW c \in Bots
               PROVE  IF persisting'[c].row.tick = 0 THEN Idle(c)'
                      ELSE persisting'[c].row.bot = c
    BY DEF PersistOwn
  <2>1. CASE c # b
    BY <1>2, <2>1 DEF PersistOwn, Idle
  <2> QED
    BY <1>2, <2>1
<1>3. ASSUME NEW b \in Bots, NEW x, persisting' = [persisting EXCEPT ![b] = x],
             persisting[b].row.tick > 0 => x.row.tick > 0,
             \A t \in TableSet : PaysItsWay(persisting[b], x, t),
             logs' <= MaxRows + logging' + unpruned'["SystemLog"]
      PROVE  RetainedInv'
  <2> SUFFICES ASSUME NEW t \in TableSet
               PROVE  Len(tables'[t]) + Owing(persisting', t)
                          <= Limit(Cardinality(Writers'), unpruned'[t])
    BY <1>3 DEF RetainedInv
  <2>1. x \in Persisting
    BY <1>1, <1>3
  <2> QED
    BY <1>0, <1>3, <2>1, StepRetained
<1>4. ASSUME NEW b \in Bots
      PROVE  /\ persisting[b].left \in [TableSet -> 0 .. TickRows]
             /\ persisting[b].row.tick \in Nat /\ persisting[b].prune \in Seq(TableSet)
             /\ persisting[b].row.tick = 0 => Idle(b)
             /\ persisting[b].row.tick # 0 => persisting[b].row.bot = b
             /\ ~ Idle(b) => persisting[b].row.tick > 0
  <2>1. persisting[b] \in Persisting
    BY <1>0
  <2> QED
    BY <2>1, PersistingParts DEF Row, PersistOwn
<1>5. ASSUME NEW b \in Bots, NEW n \in 0 .. TickRows, Tick(b, n)
      PROVE  PersistOwn' /\ RetainedInv'
  <2> DEFINE p == persisting[b]
             x == [row |-> [bot |-> b, name |-> botId[b], tick |-> budget.ticks,
                            session |-> session[b]],
                   left |-> [t \in TableSet |-> IF t = "Fill" THEN n ELSE TickRows],
                   prune |-> Tables]
  <2>1. persisting' = [persisting EXCEPT ![b] = x]
    BY <1>5 DEF Tick
  <2>2. x.row.tick \in Nat /\ x.row.tick > 0 /\ x.row.bot = b
    BY <1>5 DEF Tick, Spend, TypeOK, Budget
  <2>3. x.prune = Tables
    OBVIOUS
  <2>4. UNCHANGED <<tables, logs, logging, unpruned>> /\ Idle(b)
    BY <1>5 DEF Tick, databaseVars
  <2> HIDE DEF x
  <2>5. x \in Persisting
    BY <1>1, <2>1
  <2>6. ASSUME NEW t \in TableSet PROVE PaysItsWay(p, x, t)
    <3>1. t \in PlansFor(x)
      <4>1. Tables \in Seq(TableSet) /\ DOMAIN Tables = 1 .. Len(Tables)
        BY TableSetFacts, LenProperties
      <4> QED
        BY <2>3, <4>1 DEF PlansFor, TableSet
    <3>2. Owed(x, t) = x.left[t] /\ x.left[t] \in 0 .. TickRows
      BY <2>2, <2>5, <3>1, OwedIs, OwedType
    <3>3. t \notin PlansFor(p) /\ p.left[t] = 0
      BY <2>4 DEF Idle, PlansFor
    <3>4. /\ p.row.tick = 0 => Owed(p, t) = 0
          /\ p.row.tick > 0 => Owed(p, t) = TickRows
      BY <1>0, <3>3, OwedIs
    <3> QED
      BY SMTT(20), <1>0, <1>4, <2>2, <2>4, <3>2, <3>4 DEF PaysItsWay
  <2>7. logs' <= MaxRows + logging' + unpruned'["SystemLog"]
    BY <2>4 DEF RetainedInv
  <2>8. PersistOwn'
    <3>1. persisting'[b] = x /\ \A c \in Bots : c # b => persisting'[c] = persisting[c]
      BY <1>1, <2>1
    <3>2. x.row.tick # 0 /\ x.row.bot = b
      BY <2>2
    <3> QED
      BY <1>2, <3>1, <3>2
  <2>9. RetainedInv'
    BY <1>3, <2>1, <2>2, <2>6, <2>7
  <2> QED
    BY <2>8, <2>9
<1>6. ASSUME NEW b \in Bots, NEW s \in TableSet, Write(b, s)
      PROVE  PersistOwn' /\ RetainedInv'
  <2> DEFINE p == persisting[b]
             left == [p.left EXCEPT ![s] = @ - 1]
             x == [p EXCEPT !.left = left]
  <2>1. persisting' = [persisting EXCEPT ![b] = x]
    BY <1>6 DEF Write
  <2>2. /\ p \in Persisting /\ p.left[s] > 0
        /\ p.row.tick \in Nat /\ p.row.tick > 0 /\ p.row.bot = b
    BY <1>0, <1>4, <1>6 DEF Write, Idle
  <2>3. x.row = p.row /\ x.prune = p.prune /\ x.left = left
    BY <2>2 DEF Persisting
  <2>4. UNCHANGED <<logs, logging, unpruned>>
        /\ tables' = [tables EXCEPT ![s] = <<p.row>> \o @]
    BY <1>6 DEF Write
  <2> HIDE DEF x
  <2>5. x \in Persisting
    BY <1>1, <2>1
  <2>6. ASSUME NEW t \in TableSet PROVE PaysItsWay(p, x, t)
    <3>0. /\ x.left[t] \in Nat /\ p.left[t] \in Nat
          /\ Owed(x, t) \in Nat /\ Owed(p, t) \in Nat
      BY <2>2, <2>5, OwedType
    <3>1. PICK due \in Nat : /\ Owed(x, t) = x.left[t] + due
                             /\ Owed(p, t) = p.left[t] + due
      <4>1. PlansFor(x) = PlansFor(p)
        BY <2>3 DEF PlansFor
      <4>2. CASE t \in PlansFor(p)
        <5>1. Owed(x, t) = x.left[t] /\ Owed(p, t) = p.left[t]
          BY <2>2, <2>3, <2>5, <4>1, <4>2, OwedIs
        <5> QED
          BY <3>0, <5>1
      <4>3. CASE t \notin PlansFor(p)
        <5>1. Owed(x, t) = x.left[t] + TickRows /\ Owed(p, t) = p.left[t] + TickRows
          BY <2>2, <2>3, <2>5, <4>1, <4>3, OwedIs
        <5> QED
          BY <5>1
      <4> QED
        BY <4>2, <4>3
    <3>2. p.left \in [TableSet -> 0 .. TickRows]
      BY <1>4
    <3>3. CASE t = s
      <4>1. x.left[t] = p.left[t] - 1 /\ p.left[t] \in Nat
        BY <2>3, <3>2, <3>3
      <4>2. Len(tables'[t]) = Len(tables[t]) + 1
        <5>1. tables \in [TableSet -> Seq(Row)] /\ p.row \in Row
          BY <2>2, PersistingParts DEF TypeOK
        <5>2. tables'[t] = <<p.row>> \o tables[t]
          BY <2>4, <3>3, <5>1
        <5> QED
          BY <5>1, <5>2, ConsProperties
      <4>3. Owed(x, t) = Owed(p, t) - 1
        BY <3>0, <3>1, <4>1
      <4>4. Len(tables'[t]) + Owed(x, t) <= Len(tables[t]) + Owed(p, t)
        BY <1>0, <3>0, <4>2, <4>3
      <4> QED
        BY <2>3, <2>4, <4>4 DEF PaysItsWay
    <3>4. CASE t # s
      <4>1. x.left[t] = p.left[t] /\ tables'[t] = tables[t]
        BY <2>3, <2>4, <3>2, <3>4 DEF TypeOK
      <4>2. Len(tables'[t]) + Owed(x, t) <= Len(tables[t]) + Owed(p, t)
        BY <1>0, <3>0, <3>1, <4>1
      <4> QED
        BY <2>3, <2>4, <4>2 DEF PaysItsWay
    <3> QED
      BY <3>3, <3>4
  <2>7. logs' <= MaxRows + logging' + unpruned'["SystemLog"]
    BY <2>4 DEF RetainedInv
  <2>8. PersistOwn'
    BY <1>1, <1>2, <2>1, <2>2, <2>3
  <2>9. RetainedInv'
    BY <1>3, <2>1, <2>2, <2>3, <2>6, <2>7
  <2> QED
    BY <2>8, <2>9
<1>7. ASSUME NEW b \in Bots, NEW s \in TableSet, WriteFails(b, s)
      PROVE  PersistOwn' /\ RetainedInv'
  <2> DEFINE p == persisting[b]
             left == [p.left EXCEPT ![s] = 0]
             x == [p EXCEPT !.left = left]
  <2>1. persisting' = [persisting EXCEPT ![b] = x]
    BY <1>7 DEF WriteFails
  <2>2. /\ p \in Persisting
        /\ p.row.tick \in Nat /\ p.row.tick > 0 /\ p.row.bot = b
    BY <1>0, <1>4, <1>7 DEF WriteFails, Idle
  <2>3. x.row = p.row /\ x.prune = p.prune /\ x.left = left
    BY <2>2 DEF Persisting
  <2>4. UNCHANGED <<tables, logs, logging, unpruned>>
    BY <1>7 DEF WriteFails, databaseVars
  <2> HIDE DEF x
  <2>5. x \in Persisting
    BY <1>1, <2>1
  <2>6. ASSUME NEW t \in TableSet PROVE PaysItsWay(p, x, t)
    <3>1. p.left[t] \in Nat /\ x.left[t] \in Nat /\ x.left[t] <= p.left[t]
      <4>1. p.left \in [TableSet -> 0 .. TickRows]
        BY <1>4
      <4> QED
        BY <2>3, <4>1
    <3>2. Owed(x, t) <= Owed(p, t)
      <4>1. PlansFor(x) = PlansFor(p)
        BY <2>3 DEF PlansFor
      <4>2. CASE t \in PlansFor(p)
        BY <2>2, <2>3, <2>5, <3>1, <4>1, <4>2, OwedIs
      <4>3. CASE t \notin PlansFor(p)
        <5>1. Owed(x, t) = x.left[t] + TickRows /\ Owed(p, t) = p.left[t] + TickRows
          BY <2>2, <2>3, <2>5, <4>1, <4>3, OwedIs
        <5> QED
          BY <3>1, <5>1
      <4> QED
        BY <4>2, <4>3
    <3>3. Owed(x, t) \in Nat /\ Owed(p, t) \in Nat
      BY <2>2, <2>5, OwedType
    <3> QED
      BY <1>0, <2>3, <2>4, <3>2, <3>3 DEF PaysItsWay
  <2>7. logs' <= MaxRows + logging' + unpruned'["SystemLog"]
    BY <2>4 DEF RetainedInv
  <2>8. PersistOwn'
    BY <1>1, <1>2, <2>1, <2>2, <2>3
  <2>9. RetainedInv'
    BY <1>3, <2>1, <2>2, <2>3, <2>6, <2>7
  <2> QED
    BY <2>8, <2>9
\* A prune done or failed: for the other tables nothing changes.
<1>8. ASSUME NEW b \in Bots, persisting[b].prune # <<>>,
             persisting' = [persisting EXCEPT ![b].prune = Tail(@)]
      PROVE  /\ persisting'[b] \in Persisting /\ persisting'[b].row = persisting[b].row
             /\ persisting' = [persisting EXCEPT ![b] = persisting'[b]]
             /\ persisting[b].row.tick > 0 /\ PersistOwn'
             /\ Head(persisting[b].prune) \in TableSet
             /\ \A t \in TableSet : persisting'[b].left[t] = persisting[b].left[t]
             /\ \A t \in TableSet : t # Head(persisting[b].prune)
                    => Owed(persisting'[b], t) = Owed(persisting[b], t)
  <2> DEFINE p == persisting[b]
             x == [p EXCEPT !.prune = Tail(p.prune)]
  <2>1. persisting' = [persisting EXCEPT ![b] = x]
    BY <1>8
  <2>2. /\ p \in Persisting /\ p.prune \in Seq(TableSet)
        /\ p.row.tick \in Nat /\ p.row.tick > 0 /\ p.row.bot = b
    BY <1>0, <1>4, <1>8 DEF Idle
  <2>3. x.row = p.row /\ x.prune = Tail(p.prune) /\ x.left = p.left
    BY <2>2 DEF Persisting
  <2> HIDE DEF x
  <2>4. x \in Persisting /\ persisting'[b] = x
    BY <1>1, <2>1
  <2>5. PersistOwn'
    BY <1>1, <1>2, <2>1, <2>2, <2>3
  <2>6. Head(p.prune) \in TableSet
    BY <1>8, <2>2, HeadTailProperties
  <2>7. ASSUME NEW t \in TableSet, t # Head(p.prune) PROVE Owed(x, t) = Owed(p, t)
    <3>1. t \in PlansFor(x) <=> t \in PlansFor(p)
      <4> DEFINE q == p.prune
      <4>1. q \in Seq(TableSet) /\ q # <<>> /\ t # Head(q)
        BY <1>8, <2>2, <2>7
      <4>2. x.prune = Tail(q) /\ p.prune = q
        BY <2>3
      <4> HIDE DEF q
      <4>3. (\E i \in DOMAIN Tail(q) : Tail(q)[i] = t) <=> (\E i \in DOMAIN q : q[i] = t)
        BY <4>1, HeadOrTail
      <4> QED
        BY <4>2, <4>3 DEF PlansFor
    <3> QED
      BY <2>3, <3>1 DEF Owed
  <2> QED
    BY <2>1, <2>2, <2>3, <2>4, <2>5, <2>6, <2>7
<1>9. ASSUME NEW b \in Bots, Prune(b) PROVE PersistOwn' /\ RetainedInv'
  <2> DEFINE p == persisting[b]
             x == persisting'[b]
             s == Head(p.prune)
  <2>1. /\ x \in Persisting /\ x.row = p.row /\ p.row.tick > 0
        /\ persisting' = [persisting EXCEPT ![b] = x] /\ PersistOwn' /\ s \in TableSet
        /\ \A t \in TableSet : t # s => Owed(x, t) = Owed(p, t)
    BY <1>8, <1>9 DEF Prune
  <2>2. UNCHANGED <<logs, logging, unpruned>> /\ tables' = [tables EXCEPT ![s] = Pruned(@)]
    BY <1>9 DEF Prune
  <2> HIDE DEF x, s
  <2>3. ASSUME NEW t \in TableSet PROVE PaysItsWay(p, x, t)
    <3>1. tables \in [TableSet -> Seq(Row)]
      BY DEF TypeOK
    <3>2. CASE t = s
      <4>1. tables'[t] = Newest(tables[t], MaxRows)
        BY <2>1, <2>2, <3>1, <3>2 DEF Pruned
      <4>2. Len(tables'[t]) <= MaxRows
        BY <3>1, <4>1, NewestProperties
      <4> QED
        BY <4>2 DEF PaysItsWay
    <3>3. CASE t # s
      <4>1. tables'[t] = tables[t] /\ Owed(x, t) = Owed(p, t)
        BY <2>1, <2>2, <3>1, <3>3
      <4>2. Owed(p, t) \in Nat
        BY <1>0, OwedType
      <4> QED
        BY <1>0, <2>1, <2>2, <4>1, <4>2 DEF PaysItsWay
    <3> QED
      BY <3>2, <3>3
  <2>4. logs' <= MaxRows + logging' + unpruned'["SystemLog"]
    BY <2>2 DEF RetainedInv
  <2>5. RetainedInv'
    BY <1>3, <2>1, <2>3, <2>4
  <2> QED
    BY <2>1, <2>5
<1>10. ASSUME NEW b \in Bots, PruneFails(b) PROVE PersistOwn' /\ RetainedInv'
  <2> DEFINE p == persisting[b]
             x == persisting'[b]
             s == Head(p.prune)
  <2>1. /\ x \in Persisting /\ x.row = p.row /\ p.row.tick > 0
        /\ persisting' = [persisting EXCEPT ![b] = x] /\ PersistOwn' /\ s \in TableSet
        /\ \A t \in TableSet : x.left[t] = p.left[t]
        /\ \A t \in TableSet : t # s => Owed(x, t) = Owed(p, t)
    BY <1>8, <1>10 DEF PruneFails
  <2>2. /\ UNCHANGED <<tables, logs, logging>>
        /\ unpruned' = [unpruned EXCEPT ![s] = @ + 1]
        /\ unpruned \in [TableSet \cup {"SystemLog"} -> Nat]
    BY <1>10 DEF PruneFails, databaseVars, TypeOK
  <2> HIDE DEF x, s
  <2>3. ASSUME NEW t \in TableSet PROVE PaysItsWay(p, x, t)
    <3>1. CASE t = s
      <4>1. unpruned'[t] = unpruned[t] + 1
        BY <2>2, <3>1
      <4>2. Owed(x, t) \in {x.left[t], x.left[t] + TickRows}
            /\ Owed(p, t) \in {p.left[t], p.left[t] + TickRows}
        <5>1. x.row.tick > 0 /\ p.row.tick > 0
          BY <2>1
        <5> QED
          BY <1>0, <2>1, <5>1, OwedIs
      <4>3. p.left[t] \in Nat /\ x.left[t] = p.left[t]
        BY <1>0, <2>1, OwedType
      <4>4. Owed(x, t) <= Owed(p, t) + TickRows /\ Owed(x, t) \in Nat /\ Owed(p, t) \in Nat
        BY SMTT(20), <4>2, <4>3
      <4> QED
        BY <1>0, <2>1, <2>2, <4>1, <4>4 DEF PaysItsWay
    <3>2. CASE t # s
      <4>1. unpruned'[t] = unpruned[t] /\ Owed(x, t) = Owed(p, t)
        BY <2>1, <2>2, <3>2
      <4>2. Owed(p, t) \in Nat
        BY <1>0, OwedType
      <4> QED
        BY <1>0, <2>1, <2>2, <4>1, <4>2 DEF PaysItsWay
    <3> QED
      BY <3>1, <3>2
  <2>4. logs' <= MaxRows + logging' + unpruned'["SystemLog"]
    <3>1. unpruned'["SystemLog"] = unpruned["SystemLog"]
      BY <2>1, <2>2, TableSetFacts
    <3> QED
      BY <2>2, <3>1 DEF RetainedInv
  <2>5. RetainedInv'
    BY <1>3, <2>1, <2>3, <2>4
  <2> QED
    BY <2>1, <2>5
<1>11. ASSUME NEW b \in Bots, Crash(b) PROVE PersistOwn' /\ RetainedInv'
  <2> DEFINE p == persisting[b]
             x == [NoTick EXCEPT !.row = p.row]
  <2>1. PICK k \in 0 .. logging :
          /\ logging' = logging - k
          /\ unpruned' = [t \in DOMAIN unpruned |->
                IF t = "SystemLog" THEN unpruned[t] + k
                ELSE IF \E i \in DOMAIN p.prune : p.prune[i] = t
                THEN unpruned[t] + 1 ELSE unpruned[t]]
    BY <1>11 DEF Crash
  <2>2. persisting' = [persisting EXCEPT ![b] = x] /\ UNCHANGED <<tables, logs>>
    BY <1>11 DEF Crash, databaseVars
  <2>3. /\ x.row = p.row /\ x.prune = <<>> /\ \A t \in TableSet : x.left[t] = 0
    BY DEF NoTick
  <2> HIDE DEF x
  <2>4. x \in Persisting /\ p \in Persisting /\ persisting'[b] = x
        /\ \A c \in Bots : c # b => persisting'[c] = persisting[c]
    BY <1>0, <1>1, <2>2
  <2>5. DOMAIN unpruned = TableSet \cup {"SystemLog"}
    BY DEF TypeOK
  <2>6. PersistOwn'
    <3>1. CASE p.row.tick = 0
      <4>1. Idle(b)' /\ persisting'[b].row.tick = 0
        BY <2>3, <2>4, <3>1 DEF Idle
      <4> QED
        BY <1>2, <2>4, <4>1
    <3>2. CASE p.row.tick # 0
      <4>1. persisting'[b].row.bot = b /\ persisting'[b].row.tick # 0
        BY <1>4, <2>3, <2>4, <3>2
      <4> QED
        BY <1>2, <2>4, <4>1
    <3> QED
      BY <3>1, <3>2
  <2>7. ASSUME NEW t \in TableSet PROVE PaysItsWay(p, x, t)
    <3>1. unpruned'[t] = IF t \in PlansFor(p) THEN unpruned[t] + 1 ELSE unpruned[t]
      BY SMTT(20), <2>1, <2>5, TableSetFacts DEF PlansFor
    <3>2. /\ p.row.tick \in Nat /\ p.left[t] \in Nat /\ Owed(p, t) \in Nat
          /\ Owed(x, t) \in Nat /\ tables'[t] = tables[t]
      BY <2>2, <2>4, OwedType
    <3>3. CASE p.row.tick = 0
      <4>1. Owed(x, t) = 0 /\ t \notin PlansFor(p)
        BY <1>4, <2>3, <2>4, <3>3, OwedIs DEF Idle, PlansFor
      <4> QED
        BY <1>0, <2>3, <3>1, <3>2, <4>1 DEF PaysItsWay
    <3>4. CASE p.row.tick > 0
      <4>1. Owed(x, t) = TickRows
        <5>1. t \notin PlansFor(x) /\ x.row.tick > 0 /\ x.left[t] = 0
          BY <2>3, <3>4 DEF PlansFor
        <5> QED
          BY <2>4, <5>1, OwedIs
      <4>2. CASE t \in PlansFor(p)
        BY <1>0, <2>3, <3>1, <3>2, <4>1, <4>2 DEF PaysItsWay
      <4>3. CASE t \notin PlansFor(p)
        <5>1. Owed(p, t) = p.left[t] + TickRows
          BY <2>4, <3>4, <4>3, OwedIs
        <5> QED
          BY <1>0, <2>3, <3>1, <3>2, <4>1, <4>3, <5>1 DEF PaysItsWay
      <4> QED
        BY <4>2, <4>3
    <3> QED
      BY <3>2, <3>3, <3>4
  <2>8. logs' <= MaxRows + logging' + unpruned'["SystemLog"]
    <3>1. /\ unpruned'["SystemLog"] = unpruned["SystemLog"] + k
          /\ unpruned["SystemLog"] \in Nat /\ logging \in Nat /\ logs \in Nat
      BY <2>1, <2>5 DEF TypeOK
    <3>2. logs <= MaxRows + logging + unpruned["SystemLog"]
      BY DEF RetainedInv
    <3> QED
      BY <2>1, <2>2, <3>1, <3>2
  <2>9. RetainedInv'
    BY <1>3, <2>2, <2>3, <2>7, <2>8
  <2> QED
    BY <2>6, <2>9
<1>12. ASSUME UNCHANGED persisting,
              \A t \in TableSet : /\ Len(tables'[t]) <= Len(tables[t])
                                  /\ unpruned'[t] = unpruned[t],
              logs' <= MaxRows + logging' + unpruned'["SystemLog"]
       PROVE  PersistOwn' /\ RetainedInv'
  <2>1. PersistOwn'
    BY <1>12 DEF PersistOwn, Idle
  <2>2. ASSUME NEW t \in TableSet
        PROVE  Len(tables'[t]) + Owing(persisting', t)
                   <= Limit(Cardinality(Writers'), unpruned'[t])
    <3>1. Owing(persisting', t) = Owing(persisting, t) /\ Writers' = Writers
      BY <1>12 DEF Writers
    <3>2. Owing(persisting, t) \in Nat
      BY <1>0, OwingBound
    <3>3. /\ Cardinality(Writers) \in Nat
          /\ Limit(Cardinality(Writers), unpruned[t]) \in Nat
      BY <1>0, WritersFinite, LimitSteps DEF Writers, WritersOf
    <3>4. Len(tables[t]) + Owing(persisting, t) <= Limit(Cardinality(Writers), unpruned[t])
      BY DEF RetainedInv
    <3> QED
      BY <1>0, <1>12, <3>1, <3>2, <3>3, <3>4
  <2> QED
    BY <1>12, <2>1, <2>2 DEF RetainedInv
<1>13. CASE Log
  <2>1. logs' <= MaxRows + logging' + unpruned'["SystemLog"]
    BY <1>13 DEF Log, RetainedInv, TypeOK
  <2> QED
    BY <1>0, <1>12, <1>13, <2>1 DEF Log
<1>14. CASE PruneLogs
  <2>1. unpruned \in [TableSet \cup {"SystemLog"} -> Nat]
        /\ logs \in Nat /\ logging \in Nat /\ unpruned["SystemLog"] \in Nat
    BY DEF TypeOK
  <2>2. logs' <= MaxRows + logging' + unpruned'["SystemLog"]
    BY <1>14, <2>1 DEF PruneLogs, PrunedLogs, RetainedInv
  <2>3. \A t \in TableSet : unpruned'[t] = unpruned[t]
    BY <1>14, <2>1, TableSetFacts DEF PruneLogs
  <2> QED
    BY <1>0, <1>12, <1>14, <2>2, <2>3 DEF PruneLogs
<1>15. ASSUME DeleteRows \/ DeleteHistory PROVE PersistOwn' /\ RetainedInv'
  <2>1. UNCHANGED <<logs, logging, persisting, unpruned>>
        /\ tables' = [t \in TableSet |-> <<>>]
    BY <1>15 DEF DeleteRows, DeleteHistory, botVars
  <2>2. \A t \in TableSet : Len(tables'[t]) <= Len(tables[t])
    BY <1>0, <2>1
  <2> QED
    BY <1>12, <2>1, <2>2 DEF RetainedInv
<1>16. ASSUME UNCHANGED <<tables, logs, logging, persisting, unpruned>>
       PROVE  PersistOwn' /\ RetainedInv'
  BY <1>0, <1>12, <1>16 DEF RetainedInv
<1>17. ASSUME NEW b \in Bots,
              Connect(b) \/ Disconnect(b) \/ ResetBot(b) \/ ResetBotFails(b)
       PROVE  PersistOwn' /\ RetainedInv'
  BY <1>16, <1>17 DEF Connect, Disconnect, ResetBot, ResetBotFails, databaseVars, botVars
<1>18. CASE BeginReset
  BY <1>16, <1>18 DEF BeginReset, databaseVars, botVars
<1>19. CASE UNCHANGED vars
  BY <1>16, <1>19 DEF vars, databaseVars, botVars
<1> QED
  BY <1>5, <1>6, <1>7, <1>9, <1>10, <1>11, <1>13, <1>14, <1>15, <1>17, <1>18, <1>19
  DEF Next, BotNext, WebNext

LEMMA RetainedFollows == TypeOK /\ RetainedInv => Retained
<1> SUFFICES ASSUME TypeOK, RetainedInv, NEW t \in TableSet
             PROVE  Len(tables[t])
                        <= MaxRows + TickRows * (2 * Cardinality(Writers) + unpruned[t])
  BY DEF Retained, RetainedInv
<1>1. persisting \in [Bots -> Persisting] /\ Len(tables[t]) \in Nat /\ unpruned[t] \in Nat
  BY LenProperties DEF TypeOK, Persisting
<1>2. Owing(persisting, t) \in Nat
  BY <1>1, OwingBound
<1>3. Cardinality(Writers) \in Nat /\ Limit(Cardinality(Writers), unpruned[t]) \in Nat
  BY <1>1, WritersFinite, LimitSteps DEF Writers, WritersOf
<1>4. Len(tables[t]) <= Limit(Cardinality(Writers), unpruned[t])
  BY <1>1, <1>2, <1>3 DEF RetainedInv
<1> QED
  BY <1>4 DEF Limit

\* Retention holds however pruning races the inserts: whatever fails or crashes,
\* a table never exceeds MAX_ROWS_PER_TABLE by more than two payloads per bot
\* and one for each prune that was not done.
THEOREM RetentionHolds == Spec => []Retained
<1>1. Init => TypeOK /\ PersistOwn /\ RetainedInv
  BY InitType, InitRetained
<1>2. TypeOK /\ PersistOwn /\ RetainedInv /\ [Next]_vars
          => (TypeOK /\ PersistOwn /\ RetainedInv)'
  BY NextType, NextRetained
<1>3. TypeOK /\ PersistOwn /\ RetainedInv => Retained
  BY RetainedFollows
<1> QED
  BY <1>1, <1>2, <1>3, PTL DEF Spec

-----------------------------------------------------------------------------
(* What survives a reset of all data *)

\* LeftoversFromOneTick is not inductive: the payload a bot is persisting is a
\* leftover to be, and outside of a reset no bot is about to end its session.
StoredRows == UNION {{tables[t][i] : i \in DOMAIN tables[t]} : t \in TableSet}

Remains == StoredRows \cup {persisting[b].row : b \in Writers}

Old(r) == r.session < session[r.bot]

OneTick ==
    reset.status = "idle" =>
        /\ reset.pending = {}
        /\ \A r, q \in Remains : r.bot = q.bot /\ Old(r) /\ Old(q) => r.tick = q.tick

LEMMA InitOneTick == Init => OneTick
<1> SUFFICES ASSUME Init PROVE OneTick
  OBVIOUS
<1>1. StoredRows = {}
  <2>1. \A t \in TableSet : DOMAIN tables[t] = {}
    BY DEF Init
  <2> QED
    BY <2>1 DEF StoredRows
<1>2. Writers = {}
  BY DEF Init, Writers, NoTick
<1> QED
  BY <1>1, <1>2 DEF Remains, OneTick, Init

LEMMA NextOneTick ==
    TypeOK /\ TypeOK' /\ PersistOwn /\ PersistOwn' /\ OneTick /\ [Next]_vars => OneTick'
<1> SUFFICES ASSUME TypeOK, TypeOK', PersistOwn, PersistOwn', OneTick, [Next]_vars
             PROVE  OneTick'
  OBVIOUS
<1>0. /\ persisting \in [Bots -> Persisting] /\ tables \in [TableSet -> Seq(Row)]
      /\ session \in [Bots -> Nat]
  BY DEF TypeOK, Persisting
\* Outside of a reset, what remains only shrinks, but for rows of this session.
<1>1. ASSUME UNCHANGED <<reset, session>>,
             \A r \in Remains' : r \in Remains \/ ~ Old(r)
      PROVE  OneTick'
  BY <1>1 DEF OneTick, Old
<1>2. ASSUME UNCHANGED <<tables, persisting>> PROVE Remains' = Remains
  BY <1>2 DEF Remains, StoredRows, Writers
<1>3. ASSUME NEW b \in Bots, NEW n \in 0 .. TickRows, Tick(b, n) PROVE OneTick'
  <2> DEFINE row == [bot |-> b, name |-> botId[b], tick |-> budget.ticks,
                     session |-> session[b]]
  <2>1. /\ persisting'[b].row = row /\ \A c \in Bots : c # b => persisting'[c] = persisting[c]
        /\ UNCHANGED <<tables, reset, session>>
    BY <1>0, <1>3 DEF Tick, databaseVars
  <2>2. row.bot = b /\ row.session = session[b]
    OBVIOUS
  <2> HIDE DEF row
  <2>3. ~ Old(row)
    BY <1>0, <2>2 DEF Old
  <2>4. Remains' \subseteq Remains \cup {row}
    BY <2>1 DEF Remains, StoredRows, Writers
  <2> QED
    BY <1>1, <2>1, <2>3, <2>4
<1>4. ASSUME NEW b \in Bots, NEW s \in TableSet, Write(b, s) PROVE OneTick'
  <2>1. /\ UNCHANGED <<reset, session>>
        /\ tables' = [tables EXCEPT ![s] = <<persisting[b].row>> \o @]
        /\ \A c \in Bots : persisting'[c].row = persisting[c].row
    BY <1>0, <1>4 DEF Write, webVars, Persisting
  <2>2. b \in Writers
    <3>1. ~ Idle(b) /\ persisting[b] \in Persisting
      BY <1>0, <1>4 DEF Write, Idle, Persisting
    <3>2. persisting[b].row.tick \in Nat
      BY <3>1, OwedType, TableSetFacts
    <3> QED
      BY <3>1, <3>2 DEF PersistOwn, Writers
  <2>3. StoredRows' \subseteq StoredRows \cup {persisting[b].row}
    <3> SUFFICES ASSUME NEW t \in TableSet, NEW i \in DOMAIN tables'[t]
                 PROVE  tables'[t][i] \in StoredRows \cup {persisting[b].row}
      BY DEF StoredRows
    <3>1. CASE t # s
      BY <1>0, <2>1, <3>1 DEF StoredRows
    <3>2. CASE t = s
      <4>1. tables[s] \in Seq(Row) /\ persisting[b].row \in Row
            /\ tables'[t] = <<persisting[b].row>> \o tables[s]
        BY <1>0, <2>1, <3>2, PersistingParts
      <4>2. /\ Len(tables'[t]) = Len(tables[s]) + 1 /\ tables'[t] \in Seq(Row)
            /\ \A k \in 1 .. Len(tables[s]) + 1 :
                  tables'[t][k] = IF k = 1 THEN persisting[b].row ELSE tables[s][k - 1]
        BY <4>1, ConsProperties
      <4>3. DOMAIN tables'[t] = 1 .. Len(tables[s]) + 1
            /\ DOMAIN tables[s] = 1 .. Len(tables[s]) /\ Len(tables[s]) \in Nat
        BY <4>1, <4>2, LenProperties
      <4>4. CASE i = 1
        BY <4>2, <4>3, <4>4
      <4>5. CASE i # 1
        <5>1. i - 1 \in DOMAIN tables[s]
          BY <4>3, <4>5
        <5> QED
          BY <4>2, <4>3, <4>5, <5>1 DEF StoredRows
      <4> QED
        BY <4>4, <4>5
    <3> QED
      BY <3>1, <3>2
  <2>4. Remains' \subseteq Remains
    <3>1. {persisting[c].row : c \in Writers}' = {persisting[c].row : c \in Writers}
      BY <2>1 DEF Writers
    <3> QED
      BY <2>2, <2>3, <3>1 DEF Remains
  <2> QED
    BY <1>1, <2>1, <2>4
<1>5. ASSUME NEW b \in Bots, NEW t \in TableSet, WriteFails(b, t) PROVE OneTick'
  <2>1. /\ UNCHANGED <<reset, session, tables>>
        /\ \A c \in Bots : persisting'[c].row = persisting[c].row
    BY <1>0, <1>5 DEF WriteFails, webVars, databaseVars, Persisting
  <2>2. Remains' = Remains
    BY <2>1 DEF Remains, StoredRows, Writers
  <2> QED
    BY <1>1, <2>1, <2>2
<1>6. ASSUME NEW b \in Bots, Prune(b) PROVE OneTick'
  <2> DEFINE s == Head(persisting[b].prune)
  <2>1. /\ UNCHANGED <<reset, session>> /\ tables' = [tables EXCEPT ![s] = Pruned(@)]
        /\ \A c \in Bots : persisting'[c].row = persisting[c].row
    BY <1>0, <1>6 DEF Prune, webVars, Persisting
  <2> HIDE DEF s
  <2>2. StoredRows' \subseteq StoredRows
    <3> SUFFICES ASSUME NEW t \in TableSet, NEW i \in DOMAIN tables'[t]
                 PROVE  tables'[t][i] \in StoredRows
      BY DEF StoredRows
    <3>1. CASE t # s
      BY <1>0, <2>1, <3>1 DEF StoredRows
    <3>2. CASE t = s
      <4>1. tables[t] \in Seq(Row) /\ tables'[t] = Newest(tables[t], MaxRows)
        BY <1>0, <2>1, <3>2 DEF Pruned
      <4>2. /\ tables'[t] \in Seq(Row)
            /\ \A k \in 1 .. Len(tables'[t]) :
                  k \in 1 .. Len(tables[t]) /\ tables'[t][k] = tables[t][k]
        BY <4>1, NewestProperties, StorageAssumption
      <4>3. i \in DOMAIN tables[t] /\ tables'[t][i] = tables[t][i]
        BY <4>1, <4>2, LenProperties
      <4> QED
        BY <4>3 DEF StoredRows
    <3> QED
      BY <3>1, <3>2
  <2>3. Remains' \subseteq Remains
    <3>1. {persisting[c].row : c \in Writers}' = {persisting[c].row : c \in Writers}
      BY <2>1 DEF Writers
    <3> QED
      BY <2>2, <3>1 DEF Remains
  <2> QED
    BY <1>1, <2>1, <2>3
<1>7. ASSUME NEW b \in Bots, PruneFails(b) PROVE OneTick'
  <2>1. /\ UNCHANGED <<reset, session, tables>>
        /\ \A c \in Bots : persisting'[c].row = persisting[c].row
    BY <1>0, <1>7 DEF PruneFails, webVars, databaseVars, Persisting
  <2>2. Remains' = Remains
    BY <2>1 DEF Remains, StoredRows, Writers
  <2> QED
    BY <1>1, <2>1, <2>2
<1>8. ASSUME NEW b \in Bots, Crash(b) PROVE OneTick'
  <2>1. /\ UNCHANGED <<reset, session, tables>>
        /\ \A c \in Bots : persisting'[c].row = persisting[c].row
    BY <1>0, <1>8 DEF Crash, databaseVars, Persisting, NoTick
  <2>2. Remains' = Remains
    BY <2>1 DEF Remains, StoredRows, Writers
  <2> QED
    BY <1>1, <2>1, <2>2
<1>9. ASSUME Log \/ PruneLogs PROVE OneTick'
  BY <1>1, <1>2, <1>9 DEF Log, PruneLogs, webVars
<1>10. ASSUME NEW b \in Bots, Connect(b) \/ Disconnect(b) PROVE OneTick'
  BY <1>1, <1>2, <1>10 DEF Connect, Disconnect, databaseVars, botVars
<1>11. ASSUME NEW b \in Bots, ResetBot(b) \/ ResetBotFails(b) PROVE OneTick'
  <2>1. b \in reset.pending /\ reset'.status = reset.status
    BY <1>11 DEF ResetBot, ResetBotFails, TypeOK
  <2> QED
    BY <2>1 DEF OneTick
<1>12. CASE BeginReset
  BY <1>12 DEF BeginReset, OneTick
\* When the tables are emptied, every bot's leftovers are what it is persisting.
<1>13. CASE DeleteRows
  <2>1. StoredRows' = {}
    <3>1. \A t \in TableSet : DOMAIN tables'[t] = {}
      BY <1>13 DEF DeleteRows
    <3> QED
      BY <3>1 DEF StoredRows
  <2>2. reset'.pending = {}
    BY <1>13 DEF DeleteRows, MayDelete
  <2>3. \A b \in Writers' : b \in Bots /\ persisting'[b].row.bot = b
    BY DEF Writers, PersistOwn
  <2>4. \A r, q \in Remains' : r.bot = q.bot => r = q
    BY <2>1, <2>3 DEF Remains
  <2> QED
    BY <2>2, <2>4 DEF OneTick
<1>14. CASE DeleteHistory
  <2>1. StoredRows' = {}
    <3>1. \A t \in TableSet : DOMAIN tables'[t] = {}
      BY <1>14 DEF DeleteHistory
    <3> QED
      BY <3>1 DEF StoredRows
  <2>2. UNCHANGED <<reset, session, persisting>>
    BY <1>14 DEF DeleteHistory, botVars, webVars
  <2>3. Remains' \subseteq Remains
    BY <2>1, <2>2 DEF Remains, Writers
  <2> QED
    BY <1>1, <2>2, <2>3
<1>15. CASE UNCHANGED vars
  BY <1>1, <1>2, <1>15 DEF vars, databaseVars, botVars, webVars
<1> QED
  BY <1>3, <1>4, <1>5, <1>6, <1>7, <1>8, <1>9, <1>10, <1>11, <1>12, <1>13, <1>14,
     <1>15
  DEF Next, BotNext, WebNext

LEMMA OneTickFollows == OneTick => LeftoversFromOneTick
<1> SUFFICES ASSUME OneTick, reset.status = "idle", NEW t \in TableSet,
                    NEW i \in DOMAIN tables[t], NEW j \in DOMAIN tables[t],
                    tables[t][i].bot = tables[t][j].bot,
                    Old(tables[t][i]), Old(tables[t][j])
             PROVE  tables[t][i].tick = tables[t][j].tick
  BY DEF LeftoversFromOneTick, Old
<1>1. tables[t][i] \in Remains /\ tables[t][j] \in Remains
  BY DEF Remains, StoredRows
<1> QED
  BY <1>1 DEF OneTick

\* Once DELETE /api/reset is over, what is left of a bot's old session in any
\* table is of one payload, the one it was persisting, whatever bots failed to
\* answer, crashed or were still writing.
THEOREM ResetLeavesOneTick == Spec => []LeftoversFromOneTick
<1>1. Init => TypeOK /\ PersistOwn /\ RetainedInv /\ OneTick
  BY InitType, InitRetained, InitOneTick
<1>2. TypeOK /\ PersistOwn /\ RetainedInv /\ OneTick /\ [Next]_vars
          => (TypeOK /\ PersistOwn /\ RetainedInv /\ OneTick)'
  BY NextType, NextRetained, NextOneTick
<1>3. OneTick => LeftoversFromOneTick
  BY OneTickFollows
<1> QED
  BY <1>1, <1>2, <1>3, PTL DEF Spec

-----------------------------------------------------------------------------
(* Pages of fills *)

\* s.slice(start, start + pageSize) keeps places.
LEMMA SliceProperties ==
    ASSUME NEW S, NEW s \in Seq(S), NEW page \in Nat \ {0}, NEW i \in 1 .. PageSize
    PROVE  LET place == (page - 1) * PageSize + i
               items == Slice(s, page)
           IN IF place > Len(s) THEN Len(items) < i
              ELSE Len(items) >= i /\ items[i] = s[place]
<1> DEFINE m == (page - 1) * PageSize
           last == IF Len(s) < m + PageSize THEN Len(s) ELSE m + PageSize
           items == SubSeq(s, m + 1, last)
<1>1. PageSize \in Nat /\ m \in Nat /\ page * PageSize = m + PageSize
  <2>1. \A k, q \in Nat : k * q \in Nat /\ (k + 1) * q = k * q + q
    OBVIOUS
  <2>2. page - 1 \in Nat /\ page = (page - 1) + 1 /\ PageSize \in Nat
    BY StorageAssumption
  <2> QED
    BY <2>1, <2>2
<1>2. Slice(s, page) = items
  BY <1>1 DEF Slice
<1>3. Len(s) \in Nat /\ \A j \in 1 .. Len(s) : s[j] \in S
  BY LenProperties, ElementOfSeq
<1> HIDE DEF m
<1>4. m + 1 \in Int /\ last \in Int /\ last <= Len(s)
      /\ \A j \in m + 1 .. last : j \in 1 .. Len(s)
  BY <1>1, <1>3
<1> HIDE DEF last
<1>5. /\ Len(items) = IF m + 1 <= last THEN last - (m + 1) + 1 ELSE 0
      /\ \A j \in 1 .. last - (m + 1) + 1 : items[j] = s[(m + 1) + j - 1]
  <2>1. \A j \in m + 1 .. last : s[j] \in S
    BY <1>3, <1>4
  <2> QED
    BY <1>4, <2>1, SubSeqProperties
<1> HIDE DEF items
<1>6. CASE m + i > Len(s)
  <2>1. last < m + i
    BY <1>1, <1>3, <1>6 DEF last
  <2>2. Len(items) < i
    BY <1>1, <1>4, <1>5, <2>1
  <2> QED
    BY <1>2, <1>6, <2>2 DEF m
<1>7. CASE ~ (m + i > Len(s))
  <2>1. last >= m + i
    BY <1>1, <1>3, <1>7 DEF last
  <2>2. Len(items) >= i /\ i \in 1 .. last - (m + 1) + 1 /\ (m + 1) + i - 1 = m + i
    BY <1>1, <1>4, <1>5, <2>1
  <2>3. items[i] = s[m + i]
    BY <1>5, <2>2
  <2> QED
    BY <1>2, <1>7, <2>2, <2>3 DEF m
<1> QED
  BY <1>6, <1>7

LEMMA FillsAtProperties ==
    ASSUME TypeOK, NEW A \in SUBSET DOMAIN tables["Fill"]
    PROVE  /\ A \in SUBSET Nat /\ IsFiniteSet(A) /\ Cardinality(A) \in Nat
           /\ FillsAt(A) \in Seq(Row) /\ Len(FillsAt(A)) = Cardinality(A)
           /\ \A n \in 1 .. Cardinality(A) : FillsAt(A)[n] = tables["Fill"][Nth(A, n)]
<1>1. tables["Fill"] \in Seq(Row)
  BY TableSetFacts DEF TypeOK
<1> QED
  BY <1>1, ElementsAtProperties DEF FillsAt

\* What the query for one of several ids may leave out comes after the page.
LEMMA MergedPlaces ==
    ASSUME TypeOK, NEW ids, NEW page \in Nat \ {0}
    PROVE  /\ MergedRows(ids, page) \in Seq(Row) /\ StoredAs(ids) \in Seq(Row)
           /\ ids # {} => /\ Len(MergedRows(ids, page)) <= Len(StoredAs(ids))
                          /\ \A p \in 1 .. Len(StoredAs(ids)) : p <= page * PageSize =>
                                /\ p <= Len(MergedRows(ids, page))
                                /\ MergedRows(ids, page)[p] = StoredAs(ids)[p]
<1> DEFINE all == tables["Fill"]
           A == {i \in DOMAIN all : ids = {} \/ all[i].name \in ids}
           Count(id, i) == Cardinality({j \in 1 .. i : all[j].name = id})
           M == {i \in DOMAIN all : \E id \in ids :
                    all[i].name = id /\ Count(id, i) <= Len(Fetched(id, page))}
           k == page * PageSize
<1>1. StoredAs(ids) = FillsAt(A) /\ MergedRows(ids, page) = FillsAt(M)
  BY DEF StoredAs, MergedRows
<1>2. all \in Seq(Row) /\ DOMAIN all = 1 .. Len(all) /\ Len(all) \in Nat
  BY TableSetFacts, LenProperties DEF TypeOK
<1>3. A \subseteq DOMAIN all /\ M \subseteq DOMAIN all
  OBVIOUS
<1>4. k \in Nat
  <2>1. \A x, y \in Nat : x * y \in Nat
    OBVIOUS
  <2> QED
    BY <2>1, StorageAssumption
<1>5. ids # {} => M \subseteq A
  OBVIOUS
<1> HIDE DEF A, M, k, all
<1>6. ASSUME ids # {}, NEW i \in A, Rank(A, i) <= k PROVE i \in M
  <2> DEFINE id == all[i].name
             N == {j \in DOMAIN all : {id} = {} \/ all[j].name \in {id}}
             C == {j \in 1 .. i : all[j].name = id}
  <2>1. i \in DOMAIN all /\ id \in ids /\ i \in Nat
    BY <1>2, <1>6 DEF A
  <2>2. C \subseteq N /\ C \subseteq {j \in A : j <= i}
    BY <1>2, <2>1 DEF A
  <2>3. N \subseteq DOMAIN all /\ {j \in A : j <= i} \subseteq DOMAIN all
    BY <1>3
  <2>4. /\ IsFiniteSet(N) /\ IsFiniteSet({j \in A : j <= i})
        /\ Cardinality(N) \in Nat /\ FillsAt(N) \in Seq(Row)
        /\ Len(FillsAt(N)) = Cardinality(N) /\ Rank(A, i) \in Nat
    BY <2>3, FillsAtProperties, FS_CardinalityType DEF all, Rank
  <2>5. Count(id, i) <= Cardinality(N) /\ Count(id, i) <= Rank(A, i)
        /\ Count(id, i) \in Nat
    <3>1. Cardinality(C) <= Cardinality(N)
      BY <2>2, <2>4, FS_Subset
    <3>2. Cardinality(C) <= Cardinality({j \in A : j <= i})
      BY <2>2, <2>4, FS_Subset
    <3>3. Cardinality(C) \in Nat
      BY <2>2, <2>4, FS_Subset, FS_CardinalityType
    <3> QED
      BY <3>1, <3>2, <3>3 DEF Rank
  <2>6. StoredAs({id}) = FillsAt(N)
    BY DEF StoredAs, all
  <2>7. Len(Fetched(id, page)) = IF Cardinality(N) < k THEN Cardinality(N) ELSE k
    BY <1>4, <2>4, <2>6, NewestProperties DEF Fetched, k
  <2>8. Count(id, i) <= Len(Fetched(id, page))
    BY <1>4, <1>6, <2>4, <2>5, <2>7
  <2> QED
    BY <2>1, <2>8 DEF M
<1>7. /\ A \in SUBSET Nat /\ IsFiniteSet(A) /\ Cardinality(A) \in Nat
      /\ FillsAt(A) \in Seq(Row) /\ Len(FillsAt(A)) = Cardinality(A)
      /\ \A n \in 1 .. Cardinality(A) : FillsAt(A)[n] = all[Nth(A, n)]
      /\ FillsAt(M) \in Seq(Row) /\ Len(FillsAt(M)) = Cardinality(M)
      /\ \A n \in 1 .. Cardinality(M) : FillsAt(M)[n] = all[Nth(M, n)]
  BY <1>3, FillsAtProperties DEF all
<1>8. ASSUME ids # {} PROVE Cardinality(M) <= Cardinality(A)
  BY <1>5, <1>7, <1>8, FS_Subset
<1>9. ASSUME ids # {}, NEW p \in 1 .. Cardinality(A), p <= k
      PROVE  p <= Cardinality(M) /\ FillsAt(M)[p] = FillsAt(A)[p]
  <2>1. \A i \in A : Rank(A, i) <= k => i \in M
    BY <1>6, <1>9
  <2>2. M \in SUBSET A
    BY <1>5, <1>9
  <2>3. p <= Cardinality(M) /\ Nth(M, p) = Nth(A, p)
    BY <1>4, <1>7, <1>9, <2>1, <2>2, SamePlaces
  <2>4. Cardinality(M) \in Nat
    BY <1>7, LenProperties
  <2> QED
    BY <1>7, <2>3, <2>4
<1> QED
  BY <1>1, <1>7, <1>8, <1>9 DEF k

\* The page of a query is the page of all rows it is about.
LEMMA QueryPage ==
    ASSUME TypeOK, NEW ids, NEW page \in Nat \ {0}, NEW i \in 1 .. PageSize
    PROVE  LET place == (page - 1) * PageSize + i
               all == StoredAs(ids)
               items == QueryDbFills(ids, page).items
           IN IF place > Len(all) THEN Len(items) < i
              ELSE Len(items) >= i /\ items[i] = all[place]
<1> DEFINE place == (page - 1) * PageSize + i
           all == StoredAs(ids)
           merged == MergedRows(ids, page)
<1>1. /\ all \in Seq(Row) /\ merged \in Seq(Row)
      /\ Len(all) \in Nat /\ Len(merged) \in Nat
  BY MergedPlaces, LenProperties
<1>2. place \in Nat /\ place > 0 /\ place <= page * PageSize
  <2>1. \A k, q \in Nat : k * q \in Nat /\ (k + 1) * q = k * q + q
    OBVIOUS
  <2>2. page - 1 \in Nat /\ page = (page - 1) + 1 /\ PageSize \in Nat
    BY StorageAssumption
  <2>3. (page - 1) * PageSize \in Nat /\ page * PageSize = (page - 1) * PageSize + PageSize
    BY <2>1, <2>2
  <2> QED
    BY <2>2, <2>3
<1>3. CASE ~ (Cardinality(ids) > 1)
  <2>1. QueryDbFills(ids, page).items = Slice(all, page)
    BY <1>3 DEF QueryDbFills
  <2> QED
    BY <1>1, <2>1, SliceProperties
<1>4. CASE Cardinality(ids) > 1
  <2>1. QueryDbFills(ids, page).items = Slice(merged, page)
    BY <1>4 DEF QueryDbFills
  <2>2. ids # {}
    BY <1>4, FS_EmptySet
  <2>3. /\ Len(merged) <= Len(all)
        /\ \A p \in 1 .. Len(all) : p <= page * PageSize =>
              p <= Len(merged) /\ merged[p] = all[p]
    BY <2>2, MergedPlaces
  <2>4. IF place > Len(merged) THEN Len(Slice(merged, page)) < i
        ELSE Len(Slice(merged, page)) >= i /\ Slice(merged, page)[i] = merged[place]
    BY <1>1, SliceProperties
  <2> HIDE DEF place, all, merged
  <2>5. CASE place > Len(all)
    BY <1>1, <1>2, <2>1, <2>3, <2>4, <2>5 DEF place, all
  <2>6. CASE ~ (place > Len(all))
    <3>1. place \in 1 .. Len(all)
      BY <1>1, <1>2, <2>6
    <3>2. place <= Len(merged) /\ merged[place] = all[place]
      BY <1>2, <2>3, <3>1
    <3>3. ~ (place > Len(merged))
      BY <1>1, <1>2, <3>2
    <3> QED
      BY <2>1, <2>4, <2>6, <3>2, <3>3 DEF place, all
  <2> QED
    BY <2>5, <2>6
<1> QED
  BY <1>3, <1>4

LEMMA PagesFollow == TypeOK => PagesCover
<1> SUFFICES ASSUME TypeOK, NEW b \in Bots, NEW n \in 1 .. RelayCap + 1,
                    NEW i \in 1 .. PageSize
             PROVE  LET source == Answer(b, 1).source
                        all == IF source = "relay" THEN relayFills[b]
                               ELSE IF source = "db" THEN StoredAs({IdOf[b]})
                               ELSE StoredAs(LegacyCandidates(b))
                        items == Answer(b, n).items
                        place == (n - 1) * PageSize + i
                    IN IF place > Len(all) THEN Len(items) < i
                       ELSE Len(items) >= i /\ items[i] = all[place]
  BY DEF PagesCover
<1>1. n \in Nat \ {0} /\ 1 \in Nat \ {0}
  BY StorageAssumption
<1>2. relayFills[b] \in Seq(Row)
  BY DEF TypeOK
\* Where the fills come from does not depend on the page.
<1>3. \A page \in Nat : QueryDbFills({IdOf[b]}, page).total = Len(StoredAs({IdOf[b]}))
  <2> DEFINE ids == {IdOf[b]}
  <2>1. Cardinality(ids) = 1
    BY FS_Singleton
  <2> HIDE DEF ids
  <2>2. \A page \in Nat : QueryDbFills(ids, page).total = Len(StoredAs(ids))
    BY <2>1 DEF QueryDbFills
  <2> QED
    BY <2>2 DEF ids
<1>4. CASE relayFills[b] # <<>> \/ stream[b] = "open"
  <2>1. Answer(b, 1).source = "relay" /\ Answer(b, n).items = Slice(relayFills[b], n)
    BY <1>4 DEF Answer
  <2> QED
    BY <1>1, <1>2, <2>1, SliceProperties
<1>5. CASE /\ ~ (relayFills[b] # <<>> \/ stream[b] = "open")
           /\ Len(StoredAs({IdOf[b]})) > 0
  <2>1. Answer(b, 1).source = "db"
        /\ Answer(b, n).items = QueryDbFills({IdOf[b]}, n).items
    BY <1>1, <1>3, <1>5 DEF Answer
  <2> QED
    BY <1>1, <2>1, QueryPage
<1>6. CASE /\ ~ (relayFills[b] # <<>> \/ stream[b] = "open")
           /\ ~ (Len(StoredAs({IdOf[b]})) > 0)
  <2>1. Answer(b, 1).source = "db-legacy-bot-id"
        /\ Answer(b, n).items = QueryDbFills(LegacyCandidates(b), n).items
    BY <1>1, <1>3, <1>6 DEF Answer
  <2> DEFINE ids == LegacyCandidates(b)
             place == (n - 1) * PageSize + i
             items == QueryDbFills(ids, n).items
  <2>2. IF place > Len(StoredAs(ids)) THEN Len(items) < i
        ELSE Len(items) >= i /\ items[i] = StoredAs(ids)[place]
    <3> HIDE DEF ids
    <3> QED
      BY <1>1, QueryPage
  <2> QED
    BY <2>1, <2>2
<1> QED
  BY <1>4, <1>5, <1>6

\* GET /api/fills pages neither lose nor repeat a fill, whether the relay
\* answers, the database, or the database for the names of before.
THEOREM PagingCovers == Spec => []PagesCover
<1>1. TypeOK => PagesCover
  BY PagesFollow
<1> QED
  BY <1>1, TypeCorrect, PTL

=============================================================================
