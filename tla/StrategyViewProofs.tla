-------------------------- MODULE StrategyViewProofs --------------------------
(***************************************************************************)
(* Theorems of StrategyView, for any strategies and bounds: the types, and  *)
(* that a confirmed selection stays on display.                            *)
(***************************************************************************)
EXTENDS StrategyView, TLAPS

-----------------------------------------------------------------------------
(* Types *)

Queries == [status : {"idle", "sent", "answered"}, answer : Snapshot \cup {None}]
Uses == [selections : 0 .. MaxSelections, others : 0 .. MaxOthers,
         tabs : 0 .. MaxTabs, faults : 0 .. MaxFaults]

\* The part of TypeOK that speaks of the cache and the store.
Stored ==
    /\ cache \in Snapshot \cup {None} /\ shown \in Strategies \cup {None}
    /\ optimistic \in Strategies \cup {None} /\ locked \in BOOLEAN
    /\ locked => optimistic # None

\* The part that speaks of requests and counters.
Requested ==
    /\ query \in Queries /\ posts \subseteq Post /\ stray \subseteq Strategies
    /\ used \in Uses /\ confirmed \in Strategies \cup {None}
    /\ holder \in 0 .. MaxSelections /\ changedBy \in 0 .. MaxSelections

\* The part that speaks of the bot and its relay.
Served ==
    /\ bot \in Strategies /\ linked \in BOOLEAN /\ relay \in Snapshot
    /\ wire \in Seq(Strategies) /\ Len(wire) <= WireCap

\* A poll that was answered has an answer; a panel whose POST is under way is
\* mounted and shows data.
Pending ==
    /\ query.status = "answered" => query.answer \in Snapshot
    /\ \A r \in posts : r.own => mounted /\ cache # None

Typed == TypeOK /\ Pending

LEMMA TypeParts ==
    /\ TypeOK <=> Served /\ Stored /\ Requested
    /\ TypeOK' <=> Served' /\ Stored' /\ Requested'
<1>1. TypeOK <=> Served /\ Stored /\ Requested
  BY Zenon DEF TypeOK, Served, Stored, Requested, Queries, Uses
<1>2. TypeOK' <=> Served' /\ Stored' /\ Requested'
  BY Zenon DEF TypeOK, Served, Stored, Requested, Queries, Uses
<1> QED
  BY <1>1, <1>2

LEMMA NoneIsNoData == None \notin Snapshot /\ None \notin Strategies
BY StrategyAssumption DEF Snapshot

LEMMA NoAnswers ==
    /\ NoQuery \in Queries /\ NoQuery.status = "idle" /\ NoQuery.answer = None
    /\ SentQuery \in Queries /\ SentQuery.status = "sent" /\ SentQuery.answer = None
BY DEF NoQuery, SentQuery, Queries

LEMMA InitTyped == Init => Typed
<1> SUFFICES ASSUME Init PROVE Typed
  OBVIOUS
<1>1. Served
  <2>1. relay \in Snapshot
    BY StrategyAssumption DEF Init, FreshRelay, Snapshot
  <2>2. wire \in Seq(Strategies) /\ Len(wire) <= WireCap
    BY StrategyAssumption DEF Init
  <2> QED
    BY <2>1, <2>2, StrategyAssumption DEF Init, Served
<1>2. Stored
  BY StrategyAssumption DEF Init, Stored
<1>3. used \in Uses
  BY StrategyAssumption DEF Init, Uses
<1>4. Requested
  BY <1>3, NoAnswers, StrategyAssumption DEF Init, Requested
<1> QED
  BY <1>1, <1>2, <1>4, NoAnswers, TypeParts DEF Init, Typed, Pending

\* What select makes of the cache, the held value and the lock.
LEMMA RenderTyped ==
    ASSUME NEW data \in Snapshot \cup {None}, NEW held \in Strategies \cup {None},
           NEW lock \in BOOLEAN, lock => held # None, Render(data, held, lock)
    PROVE  Stored' /\ cache' = data /\ mounted'
<1>1. data # None => data.strategy \in Strategies
  BY DEF Snapshot
<1>2. shown' \in Strategies
  BY <1>1, StrategyAssumption DEF Render
<1>3. /\ locked' = (lock /\ ~Released(data, held, lock))
      /\ optimistic' = IF Released(data, held, lock) THEN None ELSE held
  BY DEF Render
<1>4. locked' \in BOOLEAN /\ (locked' => optimistic' # None)
  BY <1>3, Zenon
<1> QED
  BY <1>2, <1>3, <1>4, NoneIsNoData DEF Render, Stored, mounted

\* The same where a callback writes them, with or without a panel.
LEMMA CommitTyped ==
    ASSUME Stored, NEW r, NEW data \in Snapshot \cup {None},
           NEW held \in Strategies \cup {None},
           NEW lock \in BOOLEAN, lock => held # None,
           \/ Commit(r, data, held, lock)
           \/ Render(data, held, lock)
           \/ Write(data, held, lock)
    PROVE  Stored' /\ cache' = data /\ (mounted => mounted')
<1>1. CASE Render(data, held, lock)
  BY <1>1, RenderTyped
<1>2. CASE Write(data, held, lock)
  BY <1>2, Zenon DEF Write, Stored, mounted
<1> QED
  BY <1>1, <1>2 DEF Commit

LEMMA ResolvedTyped ==
    ASSUME Stored, NEW answer \in Snapshot
    PROVE  Resolved(answer) \in Snapshot
BY DEF Resolved, Stored

LEMMA CountTyped ==
    ASSUME TypeOK,
           \/ CountUse("selections", MaxSelections)
           \/ CountUse("others", MaxOthers)
           \/ CountUse("tabs", MaxTabs)
           \/ CountUse("faults", MaxFaults)
    PROVE  used' \in Uses
<1>1. used \in [selections : 0 .. MaxSelections, others : 0 .. MaxOthers,
                tabs : 0 .. MaxTabs, faults : 0 .. MaxFaults]
  BY DEF TypeOK
<1>2. CASE CountUse("selections", MaxSelections)
  <2>1. /\ used' = [used EXCEPT !["selections"] = used.selections + 1]
        /\ used.selections + 1 \in 0 .. MaxSelections
    BY <1>1, <1>2, StrategyAssumption DEF CountUse
  <2> QED
    BY <1>1, <2>1, Zenon DEF Uses
<1>3. CASE CountUse("others", MaxOthers)
  <2>1. /\ used' = [used EXCEPT !["others"] = used.others + 1]
        /\ used.others + 1 \in 0 .. MaxOthers
    BY <1>1, <1>3, StrategyAssumption DEF CountUse
  <2> QED
    BY <1>1, <2>1, Zenon DEF Uses
<1>4. CASE CountUse("tabs", MaxTabs)
  <2>1. /\ used' = [used EXCEPT !["tabs"] = used.tabs + 1]
        /\ used.tabs + 1 \in 0 .. MaxTabs
    BY <1>1, <1>4, StrategyAssumption DEF CountUse
  <2> QED
    BY <1>1, <2>1, Zenon DEF Uses
<1>5. CASE CountUse("faults", MaxFaults)
  <2>1. /\ used' = [used EXCEPT !["faults"] = used.faults + 1]
        /\ used.faults + 1 \in 0 .. MaxFaults
    BY <1>1, <1>5, StrategyAssumption DEF CountUse
  <2> QED
    BY <1>1, <2>1, Zenon DEF Uses
<1> QED
  BY <1>2, <1>3, <1>4, <1>5

\* What the dashboard does, as far as types go.
LEMMA DashboardTyped == Typed /\ DashboardNext => Typed'
<1> SUFFICES ASSUME Typed, DashboardNext PROVE Typed'
  OBVIOUS
<1>1. TypeOK /\ Served /\ Stored /\ Requested /\ Pending
  BY TypeParts DEF Typed
<1>2. ASSUME UNCHANGED serverVars, Stored', Requested', Pending' PROVE Typed'
  BY <1>1, <1>2, TypeParts DEF Typed, Served, serverVars
<1>3. ASSUME NEW s \in Strategies, Select(s) PROVE Typed'
  <2> DEFINE data == [cache EXCEPT !.strategy = s]
             new == [id |-> used'.selections, status |-> "sent", strategy |-> s,
                     previous |-> cache, own |-> TRUE]
  <2>1. cache \in Snapshot
    BY <1>1, <1>3 DEF Select, PresetsEnabled, Stored
  <2>2. data \in Snapshot
    BY <2>1 DEF Snapshot
  <2>3. Render(data, s, TRUE) /\ posts' = posts \cup {new}
    BY <1>3 DEF Select
  <2>4. used' \in Uses
    BY <1>1, <1>3, CountTyped DEF Select
  <2>5. used'.selections \in 1 .. MaxSelections
    BY <1>1, <1>3, StrategyAssumption DEF Select, CountUse, Requested, Uses
  <2>6. new \in Post
    BY <2>1, <2>5 DEF Post
  <2> HIDE DEF data, new
  <2>7. Stored' /\ cache' = data /\ mounted'
    BY <2>2, <2>3, NoneIsNoData, RenderTyped
  <2>8. Requested'
    BY <1>1, <1>3, <2>3, <2>4, <2>5, <2>6, NoAnswers, StrategyAssumption DEF Select, Requested
  <2>9. Pending'
    BY <1>3, <2>2, <2>7, NoAnswers, NoneIsNoData DEF Select, Pending
  <2> QED
    BY <1>2, <1>3, <2>7, <2>8, <2>9 DEF Select
<1>4. ASSUME NEW r \in posts, Succeed(r) PROVE Typed'
  <2>1. r \in Post /\ r.strategy \in Strategies /\ r.id \in 0 .. MaxSelections
    BY <1>1, StrategyAssumption DEF Requested, Post
  <2>2. Commit(r, cache, r.strategy, TRUE)
    BY <1>4 DEF Succeed, Confirm
  <2>3. Stored' /\ cache' = cache /\ (mounted => mounted')
    BY <1>1, <2>1, <2>2, CommitTyped, NoneIsNoData DEF Stored
  <2>4. /\ posts' = posts \ {r} /\ query' \in {query, SentQuery}
        /\ confirmed' \in {bot, None} /\ holder' = r.id
        /\ UNCHANGED <<serverVars, stray, used, changedBy>>
    BY <1>4 DEF Succeed
  <2>5. Requested'
    BY <1>1, <2>1, <2>4, NoAnswers DEF Requested, Served
  <2>6. Pending'
    BY <1>1, <2>3, <2>4, NoAnswers DEF Pending
  <2> QED
    BY <1>2, <2>3, <2>4, <2>5, <2>6
<1>5. ASSUME NEW r \in posts, Fail(r) PROVE Typed'
  <2>1. r \in Post /\ r.strategy \in Strategies /\ r.previous \in Snapshot
    BY <1>1 DEF Requested, Post
  <2>2. Commit(r, r.previous, None, FALSE)
    BY <1>5 DEF Fail, RollBack
  <2>3. Stored' /\ cache' = r.previous /\ (mounted => mounted')
    BY <1>1, <2>1, <2>2, CommitTyped
  <2>4. /\ posts' = posts \ {r} /\ stray' \subseteq stray \cup {r.strategy}
        /\ confirmed' = None /\ holder' = 0
        /\ UNCHANGED <<serverVars, query, used, changedBy>>
    BY <1>5 DEF Fail
  <2>5. Requested'
    BY <1>1, <2>1, <2>4, StrategyAssumption DEF Requested
  <2>6. Pending'
    BY <1>1, <2>1, <2>3, <2>4, NoneIsNoData DEF Pending
  <2> QED
    BY <1>2, <2>3, <2>4, <2>5, <2>6
<1>6. CASE Leave
  <2>1. used' \in Uses
    BY <1>1, <1>6, CountTyped DEF Leave
  <2>2. \A r \in posts : [r EXCEPT !.own = FALSE] \in Post /\ ~[r EXCEPT !.own = FALSE].own
    BY <1>1 DEF Requested, Post
  <2>3. posts' \subseteq Post /\ \A r \in posts' : ~r.own
    BY <1>6, <2>2 DEF Leave
  <2>4. Stored' /\ Requested'
    BY <1>1, <1>6, <2>1, <2>3 DEF Leave, Stored, Requested, historyVars
  <2>5. Pending'
    BY <1>1, <1>6, <2>3 DEF Leave, Pending
  <2> QED
    BY <1>2, <1>6, <2>4, <2>5 DEF Leave
<1>7. CASE Return
  <2>1. Stored' /\ cache' = cache /\ mounted'
    BY <1>1, <1>7, RenderTyped DEF Return, Stored
  <2>2. /\ query' \in {query, SentQuery}
        /\ UNCHANGED <<serverVars, posts, stray, used, confirmed, holder, changedBy>>
    BY <1>7 DEF Return, historyVars
  <2>3. Requested'
    BY <1>1, <2>2, NoAnswers DEF Requested
  <2>4. Pending'
    BY <1>1, <2>1, <2>2, NoAnswers DEF Pending
  <2> QED
    BY <1>2, <2>1, <2>2, <2>3, <2>4
<1>8. CASE Forget
  <2>1. Stored' /\ Requested'
    BY <1>1, <1>8 DEF Forget, Stored, Requested
  <2>2. Pending'
    BY <1>1, <1>8 DEF Forget, Pending
  <2> QED
    BY <1>2, <1>8, <2>1, <2>2 DEF Forget
<1>9. CASE Rerender
  <2>1. Stored' /\ cache' = cache /\ mounted'
    BY <1>1, <1>9, RenderTyped DEF Rerender, Stored
  <2>2. UNCHANGED <<serverVars, query, posts, stray, used, confirmed, holder, changedBy>>
    BY <1>9 DEF Rerender, historyVars
  <2>3. Requested' /\ Pending'
    BY <1>1, <2>1, <2>2 DEF Requested, Pending
  <2> QED
    BY <1>2, <2>1, <2>2, <2>3
<1>10. CASE LockExpires
  <2>1. Stored' /\ Requested'
    BY <1>1, <1>10 DEF LockExpires, Stored, Requested
  <2>2. Pending'
    BY <1>1, <1>10 DEF LockExpires, Pending, mounted
  <2> QED
    BY <1>2, <1>10, <2>1, <2>2 DEF LockExpires
<1>11. CASE Poll \/ PollFails
  <2>1. /\ UNCHANGED <<serverVars, storeVars, posts, stray, historyVars>>
        /\ query' \in {SentQuery, NoQuery}
        /\ used' \in Uses
    BY <1>1, <1>11, CountTyped DEF Poll, PollFails, Fault, Requested
  <2>2. Stored' /\ Requested'
    BY <1>1, <2>1, NoAnswers DEF Stored, Requested, storeVars, historyVars
  <2>3. Pending'
    BY <1>1, <2>1, NoAnswers DEF Pending, storeVars, mounted
  <2> QED
    BY <1>2, <2>1, <2>2, <2>3
<1>12. CASE Receive
  <2> DEFINE data == Resolved(query.answer)
  <2>1. data \in Snapshot
    BY <1>1, <1>12, ResolvedTyped DEF Receive, Pending
  <2>2. Render(data, optimistic, locked) \/ Write(data, optimistic, locked)
    BY <1>12 DEF Receive
  <2> HIDE DEF data
  <2>3. Stored' /\ cache' = data /\ (mounted => mounted')
    BY <1>1, <2>1, <2>2, CommitTyped DEF Stored
  <2>4. /\ UNCHANGED <<serverVars, posts, stray, used, confirmed, holder, changedBy>>
        /\ query' = NoQuery
    BY <1>12 DEF Receive, historyVars
  <2>5. Requested'
    BY <1>1, <2>4, NoAnswers DEF Requested
  <2>6. Pending'
    BY <1>1, <2>1, <2>3, <2>4, NoAnswers, NoneIsNoData DEF Pending
  <2> QED
    BY <1>2, <2>3, <2>4, <2>5, <2>6
<1> QED
  BY <1>3, <1>4, <1>5, <1>6, <1>7, <1>8, <1>9, <1>10, <1>11, <1>12 DEF DashboardNext

LEMMA ServerTyped == Typed /\ ServerNext => Typed'
<1> SUFFICES ASSUME Typed, ServerNext PROVE Typed'
  OBVIOUS
<1>1. TypeOK /\ Served /\ Stored /\ Requested /\ Pending
  BY TypeParts DEF Typed
<1>2. ASSUME UNCHANGED storeVars, Served', Requested',
             query'.status = "answered" => query'.answer \in Snapshot,
             \A r \in posts' : r.own => \E q \in posts : q.own
      PROVE  Typed'
  <2>1. Stored'
    BY <1>1, <1>2 DEF Stored, storeVars
  <2>2. Pending'
    BY <1>1, <1>2 DEF Pending, storeVars, mounted
  <2> QED
    BY <1>2, <2>1, <2>2, TypeParts DEF Typed
<1>3. ASSUME UNCHANGED <<storeVars, query, posts>>, Served', Requested' PROVE Typed'
  BY <1>1, <1>2, <1>3 DEF Pending
<1>4. ASSUME UNCHANGED <<query, posts, holder>>, stray' \subseteq stray, used' \in Uses,
             confirmed' = None, changedBy' = 0
      PROVE  Requested'
  BY <1>1, <1>4, StrategyAssumption DEF Requested
<1>5. \A up \in BOOLEAN : [relay EXCEPT !.connected = up] \in Snapshot
  <2>1. ASSUME NEW up \in BOOLEAN PROVE [relay EXCEPT !.connected = up] \in Snapshot
    BY <1>1, Zenon DEF Snapshot, Served
  <2> QED
    BY <2>1
<1>6. used \in Uses /\ <<>> \in Seq(Strategies) /\ Len(<<>>) <= WireCap
  BY <1>1, StrategyAssumption DEF Requested
<1>7. ASSUME NEW s \in Strategies, ApplyStray(s) PROVE Typed'
  <2>1. Served'
    BY <1>1, <1>7 DEF ApplyStray, Overtake, Served
  <2> QED
    BY <1>3, <1>4, <1>6, <1>7, <2>1 DEF ApplyStray, Overtake
<1>8. ASSUME NEW s \in Strategies, OtherSelects(s) PROVE Typed'
  <2>1. used' \in Uses
    BY <1>1, <1>8, CountTyped DEF OtherSelects
  <2>2. Served'
    BY <1>1, <1>8 DEF OtherSelects, Overtake, Served
  <2> QED
    BY <1>3, <1>4, <1>8, <2>1, <2>2 DEF OtherSelects, Overtake
<1>9. ASSUME NEW r \in posts, ApplyPreset(r) PROVE Typed'
  <2> DEFINE new == [r EXCEPT !.status = "applied"]
  <2>1. r \in Post
    BY <1>1 DEF Requested
  <2>2. /\ new \in Post /\ new.own = r.own
        /\ r.strategy \in Strategies /\ r.id \in 0 .. MaxSelections
    BY <2>1, StrategyAssumption DEF Post
  <2>3. posts' = (posts \ {r}) \cup {new}
    BY <1>9 DEF ApplyPreset
  <2> HIDE DEF new
  <2>4. Served' /\ Requested'
    BY <1>1, <1>9, <2>2, <2>3 DEF ApplyPreset, Served, Requested
  <2>5. \A q \in posts' : q.own => \E p \in posts : p.own
    BY <2>2, <2>3
  <2> QED
    BY <1>1, <1>2, <1>9, <2>4, <2>5 DEF ApplyPreset, Pending
<1>10. CASE AnswerPoll
  <2> DEFINE new == [status |-> "answered", answer |-> relay]
  <2>1. new \in Queries /\ new.answer \in Snapshot
    BY <1>1 DEF Queries, Served
  <2>2. query' = new
    BY <1>10 DEF AnswerPoll
  <2> HIDE DEF new
  <2>3. Served' /\ Requested'
    BY <1>1, <1>10, <2>1, <2>2 DEF AnswerPoll, Served, Requested, serverVars, historyVars
  <2> QED
    BY <1>2, <1>10, <2>1, <2>2, <2>3 DEF AnswerPoll
<1>11. CASE Restart
  <2>1. used' \in Uses
    BY <1>1, <1>11, CountTyped DEF Restart
  <2>2. Served'
    BY <1>5, <1>6, <1>11, StrategyAssumption DEF Restart, Overtake, Served
  <2> QED
    BY <1>3, <1>4, <1>11, <2>1, <2>2 DEF Restart, Overtake
<1>12. CASE Open
  <2>1. Served'
    BY <1>1, <1>5, <1>12 DEF Open, Served
  <2>3. UNCHANGED <<storeVars, query, posts, stray, used, confirmed, holder, changedBy>>
    BY <1>12 DEF Open, historyVars
  <2>4. Requested'
    BY <1>1, <2>3 DEF Requested
  <2> QED
    BY <1>3, <2>1, <2>3, <2>4
<1>13. CASE Publish
  <2>1. Served'
    BY <1>1, <1>13, StrategyAssumption DEF Publish, Served
  <2>3. UNCHANGED <<storeVars, query, posts, stray, used, confirmed, holder, changedBy>>
    BY <1>13 DEF Publish, historyVars
  <2>4. Requested'
    BY <1>1, <2>3 DEF Requested
  <2> QED
    BY <1>3, <2>1, <2>3, <2>4
<1>14. CASE Ingest
  <2>1. wire' \in Seq(Strategies) /\ Len(wire') <= WireCap /\ Head(wire) \in Strategies
    BY <1>1, <1>14, StrategyAssumption DEF Ingest, Served
  <2>2. Served'
    BY <1>1, <1>14, <2>1 DEF Ingest, Served, Snapshot
  <2>3. UNCHANGED <<storeVars, query, posts, stray, used, confirmed, holder, changedBy>>
    BY <1>14 DEF Ingest, historyVars
  <2>4. Requested'
    BY <1>1, <2>3 DEF Requested
  <2> QED
    BY <1>3, <2>2, <2>3, <2>4
<1>15. CASE Close
  <2>1. used' \in Uses
    BY <1>1, <1>15, CountTyped DEF Close, Fault
  <2>2. Served'
    BY <1>1, <1>5, <1>6, <1>15 DEF Close, Served
  <2>3. UNCHANGED <<storeVars, query, posts, stray, confirmed, holder, changedBy>>
    BY <1>15 DEF Close, historyVars
  <2>4. Requested'
    BY <1>1, <2>1, <2>3 DEF Requested
  <2> QED
    BY <1>3, <2>2, <2>3, <2>4
<1>16. CASE ResetRelay
  <2>1. used' \in Uses
    BY <1>1, <1>16, CountTyped DEF ResetRelay, Fault
  <2>2. Served'
    BY <1>1, <1>16, StrategyAssumption DEF ResetRelay, FreshRelay, Snapshot, Served
  <2>3. UNCHANGED <<storeVars, query, posts, stray, confirmed, holder, changedBy>>
    BY <1>16 DEF ResetRelay, historyVars
  <2>4. Requested'
    BY <1>1, <2>1, <2>3 DEF Requested
  <2> QED
    BY <1>3, <2>2, <2>3, <2>4
<1> QED
  BY <1>7, <1>8, <1>9, <1>10, <1>11, <1>12, <1>13, <1>14, <1>15, <1>16 DEF ServerNext

LEMMA StepTyped == Typed /\ [Next]_vars => Typed'
<1>1. Typed /\ UNCHANGED vars => Typed'
  BY DEF Typed, TypeOK, Pending, mounted, vars, serverVars, storeVars, historyVars
<1> QED
  BY <1>1, DashboardTyped, ServerTyped DEF Next

\* The bot, the relay, the dashboard and its requests have their types, and a
\* lock only guards a value that is held.
THEOREM TypeCorrect == Spec => []TypeOK
BY InitTyped, StepTyped, PTL DEF Spec, Typed

-----------------------------------------------------------------------------
(* A confirmed selection *)

\* What a relay, a stream and a poll hold says s, or is empty.
Agree(s, snapshot, stream, poll) ==
    /\ snapshot.strategy = s \/ ~snapshot.filled
    /\ \A i \in DOMAIN stream : stream[i] = s
    /\ poll.answer # None => poll.answer.strategy = s \/ ~poll.answer.filled

\* Without a lock, whatever can still reach the dashboard says s, or is empty and
\* loses against what is cached.
Settled(s) ==
    /\ Agree(s, relay, wire, query)
    /\ cache.filled
    /\ optimistic = None => cache.strategy = s

Displayed(s) ==
    /\ bot = s /\ cache \in Snapshot /\ shown \in {s, None}
    /\ optimistic \in {s, None}
    /\ locked => optimistic = s
    /\ ~locked => Settled(s)

Kept == Typed /\ (confirmed # None => Displayed(confirmed))

LEMMA InitKept == Init => Kept
BY InitTyped DEF Init, Kept

\* select, or a write without a panel, keeps s on display, given a cache that is
\* no step back.
LEMMA RenderKeeps ==
    ASSUME NEW s \in Strategies, NEW data \in Snapshot, shown \in {s, None},
           optimistic \in {s, None}, locked \in BOOLEAN, locked => optimistic = s,
           ~locked /\ optimistic = None => data.strategy = s,
           Render(data, optimistic, locked) \/ Write(data, optimistic, locked)
    PROVE  /\ cache' = data /\ shown' \in {s, None} /\ optimistic' \in {s, None}
           /\ locked' = locked /\ (locked => optimistic' = s)
           /\ ~locked /\ optimistic' = None => cache'.strategy = s
<1>1. CASE Write(data, optimistic, locked)
  BY <1>1 DEF Write
<1>2. CASE Render(data, optimistic, locked)
  <2>1. data # None /\ s # None
    BY NoneIsNoData
  <2>2. cache' = data /\ shown' = s
    BY <1>2, <2>1 DEF Render
  <2>3. /\ locked' = (locked /\ ~Released(data, optimistic, locked))
        /\ optimistic' = IF Released(data, optimistic, locked) THEN None ELSE optimistic
    BY <1>2 DEF Render
  <2>4. CASE locked
    <3>1. ~Released(data, optimistic, locked)
      BY <2>4 DEF Released
    <3>2. locked' = TRUE
      BY <2>3, <2>4, <3>1, Zenon
    <3> QED
      BY <2>1, <2>2, <2>3, <2>4, <3>1, <3>2
  <2>5. CASE ~locked
    <3>1. locked' = FALSE
      BY <2>3, <2>5, Zenon
    <3>2. Released(data, optimistic, locked) => data.strategy = s
      BY <2>1 DEF Released
    <3>3. optimistic' \in {s, None} /\ (optimistic' = None => data.strategy = s)
      BY <2>1, <2>3, <2>5, <3>2
    <3> QED
      BY <2>2, <2>5, <3>1, <3>3
  <2> QED
    BY <2>4, <2>5
<1> QED
  BY <1>1, <1>2

LEMMA StepKept == Kept /\ [Next]_vars => Kept'
<1> SUFFICES ASSUME Kept, [Next]_vars, confirmed' # None
             PROVE  Displayed(confirmed)'
  BY StepTyped DEF Kept
<1>1. Typed /\ Typed' /\ TypeOK /\ Pending /\ Served /\ Stored /\ Requested
  BY StepTyped, TypeParts DEF Kept, Typed
<1>2. ASSUME confirmed' = confirmed
      PROVE  Displayed(confirmed) /\ confirmed \in Strategies
  BY <1>1, <1>2 DEF Kept, Requested
<1>3. ASSUME NEW t, Select(t) \/ Fail(t) \/ ApplyPreset(t) \/ Forget \/ Overtake(t)
      PROVE  FALSE
  BY <1>3 DEF Select, Fail, ApplyPreset, Forget, Overtake
<1>4. ASSUME NEW r \in posts, Succeed(r) PROVE Displayed(confirmed)'
  <2>1. /\ r.own /\ bot = r.strategy /\ confirmed' = r.strategy /\ bot' = bot
        /\ Commit(r, cache, r.strategy, TRUE)
    BY <1>4 DEF Succeed, Confirm, serverVars
  <2>2. r.strategy \in Strategies /\ cache \in Snapshot
    BY <1>1, <2>1 DEF Requested, Post, Pending, Stored
  <2>3. Render(cache, r.strategy, TRUE)
    BY <2>1 DEF Commit
  <2>4. ~Released(cache, r.strategy, TRUE)
    BY DEF Released
  <2>5. locked' = TRUE
    <3>1. locked' = (TRUE /\ ~Released(cache, r.strategy, TRUE))
      BY <2>3 DEF Render
    <3> QED
      BY <2>4, <3>1, Zenon
  <2>6. cache' = cache /\ shown' = r.strategy /\ optimistic' = r.strategy
    BY <2>2, <2>3, <2>4, NoneIsNoData DEF Render
  <2> QED
    BY <2>1, <2>2, <2>5, <2>6 DEF Displayed
<1>5. CASE Leave
  BY <1>2, <1>5 DEF Leave, Displayed, Settled, serverVars, historyVars
<1>6. CASE Return \/ Rerender
  <2>1. /\ UNCHANGED <<serverVars, historyVars>> /\ Render(cache, optimistic, locked)
        /\ query'.answer \in {query.answer, None}
    BY <1>6 DEF Return, Rerender, SentQuery
  <2>2. Displayed(confirmed) /\ confirmed \in Strategies
    BY <1>2, <2>1 DEF historyVars
  <2>3. /\ cache \in Snapshot /\ shown \in {confirmed, None}
        /\ optimistic \in {confirmed, None} /\ (locked => optimistic = confirmed)
        /\ ~locked /\ optimistic = None => cache.strategy = confirmed
    BY <2>2 DEF Displayed, Settled
  <2>4. /\ cache' = cache /\ shown' \in {confirmed, None}
        /\ optimistic' \in {confirmed, None}
        /\ locked' = locked /\ (locked => optimistic' = confirmed)
        /\ ~locked /\ optimistic' = None => cache'.strategy = confirmed
    BY <1>1, <2>1, <2>2, <2>3, RenderKeeps DEF Stored
  <2> QED
    BY <2>1, <2>2, <2>4 DEF Displayed, Settled, Agree, serverVars, historyVars
<1>7. CASE LockExpires
  <2>1. /\ UNCHANGED <<serverVars, cache, optimistic, shown, query>>
        /\ locked /\ locked' = FALSE /\ Spread(optimistic) /\ confirmed' = confirmed
    BY <1>7 DEF LockExpires
  <2>2. Displayed(confirmed) /\ confirmed \in Strategies
    BY <1>2, <2>1
  <2>3. optimistic = confirmed
    BY <2>1, <2>2 DEF Displayed
  <2>4. Settled(confirmed)
    BY <2>1, <2>2, <2>3, NoneIsNoData DEF Spread, Settled, Agree, NoQuery
  <2> QED
    BY <2>1, <2>2, <2>4 DEF Displayed, Settled, serverVars
<1>8. CASE Poll \/ PollFails
  <2>1. UNCHANGED <<serverVars, storeVars, historyVars>> /\ query'.answer = None
    BY <1>8 DEF Poll, PollFails, SentQuery, NoQuery
  <2>2. Displayed(confirmed)
    BY <1>2, <2>1 DEF historyVars
  <2> QED
    BY <2>1, <2>2 DEF Displayed, Settled, Agree, serverVars, storeVars, historyVars
<1>9. CASE Receive
  <2>1. UNCHANGED <<serverVars, historyVars>> /\ query'.answer = None
    BY <1>9 DEF Receive, NoQuery
  <2>2. Displayed(confirmed) /\ confirmed \in Strategies
    BY <1>2, <2>1 DEF historyVars
  <2>3. query.answer \in Snapshot
    BY <1>1, <1>9 DEF Receive, Pending
  <2> DEFINE data == Resolved(query.answer)
  <2>4. data \in Snapshot
    BY <1>1, <2>3, ResolvedTyped
  <2>5. ~locked => /\ data.filled
                   /\ optimistic = None => data.strategy = confirmed
    BY <2>2, <2>3, NoneIsNoData DEF Displayed, Settled, Agree, Resolved
  <2>6. Render(data, optimistic, locked) \/ Write(data, optimistic, locked)
    BY <1>9 DEF Receive
  <2> HIDE DEF data
  <2>7. /\ cache' = data /\ shown' \in {confirmed, None}
        /\ optimistic' \in {confirmed, None}
        /\ locked' = locked /\ (locked => optimistic' = confirmed)
        /\ ~locked /\ optimistic' = None => cache'.strategy = confirmed
    BY <1>1, <2>2, <2>4, <2>5, <2>6, RenderKeeps DEF Displayed, Stored
  <2> QED
    BY <2>1, <2>2, <2>4, <2>5, <2>7 DEF Displayed, Settled, Agree, serverVars, historyVars
<1>10. CASE (\E t \in Strategies : ApplyStray(t) \/ OtherSelects(t)) \/ Restart
  BY <1>3, <1>10 DEF ApplyStray, OtherSelects, Restart
<1>11. ASSUME UNCHANGED <<bot, storeVars, historyVars>>,
              Agree(bot, relay, wire, query) => Agree(bot, relay', wire', query')
       PROVE  Displayed(confirmed)'
  <2>1. Displayed(confirmed)
    BY <1>2, <1>11 DEF historyVars
  <2>2. bot = confirmed
    BY <2>1 DEF Displayed
  <2> QED
    BY <1>11, <2>1, <2>2 DEF Displayed, Settled, storeVars, historyVars
<1>12. CASE AnswerPoll
  <2>1. UNCHANGED <<bot, storeVars, historyVars, relay, wire>> /\ query'.answer = relay
    BY <1>12 DEF AnswerPoll, serverVars
  <2> QED
    BY <1>11, <2>1 DEF Agree
<1>13. ASSUME UNCHANGED <<bot, storeVars, historyVars, query>>,
              wire' \in {wire, <<>>},
              \/ relay'.strategy = relay.strategy /\ relay'.filled = relay.filled
              \/ ~relay'.filled
       PROVE  Displayed(confirmed)'
  BY <1>11, <1>13 DEF Agree
<1>14. ASSUME NEW up \in BOOLEAN
       PROVE  /\ [relay EXCEPT !.connected = up].strategy = relay.strategy
              /\ [relay EXCEPT !.connected = up].filled = relay.filled
  BY <1>1 DEF Served, Snapshot
<1>15. CASE Open \/ Close
  BY <1>13, <1>14, <1>15 DEF Open, Close
<1>16. CASE ResetRelay
  BY <1>13, <1>16 DEF ResetRelay, FreshRelay
<1>17. CASE Publish
  <2>1. /\ UNCHANGED <<bot, storeVars, historyVars, query, relay>>
        /\ wire' = Append(wire, bot) /\ wire \in Seq(Strategies)
    BY <1>1, <1>17 DEF Publish, Served
  <2>2. \A i \in DOMAIN wire' : (i \in DOMAIN wire /\ wire'[i] = wire[i]) \/ wire'[i] = bot
    BY <2>1
  <2> QED
    BY <1>11, <2>1, <2>2 DEF Agree
<1>18. CASE Ingest
  <2>1. /\ UNCHANGED <<bot, storeVars, historyVars, query>>
        /\ wire' = Tail(wire) /\ wire \in Seq(Strategies) /\ wire # <<>>
        /\ relay' = [connected |-> TRUE, filled |-> TRUE, strategy |-> Head(wire)]
    BY <1>1, <1>18 DEF Ingest, Served
  <2>2. \A i \in DOMAIN wire' : i + 1 \in DOMAIN wire /\ wire'[i] = wire[i + 1]
    BY <2>1
  <2>3. 1 \in DOMAIN wire /\ relay'.strategy = wire[1]
    BY <2>1
  <2> QED
    BY <1>11, <2>1, <2>2, <2>3 DEF Agree
<1>19. CASE UNCHANGED vars
  BY <1>13, <1>19 DEF vars, serverVars
<1> QED
  BY <1>3, <1>4, <1>5, <1>6, <1>7, <1>8, <1>9, <1>10, <1>12, <1>15, <1>16, <1>17, <1>18,
     <1>19 DEF Next, DashboardNext, ServerNext

\* A confirmed selection does not flicker, whatever stale answers, lost streams,
\* resets of relays and changes of tab come after it, however many POSTs of earlier
\* panels are still under way, for any lock window that outlasts the stale answers.
THEOREM ConfirmedStaysShown == Spec => []ConfirmedIsShown
<1>1. Kept => ConfirmedIsShown
  BY DEF Kept, Displayed, ConfirmedIsShown, mounted
<1> QED
  BY <1>1, InitKept, StepKept, PTL DEF Spec

=============================================================================
