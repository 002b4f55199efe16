----------------------------- MODULE PanelProofs -----------------------------
(***************************************************************************)
(* Theorems of what a dashboard shows of its bot and lets an operator do.  *)
(*                                                                         *)
(* PanelData, for any payloads and plans: data of a lost stream is marked, *)
(* no section goes back in time, the log says what is shown.               *)
(*                                                                         *)
(* PanelControls, for any dashboards, pairs and plans: saving a config     *)
(* undoes nothing the operator could see, and the kill switch is what its  *)
(* operator asked for last.                                                *)
(***************************************************************************)
EXTENDS PanelData, PanelControls, TLAPS


-----------------------------------------------------------------------------
(* The queries and their kinds *)

LEMMA QueriesListed ==
    /\ Queries = {"quotes", "fills", "pnl", "inventory"}
    /\ Kinds = {"quotes", "quoteHistory", "health", "config", "fills", "pnl", "inventory"}
    /\ KindsOf["quotes"] = {"quotes", "quoteHistory", "health", "config"}
    /\ KindsOf["fills"] = {"fills"} /\ KindsOf["pnl"] = {"pnl"}
    /\ KindsOf["inventory"] = {"inventory"}
<1>1. /\ Queries = {"quotes", "fills", "pnl", "inventory"}
      /\ KindsOf["quotes"] = {"quotes", "quoteHistory", "health", "config"}
      /\ KindsOf["fills"] = {"fills"} /\ KindsOf["pnl"] = {"pnl"}
      /\ KindsOf["inventory"] = {"inventory"}
  BY DEF Queries, KindsOf
<1> QED
  BY <1>1 DEF Kinds

\* The query a kind of data comes with.
LEMMA KindHasQuery ==
    ASSUME NEW kind \in Kinds
    PROVE  \E q \in Queries : kind \in KindsOf[q]
BY DEF Kinds

LEMMA RawIs ==
    ASSUME NEW q \in Queries, NEW kind \in KindsOf[q], NEW c
    PROVE  /\ kind \in Kinds
           /\ Raw(c, kind) = IF c[q] = NoData THEN 0 ELSE c[q].data[kind]
<1>1. ASSUME NEW r \in Queries, kind \in KindsOf[r] PROVE r = q
  BY <1>1, QueriesListed
<1>2. (CHOOSE r \in Queries : kind \in KindsOf[r]) = q
  BY <1>1
<1> QED
  BY <1>2 DEF Raw, Kinds

-----------------------------------------------------------------------------
(* Types: no number is that of a payload that was not sent *)

Answers(q, n) == [connected : BOOLEAN, updated : 0 .. n, data : [KindsOf[q] -> 0 .. n]]

\* Health, config, PnL and inventory are those of the payload of the answer.
Together(answer) ==
    \A kind \in DOMAIN answer.data :
        kind \in {"health", "config", "pnl", "inventory"} =>
            answer.data[kind] = answer.updated

GoodAnswer(q, answer, n) == answer \in Answers(q, n) /\ Together(answer)

Seen == {"connected", "kill", "paused"}
Notes == [connected : BOOLEAN \cup {NoData}, kill : BOOLEAN \cup {NoData},
          paused : BOOLEAN \cup {NoData}]
Panels == [open : BOOLEAN, seen : Notes, log : Notes]

PanelTyped ==
    /\ script \in Scripts
    /\ sent \in Nat /\ 1 .. sent \subseteq DOMAIN script
    /\ snapshot \in [connected : BOOLEAN, updated : 0 .. sent, quotes : 0 .. sent,
                     quoteHistory : 0 .. sent, fills : 0 .. sent]
    /\ rows \in 0 .. sent
    /\ cached = [q \in Queries |-> cached[q]] /\ arriving = [q \in Queries |-> arriving[q]]
    /\ \A q \in Queries : /\ cached[q] = NoData \/ GoodAnswer(q, cached[q], sent)
                          /\ arriving[q] = NoData \/ GoodAnswer(q, arriving[q], sent)
    /\ sticky \in [Kinds -> 0 .. sent] /\ best \in [Kinds -> 0 .. sent]
    /\ panel \in Panels

LEMMA InitTyped == PanelInit => PanelTyped
<1> SUFFICES ASSUME PanelInit PROVE PanelTyped
  OBVIOUS
<1>1. sent = 0 /\ 0 \in 0 .. sent /\ 1 .. sent = {}
  BY DEF PanelInit
<1>2. panel \in Panels
  BY DEF PanelInit, Panels, Notes, Unset
<1> QED
  BY <1>1, <1>2 DEF PanelInit, PanelTyped, FreshSnapshot

\* What was typed stays so when payloads are sent.
LEMMA MoreSent ==
    ASSUME NEW n \in Nat, NEW m \in Nat, n <= m, NEW q \in Queries, NEW answer,
           GoodAnswer(q, answer, n)
    PROVE  GoodAnswer(q, answer, m)
<1>1. 0 .. n \subseteq 0 .. m
  OBVIOUS
<1>2. [KindsOf[q] -> 0 .. n] \subseteq [KindsOf[q] -> 0 .. m]
  BY <1>1
<1> QED
  BY <1>1, <1>2 DEF GoodAnswer, Answers

\* What the server answers.
LEMMA ServedWell ==
    ASSUME PanelTyped, NEW q \in Queries
    PROVE  /\ GoodAnswer(q, Served(q), sent)
           /\ \A kind \in KindsOf[q] : kind # "fills" =>
                 Served(q).data[kind] = InSnapshot(kind)
           /\ Served(q).connected = snapshot.connected
<1>1. \A kind \in Kinds : InSnapshot(kind) \in 0 .. sent
  BY QueriesListed DEF PanelTyped, InSnapshot
<1>2. \A kind \in KindsOf[q] : kind \in Kinds
  BY DEF Kinds
<1>3. snapshot.connected \in BOOLEAN /\ snapshot.updated \in 0 .. sent /\ rows \in 0 .. sent
  BY DEF PanelTyped
<1> DEFINE data == [kind \in KindsOf[q] |->
                  IF q = "fills" /\ snapshot.fills = 0 /\ ~snapshot.connected THEN rows
                  ELSE InSnapshot(kind)]
<1>4. data \in [KindsOf[q] -> 0 .. sent]
  BY <1>1, <1>2, <1>3
<1>5. \A kind \in KindsOf[q] : kind # "fills" => data[kind] = InSnapshot(kind)
  BY QueriesListed
<1>6. \A kind \in KindsOf[q] : kind \in {"health", "config", "pnl", "inventory"} =>
          data[kind] = snapshot.updated
  BY <1>5, QueriesListed DEF InSnapshot
<1>7. DOMAIN data = KindsOf[q]
  OBVIOUS
<1> HIDE DEF data
<1>8. Served(q) = [connected |-> snapshot.connected, updated |-> snapshot.updated,
                   data |-> data]
  BY DEF Served, data
<1>9. /\ Served(q).data = data /\ Served(q).updated = snapshot.updated
      /\ Served(q).connected = snapshot.connected
  BY <1>8
<1> DEFINE D == [KindsOf[q] -> 0 .. sent]
<1>0. Answers(q, sent) = [connected : BOOLEAN, updated : 0 .. sent, data : D]
  BY DEF Answers
<1>13. data \in D
  BY <1>4
<1> HIDE DEF D
<1>10. Served(q) \in Answers(q, sent)
  BY <1>0, <1>3, <1>8, <1>13
<1>11. Together(Served(q))
  BY <1>6, <1>7, <1>9 DEF Together
<1>12. \A kind \in KindsOf[q] : kind # "fills" => Served(q).data[kind] = InSnapshot(kind)
  BY <1>5, <1>9
<1> QED
  BY <1>9, <1>10, <1>11, <1>12 DEF GoodAnswer

\* What is kept of an answer is the answer or what was cached.
LEMMA ResolvedIs ==
    ASSUME NEW q, NEW answer
    PROVE  \/ Resolved(q, answer) = answer
           \/ Resolved(q, answer) = cached[q] /\ cached[q] # NoData
BY DEF Resolved

-----------------------------------------------------------------------------
(* Steps *)

\* What the server and the bot do leaves the dashboard alone.
Elsewhere ==
    /\ UNCHANGED <<script, cached, arriving, sticky, panel, best>>
    /\ sent' \in {sent, sent + 1} /\ 1 .. sent' \subseteq DOMAIN script
    /\ snapshot' \in [connected : BOOLEAN, updated : 0 .. sent', quotes : 0 .. sent',
                      quoteHistory : 0 .. sent', fills : 0 .. sent']
    /\ rows' \in 0 .. sent'
    /\ \A kind \in Kinds : InSnapshot(kind)' \in {0, InSnapshot(kind)}
                               \/ (sent' = sent + 1 /\ InSnapshot(kind)' = sent')

\* The panel is rendered, or it is not on display and nothing of it changes.
Rendered(c) ==
    IF panel.open THEN Render(panel, c) ELSE UNCHANGED <<sticky, panel, best>>

ServerIdle == UNCHANGED <<script, sent, snapshot, rows>>

Polled(q) ==
    /\ ServerIdle /\ UNCHANGED <<cached, sticky, panel, best>>
    /\ arriving' = [arriving EXCEPT ![q] = Served(q)]

Received(q) ==
    /\ ServerIdle
    /\ cached' = [cached EXCEPT ![q] = Resolved(q, arriving[q])]
    /\ arriving[q] # NoData
    /\ arriving' = [arriving EXCEPT ![q] = NoData]
    /\ Rendered(cached')

Dropped(q) ==
    /\ ServerIdle /\ UNCHANGED <<cached, sticky, panel, best>>
    /\ arriving' = [arriving EXCEPT ![q] = NoData]

Closing ==
    /\ ServerIdle /\ UNCHANGED <<cached, arriving, sticky, best>>
    /\ panel' = [open |-> FALSE, seen |-> Unset, log |-> Unset]

Opening ==
    /\ ServerIdle /\ UNCHANGED <<cached, arriving>>
    /\ ~panel.open
    /\ Render([panel EXCEPT !.open = TRUE], cached)

Forgetting ==
    /\ ServerIdle /\ UNCHANGED <<arriving, sticky, panel, best>>
    /\ ~panel.open
    /\ cached' = [q \in Queries |-> NoData]

LEMMA PayloadElsewhere == PanelTyped /\ Payload => Elsewhere
<1> SUFFICES ASSUME PanelTyped, Payload PROVE Elsewhere
  OBVIOUS
<1>1. sent \in Nat /\ sent' = sent + 1 /\ script[sent + 1] \in
         [quotes : BOOLEAN, fills : BOOLEAN, kill : BOOLEAN, paused : BOOLEAN]
  BY PanelAssumption DEF PanelTyped, Payload
<1> DEFINE Newest(has, old) == IF has THEN sent + 1 ELSE old
           says == script[sent + 1]
<1>2. snapshot' = [connected |-> TRUE, updated |-> sent + 1,
                   quotes |-> Newest(says.quotes, 0),
                   quoteHistory |-> Newest(says.quotes, snapshot.quoteHistory),
                   fills |-> Newest(says.fills, snapshot.fills)]
  BY DEF Payload
<1>3. /\ snapshot.quoteHistory \in 0 .. sent /\ snapshot.fills \in 0 .. sent
      /\ rows \in 0 .. sent /\ 1 .. sent \subseteq DOMAIN script
      /\ sent + 1 \in DOMAIN script
  BY DEF PanelTyped, Payload
<1>4. 0 .. sent \subseteq 0 .. sent + 1 /\ 1 .. sent + 1 = 1 .. sent \cup {sent + 1}
  BY <1>1
<1>5. /\ Newest(says.quotes, 0) \in {0, sent + 1}
      /\ Newest(says.quotes, snapshot.quoteHistory) \in {snapshot.quoteHistory, sent + 1}
      /\ Newest(says.fills, snapshot.fills) \in {snapshot.fills, sent + 1}
  OBVIOUS
<1> HIDE DEF Newest, says
<1>6. /\ snapshot'.updated = sent + 1
      /\ snapshot'.quotes = Newest(says.quotes, 0)
      /\ snapshot'.quoteHistory = Newest(says.quotes, snapshot.quoteHistory)
      /\ snapshot'.fills = Newest(says.fills, snapshot.fills)
  BY <1>2
<1>7. snapshot' \in [connected : BOOLEAN, updated : 0 .. sent', quotes : 0 .. sent',
                     quoteHistory : 0 .. sent', fills : 0 .. sent']
  BY <1>1, <1>2, <1>3, <1>4, <1>5
<1>8. \A kind \in Kinds : InSnapshot(kind)' \in {0, InSnapshot(kind)}
                              \/ InSnapshot(kind)' = sent + 1
  BY <1>5, <1>6, QueriesListed DEF InSnapshot
<1> QED
  BY <1>1, <1>3, <1>4, <1>7, <1>8 DEF Elsewhere, Payload

LEMMA PanelSteps ==
    ASSUME PanelTyped, [PanelNext]_panelVars
    PROVE  \/ Elsewhere
           \/ \E q \in Queries : Polled(q) \/ Received(q) \/ Dropped(q)
           \/ Closing \/ Opening \/ Forgetting
<1>1. ASSUME UNCHANGED <<script, sent, cached, arriving, sticky, panel, best>>,
             rows' \in 0 .. sent,
             \/ UNCHANGED snapshot
             \/ snapshot' = FreshSnapshot
             \/ \E up \in BOOLEAN : snapshot' = [snapshot EXCEPT !.connected = up]
      PROVE  Elsewhere
  <2> DEFINE S == [connected : BOOLEAN, updated : 0 .. sent, quotes : 0 .. sent,
                   quoteHistory : 0 .. sent, fills : 0 .. sent]
  <2>1. snapshot \in S /\ sent \in Nat /\ 1 .. sent \subseteq DOMAIN script
    BY DEF PanelTyped
  <2>2. CASE UNCHANGED snapshot
    BY <1>1, <2>1, <2>2 DEF Elsewhere, InSnapshot
  <2>3. CASE snapshot' = FreshSnapshot
    <3>1. FreshSnapshot \in S
      BY <2>1 DEF FreshSnapshot
    <3>2. \A kind \in Kinds : InSnapshot(kind)' = 0
      BY <2>3, QueriesListed DEF InSnapshot, FreshSnapshot
    <3> QED
      BY <1>1, <2>1, <2>3, <3>1, <3>2 DEF Elsewhere
  <2>4. ASSUME NEW up \in BOOLEAN, snapshot' = [snapshot EXCEPT !.connected = up]
        PROVE  Elsewhere
    <3>1. snapshot' \in S
      BY <2>1, <2>4, Zenon
    <3>2. /\ snapshot'.updated = snapshot.updated /\ snapshot'.quotes = snapshot.quotes
          /\ snapshot'.quoteHistory = snapshot.quoteHistory
          /\ snapshot'.fills = snapshot.fills
      BY <2>1, <2>4, Zenon
    <3>3. \A kind \in Kinds : InSnapshot(kind)' = InSnapshot(kind)
      BY <3>2, QueriesListed DEF InSnapshot
    <3> QED
      BY <1>1, <2>1, <3>1, <3>3 DEF Elsewhere
  <2> QED
    BY <1>1, <2>2, <2>3, <2>4
<1>2. rows \in 0 .. sent /\ 0 \in 0 .. sent /\ TRUE \in BOOLEAN /\ FALSE \in BOOLEAN
  BY DEF PanelTyped
<1>3. CASE ConnectStream
  BY <1>1, <1>2, <1>3 DEF ConnectStream
<1>4. CASE Payload
  BY <1>4, PayloadElsewhere
<1>5. CASE LoseStream
  BY <1>1, <1>2, <1>5 DEF LoseStream
<1>6. ASSUME NEW n \in 1 .. sent, StoreFills(n) PROVE Elsewhere
  <2>1. n \in 0 .. sent
    BY DEF PanelTyped
  <2> QED
    BY <1>1, <1>6, <2>1 DEF StoreFills
<1>7. CASE ResetRelays \/ ResetTables \/ RestartServer
  BY <1>1, <1>2, <1>7 DEF ResetRelays, ResetTables, RestartServer
<1>8. ASSUME NEW q \in Queries, Poll(q) \/ EndPoll(q) \/ DropPoll(q)
      PROVE  Polled(q) \/ Received(q) \/ Dropped(q)
  BY <1>8 DEF Poll, EndPoll, DropPoll, Polled, Received, Dropped, Rendered, ServerIdle
<1>9. CASE CloseTab \/ OpenTab \/ Forget
  BY <1>9 DEF CloseTab, OpenTab, Forget, Closing, Opening, Forgetting, ServerIdle
<1>10. CASE UNCHANGED panelVars
  BY <1>1, <1>2, <1>10 DEF panelVars
<1> QED
  BY <1>3, <1>4, <1>5, <1>6, <1>7, <1>8, <1>9, <1>10 DEF PanelNext

-----------------------------------------------------------------------------
(* Type correctness *)

LEMMA RawTyped ==
    ASSUME PanelTyped, NEW q \in Queries, NEW kind \in KindsOf[q]
    PROVE  /\ Raw(cached, kind) \in 0 .. sent /\ Raw(arriving, kind) \in 0 .. sent
           /\ kind \in Kinds
<1>1. sent \in Nat
  BY DEF PanelTyped
<1>2. /\ cached[q] = NoData \/ cached[q].data[kind] \in 0 .. sent
      /\ arriving[q] = NoData \/ arriving[q].data[kind] \in 0 .. sent
  BY DEF PanelTyped, GoodAnswer, Answers
<1> QED
  BY <1>1, <1>2, RawIs

\* A set of answers c is well formed, as far as n payloads go.
GoodCache(c, n) ==
    /\ c = [q \in Queries |-> c[q]]
    /\ \A q \in Queries : c[q] = NoData \/ GoodAnswer(q, c[q], n)

LEMMA CacheRaw ==
    ASSUME NEW n \in Nat, NEW c, GoodCache(c, n), NEW kind \in Kinds
    PROVE  Raw(c, kind) \in 0 .. n
<1>1. PICK q \in Queries : kind \in KindsOf[q]
  BY KindHasQuery
<1>2. c[q] = NoData \/ c[q].data[kind] \in 0 .. n
  BY <1>1 DEF GoodCache, GoodAnswer, Answers
<1> QED
  BY <1>1, <1>2, RawIs

LEMMA RenderTyped ==
    ASSUME PanelTyped, NEW c, GoodCache(c, sent), NEW p, Render(p, c)
    PROVE  /\ sticky' \in [Kinds -> 0 .. sent] /\ best' \in [Kinds -> 0 .. sent]
           /\ panel'.open = p.open
           /\ \A kind \in Kinds :
                 LET raw == Raw(c, kind)
                     now == IF raw > 0 THEN raw ELSE sticky[kind]
                 IN /\ sticky'[kind] = now
                    /\ best'[kind] = IF now > best[kind] THEN now ELSE best[kind]
<1>1. sent \in Nat /\ sticky \in [Kinds -> 0 .. sent] /\ best \in [Kinds -> 0 .. sent]
  BY DEF PanelTyped
<1>2. \A kind \in Kinds : Raw(c, kind) \in 0 .. sent
  BY <1>1, CacheRaw
<1>3. sticky' = [kind \in Kinds |-> IF Raw(c, kind) > 0 THEN Raw(c, kind) ELSE sticky[kind]]
  BY DEF Render, Kept
<1>4. best' = [kind \in Kinds |->
          LET now == IF Raw(c, kind) > 0 THEN Raw(c, kind) ELSE sticky[kind]
          IN IF now > best[kind] THEN now ELSE best[kind]]
  BY DEF Render
<1>5. panel'.open = p.open
  BY DEF Render, Logged
<1> QED
  BY <1>1, <1>2, <1>3, <1>4, <1>5

\* What the panel shows of the three things the log is about.
Now(c, kept) == [connected |-> ShownConnected(c), kill |-> ShownKill(c),
                 paused |-> ShownPaused(kept)]

\* The log after the panel p was rendered with what is shown now.
Noted(p, now, what) ==
    /\ panel'.seen[what] = IF now[what] = NoData THEN p.seen[what] ELSE now[what]
    /\ panel'.log[what] = IF p.seen[what] # NoData /\ now[what] # NoData
                             /\ p.seen[what] # now[what]
                          THEN now[what] ELSE p.log[what]

LEMMA NowTyped ==
    ASSUME PanelTyped, NEW c, GoodCache(c, sent), NEW kept \in [Kinds -> 0 .. sent]
    PROVE  /\ Now(c, kept) \in Notes
           /\ Now(c, kept).connected \in BOOLEAN /\ Now(c, kept).kill \in BOOLEAN
           /\ kept["quotes"] # 0 => Now(c, kept).paused \in BOOLEAN
           /\ kept["quotes"] = 0 => Now(c, kept).paused = NoData
<1>1. ASSUME NEW n \in 1 .. sent
      PROVE  script[n].kill \in BOOLEAN /\ script[n].paused \in BOOLEAN
  BY <1>1, PanelAssumption DEF PanelTyped
<1>2. sent \in Nat /\ "quotes" \in Queries /\ "quotes" \in Kinds
  BY QueriesListed DEF PanelTyped
<1>3. c["quotes"] = NoData \/ GoodAnswer("quotes", c["quotes"], sent)
  BY <1>2 DEF GoodCache
<1>4. c["quotes"] = NoData \/ /\ c["quotes"].connected \in BOOLEAN
                              /\ c["quotes"].updated \in 0 .. sent
  BY <1>3 DEF GoodAnswer, Answers
<1>5. ShownConnected(c) \in BOOLEAN
  BY <1>4, Zenon DEF ShownConnected
<1>6. ShownKill(c) \in BOOLEAN
  <2>1. CASE c["quotes"] # NoData /\ c["quotes"].updated > 0
    <3>1. c["quotes"].updated \in 1 .. sent
      BY <1>2, <1>4, <2>1
    <3>2. script[c["quotes"].updated].kill \in BOOLEAN
      BY <1>1, <3>1
    <3> QED
      BY <3>2, Zenon DEF ShownKill
  <2>2. CASE ~(c["quotes"] # NoData /\ c["quotes"].updated > 0)
    BY <2>2, Zenon DEF ShownKill
  <2> QED
    BY <2>1, <2>2
<1>7. kept["quotes"] \in 0 .. sent
  BY <1>2
<1>8. /\ kept["quotes"] # 0 => ShownPaused(kept) \in BOOLEAN
      /\ kept["quotes"] = 0 => ShownPaused(kept) = NoData
  BY <1>1, <1>2, <1>7 DEF ShownPaused
<1>9. ShownPaused(kept) \in BOOLEAN \cup {NoData}
  BY <1>8
<1> QED
  BY <1>5, <1>6, <1>8, <1>9, Zenon DEF Now, Notes

LEMMA RenderLogs ==
    ASSUME PanelTyped, NEW c, GoodCache(c, sent), NEW p \in Panels, Render(p, c)
    PROVE  /\ panel' \in Panels /\ panel'.open = p.open
           /\ \A what \in Seen : Noted(p, Now(c, sticky'), what)
           /\ Now(c, sticky') \in Notes
<1> DEFINE now == Now(c, Kept(c, sticky))
<1>1. sticky' = Kept(c, sticky) /\ panel' = Logged(p, now)
  BY DEF Render, Now
<1>2. sticky' \in [Kinds -> 0 .. sent]
  BY RenderTyped
<1>3. now \in Notes
  BY <1>1, <1>2, NowTyped
<1> HIDE DEF now
<1>4. DOMAIN now = Seen
  BY <1>3 DEF Notes, Seen
<1>5. p.seen \in Notes /\ p.log \in Notes /\ p.open \in BOOLEAN
  BY DEF Panels
<1> DEFINE s == [what \in DOMAIN now |->
                    IF now[what] = NoData THEN p.seen[what] ELSE now[what]]
           l == [what \in DOMAIN now |->
                    IF p.seen[what] # NoData /\ now[what] # NoData
                       /\ p.seen[what] # now[what]
                    THEN now[what] ELSE p.log[what]]
<1>6. s \in Notes /\ l \in Notes
  BY <1>3, <1>4, <1>5 DEF Notes, Seen
<1>7. panel' = [p EXCEPT !.seen = s, !.log = l]
  BY <1>1 DEF Logged
<1>8. \A what \in Seen :
         /\ s[what] = IF now[what] = NoData THEN p.seen[what] ELSE now[what]
         /\ l[what] = IF p.seen[what] # NoData /\ now[what] # NoData
                         /\ p.seen[what] # now[what]
                      THEN now[what] ELSE p.log[what]
  BY <1>4
<1> HIDE DEF s, l
<1>9. /\ panel' \in Panels /\ panel'.open = p.open
      /\ panel'.seen = s /\ panel'.log = l
  BY <1>6, <1>7, Zenon DEF Panels
<1>10. now = Now(c, sticky')
  BY <1>1 DEF now
<1> QED
  BY <1>3, <1>8, <1>9, <1>10 DEF Noted

LEMMA StepTyped == PanelTyped /\ [PanelNext]_panelVars => PanelTyped'
<1> SUFFICES ASSUME PanelTyped, [PanelNext]_panelVars PROVE PanelTyped'
  OBVIOUS
<1>1. sent \in Nat /\ GoodCache(cached, sent) /\ GoodCache(arriving, sent)
  BY DEF PanelTyped, GoodCache
<1>2. CASE Elsewhere
  <2>1. sent' \in Nat /\ sent <= sent' /\ 0 .. sent \subseteq 0 .. sent'
    BY <1>1, <1>2 DEF Elsewhere
  <2>2. \A q \in Queries :
           /\ cached[q] = NoData \/ GoodAnswer(q, cached[q], sent')
           /\ arriving[q] = NoData \/ GoodAnswer(q, arriving[q], sent')
    BY <1>1, <2>1, MoreSent DEF GoodCache
  <2>3. sticky \in [Kinds -> 0 .. sent'] /\ best \in [Kinds -> 0 .. sent']
    BY <2>1 DEF PanelTyped
  <2>4. /\ script' = script /\ cached' = cached /\ arriving' = arriving
        /\ sticky' = sticky /\ panel' = panel /\ best' = best
    BY <1>2 DEF Elsewhere
  <2>5. /\ 1 .. sent' \subseteq DOMAIN script /\ rows' \in 0 .. sent'
        /\ snapshot' \in [connected : BOOLEAN, updated : 0 .. sent', quotes : 0 .. sent',
                           quoteHistory : 0 .. sent', fills : 0 .. sent']
    BY <1>2 DEF Elsewhere
  <2> QED
    BY <2>1, <2>2, <2>3, <2>4, <2>5 DEF PanelTyped
<1>3. ASSUME ServerIdle, GoodCache(cached', sent), GoodCache(arriving', sent),
             sticky' \in [Kinds -> 0 .. sent], best' \in [Kinds -> 0 .. sent],
             panel' \in Panels
      PROVE  PanelTyped'
  BY <1>3 DEF PanelTyped, GoodCache, ServerIdle
<1>4. sticky \in [Kinds -> 0 .. sent] /\ best \in [Kinds -> 0 .. sent] /\ panel \in Panels
  BY DEF PanelTyped
<1>5. ASSUME NEW c, GoodCache(c, sent), NEW q \in Queries, NEW answer,
             answer = NoData \/ GoodAnswer(q, answer, sent)
      PROVE  GoodCache([c EXCEPT ![q] = answer], sent)
  BY <1>5 DEF GoodCache
<1>6. ASSUME NEW q \in Queries, Polled(q) PROVE PanelTyped'
  <2>1. GoodCache(arriving', sent)
    BY <1>1, <1>5, <1>6, ServedWell DEF Polled
  <2> QED
    BY <1>1, <1>3, <1>4, <1>6, <2>1 DEF Polled
<1>7. ASSUME NEW q \in Queries, Dropped(q) PROVE PanelTyped'
  <2>1. GoodCache(arriving', sent)
    BY <1>1, <1>5, <1>7 DEF Dropped
  <2> QED
    BY <1>1, <1>3, <1>4, <1>7, <2>1 DEF Dropped
<1>8. ASSUME NEW q \in Queries, Received(q) PROVE PanelTyped'
  <2>1. GoodAnswer(q, Resolved(q, arriving[q]), sent)
    BY <1>1, <1>8, ResolvedIs DEF Received, GoodCache
  <2>2. GoodCache(cached', sent) /\ GoodCache(arriving', sent)
    BY <1>1, <1>5, <1>8, <2>1 DEF Received
  <2>3. CASE panel.open
    BY <1>3, <1>4, <1>8, <2>2, <2>3, RenderTyped, RenderLogs DEF Received, Rendered
  <2>4. CASE ~panel.open
    BY <1>3, <1>4, <1>8, <2>2, <2>4 DEF Received, Rendered
  <2> QED
    BY <2>3, <2>4
<1>9. CASE Closing
  <2>1. panel' \in Panels
    BY <1>9 DEF Closing, Panels, Notes, Unset
  <2> QED
    BY <1>1, <1>3, <1>4, <1>9, <2>1 DEF Closing
<1>10. CASE Opening
  <2> DEFINE p == [panel EXCEPT !.open = TRUE]
  <2>1. Render(p, cached)
    BY <1>10 DEF Opening
  <2>2. p \in Panels
    BY <1>4, Zenon DEF Panels
  <2> HIDE DEF p
  <2> QED
    BY <1>1, <1>3, <1>4, <1>10, <2>1, <2>2, RenderTyped, RenderLogs DEF Opening
<1>11. CASE Forgetting
  <2>1. GoodCache(cached', sent)
    BY <1>11 DEF Forgetting, GoodCache
  <2> QED
    BY <1>1, <1>3, <1>4, <1>11, <2>1 DEF Forgetting
<1> QED
  BY <1>2, <1>6, <1>7, <1>8, <1>9, <1>10, <1>11, PanelSteps

-----------------------------------------------------------------------------
(* Marks *)

\* A panel whose last quotes came without a stream marks every section that
\* shows something as stale, whatever the payloads and however answers were
\* lost, dropped or forgotten.
THEOREM DisconnectedDataIsMarked == PanelSpec => []DisconnectedIsMarked
<1>1. PanelTyped => DisconnectedIsMarked
  <2> SUFFICES ASSUME PanelTyped, StreamStale, NEW section \in DOMAIN SectionKinds,
                      NEW kind \in SectionKinds[section], Displayed(kind) > 0
               PROVE  Marked(section)
    BY DEF DisconnectedIsMarked
  <2>1. CASE section # "risk"
    <3>1. StreamKinds[section] = SectionKinds[section]
      BY <2>1 DEF StreamKinds, SectionKinds
    <3> QED
      BY <3>1 DEF Marked
  <2>2. CASE section = "risk"
    <3>1. "health" \in StreamKinds[section]
      BY <2>2 DEF StreamKinds, SectionKinds
    <3>2. "quotes" \in Queries /\ "health" \in KindsOf["quotes"]
      BY QueriesListed
    <3>3. /\ cached["quotes"] # NoData /\ cached["quotes"].updated > 0
          /\ GoodAnswer("quotes", cached["quotes"], sent)
      BY <3>2 DEF StreamStale, PanelTyped
    <3>4. "health" \in DOMAIN cached["quotes"].data
      BY <3>2, <3>3 DEF GoodAnswer, Answers
    <3>5. cached["quotes"].data["health"] > 0
      BY <3>3, <3>4 DEF GoodAnswer, Together
    <3>6. Displayed("health") > 0
      BY <3>2, <3>3, <3>5, RawIs DEF Displayed
    <3> QED
      BY <3>1, <3>6 DEF Marked
  <2> QED
    BY <2>1, <2>2
<1> QED
  BY <1>1, InitTyped, StepTyped, PTL DEF PanelSpec

-----------------------------------------------------------------------------
(* Going back *)

\* Whatever still reaches the panel, it is not older than what it showed.
InOrder(kind) ==
    LET kept == sticky[kind]
        raw == Raw(cached, kind)
        coming == Raw(arriving, kind)
        held == InSnapshot(kind)
    IN /\ kept = best[kind]
       /\ raw > 0 => kept <= raw
       /\ panel.open /\ raw > 0 => kept = raw
       /\ coming > 0 => kept <= coming /\ raw <= coming
       /\ held > 0 => kept <= held /\ raw <= held /\ coming <= held

Ordered == PanelTyped /\ \A kind \in Kinds \ {"fills"} : InOrder(kind)

LEMMA InitOrdered == PanelInit => Ordered
<1> SUFFICES ASSUME PanelInit, NEW kind \in Kinds \ {"fills"} PROVE InOrder(kind)
  BY InitTyped DEF Ordered
<1>1. PICK q \in Queries : kind \in KindsOf[q]
  BY KindHasQuery
<1>2. Raw(cached, kind) = 0 /\ Raw(arriving, kind) = 0
  BY <1>1, RawIs DEF PanelInit
<1>3. InSnapshot(kind) = 0
  BY QueriesListed DEF PanelInit, FreshSnapshot, InSnapshot
<1> QED
  BY <1>2, <1>3 DEF PanelInit, InOrder

\* Answers of other queries do not matter.
LEMMA RawOther ==
    ASSUME NEW c, c = [r \in Queries |-> c[r]], NEW q \in Queries, NEW answer,
           NEW r \in Queries, NEW kind \in KindsOf[r]
    PROVE  Raw([c EXCEPT ![q] = answer], kind) =
              IF r # q THEN Raw(c, kind)
              ELSE IF answer = NoData THEN 0 ELSE answer.data[kind]
<1> DEFINE d == [c EXCEPT ![q] = answer]
<1>1. Raw(d, kind) = IF d[r] = NoData THEN 0 ELSE d[r].data[kind]
  BY RawIs
<1>2. Raw(c, kind) = IF c[r] = NoData THEN 0 ELSE c[r].data[kind]
  BY RawIs
<1>3. d[r] = IF r = q THEN answer ELSE c[r]
  OBVIOUS
<1> QED
  BY <1>1, <1>2, <1>3

\* A panel rendered with answers that are not older than what it showed.
LEMMA RenderOrdered ==
    ASSUME PanelTyped, NEW c, GoodCache(c, sent), NEW p, Render(p, c),
           NEW kind \in Kinds, sticky[kind] = best[kind],
           Raw(c, kind) > 0 => sticky[kind] <= Raw(c, kind)
    PROVE  /\ sticky'[kind] = best'[kind]
           /\ sticky'[kind] = IF Raw(c, kind) > 0 THEN Raw(c, kind) ELSE sticky[kind]
<1>1. /\ sticky[kind] \in 0 .. sent /\ sent \in Nat
      /\ Raw(c, kind) \in 0 .. sent
  BY CacheRaw DEF PanelTyped
<1> QED
  BY <1>1, RenderTyped

LEMMA StepOrdered == Ordered /\ [PanelNext]_panelVars => Ordered'
<1> SUFFICES ASSUME Ordered, [PanelNext]_panelVars, NEW kind \in Kinds \ {"fills"}
             PROVE  InOrder(kind)'
  BY StepTyped DEF Ordered
<1>1. PanelTyped /\ PanelTyped' /\ InOrder(kind)
  BY StepTyped DEF Ordered
<1>2. PICK r \in Queries : kind \in KindsOf[r]
  BY KindHasQuery
<1>3. r # "fills"
  BY <1>2, QueriesListed
<1>4. /\ sent \in Nat /\ sticky[kind] \in 0 .. sent /\ best[kind] \in 0 .. sent
      /\ Raw(cached, kind) \in 0 .. sent /\ Raw(arriving, kind) \in 0 .. sent
  BY <1>1, <1>2, RawTyped DEF PanelTyped
<1>5. InSnapshot(kind) \in 0 .. sent
  BY <1>1, QueriesListed DEF PanelTyped, InSnapshot
<1>6. GoodCache(cached, sent) /\ GoodCache(arriving, sent)
  BY <1>1 DEF PanelTyped, GoodCache
<1>7. CASE Elsewhere
  <2>1. /\ sticky' = sticky /\ best' = best /\ cached' = cached /\ arriving' = arriving
        /\ panel' = panel
    BY <1>7 DEF Elsewhere
  <2>2. Raw(cached, kind)' = Raw(cached, kind) /\ Raw(arriving, kind)' = Raw(arriving, kind)
    BY <2>1 DEF Raw
  <2>3. InSnapshot(kind)' \in {0, InSnapshot(kind)} \/ InSnapshot(kind)' = sent + 1
    BY <1>7 DEF Elsewhere
  <2> QED
    BY <1>1, <1>4, <1>5, <2>1, <2>2, <2>3 DEF InOrder
<1>8. ASSUME ServerIdle PROVE InSnapshot(kind)' = InSnapshot(kind)
  BY <1>8 DEF ServerIdle, InSnapshot
<1>9. ASSUME NEW q \in Queries, Polled(q) PROVE InOrder(kind)'
  <2>1. /\ sticky' = sticky /\ best' = best /\ cached' = cached /\ panel' = panel
        /\ ServerIdle /\ arriving' = [arriving EXCEPT ![q] = Served(q)]
    BY <1>9 DEF Polled
  <2>2. Raw(arriving, kind)' \in {0, Raw(arriving, kind), InSnapshot(kind)}
    <3>1. Served(r).data[kind] = InSnapshot(kind)
      BY <1>1, <1>2, ServedWell
    <3>2. Raw(arriving', kind) \in {0, Raw(arriving, kind), InSnapshot(kind)}
      BY SMTT(20), <1>2, <1>6, <2>1, <3>1, RawOther DEF GoodCache
    <3> QED
      BY <3>2 DEF Raw
  <2>3. Raw(cached, kind)' = Raw(cached, kind)
    BY <2>1 DEF Raw
  <2> QED
    BY <1>1, <1>4, <1>5, <1>8, <2>1, <2>2, <2>3 DEF InOrder
<1>10. ASSUME NEW q \in Queries, Dropped(q) PROVE InOrder(kind)'
  <2>1. /\ sticky' = sticky /\ best' = best /\ cached' = cached /\ panel' = panel
        /\ ServerIdle /\ arriving' = [arriving EXCEPT ![q] = NoData]
    BY <1>10 DEF Dropped
  <2>2. Raw(arriving, kind)' \in {0, Raw(arriving, kind)}
    <3>1. Raw(arriving', kind) \in {0, Raw(arriving, kind)}
      BY <1>2, <1>6, <2>1, RawOther DEF GoodCache
    <3> QED
      BY <3>1 DEF Raw
  <2>3. Raw(cached, kind)' = Raw(cached, kind)
    BY <2>1 DEF Raw
  <2> QED
    BY <1>1, <1>4, <1>5, <1>8, <2>1, <2>2, <2>3 DEF InOrder
<1>11. ASSUME NEW q \in Queries, Received(q) PROVE InOrder(kind)'
  <2>1. /\ ServerIdle /\ arriving[q] # NoData
        /\ cached' = [cached EXCEPT ![q] = Resolved(q, arriving[q])]
        /\ arriving' = [arriving EXCEPT ![q] = NoData]
    BY <1>11 DEF Received
  <2>2. \/ q # r /\ Raw(cached', kind) = Raw(cached, kind)
           /\ Raw(arriving', kind) = Raw(arriving, kind)
        \/ /\ Raw(arriving', kind) = 0
           /\ Raw(cached', kind) \in {Raw(arriving, kind), Raw(cached, kind)}
    <3>1. /\ Raw(cached', kind) = IF r # q THEN Raw(cached, kind)
             ELSE IF Resolved(q, arriving[q]) = NoData THEN 0
             ELSE Resolved(q, arriving[q]).data[kind]
          /\ Raw(arriving', kind) = IF r # q THEN Raw(arriving, kind) ELSE 0
      <4>1. ASSUME NEW c, c = [x \in Queries |-> c[x]], NEW answer
            PROVE  Raw([c EXCEPT ![q] = answer], kind) =
                      IF r # q THEN Raw(c, kind)
                      ELSE IF answer = NoData THEN 0 ELSE answer.data[kind]
        BY <1>2, <4>1, RawOther
      <4>2. /\ cached = [x \in Queries |-> cached[x]]
            /\ arriving = [x \in Queries |-> arriving[x]]
        BY <1>6 DEF GoodCache
      <4> DEFINE answer == Resolved(q, arriving[q])
      <4> HIDE DEF answer
      <4>3. Raw([cached EXCEPT ![q] = answer], kind) =
               IF r # q THEN Raw(cached, kind)
               ELSE IF answer = NoData THEN 0 ELSE answer.data[kind]
        BY <4>1, <4>2
      <4>4. Raw([arriving EXCEPT ![q] = NoData], kind) =
               IF r # q THEN Raw(arriving, kind) ELSE 0
        BY <4>1, <4>2
      <4>5. /\ cached' = [cached EXCEPT ![q] = answer]
            /\ arriving' = [arriving EXCEPT ![q] = NoData]
        BY <2>1 DEF answer
      <4> QED
        BY <4>3, <4>4, <4>5 DEF answer
    <3>2. /\ Raw(cached, kind) = IF cached[r] = NoData THEN 0 ELSE cached[r].data[kind]
          /\ Raw(arriving, kind) = IF arriving[r] = NoData THEN 0
                                   ELSE arriving[r].data[kind]
      BY <1>2, RawIs
    <3> QED
      BY <2>1, <3>1, <3>2, ResolvedIs
  <2>3. /\ Raw(cached, kind)' = Raw(cached', kind)
        /\ Raw(arriving, kind)' = Raw(arriving', kind)
    BY DEF Raw
  <2>4. /\ Raw(cached', kind) \in 0 .. sent
        /\ Raw(cached', kind) > 0 => sticky[kind] <= Raw(cached', kind)
        /\ sticky[kind] = best[kind]
    BY <1>1, <1>4, <2>2 DEF InOrder
  <2>5. CASE panel.open
    <3>1. Render(panel, cached')
      BY <1>11, <2>5 DEF Received, Rendered
    <3>2. GoodCache(cached', sent)
      BY <1>1, <2>1 DEF PanelTyped, GoodCache, ServerIdle
    <3>3. /\ sticky'[kind] = best'[kind]
          /\ sticky'[kind] = IF Raw(cached', kind) > 0 THEN Raw(cached', kind)
                             ELSE sticky[kind]
      BY <1>1, <2>4, <3>1, <3>2, RenderOrdered
    <3> QED
      BY <1>1, <1>4, <1>5, <1>8, <2>1, <2>2, <2>3, <2>4, <3>3 DEF InOrder
  <2>6. CASE ~panel.open
    <3>1. sticky' = sticky /\ best' = best /\ panel' = panel
      BY <1>11, <2>6 DEF Received, Rendered
    <3> QED
      BY <1>1, <1>4, <1>5, <1>8, <2>1, <2>2, <2>3, <2>4, <2>6, <3>1 DEF InOrder
  <2> QED
    BY <2>5, <2>6
<1>12. CASE Closing
  <2>1. /\ sticky' = sticky /\ best' = best /\ cached' = cached /\ arriving' = arriving
        /\ ServerIdle /\ panel'.open = FALSE
    BY <1>12 DEF Closing
  <2>2. Raw(cached, kind)' = Raw(cached, kind) /\ Raw(arriving, kind)' = Raw(arriving, kind)
    BY <2>1 DEF Raw
  <2> QED
    BY <1>1, <1>8, <2>1, <2>2 DEF InOrder
<1>13. CASE Opening
  <2>1. /\ cached' = cached /\ arriving' = arriving /\ ServerIdle
        /\ Render([panel EXCEPT !.open = TRUE], cached)
    BY <1>13 DEF Opening
  <2>2. Raw(cached, kind)' = Raw(cached, kind) /\ Raw(arriving, kind)' = Raw(arriving, kind)
    BY <2>1 DEF Raw
  <2>3. /\ sticky'[kind] = best'[kind]
        /\ sticky'[kind] = IF Raw(cached, kind) > 0 THEN Raw(cached, kind)
                           ELSE sticky[kind]
    BY <1>1, <1>6, <2>1, RenderOrdered DEF InOrder
  <2> QED
    BY <1>1, <1>4, <1>5, <1>8, <2>1, <2>2, <2>3 DEF InOrder
<1>14. CASE Forgetting
  <2>1. /\ sticky' = sticky /\ best' = best /\ arriving' = arriving /\ panel' = panel
        /\ ServerIdle /\ cached' = [q \in Queries |-> NoData] /\ ~panel.open
    BY <1>14 DEF Forgetting
  <2>2. Raw(cached', kind) = 0
    BY <1>2, <2>1, RawIs
  <2>3. Raw(cached, kind)' = 0 /\ Raw(arriving, kind)' = Raw(arriving, kind)
    BY <2>1, <2>2 DEF Raw
  <2> QED
    BY <1>1, <1>4, <1>5, <1>8, <2>1, <2>3 DEF InOrder
<1> QED
  BY <1>1, <1>7, <1>9, <1>10, <1>11, <1>12, <1>13, <1>14, PanelSteps

\* Whatever is lost, dropped, forgotten or reset, and whatever the payloads
\* leave out, a section never falls back to data older than what it showed.
THEOREM NothingGoesBackwards == PanelSpec => []NeverBackwards
<1>1. Ordered => NeverBackwards
  <2> SUFFICES ASSUME Ordered, panel.open, NEW kind \in Kinds \ {"fills"}
               PROVE  Displayed(kind) = best[kind]
    BY DEF NeverBackwards
  <2> QED
    BY DEF Ordered, InOrder, Displayed
<1> QED
  BY <1>1, InitOrdered, StepOrdered, PTL DEF PanelSpec

-----------------------------------------------------------------------------
(* The log *)

\* The refs of a panel on display hold what is shown, and an entry is about that.
UpToDate(now) ==
    \A what \in Seen : /\ panel.seen[what] = now[what]
                       /\ panel.log[what] \in {NoData, now[what]}

LogKept ==
    /\ PanelTyped
    /\ panel.open => UpToDate(Now(cached, sticky))
    /\ ~panel.open => panel.seen = Unset /\ panel.log = Unset

LEMMA InitLog == PanelInit => LogKept
<1> SUFFICES ASSUME PanelInit PROVE LogKept
  OBVIOUS
<1>1. panel = [open |-> FALSE, seen |-> Unset, log |-> Unset]
  BY DEF PanelInit
<1>2. panel.open = FALSE /\ panel.seen = Unset /\ panel.log = Unset
  BY <1>1
<1> QED
  BY <1>2, InitTyped DEF LogKept

\* A panel whose refs are unset, or up to date, is up to date after it rendered.
LEMMA RenderUpToDate ==
    ASSUME PanelTyped, NEW c, GoodCache(c, sent), NEW p \in Panels, Render(p, c),
           \A what \in Seen : p.log[what] \in {NoData, p.seen[what]},
           sticky["quotes"] = 0 => p.seen["paused"] = NoData
    PROVE  \A what \in Seen :
              /\ panel'.seen[what] = Now(c, sticky')[what]
              /\ panel'.log[what] \in {NoData, Now(c, sticky')[what]}
<1> DEFINE now == Now(c, sticky')
<1>1. \A what \in Seen : Noted(p, now, what)
  BY RenderLogs
<1>2. "quotes" \in Kinds /\ sent \in Nat
  BY QueriesListed DEF PanelTyped
<1>3. /\ sticky' \in [Kinds -> 0 .. sent]
      /\ sticky'["quotes"] = 0 => sticky["quotes"] = 0
  BY <1>2, RenderTyped
<1>4. /\ now.connected \in BOOLEAN /\ now.kill \in BOOLEAN
      /\ sticky'["quotes"] # 0 => now.paused \in BOOLEAN
  BY <1>3, NowTyped
<1> HIDE DEF now
<1>5. /\ now["connected"] # NoData /\ now["kill"] # NoData
      /\ now["paused"] = NoData => p.seen["paused"] = NoData
  BY <1>3, <1>4, PanelAssumption
<1>6. \A what \in Seen : now[what] = NoData => p.seen[what] = NoData
  BY <1>5 DEF Seen
<1>7. \A what \in Seen : /\ panel'.seen[what] = now[what]
                         /\ panel'.log[what] \in {NoData, now[what]}
  BY <1>1, <1>6 DEF Noted
<1> QED
  BY <1>7 DEF now

LEMMA StepLog == LogKept /\ [PanelNext]_panelVars => LogKept'
<1> SUFFICES ASSUME LogKept, [PanelNext]_panelVars PROVE LogKept'
  OBVIOUS
<1>1. PanelTyped /\ PanelTyped' /\ panel \in Panels
  BY StepTyped DEF LogKept, PanelTyped
<1>2. GoodCache(cached, sent) /\ GoodCache(arriving, sent)
  BY <1>1 DEF PanelTyped, GoodCache
<1>3. sticky \in [Kinds -> 0 .. sent]
  BY <1>1 DEF PanelTyped
<1>4. ASSUME UNCHANGED <<script, cached, sticky, panel>> PROVE LogKept'
  <2>1. Now(cached, sticky)' = Now(cached, sticky)
    BY <1>4 DEF Now, ShownConnected, ShownKill, ShownPaused
  <2> QED
    BY <1>1, <1>4, <2>1 DEF LogKept, UpToDate
<1>5. CASE Elsewhere \/ \E q \in Queries : Polled(q) \/ Dropped(q)
  BY <1>4, <1>5 DEF Elsewhere, Polled, Dropped, ServerIdle
<1>6. ASSUME NEW p \in Panels, Render(p, cached'), script' = script, sent' = sent, p.open,
             \A what \in Seen : p.log[what] \in {NoData, p.seen[what]},
             sticky["quotes"] = 0 => p.seen["paused"] = NoData
      PROVE  LogKept'
  <2>1. GoodCache(cached', sent)
    BY <1>1, <1>6 DEF PanelTyped, GoodCache
  <2>2. panel'.open
    BY <1>1, <1>6, <2>1, RenderLogs, Zenon
  <2>3. \A what \in Seen :
           /\ panel'.seen[what] = Now(cached', sticky')[what]
           /\ panel'.log[what] \in {NoData, Now(cached', sticky')[what]}
    BY <1>1, <1>6, <2>1, RenderUpToDate
  <2>4. Now(cached, sticky)' = Now(cached', sticky')
    BY <1>6 DEF Now, ShownConnected, ShownKill, ShownPaused
  <2> QED
    BY <1>1, <2>2, <2>3, <2>4 DEF LogKept, UpToDate
<1>7. ASSUME NEW q \in Queries, Received(q) PROVE LogKept'
  <2>1. CASE ~panel.open
    <3>1. panel' = panel
      BY <1>7, <2>1 DEF Received, Rendered
    <3> QED
      BY <1>1, <2>1, <3>1, Zenon DEF LogKept
  <2>2. CASE panel.open
    <3>1. Render(panel, cached') /\ script' = script /\ sent' = sent
      BY <1>7, <2>2 DEF Received, Rendered, ServerIdle
    <3>2. UpToDate(Now(cached, sticky))
      BY <2>2 DEF LogKept
    <3>3. \A what \in Seen : panel.log[what] \in {NoData, panel.seen[what]}
      BY <3>2 DEF UpToDate
    <3>4. sticky["quotes"] = 0 => panel.seen["paused"] = NoData
      <4>1. sticky["quotes"] = 0 => Now(cached, sticky).paused = NoData
        BY <1>1, <1>2, <1>3, NowTyped
      <4>2. panel.seen["paused"] = Now(cached, sticky)["paused"]
        BY <3>2 DEF UpToDate, Seen
      <4> QED
        BY <4>1, <4>2
    <3> QED
      BY <1>1, <1>6, <2>2, <3>1, <3>3, <3>4
  <2> QED
    BY <2>1, <2>2
<1>8. CASE Closing
  <2>1. panel' = [open |-> FALSE, seen |-> Unset, log |-> Unset]
    BY <1>8 DEF Closing
  <2>2. panel'.open = FALSE /\ panel'.seen = Unset /\ panel'.log = Unset
    BY <2>1
  <2> QED
    BY <1>1, <2>2 DEF LogKept
<1>9. CASE Opening
  <2> DEFINE p == [panel EXCEPT !.open = TRUE]
  <2>1. Render(p, cached') /\ script' = script /\ sent' = sent
    BY <1>9 DEF Opening, ServerIdle
  <2>2. panel.seen = Unset /\ panel.log = Unset
    BY <1>9 DEF Opening, LogKept
  <2>3. p \in Panels /\ p.open /\ p.seen = panel.seen /\ p.log = panel.log
    BY <1>1, Zenon DEF Panels
  <2> HIDE DEF p
  <2>4. /\ \A what \in Seen : p.log[what] \in {NoData, p.seen[what]}
        /\ p.seen["paused"] = NoData
    BY <2>2, <2>3 DEF Unset, Seen
  <2> QED
    BY <1>6, <2>1, <2>3, <2>4
<1>10. CASE Forgetting
  <2>1. panel' = panel /\ ~panel.open
    BY <1>10 DEF Forgetting
  <2> QED
    BY <1>1, <2>1, Zenon DEF LogKept
<1> QED
  BY <1>1, <1>5, <1>7, <1>8, <1>9, <1>10, PanelSteps

\* The newest entry of the log about the stream, the kill switch or a pair says
\* what the panel shows of it, however often tabs change and answers are lost.
THEOREM LogSaysWhatIsShown == PanelSpec => []LogTellsState
<1>1. LogKept => LogTellsState
  BY DEF LogKept, UpToDate, LogTellsState, Now, Seen
<1> QED
  BY <1>1, InitLog, StepLog, PTL DEF PanelSpec

-----------------------------------------------------------------------------
(* Types *)

Fields == Pairs \X {"decimal", "enabled"}
Values == Decimals \cup {Invalid, StartDecimal} \cup BOOLEAN
Configs == [Pairs -> [decimal : Values, enabled : Values]]
Settings == [config : Configs, killed : BOOLEAN, paused : SUBSET Pairs]
Overrides == UNION {[F -> Values] : F \in SUBSET Fields}
ControlPanels == [shown : Settings \cup {Unknown}, overrides : Overrides,
                  confirming : BOOLEAN, pendingPair : Pairs \cup {Unknown},
                  edited : SUBSET Fields]
RequestKinds == {"kill", "config", "pause", "hedge"}
Bodies == Configs \cup BOOLEAN \cup [pair : Pairs, paused : BOOLEAN]
Statuses == {"sent", "stray", "applied", "done", "failed", "refused"}
Clicks == [by : Operators, kind : RequestKinds, body : Bodies, status : Statuses,
           abandoned : BOOLEAN, seen : Settings \cup {Unknown}, edited : SUBSET Fields]

\* The body of a request fits its kind.
Fitting(click) ==
    /\ click.kind = "kill" => click.body \in BOOLEAN
    /\ click.kind = "config" => click.body \in Configs
    /\ click.kind \in {"pause", "hedge"} => click.body \in [pair : Pairs, paused : BOOLEAN]

ControlTyped ==
    /\ settings \in Settings
    /\ panels \in [Operators -> ControlPanels]
    /\ clicks \in Seq(Clicks)
    /\ \A i \in DOMAIN clicks : Fitting(clicks[i])

LEMMA DefaultTyped == DefaultSettings \in Settings
BY DEF DefaultSettings, Settings, Configs, Values

LEMMA NewPanelTyped ==
    ASSUME NEW shown \in Settings \cup {Unknown}
    PROVE  /\ NewPanel(shown) \in ControlPanels
           /\ DOMAIN NewPanel(shown).overrides = {}
           /\ NewPanel(shown).shown = shown
<1>1. <<>> \in [{} -> Values] /\ DOMAIN <<>> = {}
  OBVIOUS
<1>2. <<>> \in Overrides
  BY <1>1 DEF Overrides
<1> QED
  BY <1>1, <1>2 DEF NewPanel, ControlPanels

\* An edit is one more field, or another value of one.
LEMMA OverriddenTyped ==
    ASSUME NEW d, panels[d].overrides \in Overrides, NEW p \in Pairs,
           NEW field \in {"decimal", "enabled"}, NEW value \in Values
    PROVE  /\ Overridden(d, p, field, value) \in Overrides
           /\ DOMAIN Overridden(d, p, field, value)
                 = DOMAIN panels[d].overrides \cup {<<p, field>>}
<1> DEFINE o == panels[d].overrides
           n == Overridden(d, p, field, value)
<1>1. PICK F \in SUBSET Fields : o \in [F -> Values]
  BY DEF Overrides
<1>2. n = [q \in F \cup {<<p, field>>} |-> IF q = <<p, field>> THEN value ELSE o[q]]
  BY <1>1 DEF Overridden
<1>3. F \cup {<<p, field>>} \in SUBSET Fields
  BY <1>1 DEF Fields
<1>4. n \in [F \cup {<<p, field>>} -> Values]
  BY <1>1, <1>2
<1> QED
  BY <1>1, <1>3, <1>4 DEF Overrides

\* What the form saves, and that it is what it shows where nothing was edited.
LEMMA DraftTyped ==
    ASSUME ControlTyped, NEW d \in Operators, panels[d].shown # Unknown
    PROVE  /\ Draft(d) \in Configs
           /\ \A p \in Pairs :
                 /\ <<p, "decimal">> \notin DOMAIN panels[d].overrides =>
                       Draft(d)[p].decimal = panels[d].shown.config[p].decimal
                 /\ <<p, "enabled">> \notin DOMAIN panels[d].overrides =>
                       Draft(d)[p].enabled = panels[d].shown.config[p].enabled
<1>1. panels[d] \in ControlPanels
  BY DEF ControlTyped
<1>2. panels[d].shown \in Settings
  BY <1>1 DEF ControlPanels
<1>3. \A p \in Pairs : /\ panels[d].shown.config[p].decimal \in Values
                       /\ panels[d].shown.config[p].enabled \in Values
  BY <1>2 DEF Settings, Configs
<1>4. \A q \in DOMAIN panels[d].overrides : panels[d].overrides[q] \in Values
  BY <1>1 DEF ControlPanels, Overrides
<1> QED
  BY <1>3, <1>4 DEF Draft, Configs

-----------------------------------------------------------------------------
(* Steps of the requests *)

\* A request stays what it was when it was sent.
SameRequest(i) ==
    /\ clicks'[i].by = clicks[i].by
    /\ clicks'[i].kind = clicks[i].kind
    /\ clicks'[i].body = clicks[i].body
    /\ clicks'[i].seen = clicks[i].seen
    /\ clicks'[i].edited = clicks[i].edited

\* A request is another one in its status or its abandonment only.
LEMMA ClickChanges ==
    ASSUME NEW click \in Clicks
    PROVE  /\ \A status \in Statuses : [click EXCEPT !.status = status] \in Clicks
           /\ [click EXCEPT !.abandoned = TRUE] \in Clicks
<1>1. ASSUME NEW status \in Statuses PROVE [click EXCEPT !.status = status] \in Clicks
  BY Zenon DEF Clicks
<1>2. TRUE \in BOOLEAN
  OBVIOUS
<1>3. [click EXCEPT !.abandoned = TRUE] \in Clicks
  BY <1>2, Zenon DEF Clicks
<1> QED
  BY <1>1, <1>3

LEMMA StatusChange ==
    ASSUME ControlTyped, NEW i \in DOMAIN clicks, NEW status \in Statuses,
           clicks' = [clicks EXCEPT ![i].status = status]
    PROVE  /\ clicks' \in Seq(Clicks) /\ DOMAIN clicks' = DOMAIN clicks
           /\ \A j \in DOMAIN clicks : /\ SameRequest(j)
                                       /\ clicks'[j].abandoned = clicks[j].abandoned
                                       /\ j # i => clicks'[j].status = clicks[j].status
           /\ clicks'[i].status = status
           /\ \A j \in DOMAIN clicks' : Fitting(clicks[j])'
<1> DEFINE new == [clicks[i] EXCEPT !.status = status]
<1>1. clicks \in Seq(Clicks) /\ clicks[i] \in Clicks
  BY DEF ControlTyped
<1>2. clicks' = [clicks EXCEPT ![i] = new]
  OBVIOUS
<1>3. new \in Clicks
  BY <1>1, ClickChanges
<1>4. /\ new.by = clicks[i].by /\ new.kind = clicks[i].kind /\ new.body = clicks[i].body
      /\ new.seen = clicks[i].seen /\ new.edited = clicks[i].edited
      /\ new.abandoned = clicks[i].abandoned /\ new.status = status
  BY <1>1, Zenon DEF Clicks
<1> HIDE DEF new
<1>5. clicks' \in Seq(Clicks) /\ DOMAIN clicks' = DOMAIN clicks
  BY <1>1, <1>2, <1>3
<1>6. clicks'[i] = new /\ \A j \in DOMAIN clicks : j # i => clicks'[j] = clicks[j]
  BY <1>1, <1>2
<1>7. \A j \in DOMAIN clicks : SameRequest(j) /\ clicks'[j].abandoned = clicks[j].abandoned
  BY <1>4, <1>6 DEF SameRequest
<1>8. \A j \in DOMAIN clicks : Fitting(clicks[j])'
  BY <1>7 DEF ControlTyped, Fitting, SameRequest
<1> QED
  BY <1>4, <1>5, <1>6, <1>7, <1>8

LEMMA Abandonment ==
    ASSUME ControlTyped, NEW d \in Operators, SwitchTab(d)
    PROVE  /\ clicks' \in Seq(Clicks) /\ DOMAIN clicks' = DOMAIN clicks
           /\ \A j \in DOMAIN clicks :
                 /\ SameRequest(j)
                 /\ clicks'[j].status = clicks[j].status
                 /\ clicks'[j].abandoned = (clicks[j].abandoned \/ clicks[j].by = d)
           /\ \A j \in DOMAIN clicks' : Fitting(clicks[j])'
<1> DEFINE new(j) == [clicks[j] EXCEPT !.abandoned = TRUE]
<1>1. clicks \in Seq(Clicks) /\ \A j \in DOMAIN clicks : clicks[j] \in Clicks
  BY DEF ControlTyped
<1>2. clicks' = [j \in DOMAIN clicks |-> IF clicks[j].by = d THEN new(j) ELSE clicks[j]]
  BY DEF SwitchTab
<1>3. ASSUME NEW j \in DOMAIN clicks
      PROVE  /\ new(j) \in Clicks
             /\ new(j).by = clicks[j].by /\ new(j).kind = clicks[j].kind
             /\ new(j).body = clicks[j].body /\ new(j).seen = clicks[j].seen
             /\ new(j).edited = clicks[j].edited /\ new(j).status = clicks[j].status
             /\ new(j).abandoned = TRUE
  <2>1. clicks[j] \in Clicks
    BY <1>1
  <2>2. new(j) \in Clicks
    BY <2>1, ClickChanges
  <2> QED
    BY <2>1, <2>2, Zenon DEF Clicks
<1> HIDE DEF new
<1>4. clicks' \in Seq(Clicks) /\ DOMAIN clicks' = DOMAIN clicks
  <2>1. PICK n \in Nat : DOMAIN clicks = 1 .. n
    BY <1>1
  <2>2. clicks' \in [1 .. n -> Clicks]
    BY <1>1, <1>2, <1>3, <2>1
  <2> QED
    BY <2>1, <2>2
<1>5. ASSUME NEW j \in DOMAIN clicks
      PROVE  /\ SameRequest(j) /\ clicks'[j].status = clicks[j].status
             /\ clicks'[j].abandoned = (clicks[j].abandoned \/ clicks[j].by = d)
  <2>1. clicks[j].abandoned \in BOOLEAN
    BY <1>1 DEF Clicks
  <2>2. CASE clicks[j].by = d
    <3>1. clicks'[j] = new(j)
      BY <1>2, <2>2
    <3> QED
      BY <1>3, <2>1, <2>2, <3>1, Zenon DEF SameRequest
  <2>3. CASE clicks[j].by # d
    <3>1. clicks'[j] = clicks[j]
      BY <1>2, <2>3
    <3> QED
      BY <2>1, <2>3, <3>1, Zenon DEF SameRequest
  <2> QED
    BY <2>2, <2>3
<1>6. \A j \in DOMAIN clicks : Fitting(clicks[j])'
  BY <1>5 DEF ControlTyped, Fitting, SameRequest
<1> QED
  BY <1>4, <1>5, <1>6

\* The request that a click adds.
LEMMA Clicked ==
    ASSUME ControlTyped, NEW d \in Operators, NEW kind \in RequestKinds, NEW body \in Bodies,
           kind = "kill" => body \in BOOLEAN,
           kind = "config" => body \in Configs,
           kind \in {"pause", "hedge"} => body \in [pair : Pairs, paused : BOOLEAN],
           Click(d, kind, body)
    PROVE  /\ clicks' \in Seq(Clicks) /\ Len(clicks) \in Nat
           /\ DOMAIN clicks = 1 .. Len(clicks) /\ DOMAIN clicks' = 1 .. Len(clicks) + 1
           /\ \A j \in DOMAIN clicks : clicks'[j] = clicks[j]
           /\ clicks'[Len(clicks) + 1] =
                 [by |-> d, kind |-> kind, body |-> body, status |-> "sent",
                  abandoned |-> FALSE, seen |-> panels[d].shown,
                  edited |-> panels[d].edited]
           /\ \A j \in DOMAIN clicks' : Fitting(clicks[j])'
<1> DEFINE new == [by |-> d, kind |-> kind, body |-> body, status |-> "sent",
                   abandoned |-> FALSE, seen |-> panels[d].shown,
                   edited |-> panels[d].edited]
<1>1. clicks \in Seq(Clicks) /\ panels[d] \in ControlPanels
  BY DEF ControlTyped
<1>2. panels[d].shown \in Settings \cup {Unknown} /\ panels[d].edited \in SUBSET Fields
  BY <1>1 DEF ControlPanels
<1>3. new \in Clicks
  BY <1>2 DEF Clicks, Statuses
<1>4. Fitting(new)
  BY DEF Fitting
<1>5. clicks' = Append(clicks, new)
  BY DEF Click
<1> HIDE DEF new
<1>6. /\ clicks' \in Seq(Clicks) /\ Len(clicks) \in Nat
      /\ DOMAIN clicks = 1 .. Len(clicks) /\ DOMAIN clicks' = 1 .. Len(clicks) + 1
      /\ \A j \in DOMAIN clicks : clicks'[j] = clicks[j]
      /\ clicks'[Len(clicks) + 1] = new
  BY <1>1, <1>3, <1>5
<1>7. ASSUME NEW j \in DOMAIN clicks' PROVE Fitting(clicks[j])'
  <2>1. j \in DOMAIN clicks \/ j = Len(clicks) + 1
    BY <1>6
  <2> QED
    BY <1>4, <1>6, <2>1 DEF ControlTyped, Fitting
<1> QED
  BY <1>6, <1>7 DEF new

-----------------------------------------------------------------------------
(* Type correctness *)

\* A panel with another value of one of its parts.
LEMMA PanelChanges ==
    ASSUME NEW own \in ControlPanels
    PROVE  /\ \A shown \in Settings : [own EXCEPT !.shown = shown] \in ControlPanels
           /\ \A confirming \in BOOLEAN : [own EXCEPT !.confirming = confirming] \in ControlPanels
           /\ \A p \in Pairs : [own EXCEPT !.pendingPair = p] \in ControlPanels
           /\ \A o \in Overrides, e \in SUBSET Fields :
                 [own EXCEPT !.overrides = o, !.edited = e] \in ControlPanels
<1>1. ASSUME NEW shown \in Settings \cup {Unknown}
      PROVE  [own EXCEPT !.shown = shown] \in ControlPanels
  BY Zenon DEF ControlPanels
<1>2. ASSUME NEW confirming \in BOOLEAN
      PROVE  [own EXCEPT !.confirming = confirming] \in ControlPanels
  BY Zenon DEF ControlPanels
<1>3. ASSUME NEW p \in Pairs \cup {Unknown}
      PROVE  [own EXCEPT !.pendingPair = p] \in ControlPanels
  BY Zenon DEF ControlPanels
<1>4. ASSUME NEW o \in Overrides, NEW e \in SUBSET Fields
      PROVE  [own EXCEPT !.overrides = o, !.edited = e] \in ControlPanels
  BY Zenon DEF ControlPanels
<1> QED
  BY <1>1, <1>2, <1>3, <1>4

\* What the bot makes of a request it takes.
LEMMA AfterTyped ==
    ASSUME settings \in Settings, NEW click \in Clicks, Fitting(click)
    PROVE  /\ After(click) \in Settings
           /\ After(click).config = IF click.kind = "config" THEN click.body
                                    ELSE settings.config
           /\ click.kind # "kill" => After(click).killed = settings.killed
           /\ click.kind = "kill" => After(click).killed = click.body
<1>1. CASE click.kind = "config"
  <2>1. After(click) = [settings EXCEPT !.config = click.body,
                                        !.paused = {p \in Pairs : ~click.body[p].enabled}]
    BY <1>1 DEF After
  <2>2. click.body \in Configs
    BY <1>1 DEF Fitting
  <2>3. {p \in Pairs : ~click.body[p].enabled} \in SUBSET Pairs
    OBVIOUS
  <2> DEFINE off == {p \in Pairs : ~click.body[p].enabled}
  <2> HIDE DEF off
  <2>4. After(click) = [settings EXCEPT !.config = click.body, !.paused = off]
    BY <2>1 DEF off
  <2>5. off \in SUBSET Pairs
    BY <2>3 DEF off
  <2> QED
    BY <1>1, <2>2, <2>4, <2>5 DEF Settings
<1>2. CASE click.kind = "kill"
  <2>1. After(click) = [settings EXCEPT !.killed = click.body]
    BY <1>2 DEF After
  <2>2. click.body \in BOOLEAN
    BY <1>2 DEF Fitting
  <2> QED
    BY <1>2, <2>1, <2>2, Zenon DEF Settings
<1>3. CASE click.kind = "pause"
  <2> DEFINE now == IF click.body.paused THEN settings.paused \cup {click.body.pair}
                    ELSE settings.paused \ {click.body.pair}
  <2>1. After(click) = [settings EXCEPT !.paused = now]
    BY <1>3 DEF After
  <2>2. now \in SUBSET Pairs
    BY <1>3 DEF Fitting, Settings
  <2> HIDE DEF now
  <2> QED
    BY <1>3, <2>1, <2>2 DEF Settings
<1>4. CASE click.kind = "hedge"
  BY <1>4 DEF After
<1> QED
  BY <1>1, <1>2, <1>3, <1>4 DEF Clicks, RequestKinds

LEMMA ControlInitTyped == ControlInit => ControlTyped
<1> SUFFICES ASSUME ControlInit PROVE ControlTyped
  OBVIOUS
<1>1. settings \in Settings
  <2>1. PICK killed \in BOOLEAN : settings = [DefaultSettings EXCEPT !.killed = killed]
    BY DEF ControlInit
  <2> QED
    BY <2>1, DefaultTyped, Zenon DEF Settings
<1>2. panels \in [Operators -> ControlPanels]
  BY NewPanelTyped DEF ControlInit
<1>3. clicks \in Seq(Clicks) /\ DOMAIN clicks = {}
  BY DEF ControlInit
<1> QED
  BY <1>1, <1>2, <1>3 DEF ControlTyped

LEMMA ControlStepTyped == ControlTyped /\ [ControlNext]_controlVars => ControlTyped'
<1> SUFFICES ASSUME ControlTyped, [ControlNext]_controlVars PROVE ControlTyped'
  OBVIOUS
<1>1. settings \in Settings /\ panels \in [Operators -> ControlPanels]
  BY DEF ControlTyped
<1>2. ASSUME NEW d \in Operators, ShowAnswer(d) PROVE ControlTyped'
  <2>1. [panels[d] EXCEPT !.shown = settings] \in ControlPanels
    BY <1>1, PanelChanges
  <2>2. panels' = [panels EXCEPT ![d] = [panels[d] EXCEPT !.shown = settings]]
    BY <1>2 DEF ShowAnswer
  <2> QED
    BY <1>1, <1>2, <2>1, <2>2 DEF ShowAnswer, ControlTyped, Fitting
<1>3. ASSUME NEW d \in Operators, NEW confirming \in BOOLEAN,
             panels' = [panels EXCEPT ![d].confirming = confirming]
      PROVE  panels' \in [Operators -> ControlPanels]
  <2>1. [panels[d] EXCEPT !.confirming = confirming] \in ControlPanels
    BY <1>1, PanelChanges
  <2>2. panels' = [panels EXCEPT ![d] = [panels[d] EXCEPT !.confirming = confirming]]
    BY <1>3
  <2> QED
    BY <1>1, <2>1, <2>2
<1>4. ASSUME NEW d \in Operators, ToggleKillSwitch(d) PROVE ControlTyped'
  <2>1. CASE Click(d, "kill", FALSE) /\ UNCHANGED panels
    <3>1. FALSE \in Bodies /\ "kill" \in RequestKinds
      BY DEF Bodies, RequestKinds
    <3> QED
      BY <1>1, <1>4, <2>1, <3>1, Clicked DEF ToggleKillSwitch, ControlTyped
  <2>2. CASE panels' = [panels EXCEPT ![d].confirming = TRUE] /\ UNCHANGED clicks
    BY <1>3, <1>4, <2>2 DEF ToggleKillSwitch, ControlTyped, Fitting
  <2> QED
    BY <1>4, <2>1, <2>2 DEF ToggleKillSwitch
<1>5. ASSUME NEW d \in Operators, EngageKillSwitch(d) PROVE ControlTyped'
  <2>1. TRUE \in Bodies /\ "kill" \in RequestKinds
    BY DEF Bodies, RequestKinds
  <2>2. panels' \in [Operators -> ControlPanels]
    BY <1>3, <1>5 DEF EngageKillSwitch
  <2> QED
    BY <1>1, <1>5, <2>1, <2>2, Clicked DEF EngageKillSwitch, ControlTyped
<1>6. ASSUME NEW d \in Operators, CloseConfirm(d) PROVE ControlTyped'
  BY <1>3, <1>6 DEF CloseConfirm, ControlTyped, Fitting
<1>7. ASSUME NEW d \in Operators, NEW p \in Pairs, NEW field \in {"decimal", "enabled"},
             NEW value \in Values, UpdatePair(d, p, field, value)
      PROVE  ControlTyped'
  <2> DEFINE o == Overridden(d, p, field, value)
             e == panels[d].edited \cup {<<p, field>>}
  <2>1. panels[d].overrides \in Overrides /\ panels[d].edited \in SUBSET Fields
    BY <1>1 DEF ControlPanels
  <2>2. o \in Overrides /\ e \in SUBSET Fields
    <3>1. o \in Overrides
      BY <2>1, OverriddenTyped
    <3>2. <<p, field>> \in Fields
      BY DEF Fields
    <3> QED
      BY <2>1, <3>1, <3>2
  <2>3. panels' = [panels EXCEPT ![d] = [panels[d] EXCEPT !.overrides = o, !.edited = e]]
    BY <1>1, <1>7 DEF UpdatePair
  <2> HIDE DEF o, e
  <2>4. [panels[d] EXCEPT !.overrides = o, !.edited = e] \in ControlPanels
    BY <1>1, <2>2, PanelChanges
  <2> QED
    BY <1>1, <1>7, <2>3, <2>4 DEF UpdatePair, ControlTyped, Fitting
<1>8. ASSUME NEW d \in Operators, SaveConfig(d) PROVE ControlTyped'
  <2>1. Draft(d) \in Configs
    BY <1>8, DraftTyped DEF SaveConfig
  <2>2. Draft(d) \in Bodies /\ "config" \in RequestKinds
    BY <2>1 DEF Bodies, RequestKinds
  <2> QED
    BY <1>1, <1>8, <2>1, <2>2, Clicked DEF SaveConfig, ControlTyped
<1>9. ASSUME NEW d \in Operators, NEW p \in Pairs, NEW kind \in {"pause", "hedge"},
             PairAction(d, p, kind)
      PROVE  ControlTyped'
  <2> DEFINE body == [pair |-> p, paused |-> p \notin panels[d].shown.paused]
  <2>1. body \in [pair : Pairs, paused : BOOLEAN]
    OBVIOUS
  <2>2. Click(d, kind, body)
    BY <1>9 DEF PairAction
  <2> HIDE DEF body
  <2>3. body \in Bodies /\ kind \in RequestKinds
    BY <2>1 DEF Bodies, RequestKinds
  <2>4. [panels[d] EXCEPT !.pendingPair = p] \in ControlPanels
    BY <1>1, PanelChanges
  <2>5. panels' = [panels EXCEPT ![d] = [panels[d] EXCEPT !.pendingPair = p]]
    BY <1>9 DEF PairAction
  <2> QED
    BY <1>1, <1>9, <2>1, <2>2, <2>3, <2>4, <2>5, Clicked DEF PairAction, ControlTyped
<1>10. ASSUME NEW d \in Operators, SwitchTab(d) PROVE ControlTyped'
  <2>1. NewPanel(panels[d].shown) \in ControlPanels
    BY <1>1, NewPanelTyped DEF ControlPanels
  <2>2. panels' \in [Operators -> ControlPanels] /\ UNCHANGED settings
    BY <1>1, <1>10, <2>1 DEF SwitchTab
  <2> QED
    BY <1>1, <1>10, <2>2, Abandonment DEF ControlTyped
<1>11. ASSUME NEW i \in DOMAIN clicks, Forward(i) PROVE ControlTyped'
  <2>1. clicks[i] \in Clicks /\ Fitting(clicks[i])
    BY DEF ControlTyped
  <2>2. PICK status \in Statuses : clicks' = [clicks EXCEPT ![i].status = status]
    BY <1>11 DEF Forward, Statuses
  <2>3. settings' = settings \/ settings' = After(clicks[i])
    BY <1>11 DEF Forward
  <2>4. settings' \in Settings
    BY <1>1, <2>1, <2>3, AfterTyped
  <2>5. UNCHANGED panels
    BY <1>11 DEF Forward
  <2> QED
    BY <2>2, <2>4, <2>5, StatusChange DEF ControlTyped
<1>12. ASSUME NEW i \in DOMAIN clicks, EndClick(i) \/ FailClick(i) PROVE ControlTyped'
  <2>1. PICK status \in Statuses : clicks' = [clicks EXCEPT ![i].status = status]
    BY <1>12 DEF EndClick, FailClick, Statuses
  <2>2. UNCHANGED <<settings, panels>>
    BY <1>12 DEF EndClick, FailClick
  <2> QED
    BY <2>1, <2>2, StatusChange DEF ControlTyped
<1>13. CASE RestartBot
  BY <1>13, DefaultTyped DEF RestartBot, ControlTyped, Fitting
<1>14. CASE UNCHANGED controlVars
  BY <1>14 DEF controlVars, ControlTyped, Fitting
<1>15. \A value \in Decimals \cup {Invalid} : value \in Values
  BY DEF Values
<1>16. \A value \in BOOLEAN : value \in Values
  BY DEF Values
<1> QED
  BY <1>2, <1>4, <1>5, <1>6, <1>7, <1>8, <1>9, <1>10, <1>11, <1>12, <1>13, <1>14, <1>15,
     <1>16 DEF ControlNext

-----------------------------------------------------------------------------
(* What a step does to the requests *)

\* A new request, what it says, and when it may be sent.
Asks(d, kind, body) ==
    /\ Click(d, kind, body)
    /\ kind = "kill" => body \in BOOLEAN
    /\ kind = "config" => body = Draft(d) /\ panels[d].shown # Unknown
    /\ kind \in {"pause", "hedge"} => body \in [pair : Pairs, paused : BOOLEAN]
    /\ kind = "kill" => /\ panels[d].confirming \/ ~Pending(d, "kill")
                        /\ ~panels'[d].confirming
    /\ UNCHANGED <<settings, restarted>>

\* It comes last.
LEMMA AskedLast ==
    ASSUME ControlTyped, NEW d \in Operators, NEW kind \in RequestKinds, NEW body \in Bodies,
           Asks(d, kind, body)
    PROVE  /\ Len(clicks) + 1 \notin DOMAIN clicks
           /\ DOMAIN clicks' = DOMAIN clicks \cup {Len(clicks) + 1}
           /\ \A j \in DOMAIN clicks : clicks'[j] = clicks[j]
           /\ LET new == clicks'[Len(clicks) + 1]
              IN /\ new.by = d /\ new.kind = kind /\ new.body = body
                 /\ new.status = "sent" /\ ~new.abandoned
                 /\ new.seen = panels[d].shown /\ new.edited = panels[d].edited
<1>1. kind = "config" => body \in Configs
  BY DraftTyped DEF Asks
<1>2. Click(d, kind, body)
  BY DEF Asks
<1>3. /\ kind = "kill" => body \in BOOLEAN
      /\ kind \in {"pause", "hedge"} => body \in [pair : Pairs, paused : BOOLEAN]
  BY DEF Asks
<1>4. /\ Len(clicks) \in Nat
      /\ DOMAIN clicks = 1 .. Len(clicks) /\ DOMAIN clicks' = 1 .. Len(clicks) + 1
      /\ \A j \in DOMAIN clicks : clicks'[j] = clicks[j]
      /\ clicks'[Len(clicks) + 1] =
            [by |-> d, kind |-> kind, body |-> body, status |-> "sent",
             abandoned |-> FALSE, seen |-> panels[d].shown,
             edited |-> panels[d].edited]
  BY <1>1, <1>2, <1>3, Clicked
<1>5. 1 .. Len(clicks) + 1 = 1 .. Len(clicks) \cup {Len(clicks) + 1}
  BY <1>4
<1>6. Len(clicks) + 1 \notin 1 .. Len(clicks)
  BY <1>4
<1> DEFINE new == clicks'[Len(clicks) + 1]
           asked == [by |-> d, kind |-> kind, body |-> body, status |-> "sent",
                     abandoned |-> FALSE, seen |-> panels[d].shown,
                     edited |-> panels[d].edited]
<1>7. new = asked
  BY <1>4
<1>8. /\ asked.by = d /\ asked.kind = kind /\ asked.body = body
      /\ asked.status = "sent" /\ asked.abandoned = FALSE
      /\ asked.seen = panels[d].shown /\ asked.edited = panels[d].edited
  OBVIOUS
<1> HIDE DEF new, asked
<1>9. /\ new.by = d /\ new.kind = kind /\ new.body = body
      /\ new.status = "sent" /\ ~new.abandoned
      /\ new.seen = panels[d].shown /\ new.edited = panels[d].edited
  BY <1>7, <1>8, Zenon
<1> QED
  BY <1>4, <1>5, <1>6, <1>9 DEF new

LEMMA RequestSteps ==
    ASSUME ControlTyped, [ControlNext]_controlVars
    PROVE  \/ UNCHANGED <<clicks, settings>> /\ restarted' = restarted
           \/ UNCHANGED clicks /\ restarted'
           \/ \E d \in Operators, kind \in RequestKinds, body \in Bodies : Asks(d, kind, body)
           \/ \E d \in Operators : SwitchTab(d)
           \/ \E i \in DOMAIN clicks : Forward(i)
           \/ \E i \in DOMAIN clicks : EndClick(i) \/ FailClick(i)
<1> DEFINE Asked == \E d \in Operators, kind \in RequestKinds, body \in Bodies : Asks(d, kind, body)
           Goal == \/ UNCHANGED <<clicks, settings>> /\ restarted' = restarted
                   \/ UNCHANGED clicks /\ restarted'
                   \/ Asked
                   \/ \E d \in Operators : SwitchTab(d)
                   \/ \E i \in DOMAIN clicks : Forward(i)
                   \/ \E i \in DOMAIN clicks : EndClick(i) \/ FailClick(i)
<1>1. panels \in [Operators -> ControlPanels]
  BY DEF ControlTyped
<1>2. ASSUME NEW d \in Operators, ToggleKillSwitch(d) PROVE Goal
  <2>1. CASE Click(d, "kill", FALSE) /\ UNCHANGED panels
    <3>1. FALSE \in Bodies /\ "kill" \in RequestKinds
      BY DEF Bodies, RequestKinds
    <3>2. Asks(d, "kill", FALSE)
      BY <1>2, <2>1 DEF Asks, ToggleKillSwitch, ButtonDisabled
    <3> QED
      BY <3>1, <3>2
  <2>2. CASE UNCHANGED <<clicks, settings, restarted>>
    BY <2>2
  <2> QED
    BY <1>2, <2>1, <2>2 DEF ToggleKillSwitch
<1>3. ASSUME NEW d \in Operators, EngageKillSwitch(d) PROVE Goal
  <2>1. TRUE \in Bodies /\ "kill" \in RequestKinds
    BY DEF Bodies, RequestKinds
  <2>2. panels'[d].confirming = FALSE
    <3>1. panels' = [panels EXCEPT ![d] = [panels[d] EXCEPT !.confirming = FALSE]]
      BY <1>3 DEF EngageKillSwitch
    <3>2. panels'[d] = [panels[d] EXCEPT !.confirming = FALSE]
      BY <1>1, <3>1
    <3>3. panels[d] \in ControlPanels
      BY <1>1
    <3> QED
      BY <3>2, <3>3, Zenon DEF ControlPanels
  <2>3. Asks(d, "kill", TRUE)
    BY <1>3, <2>2 DEF Asks, EngageKillSwitch
  <2> QED
    BY <2>1, <2>3
<1>4. ASSUME NEW d \in Operators, SaveConfig(d) PROVE Goal
  <2>1. Draft(d) \in Bodies /\ "config" \in RequestKinds
    BY <1>4, DraftTyped DEF SaveConfig, Bodies, RequestKinds
  <2>2. Asks(d, "config", Draft(d))
    BY <1>4 DEF Asks, SaveConfig
  <2> QED
    BY <2>1, <2>2
<1>5. ASSUME NEW d \in Operators, NEW p \in Pairs, NEW kind \in {"pause", "hedge"},
             PairAction(d, p, kind)
      PROVE  Goal
  <2> DEFINE body == [pair |-> p, paused |-> p \notin panels[d].shown.paused]
  <2>1. body \in [pair : Pairs, paused : BOOLEAN]
    OBVIOUS
  <2>2. Click(d, kind, body) /\ UNCHANGED <<settings, restarted>>
    BY <1>5 DEF PairAction
  <2> HIDE DEF body
  <2>3. body \in Bodies /\ kind \in RequestKinds /\ kind # "kill" /\ kind # "config"
    BY <2>1 DEF Bodies, RequestKinds
  <2>4. Asks(d, kind, body)
    BY <2>1, <2>2, <2>3 DEF Asks
  <2> QED
    BY <2>3, <2>4
<1>6. ASSUME NEW d \in Operators,
             \/ ShowAnswer(d) \/ CloseConfirm(d)
             \/ \E p \in Pairs :
                   \/ \E value \in Decimals \cup {Invalid} : UpdatePair(d, p, "decimal", value)
                   \/ \E value \in BOOLEAN : UpdatePair(d, p, "enabled", value)
      PROVE  Goal
  BY <1>6 DEF ShowAnswer, CloseConfirm, UpdatePair
<1>7. CASE RestartBot
  BY <1>7 DEF RestartBot
<1>8. CASE UNCHANGED controlVars
  BY <1>8 DEF controlVars
<1> QED
  BY <1>2, <1>3, <1>4, <1>5, <1>6, <1>7, <1>8 DEF ControlNext

\* A request keeps what it says, stays abandoned, and goes one way.
LEMMA RequestsGoOneWay ==
    ASSUME ControlTyped, [ControlNext]_controlVars, NEW j \in DOMAIN clicks
    PROVE  /\ j \in DOMAIN clicks' /\ SameRequest(j)
           /\ clicks[j].abandoned => clicks'[j].abandoned
           /\ \/ clicks'[j].status = clicks[j].status
              \/ /\ clicks[j].status \in {"sent", "stray"}
                 /\ clicks'[j].status \in {"applied", "refused", "failed", "stray"}
                 /\ clicks[j].status = "stray" => clicks'[j].status \in {"refused", "failed"}
                 /\ clicks'[j].status = "refused" => clicks[j].kind = "config"
                 /\ clicks'[j].status = "applied" => Forward(j)
              \/ clicks[j].status = "applied" /\ clicks'[j].status \in {"done", "failed"}
<1> DEFINE Way ==
        \/ clicks'[j].status = clicks[j].status
        \/ /\ clicks[j].status \in {"sent", "stray"}
           /\ clicks'[j].status \in {"applied", "refused", "failed", "stray"}
           /\ clicks[j].status = "stray" => clicks'[j].status \in {"refused", "failed"}
           /\ clicks'[j].status = "refused" => clicks[j].kind = "config"
           /\ clicks'[j].status = "applied" => Forward(j)
        \/ clicks[j].status = "applied" /\ clicks'[j].status \in {"done", "failed"}
           Goal == /\ j \in DOMAIN clicks' /\ SameRequest(j)
                   /\ clicks[j].abandoned => clicks'[j].abandoned
                   /\ Way
<1>1. CASE UNCHANGED clicks
  BY <1>1 DEF SameRequest
<1>2. ASSUME NEW d \in Operators, NEW kind \in RequestKinds, NEW body \in Bodies,
             Asks(d, kind, body)
      PROVE  Goal
  BY <1>2, AskedLast DEF SameRequest
<1>3. ASSUME NEW d \in Operators, SwitchTab(d) PROVE Goal
  <2>1. /\ DOMAIN clicks' = DOMAIN clicks /\ SameRequest(j)
        /\ clicks'[j].status = clicks[j].status
        /\ clicks'[j].abandoned = (clicks[j].abandoned \/ clicks[j].by = d)
    BY <1>3, Abandonment
  <2> QED
    BY <2>1, Zenon
<1>4. ASSUME NEW i \in DOMAIN clicks, NEW status \in Statuses,
             clicks' = [clicks EXCEPT ![i].status = status]
      PROVE  /\ j \in DOMAIN clicks' /\ SameRequest(j)
             /\ clicks[j].abandoned => clicks'[j].abandoned
             /\ j # i => clicks'[j].status = clicks[j].status
             /\ clicks'[i].status = status
  <2>1. /\ DOMAIN clicks' = DOMAIN clicks /\ SameRequest(j)
        /\ clicks'[j].abandoned = clicks[j].abandoned
        /\ j # i => clicks'[j].status = clicks[j].status
        /\ clicks'[i].status = status
    BY <1>4, StatusChange
  <2> QED
    BY <2>1, Zenon
<1>5. ASSUME NEW i \in DOMAIN clicks, Forward(i) PROVE Goal
  <2>1. PICK status \in Statuses :
           /\ clicks' = [clicks EXCEPT ![i].status = status]
           /\ clicks[i].status \in {"sent", "stray"}
           /\ \/ status = "refused" /\ clicks[i].kind = "config"
              \/ status = "applied" /\ clicks[i].status = "sent"
              \/ status = "failed"
    BY <1>5 DEF Forward, Statuses
  <2>2. /\ j \in DOMAIN clicks' /\ SameRequest(j)
        /\ clicks[j].abandoned => clicks'[j].abandoned
        /\ j # i => clicks'[j].status = clicks[j].status
        /\ clicks'[i].status = status
    BY <1>4, <2>1
  <2>3. Way
    BY <1>5, <2>1, <2>2
  <2> QED
    BY <2>2, <2>3, Zenon
<1>6. ASSUME NEW i \in DOMAIN clicks, EndClick(i) \/ FailClick(i) PROVE Goal
  <2>1. PICK status \in Statuses :
           /\ clicks' = [clicks EXCEPT ![i].status = status]
           /\ \/ status \in {"done", "failed"} /\ clicks[i].status = "applied"
              \/ status \in {"failed", "stray"} /\ clicks[i].status = "sent"
    BY <1>6 DEF EndClick, FailClick, Statuses
  <2>2. /\ j \in DOMAIN clicks' /\ SameRequest(j)
        /\ clicks[j].abandoned => clicks'[j].abandoned
        /\ j # i => clicks'[j].status = clicks[j].status
        /\ clicks'[i].status = status
    BY <1>4, <2>1
  <2>3. Way
    BY <2>1, <2>2
  <2> QED
    BY <2>2, <2>3, Zenon
<1> QED
  BY <1>1, <1>2, <1>3, <1>5, <1>6, RequestSteps

-----------------------------------------------------------------------------
(* Saving a config *)

\* What a request to save has not edited is what its panel was shown.
OwnEdits(click) ==
    \A p \in Pairs :
        /\ <<p, "decimal">> \notin click.edited =>
              click.body[p].decimal = click.seen.config[p].decimal
        /\ <<p, "enabled">> \notin click.edited =>
              click.body[p].enabled = click.seen.config[p].enabled

OverridesAreEdits ==
    \A d \in Operators : DOMAIN panels[d].overrides \subseteq panels[d].edited

SavesAreEdits ==
    \A i \in DOMAIN clicks : clicks[i].kind = "config" => OwnEdits(clicks[i])

EditsKept == ControlTyped /\ OverridesAreEdits /\ SavesAreEdits

LEMMA InitEdits == ControlInit => EditsKept
<1> SUFFICES ASSUME ControlInit PROVE EditsKept
  OBVIOUS
<1>1. OverridesAreEdits
  <2>1. ASSUME NEW d \in Operators PROVE DOMAIN panels[d].overrides = {}
    BY NewPanelTyped DEF ControlInit
  <2> QED
    BY <2>1 DEF OverridesAreEdits
<1>2. SavesAreEdits
  BY DEF ControlInit, SavesAreEdits
<1> QED
  BY <1>1, <1>2, ControlInitTyped DEF EditsKept

\* Only an edit changes the overrides of a panel, only a new panel has none.
LEMMA OverridesAfter ==
    ASSUME ControlTyped, [ControlNext]_controlVars, NEW d \in Operators
    PROVE  \/ /\ panels'[d].overrides = panels[d].overrides
              /\ panels'[d].edited = panels[d].edited
           \/ DOMAIN panels'[d].overrides = {}
           \/ \E q : /\ DOMAIN panels'[d].overrides = DOMAIN panels[d].overrides \cup {q}
                     /\ panels'[d].edited = panels[d].edited \cup {q}
<1> DEFINE Goal ==
        \/ /\ panels'[d].overrides = panels[d].overrides
           /\ panels'[d].edited = panels[d].edited
        \/ DOMAIN panels'[d].overrides = {}
        \/ \E q : /\ DOMAIN panels'[d].overrides = DOMAIN panels[d].overrides \cup {q}
                  /\ panels'[d].edited = panels[d].edited \cup {q}
<1>1. panels \in [Operators -> ControlPanels] /\ panels[d] \in ControlPanels
  BY DEF ControlTyped
<1>2. ASSUME NEW e \in Operators, NEW shown,
             panels' = [panels EXCEPT ![e].shown = shown]
      PROVE  Goal
  BY <1>1, <1>2 DEF ControlPanels
<1>3. ASSUME NEW e \in Operators, NEW confirming \in BOOLEAN,
             panels' = [panels EXCEPT ![e].confirming = confirming]
      PROVE  Goal
  <2> DEFINE new == [panels[e] EXCEPT !.confirming = confirming]
  <2>1. panels' = [panels EXCEPT ![e] = new]
    BY <1>3
  <2>2. panels[e] \in ControlPanels
    BY <1>1
  <2>3. new.overrides = panels[e].overrides /\ new.edited = panels[e].edited
    BY <2>2, Zenon DEF ControlPanels
  <2> HIDE DEF new
  <2> QED
    BY <1>1, <2>1, <2>3
<1>4. ASSUME NEW e \in Operators, NEW p,
             panels' = [panels EXCEPT ![e].pendingPair = p]
      PROVE  Goal
  BY <1>1, <1>4 DEF ControlPanels
<1>5. ASSUME NEW e \in Operators, NEW p \in Pairs, NEW field \in {"decimal", "enabled"},
             NEW value \in Values, UpdatePair(e, p, field, value)
      PROVE  Goal
  <2> DEFINE o == Overridden(e, p, field, value)
             new == [panels[e] EXCEPT !.overrides = o, !.edited = @ \cup {<<p, field>>}]
  <2>1. panels' = [panels EXCEPT ![e] = new]
    BY <1>1, <1>5 DEF UpdatePair
  <2>2. panels[e] \in ControlPanels
    BY <1>1
  <2>4. DOMAIN o = DOMAIN panels[e].overrides \cup {<<p, field>>}
    BY DEF Overridden
  <2> HIDE DEF o
  <2>5. new.overrides = o /\ new.edited = panels[e].edited \cup {<<p, field>>}
    BY <2>2 DEF ControlPanels
  <2> HIDE DEF new
  <2>6. CASE e = d
    BY <1>1, <2>1, <2>4, <2>5, <2>6
  <2>7. CASE e # d
    BY <1>1, <2>1, <2>7
  <2> QED
    BY <2>6, <2>7
<1>6. ASSUME NEW e \in Operators, SwitchTab(e) PROVE Goal
  <2>1. panels' = [panels EXCEPT ![e] = NewPanel(panels[e].shown)]
    BY <1>6 DEF SwitchTab
  <2>2. DOMAIN NewPanel(panels[e].shown).overrides = {}
    BY <1>1, NewPanelTyped DEF ControlPanels
  <2> QED
    BY <1>1, <2>1, <2>2
<1>7. CASE UNCHANGED panels
  BY <1>7
<1>8. ASSUME NEW e \in Operators, ShowAnswer(e) PROVE Goal
  BY <1>2, <1>8 DEF ShowAnswer
<1>9. ASSUME NEW e \in Operators,
             ToggleKillSwitch(e) \/ EngageKillSwitch(e) \/ CloseConfirm(e)
      PROVE  Goal
  BY <1>3, <1>7, <1>9 DEF ToggleKillSwitch, EngageKillSwitch, CloseConfirm
<1>10. ASSUME NEW e \in Operators, NEW p \in Pairs, NEW kind, PairAction(e, p, kind)
       PROVE  Goal
  BY <1>4, <1>10 DEF PairAction
<1>11. /\ \A value \in Decimals \cup {Invalid} : value \in Values
       /\ \A value \in BOOLEAN : value \in Values
  BY DEF Values
<1>12. ASSUME SaveConfig(d) \/ (\E e \in Operators : SaveConfig(e))
              \/ (\E i \in DOMAIN clicks : Forward(i) \/ EndClick(i) \/ FailClick(i))
              \/ RestartBot \/ UNCHANGED controlVars
       PROVE  Goal
  BY <1>7, <1>12 DEF SaveConfig, Forward, EndClick, FailClick, RestartBot, controlVars
<1> QED
  BY <1>5, <1>6, <1>8, <1>9, <1>10, <1>11, <1>12 DEF ControlNext

LEMMA StepEdits == EditsKept /\ [ControlNext]_controlVars => EditsKept'
<1> SUFFICES ASSUME EditsKept, [ControlNext]_controlVars PROVE EditsKept'
  OBVIOUS
<1>1. ControlTyped /\ ControlTyped'
  BY ControlStepTyped DEF EditsKept
<1>2. OverridesAreEdits'
  BY <1>1, OverridesAfter DEF EditsKept, OverridesAreEdits
<1>3. ASSUME NEW j \in DOMAIN clicks, clicks'[j].kind = "config"
      PROVE  OwnEdits(clicks[j])'
  <2>1. SameRequest(j)
    BY <1>1, RequestsGoOneWay
  <2>2. OwnEdits(clicks[j])
    BY <1>3, <2>1 DEF SameRequest, EditsKept, SavesAreEdits
  <2> QED
    BY <2>1, <2>2 DEF SameRequest, OwnEdits
<1>4. ASSUME NEW d \in Operators, NEW kind \in RequestKinds, NEW body \in Bodies,
             Asks(d, kind, body), kind = "config"
      PROVE  OwnEdits(clicks'[Len(clicks) + 1])
  <2> DEFINE new == clicks'[Len(clicks) + 1]
  <2>1. /\ new.body = body /\ new.seen = panels[d].shown
        /\ new.edited = panels[d].edited
    BY <1>1, <1>4, AskedLast
  <2>2. body = Draft(d) /\ panels[d].shown # Unknown
    BY <1>4 DEF Asks
  <2>3. DOMAIN panels[d].overrides \subseteq panels[d].edited
    BY DEF EditsKept, OverridesAreEdits
  <2>4. \A p \in Pairs :
           /\ <<p, "decimal">> \notin panels[d].edited =>
                 Draft(d)[p].decimal = panels[d].shown.config[p].decimal
           /\ <<p, "enabled">> \notin panels[d].edited =>
                 Draft(d)[p].enabled = panels[d].shown.config[p].enabled
    BY <1>1, <2>2, <2>3, DraftTyped
  <2> HIDE DEF new
  <2>5. OwnEdits(new)
    BY <2>1, <2>2, <2>4 DEF OwnEdits
  <2> QED
    BY <2>5 DEF new
<1>5. SavesAreEdits'
  <2> SUFFICES ASSUME NEW j \in DOMAIN clicks', clicks'[j].kind = "config"
               PROVE  OwnEdits(clicks'[j])
    BY DEF SavesAreEdits
  <2>1. CASE j \in DOMAIN clicks
    BY <1>3, <2>1
  <2>2. CASE j \notin DOMAIN clicks
    <3>1. PICK d \in Operators, kind \in RequestKinds, body \in Bodies : Asks(d, kind, body)
      <4>1. ~ \E e \in Operators : SwitchTab(e)
        BY <1>1, <2>2, Abandonment
      <4>2. ~ \E i \in DOMAIN clicks, status \in Statuses :
                 clicks' = [clicks EXCEPT ![i].status = status]
        BY <1>1, <2>2, StatusChange
      <4>3. ~ \E i \in DOMAIN clicks : Forward(i) \/ EndClick(i) \/ FailClick(i)
        BY <4>2 DEF Forward, EndClick, FailClick, Statuses
      <4>4. clicks' # clicks
        BY <2>2
      <4> QED
        BY <1>1, <4>1, <4>3, <4>4, RequestSteps
    <3>2. /\ DOMAIN clicks' = DOMAIN clicks \cup {Len(clicks) + 1}
          /\ clicks'[Len(clicks) + 1].kind = kind
      BY <1>1, <3>1, AskedLast
    <3>3. j = Len(clicks) + 1 /\ kind = "config"
      BY <2>2, <3>2
    <3>4. OwnEdits(clicks'[Len(clicks) + 1])
      BY <1>4, <3>1, <3>3
    <3> QED
      BY <3>3, <3>4
  <2> QED
    BY <2>1, <2>2
<1> QED
  BY <1>1, <1>2, <1>5 DEF EditsKept

\* Saving a config undoes nothing the operator could see, whatever other
\* dashboards save meanwhile and however old the panel's edits are.
THEOREM SavesOnlyEdits == ControlSpec => SavesOwnEdits
<1> DEFINE Careful ==
        \A i \in DOMAIN clicks :
            clicks[i].kind = "config" /\ settings' # settings
            /\ clicks'[i].status # clicks[i].status =>
                \A p \in Pairs, field \in {"decimal", "enabled"} :
                    settings'.config[p][field] # settings.config[p][field] =>
                        \/ <<p, field>> \in clicks[i].edited
                        \/ clicks[i].seen.config[p][field] # settings.config[p][field]
<1>1. EditsKept /\ [ControlNext]_controlVars => [Careful]_controlVars
  <2> SUFFICES ASSUME EditsKept, ControlNext,
                      NEW i \in DOMAIN clicks, clicks[i].kind = "config",
                      settings' # settings, clicks'[i].status # clicks[i].status,
                      NEW p \in Pairs, NEW field \in {"decimal", "enabled"},
                      settings'.config[p][field] # settings.config[p][field],
                      <<p, field>> \notin clicks[i].edited
               PROVE  clicks[i].seen.config[p][field] # settings.config[p][field]
    OBVIOUS
  <2>1. ControlTyped
    BY DEF EditsKept
  <2>2. Forward(i)
    <3>1. ~ \E d \in Operators, kind \in RequestKinds, body \in Bodies : Asks(d, kind, body)
      BY DEF Asks
    <3>2. ~ \E d \in Operators : SwitchTab(d)
      BY DEF SwitchTab
    <3>3. PICK j \in DOMAIN clicks : Forward(j)
      BY <2>1, <3>1, <3>2, RequestSteps DEF EndClick, FailClick
    <3>4. PICK status \in Statuses : clicks' = [clicks EXCEPT ![j].status = status]
      BY <3>3 DEF Forward, Statuses
    <3>5. i # j => clicks'[i].status = clicks[i].status
      BY <2>1, <3>4, StatusChange
    <3> QED
      BY <3>3, <3>5
  <2>3. settings' = After(clicks[i])
    BY <2>2 DEF Forward
  <2>4. settings'.config = clicks[i].body
    BY <2>1, <2>3, AfterTyped DEF ControlTyped
  <2>5. OwnEdits(clicks[i])
    BY DEF EditsKept, SavesAreEdits
  <2>6. clicks[i].body[p][field] = clicks[i].seen.config[p][field]
    BY <2>5 DEF OwnEdits
  <2> QED
    BY <2>4, <2>6
<1>2. ControlSpec => [][Careful]_controlVars
  BY <1>1, InitEdits, StepEdits, PTL DEF ControlSpec
<1> QED
  BY <1>2 DEF SavesOwnEdits

-----------------------------------------------------------------------------
(* The kill switch *)

UnderWay(i) == clicks[i].status \in {"sent", "applied"} /\ ~clicks[i].abandoned

\* A confirmation is open only while no toggle of its panel is under way.
ConfirmingIsFree == \A d \in Operators : panels[d].confirming => ~Pending(d, "kill")

\* A panel sends a toggle only when the ones before have ended, or were abandoned.
TogglesInTurn ==
    \A i, j \in Toggles : j < i /\ clicks[j].by = clicks[i].by => ~UnderWay(j)

\* Nothing interferes with toggle i: it is the last of a single dashboard, whose
\* toggles neither failed nor were abandoned, and the bot ran on.
Undisturbed(i) ==
    /\ ~restarted
    /\ \A j \in Toggles : /\ clicks[j].by = clicks[i].by /\ j <= i
                          /\ clicks[j].status # "failed" /\ clicks[j].status # "stray"
                          /\ ~clicks[j].abandoned

\* The bot has what the last toggle it took says.
KillAsAsked ==
    \A i \in Toggles :
        clicks[i].status \in {"applied", "done"} /\ Undisturbed(i) =>
            settings.killed = clicks[i].body

KillInv == ControlTyped /\ ConfirmingIsFree /\ TogglesInTurn /\ KillAsAsked

LEMMA InitKill == ControlInit => KillInv
<1> SUFFICES ASSUME ControlInit PROVE KillInv
  OBVIOUS
<1>1. DOMAIN clicks = {}
  BY DEF ControlInit
<1> QED
  BY <1>1, ControlInitTyped
     DEF KillInv, ConfirmingIsFree, TogglesInTurn, KillAsAsked, Toggles, Pending

\* A request that is under way was under way, or is new.
LEMMA UnderWayBefore ==
    ASSUME ControlTyped, [ControlNext]_controlVars, NEW j \in DOMAIN clicks, UnderWay(j)'
    PROVE  UnderWay(j)
<1>1. /\ clicks'[j].status \in {"sent", "applied"} /\ ~clicks'[j].abandoned
      /\ clicks[j].abandoned => clicks'[j].abandoned
  BY RequestsGoOneWay DEF UnderWay
<1>2. clicks[j].status \in {"sent", "applied"}
  BY <1>1, RequestsGoOneWay
<1> QED
  BY <1>1, <1>2 DEF UnderWay

\* A step adds one request at most, and it is asked for.
LEMMA NewRequests ==
    ASSUME ControlTyped, [ControlNext]_controlVars, NEW j \in DOMAIN clicks',
           j \notin DOMAIN clicks
    PROVE  \E d \in Operators, kind \in RequestKinds, body \in Bodies :
              /\ Asks(d, kind, body)
              /\ j = Len(clicks) + 1
              /\ DOMAIN clicks' = DOMAIN clicks \cup {j}
              /\ clicks'[j].by = d /\ clicks'[j].kind = kind
              /\ clicks'[j].status = "sent"
<1>1. ~ \E e \in Operators : SwitchTab(e)
  BY Abandonment
<1>2. ~ \E i \in DOMAIN clicks, status \in Statuses :
           clicks' = [clicks EXCEPT ![i].status = status]
  BY StatusChange
<1>3. ~ \E i \in DOMAIN clicks : Forward(i) \/ EndClick(i) \/ FailClick(i)
  BY <1>2 DEF Forward, EndClick, FailClick, Statuses
<1>4. clicks' # clicks
  OBVIOUS
<1>5. PICK d \in Operators, kind \in RequestKinds, body \in Bodies : Asks(d, kind, body)
  BY <1>1, <1>3, <1>4, RequestSteps
<1>6. /\ DOMAIN clicks' = DOMAIN clicks \cup {Len(clicks) + 1}
      /\ clicks'[Len(clicks) + 1].by = d /\ clicks'[Len(clicks) + 1].kind = kind
      /\ clicks'[Len(clicks) + 1].status = "sent"
  BY <1>5, AskedLast
<1>7. j = Len(clicks) + 1
  BY <1>6
<1> QED
  BY <1>5, <1>6, <1>7

\* A confirmation is opened by the button only, which a pending toggle disables.
LEMMA ConfirmingAfter ==
    ASSUME ControlTyped, [ControlNext]_controlVars, NEW d \in Operators,
           panels'[d].confirming
    PROVE  panels[d].confirming \/ (UNCHANGED clicks /\ ~Pending(d, "kill"))
<1> DEFINE Goal == panels[d].confirming \/ (UNCHANGED clicks /\ ~Pending(d, "kill"))
<1>1. panels \in [Operators -> ControlPanels] /\ panels[d] \in ControlPanels
  BY DEF ControlTyped
<1>0. ASSUME panels'[d] = panels[d] PROVE Goal
  BY <1>0, Zenon
<1>2. ASSUME NEW e \in Operators, NEW new, panels' = [panels EXCEPT ![e] = new],
             new.confirming = panels[e].confirming
      PROVE  Goal
  <2>1. CASE e = d
    <3>1. panels'[d] = new
      BY <1>1, <1>2, <2>1
    <3> QED
      BY <1>2, <2>1, <3>1, Zenon
  <2>2. CASE e # d
    <3>1. panels'[d] = panels[d]
      BY <1>1, <1>2, <2>2
    <3> QED
      BY <1>0, <3>1
  <2> QED
    BY <2>1, <2>2
<1>3. ASSUME NEW e \in Operators, ShowAnswer(e) PROVE Goal
  <2> DEFINE new == [panels[e] EXCEPT !.shown = settings]
  <2>1. panels' = [panels EXCEPT ![e] = new]
    BY <1>3 DEF ShowAnswer
  <2>2. panels[e] \in ControlPanels
    BY <1>1
  <2>3. new.confirming = panels[e].confirming
    BY <2>2, Zenon DEF ControlPanels
  <2> QED
    BY <1>2, <2>1, <2>3
<1>4. ASSUME NEW e \in Operators, ToggleKillSwitch(e) PROVE Goal
  <2>1. CASE UNCHANGED panels
    BY <1>0, <2>1
  <2>2. CASE /\ panels' = [panels EXCEPT ![e].confirming = TRUE]
             /\ UNCHANGED clicks
    <3>1. CASE e = d
      BY <1>4, <2>2, <3>1 DEF ToggleKillSwitch, ButtonDisabled
    <3>2. CASE e # d
      BY <1>0, <1>1, <2>2, <3>2
    <3> QED
      BY <3>1, <3>2
  <2> QED
    BY <1>4, <2>1, <2>2 DEF ToggleKillSwitch
<1>5. ASSUME NEW e \in Operators, EngageKillSwitch(e) \/ CloseConfirm(e) PROVE Goal
  <2>1. panels[e].confirming
    BY <1>5 DEF EngageKillSwitch, CloseConfirm
  <2>2. panels' = [panels EXCEPT ![e].confirming = FALSE]
    BY <1>5 DEF EngageKillSwitch, CloseConfirm
  <2>3. CASE e = d
    BY <2>1, <2>3, Zenon
  <2>4. CASE e # d
    BY <1>0, <1>1, <2>2, <2>4
  <2> QED
    BY <2>3, <2>4
<1>6. ASSUME NEW e \in Operators, NEW p \in Pairs, NEW field, NEW value,
             UpdatePair(e, p, field, value)
      PROVE  Goal
  <2> DEFINE o == Overridden(e, p, field, value)
  <2> HIDE DEF o
  <2> DEFINE new == [panels[e] EXCEPT !.overrides = o, !.edited = @ \cup {<<p, field>>}]
  <2>1. panels' = [panels EXCEPT ![e] = new]
    BY <1>1, <1>6 DEF UpdatePair, o
  <2>2. panels[e] \in ControlPanels
    BY <1>1
  <2>3. new.confirming = panels[e].confirming
    BY <2>2, Zenon DEF ControlPanels
  <2> QED
    BY <1>2, <2>1, <2>3
<1>7. ASSUME NEW e \in Operators, NEW p \in Pairs, NEW kind, PairAction(e, p, kind)
      PROVE  Goal
  <2> DEFINE new == [panels[e] EXCEPT !.pendingPair = p]
  <2>1. panels' = [panels EXCEPT ![e] = new]
    BY <1>7 DEF PairAction
  <2>2. panels[e] \in ControlPanels
    BY <1>1
  <2>3. new.confirming = panels[e].confirming
    BY <2>2, Zenon DEF ControlPanels
  <2> QED
    BY <1>2, <2>1, <2>3
<1>8. ASSUME NEW e \in Operators, SwitchTab(e) PROVE Goal
  <2>1. panels' = [panels EXCEPT ![e] = NewPanel(panels[e].shown)]
    BY <1>8 DEF SwitchTab
  <2>2. ~NewPanel(panels[e].shown).confirming
    BY Zenon DEF NewPanel
  <2>3. CASE e = d
    <3>1. panels'[d] = NewPanel(panels[e].shown)
      BY <1>1, <2>1, <2>3
    <3> QED
      BY <2>2, <3>1, Zenon
  <2>4. CASE e # d
    BY <1>0, <1>1, <2>1, <2>4
  <2> QED
    BY <2>3, <2>4
<1>9. CASE UNCHANGED panels
  BY <1>0, <1>9
<1> QED
  BY <1>3, <1>4, <1>5, <1>6, <1>7, <1>8, <1>9
     DEF ControlNext, SaveConfig, Forward, EndClick, FailClick, RestartBot, controlVars

LEMMA StepConfirming ==
    KillInv /\ [ControlNext]_controlVars => ConfirmingIsFree'
<1> SUFFICES ASSUME KillInv, [ControlNext]_controlVars, NEW d \in Operators,
                    panels'[d].confirming, Pending(d, "kill")'
             PROVE  FALSE
  BY DEF ConfirmingIsFree
<1>1. ControlTyped
  BY DEF KillInv
<1>2. panels[d].confirming /\ ~Pending(d, "kill")
  <2>1. CASE panels[d].confirming
    BY <2>1 DEF KillInv, ConfirmingIsFree
  <2>2. CASE UNCHANGED clicks /\ ~Pending(d, "kill")
    BY <2>2 DEF Pending
  <2> QED
    BY <1>1, <2>1, <2>2, ConfirmingAfter
<1>3. PICK i \in DOMAIN clicks' :
         clicks'[i].by = d /\ clicks'[i].kind = "kill" /\ UnderWay(i)'
  BY DEF Pending, UnderWay
<1>4. CASE i \in DOMAIN clicks
  <2>1. UnderWay(i) /\ SameRequest(i)
    BY <1>1, <1>3, <1>4, UnderWayBefore, RequestsGoOneWay
  <2> QED
    BY <1>2, <1>3, <1>4, <2>1 DEF UnderWay, SameRequest, Pending
<1>5. CASE i \notin DOMAIN clicks
  <2>1. PICK body \in Bodies : Asks(d, "kill", body)
    BY <1>1, <1>3, <1>5, NewRequests
  <2> QED
    BY <2>1 DEF Asks
<1> QED
  BY <1>4, <1>5

LEMMA StepTurns ==
    KillInv /\ [ControlNext]_controlVars => TogglesInTurn'
<1> SUFFICES ASSUME KillInv, [ControlNext]_controlVars,
                    NEW i \in Toggles', NEW j \in Toggles', j < i,
                    clicks'[j].by = clicks'[i].by, UnderWay(j)'
             PROVE  FALSE
  BY DEF TogglesInTurn
<1>1. ControlTyped
  BY DEF KillInv
<1>2. /\ i \in DOMAIN clicks' /\ clicks'[i].kind = "kill"
      /\ j \in DOMAIN clicks' /\ clicks'[j].kind = "kill"
  BY DEF Toggles
<1>3. DOMAIN clicks = 1 .. Len(clicks) /\ Len(clicks) \in Nat
  BY <1>1 DEF ControlTyped
<1>4. j \in DOMAIN clicks
  <2> SUFFICES ASSUME j \notin DOMAIN clicks PROVE FALSE
    OBVIOUS
  <2>1. j = Len(clicks) + 1 /\ DOMAIN clicks' = DOMAIN clicks \cup {j}
    BY <1>1, <1>2, NewRequests
  <2>2. i \in 1 .. Len(clicks)
    BY <1>2, <1>3, <2>1
  <2> QED
    BY <1>3, <2>1, <2>2
<1>5. UnderWay(j) /\ SameRequest(j)
  BY <1>1, <1>4, UnderWayBefore, RequestsGoOneWay
<1>6. CASE i \in DOMAIN clicks
  <2>1. SameRequest(i)
    BY <1>1, <1>6, RequestsGoOneWay
  <2>2. i \in Toggles /\ j \in Toggles /\ clicks[j].by = clicks[i].by
    BY <1>2, <1>4, <1>5, <1>6, <2>1 DEF SameRequest, Toggles
  <2> QED
    BY <1>5, <2>2 DEF KillInv, TogglesInTurn
<1>7. CASE i \notin DOMAIN clicks
  <2>1. PICK d \in Operators, body \in Bodies :
           Asks(d, "kill", body) /\ clicks'[i].by = d
    <3>1. PICK d \in Operators, kind \in RequestKinds, body \in Bodies :
             Asks(d, kind, body) /\ clicks'[i].by = d /\ clicks'[i].kind = kind
      BY <1>1, <1>2, <1>7, NewRequests
    <3>2. kind = "kill"
      BY <1>2, <3>1
    <3> QED
      BY <3>1, <3>2
  <2>2. ~Pending(d, "kill")
    BY <2>1 DEF Asks, KillInv, ConfirmingIsFree
  <2>3. clicks[j].by = d /\ clicks[j].kind = "kill"
    BY <1>2, <1>5, <2>1 DEF SameRequest
  <2> QED
    BY <1>4, <1>5, <2>2, <2>3 DEF Pending, UnderWay
<1> QED
  BY <1>6, <1>7

\* What interfered with a toggle before a step has interfered after it.
LEMMA UndisturbedBefore ==
    ASSUME ControlTyped, [ControlNext]_controlVars, NEW i \in DOMAIN clicks, Undisturbed(i)'
    PROVE  Undisturbed(i)
<1>1. SameRequest(i)
  BY RequestsGoOneWay
<1>2. ~restarted
  <2>1. ~restarted'
    BY DEF Undisturbed
  <2>2. restarted' \/ restarted' = restarted
    BY RequestSteps DEF Asks, SwitchTab, Forward, EndClick, FailClick
  <2> QED
    BY <2>1, <2>2, Zenon
<1>3. ASSUME NEW j \in Toggles
      PROVE  /\ clicks[j].by = clicks[i].by /\ j <= i
             /\ clicks[j].status # "failed" /\ clicks[j].status # "stray"
             /\ ~clicks[j].abandoned
  <2>1. j \in DOMAIN clicks /\ clicks[j].kind = "kill"
    BY DEF Toggles
  <2>2. j \in DOMAIN clicks' /\ SameRequest(j) /\ (clicks[j].abandoned => clicks'[j].abandoned)
    BY <2>1, RequestsGoOneWay
  <2>3. j \in Toggles'
    BY <2>1, <2>2 DEF SameRequest, Toggles
  <2>4. /\ clicks'[j].by = clicks'[i].by /\ j <= i
        /\ clicks'[j].status # "failed" /\ clicks'[j].status # "stray"
        /\ ~clicks'[j].abandoned
    BY <2>3 DEF Undisturbed
  <2>5. clicks[j].status # "failed" /\ clicks[j].status # "stray"
    BY <2>1, <2>4, RequestsGoOneWay
  <2> QED
    BY <1>1, <2>2, <2>4, <2>5, Zenon DEF SameRequest
<1> QED
  BY <1>2, <1>3 DEF Undisturbed

LEMMA StepAsked ==
    KillInv /\ [ControlNext]_controlVars => KillAsAsked'
<1> SUFFICES ASSUME KillInv, [ControlNext]_controlVars, NEW i \in Toggles',
                    clicks'[i].status \in {"applied", "done"}, Undisturbed(i)'
             PROVE  settings'.killed = clicks'[i].body
  BY DEF KillAsAsked
<1>1. ControlTyped /\ settings \in Settings
  BY DEF KillInv, ControlTyped
<1>2. i \in DOMAIN clicks /\ SameRequest(i) /\ clicks[i].kind = "kill"
  <2>1. i \in DOMAIN clicks' /\ clicks'[i].kind = "kill"
    BY DEF Toggles
  <2>2. i \in DOMAIN clicks
    BY <1>1, <2>1, NewRequests
  <2> QED
    BY <1>1, <2>1, <2>2, RequestsGoOneWay DEF SameRequest
<1>3. Undisturbed(i)
  BY <1>1, <1>2, UndisturbedBefore
<1>4. ASSUME NEW k \in DOMAIN clicks
      PROVE  clicks[k] \in Clicks /\ Fitting(clicks[k])
  BY <1>1 DEF ControlTyped
<1>5. CASE Forward(i)
  <2>1. settings' = After(clicks[i])
    BY <1>2, <1>5 DEF Forward
  <2>2. settings'.killed = clicks[i].body
    BY <1>1, <1>2, <1>4, <2>1, AfterTyped
  <2> QED
    BY <1>2, <2>2 DEF SameRequest
<1>6. CASE ~Forward(i)
  <2>1. clicks[i].status \in {"applied", "done"}
    BY <1>1, <1>2, <1>6, RequestsGoOneWay
  <2>2. i \in Toggles
    BY <1>2 DEF Toggles
  <2>3. settings.killed = clicks[i].body
    BY <1>3, <2>1, <2>2 DEF KillInv, KillAsAsked
  <2>4. ASSUME NEW k \in DOMAIN clicks, Forward(k)
        PROVE  settings'.killed = settings.killed
    <3>1. k # i
      BY <1>6, <2>4
    <3>2. CASE clicks[k].kind = "kill"
      <4>1. k \in Toggles
        BY <3>2 DEF Toggles
      <4>2. /\ clicks[k].by = clicks[i].by /\ k <= i
            /\ clicks[k].status = "sent" /\ ~clicks[k].abandoned
        BY <1>3, <2>4, <4>1 DEF Undisturbed, Forward
      <4>3. k < i
        BY <1>1, <1>2, <3>1, <4>2 DEF ControlTyped
      <4> QED
        BY <2>2, <4>1, <4>2, <4>3 DEF KillInv, TogglesInTurn, UnderWay
    <3>3. CASE clicks[k].kind # "kill"
      <4>1. settings' = settings \/ settings' = After(clicks[k])
        BY <2>4 DEF Forward
      <4>2. After(clicks[k]).killed = settings.killed
        BY <1>1, <1>4, <3>3, AfterTyped
      <4> QED
        BY <4>1, <4>2
    <3> QED
      BY <3>2, <3>3
  <2>5. ~restarted'
    BY DEF Undisturbed
  <2>6. settings'.killed = settings.killed
    BY <1>1, <2>4, <2>5, RequestSteps DEF Asks, SwitchTab, EndClick, FailClick
  <2> QED
    BY <1>2, <2>3, <2>6 DEF SameRequest
<1> QED
  BY <1>5, <1>6

LEMMA StepKill == KillInv /\ [ControlNext]_controlVars => KillInv'
BY ControlStepTyped, StepConfirming, StepTurns, StepAsked DEF KillInv

\* The kill switch is what its operator asked for last, once that was confirmed,
\* however requests, answers and panels of the dashboards interleave.
THEOREM KillSwitchIsObeyed == ControlSpec => []KillSwitchObeyed
<1>1. KillInv => KillSwitchObeyed
  BY DEF KillInv, KillAsAsked, KillSwitchObeyed, Undisturbed
<1> QED
  BY <1>1, InitKill, StepKill, PTL DEF ControlSpec

=============================================================================
