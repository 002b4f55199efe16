------------------------------ MODULE PanelData ------------------------------
(***************************************************************************)
(* What the panel of one bot shows: the answers of four polled queries in  *)
(* the query cache, with the fallback that keeps a cached answer when the   *)
(* new one is empty, the sticky sections that keep the last data of every   *)
(* kind, the marks for old data, and the event log of the panel.            *)
(*                                                                         *)
(* Payloads are numbered and a piece of data is the number of the payload  *)
(* it came with, 0 when there is none; script says what they contain.      *)
(* The stream itself is the subject of EngineRelay, the tables of Storage. *)
(***************************************************************************)
EXTENDS Integers

CONSTANTS
    Scripts,        \* what the payloads of a behaviour say
    PanelPlans,     \* the queries that are polled; bounds: streams lost, data
                    \* reset, web server restarted, tab changed
    NoData          \* undefined

ASSUME PanelAssumption ==
    /\ NoData \notin BOOLEAN
    /\ \A s \in Scripts : \A n \in DOMAIN s :
          s[n] \in [quotes : BOOLEAN, fills : BOOLEAN, kill : BOOLEAN, paused : BOOLEAN]

VARIABLES
    script,     \* payload -> has quotes, has fills, kill switch, pair paused
    sent,       \* payloads sent by the bot
    snapshot,   \* the relay's state
    rows,       \* payload of the newest fill in the database
    resetting,  \* DELETE /api/reset has cleared the relays, not yet the tables
    cached,     \* query -> its cached answer
    arriving,   \* query -> the answer under way
    sticky,     \* kind of data -> what sticky-bot-sections keeps of the bot
    panel,      \* on display or not, the refs and the newest entries of its log
    plan,       \* what is left of the plan
    best        \* history: kind of data -> newest ever shown

panelVars == <<script, sent, snapshot, rows, resetting, cached, arriving, sticky,
               panel, plan, best>>

-----------------------------------------------------------------------------
(* The server *)

\* createRelayState
FreshSnapshot == [connected |-> FALSE, updated |-> 0, quotes |-> 0,
                  quoteHistory |-> 0, fills |-> 0]

KindsOf == [quotes |-> {"quotes", "quoteHistory", "health", "config"},
            fills |-> {"fills"}, pnl |-> {"pnl"}, inventory |-> {"inventory"}]
Queries == DOMAIN KindsOf
Kinds == UNION {KindsOf[q] : q \in Queries}

\* Health, config, PnL and inventory come with every payload.
InSnapshot(kind) ==
    IF kind \in {"quotes", "quoteHistory", "fills"} THEN snapshot[kind]
    ELSE snapshot.updated

\* Fills come from the database when the relay has none and no stream.
Served(q) ==
    [connected |-> snapshot.connected, updated |-> snapshot.updated,
     data |-> [kind \in KindsOf[q] |->
                  IF q = "fills" /\ snapshot.fills = 0 /\ ~snapshot.connected THEN rows
                  ELSE InSnapshot(kind)]]

IsEmpty(answer) == \A kind \in DOMAIN answer.data : answer.data[kind] = 0

\* resolveNetworkFirstCacheFallback
Resolved(q, answer) ==
    IF IsEmpty(answer) /\ cached[q] # NoData /\ ~IsEmpty(cached[q]) THEN cached[q]
    ELSE answer

-----------------------------------------------------------------------------
(* The panel, given the cache c and what is kept of the bot *)

Raw(c, kind) ==
    LET q == CHOOSE q \in Queries : kind \in KindsOf[q]
    IN IF c[q] = NoData THEN 0 ELSE c[q].data[kind]

\* Faulty variant of Kept: what was kept first stays.
KeptFirst(c, old) ==
    [kind \in Kinds |-> IF old[kind] = 0 THEN Raw(c, kind) ELSE old[kind]]

Kept(c, old) == [kind \in Kinds |-> IF Raw(c, kind) > 0 THEN Raw(c, kind) ELSE old[kind]]

\* What is shown of a kind, if it is anything.
Displayed(kind) == IF Raw(cached, kind) > 0 THEN Raw(cached, kind) ELSE sticky[kind]

UsingCache(kind) == Raw(cached, kind) = 0 /\ sticky[kind] > 0

ShownConnected(c) == c["quotes"] # NoData /\ c["quotes"].connected
ShownKill(c) ==
    c["quotes"] # NoData /\ c["quotes"].updated > 0 /\ script[c["quotes"].updated].kill

\* undefined until the pair was on display.
ShownPaused(kept) == IF kept["quotes"] = 0 THEN NoData ELSE script[kept["quotes"]].paused

StreamStale == cached["quotes"] # NoData /\ ~cached["quotes"].connected /\
               cached["quotes"].updated > 0

\* The kinds a section shows, and those that make it stale without a stream.
SectionKinds ==
    [liveQuotes |-> {"quotes"},
     risk |-> {"quotes", "fills", "pnl", "inventory", "health", "config"},
     inventory |-> {"inventory", "quotes"},
     pnlPerformance |-> {"pnl", "fills"},
     exposure |-> {"inventory", "quotes", "config"},
     fillMetrics |-> {"fills", "quoteHistory"},
     pnlCurve |-> {"pnl"},
     quoteHistory |-> {"quoteHistory"},
     config |-> {"config"},
     exchangeHealth |-> {"health"}]

StreamKinds ==
    [SectionKinds EXCEPT !.risk = {"quotes", "inventory", "health", "pnl"}]

\* Faulty variant of Marked: only what is kept for a section makes it stale.
MarkedIfKept(section) == \E kind \in SectionKinds[section] : UsingCache(kind)

Marked(section) ==
    \/ \E kind \in SectionKinds[section] : UsingCache(kind)
    \/ StreamStale /\ \E kind \in StreamKinds[section] : Displayed(kind) > 0

\* Faulty variant of Logged: a ref is set only when it has no value yet.
LoggedOnce(p, now) ==
    [p EXCEPT !.seen = [what \in DOMAIN now |->
                           IF p.seen[what] = NoData THEN now[what] ELSE p.seen[what]],
              !.log = [what \in DOMAIN now |->
                          IF p.seen[what] # NoData /\ now[what] # NoData
                             /\ p.seen[what] # now[what]
                          THEN now[what] ELSE p.log[what]]]

\* The effect of the event log: an entry for what differs from its ref.
Logged(p, now) ==
    [p EXCEPT !.seen = [what \in DOMAIN now |->
                           IF now[what] = NoData THEN p.seen[what] ELSE now[what]],
              !.log = [what \in DOMAIN now |->
                          IF p.seen[what] # NoData /\ now[what] # NoData
                             /\ p.seen[what] # now[what]
                          THEN now[what] ELSE p.log[what]]]

Unset == [connected |-> NoData, kill |-> NoData, paused |-> NoData]

\* The panel renders with the cache c: the sections, then the log.
Render(p, c) ==
    /\ sticky' = Kept(c, sticky)
    /\ best' = [kind \in Kinds |->
          LET now == IF Raw(c, kind) > 0 THEN Raw(c, kind) ELSE sticky[kind]
          IN IF now > best[kind] THEN now ELSE best[kind]]
    /\ panel' = Logged(p, [connected |-> ShownConnected(c), kill |-> ShownKill(c),
                           paused |-> ShownPaused(Kept(c, sticky))])

PanelInit ==
    /\ script \in Scripts /\ sent = 0
    /\ snapshot = FreshSnapshot /\ rows = 0 /\ resetting = FALSE
    /\ cached = [q \in Queries |-> NoData]
    /\ arriving = [q \in Queries |-> NoData]
    /\ sticky = [kind \in Kinds |-> 0]
    /\ panel = [open |-> FALSE, seen |-> Unset, log |-> Unset]
    /\ plan \in PanelPlans
    /\ best = [kind \in Kinds |-> 0]

Plan(what) ==
    /\ plan[what] > 0
    /\ plan' = [plan EXCEPT ![what] = @ - 1]

-----------------------------------------------------------------------------
(* The relay and the database *)

ConnectStream ==
    /\ ~snapshot.connected
    /\ snapshot' = [snapshot EXCEPT !.connected = TRUE]
    /\ UNCHANGED <<script, sent, rows, resetting, cached, arriving, sticky, panel, plan,
                   best>>

\* ingestPayload
Payload ==
    /\ sent + 1 \in DOMAIN script
    /\ sent' = sent + 1
    /\ LET says == script[sent + 1]
           Newest(has, old) == IF has THEN sent + 1 ELSE old
       IN snapshot' = [connected |-> TRUE, updated |-> sent + 1,
                       quotes |-> Newest(says.quotes, 0),
                       quoteHistory |-> Newest(says.quotes, snapshot.quoteHistory),
                       fills |-> Newest(says.fills, snapshot.fills)]
    /\ UNCHANGED <<script, rows, resetting, cached, arriving, sticky, panel, plan,
                   best>>

\* The bot stores the fills of a payload some time after it is sent.
StoreFills(n) ==
    /\ n \in rows + 1 .. sent
    /\ script[n].fills
    /\ rows' = n
    /\ UNCHANGED <<script, sent, snapshot, resetting, cached, arriving, sticky, panel,
                   plan, best>>

LoseStream ==
    /\ snapshot.connected
    /\ snapshot' = [snapshot EXCEPT !.connected = FALSE]
    /\ Plan("losses")
    /\ UNCHANGED <<script, sent, rows, resetting, cached, arriving, sticky, panel, best>>

\* DELETE /api/reset: the relays, then the tables.
ResetRelays ==
    /\ ~resetting
    /\ snapshot' = FreshSnapshot
    /\ resetting' = TRUE
    /\ Plan("resets")
    /\ UNCHANGED <<script, sent, rows, cached, arriving, sticky, panel, best>>

ResetTables ==
    /\ resetting
    /\ rows' = 0
    /\ resetting' = FALSE
    /\ UNCHANGED <<script, sent, snapshot, cached, arriving, sticky, panel, plan,
                   best>>

RestartServer ==
    /\ snapshot' = FreshSnapshot
    /\ resetting' = FALSE
    /\ Plan("restarts")
    /\ UNCHANGED <<script, sent, rows, cached, arriving, sticky, panel, best>>

-----------------------------------------------------------------------------
(* The dashboard *)

\* A poll, at the moment the server answers it.
Poll(q) ==
    /\ panel.open /\ q \in plan.polled
    /\ arriving[q] = NoData
    /\ arriving' = [arriving EXCEPT ![q] = Served(q)]
    /\ UNCHANGED <<script, sent, snapshot, rows, resetting, cached, sticky, panel, plan,
                   best>>

\* An answer arrives, also for a panel that is not on display any more.
EndPoll(q) ==
    LET c == [cached EXCEPT ![q] = Resolved(q, arriving[q])] IN
    /\ arriving[q] # NoData
    /\ cached' = c
    /\ arriving' = [arriving EXCEPT ![q] = NoData]
    /\ IF panel.open THEN Render(panel, c) ELSE UNCHANGED <<sticky, panel, best>>
    /\ UNCHANGED <<script, sent, snapshot, rows, resetting, plan>>

\* The request fails, or a mutation that succeeded invalidates the query: the
\* answer under way is dropped.
DropPoll(q) ==
    /\ arriving[q] # NoData
    /\ arriving' = [arriving EXCEPT ![q] = NoData]
    /\ UNCHANGED <<script, sent, snapshot, rows, resetting, cached, sticky, panel, plan,
                   best>>

\* The tab of another bot is selected, and that of this one.
CloseTab ==
    /\ panel.open
    /\ panel' = [open |-> FALSE, seen |-> Unset, log |-> Unset]
    /\ Plan("tabs")
    /\ UNCHANGED <<script, sent, snapshot, rows, resetting, cached, arriving, sticky,
                   best>>

OpenTab ==
    /\ ~panel.open
    /\ Render([panel EXCEPT !.open = TRUE], cached)
    /\ UNCHANGED <<script, sent, snapshot, rows, resetting, cached, arriving, plan>>

\* Five minutes later the query cache has forgotten the bot.
Forget ==
    /\ ~panel.open
    /\ \E q \in Queries : cached[q] # NoData
    /\ \A q \in Queries : arriving[q] = NoData
    /\ cached' = [q \in Queries |-> NoData]
    /\ UNCHANGED <<script, sent, snapshot, rows, resetting, arriving, sticky, panel, plan,
                   best>>

PanelNext ==
    \/ ConnectStream \/ Payload \/ LoseStream
    \/ \E n \in 1 .. sent : StoreFills(n)
    \/ ResetRelays \/ ResetTables \/ RestartServer
    \/ \E q \in Queries : Poll(q) \/ EndPoll(q) \/ DropPoll(q)
    \/ CloseTab \/ OpenTab \/ Forget

PanelSpec == PanelInit /\ [][PanelNext]_panelVars

-----------------------------------------------------------------------------
(* Properties *)

\* A panel whose last quotes came without a stream marks every section that shows
\* something as stale, whichever of the four queries it came from and however
\* old it is.
DisconnectedIsMarked ==
    panel.open /\ StreamStale =>
        \A section \in DOMAIN SectionKinds :
            (\E kind \in SectionKinds[section] : Displayed(kind) > 0) => Marked(section)

\* Whatever is lost, dropped, forgotten or reset, a section never falls back to
\* data older than what it showed before.  (Fills may, see the hazards.)
NeverBackwards ==
    panel.open => \A kind \in Kinds \ {"fills"} : Displayed(kind) = best[kind]

\* The newest entry of the log about the stream, the kill switch or a pair says
\* what the panel shows of it.
LogTellsState ==
    LET now == [connected |-> ShownConnected(cached), kill |-> ShownKill(cached),
                paused |-> ShownPaused(sticky)]
    IN panel.open =>
          \A what \in DOMAIN now : panel.log[what] \in {NoData, now[what]}

=============================================================================
