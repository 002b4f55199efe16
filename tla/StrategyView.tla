---------------------------- MODULE StrategyView ----------------------------
(***************************************************************************)
(* The strategy of one bot as one dashboard shows it: the bot, the relay   *)
(* that follows its stream, the dashboard's polls and query cache, the POSTs *)
(* that select presets, and the optimistic value that hides the time this  *)
(* takes.  Each callback of the dashboard is one action; the select        *)
(* function runs in every one that renders the bot's panel.  A change of    *)
(* tab unmounts the panel: its POSTs and the poll under way go on without   *)
(* it, and a panel mounted later knows nothing of them.                    *)
(***************************************************************************)
EXTENDS Naturals, Sequences

CONSTANTS
    Strategies,
    Balanced,       \* the preset of a bot that starts, and of an empty relay
    WireCap,        \* bound: payloads on their way to the relay
    MaxSelections,  \* bound: presets selected in this dashboard
    MaxOthers,      \* bound: changes to the bot that come from elsewhere
    MaxTabs,        \* bound: changes to another bot's tab
    MaxFaults,      \* bound: lost streams, relay resets, failed polls
    MaxUsed,        \* bound: all of these together
    None            \* undefined

ASSUME StrategyAssumption ==
    /\ Balanced \in Strategies /\ None \notin Strategies
    /\ None \notin [connected : BOOLEAN, filled : BOOLEAN, strategy : Strategies]
    /\ WireCap \in Nat /\ MaxSelections \in Nat /\ MaxOthers \in Nat
    /\ MaxTabs \in Nat /\ MaxFaults \in Nat /\ MaxUsed \in Nat

VARIABLES
    bot,         \* the bot's active strategy
    linked,      \* the relay's socket is open
    wire,        \* strategies in the payloads under way to the relay
    relay,       \* the relay's snapshot
    cache,       \* the dashboard's cached answer of GET /api/quotes
    query,       \* the poll: its progress and the answer under way
    posts,       \* this dashboard's POSTs under way
    stray,       \* failed POSTs that may still reach the bot
    optimistic,  \* optimisticStrategyByBot
    locked,      \* strategyLockedUntilByBot lies ahead
    shown,       \* the strategy on display, None while another tab is open
    used,        \* selections, changes from elsewhere, of tabs, and faults so far
    confirmed,   \* history: the selection last confirmed, while nothing but it
                 \* should be shown
    holder,      \* history: the POST that set the optimistic value last, or 0
    changedBy    \* history: the POST that changed the bot last, or 0 for others

serverVars == <<bot, linked, wire, relay>>
storeVars == <<cache, optimistic, locked, shown>>
historyVars == <<confirmed, holder, changedBy>>
vars == <<serverVars, storeVars, query, posts, stray, used, historyVars>>

-----------------------------------------------------------------------------
\* What of a relay's snapshot the dashboard reads here; filled says that it
\* has quotes, a history, health or a config.
Snapshot == [connected : BOOLEAN, filled : BOOLEAN, strategy : Strategies]

FreshRelay == [connected |-> FALSE, filled |-> FALSE, strategy |-> Balanced]

NoQuery == [status |-> "idle", answer |-> None]
SentQuery == [status |-> "sent", answer |-> None]

Init ==
    /\ bot = Balanced /\ linked = FALSE /\ wire = <<>> /\ relay = FreshRelay
    /\ cache = None /\ optimistic = None /\ locked = FALSE /\ shown = Balanced
    /\ query = NoQuery /\ posts = {} /\ stray = {}
    /\ used = [selections |-> 0, others |-> 0, tabs |-> 0, faults |-> 0]
    /\ confirmed = None /\ holder = 0 /\ changedBy = 0

\* A POST of this dashboard, from the click to its answer; own says that the
\* panel that sent it is still mounted.
Post == [id : 1 .. MaxSelections, status : {"sent", "applied"}, own : BOOLEAN,
         strategy : Strategies, previous : Snapshot]

-----------------------------------------------------------------------------
(* The dashboard *)

\* Server data takes over from the optimistic value.
Released(data, held, lock) ==
    data # None /\ held # None /\ ~lock /\ data.strategy = held

\* The cache and the store are as given when select runs: it may clear the
\* optimistic value, and the panel shows what it returns.
Render(data, held, lock) ==
    /\ cache' = data
    /\ shown' = IF data = None THEN Balanced
                ELSE IF held # None THEN held ELSE data.strategy
    /\ optimistic' = IF Released(data, held, lock) THEN None ELSE held
    /\ locked' = (lock /\ ~Released(data, held, lock))

\* The panel of the bot is mounted: its tab is open.
mounted == shown # None

\* The same without a panel to render.
Write(data, held, lock) ==
    cache' = data /\ optimistic' = held /\ locked' = lock /\ UNCHANGED shown

\* Any other query or click renders the panel again.
Rerender ==
    /\ mounted
    /\ Render(cache, optimistic, locked)
    /\ UNCHANGED <<serverVars, query, posts, stray, used, historyVars>>

CountUse(what, bound) ==
    /\ used[what] < bound
    /\ used.selections + used.others + used.tabs + used.faults < MaxUsed
    /\ used' = [used EXCEPT ![what] = @ + 1]

\* Another bot's tab opens: this one's panel is unmounted, and its polls end.
Leave ==
    /\ mounted
    /\ CountUse("tabs", MaxTabs)
    /\ shown' = None
    /\ posts' = {[r EXCEPT !.own = FALSE] : r \in posts}
    /\ UNCHANGED <<serverVars, cache, optimistic, locked, query, stray, historyVars>>

\* The bot's tab opens again: a new panel shows what is cached and fetches.
Return ==
    /\ ~mounted
    /\ Render(cache, optimistic, locked)
    /\ query' = IF query.status = "idle" THEN SentQuery ELSE query
    /\ UNCHANGED <<serverVars, posts, stray, used, historyVars>>

\* Five minutes after the last panel of the bot the cache drops its answer.
Forget ==
    /\ ~mounted /\ query.status = "idle" /\ cache # None
    /\ cache' = None /\ confirmed' = None
    /\ UNCHANGED <<serverVars, optimistic, locked, shown, query, posts, stray,
                   used, holder, changedBy>>

\* Presets can be clicked while the bot is connected and no POST of this panel is
\* pending; those of a panel before it do not count.
PresetsEnabled ==
    /\ mounted /\ cache # None /\ cache.connected
    /\ \A r \in posts : ~r.own

\* A click on an enabled preset: onMutate cancels the poll under way, holds
\* the selection, writes it to the cache and remembers what was there.
Select(s) ==
    /\ PresetsEnabled
    /\ CountUse("selections", MaxSelections)
    /\ query' = NoQuery
    /\ Render([cache EXCEPT !.strategy = s], s, TRUE)
    /\ posts' = posts \cup {[id |-> used'.selections, status |-> "sent",
                                   strategy |-> s, previous |-> cache, own |-> TRUE]}
    /\ holder' = used'.selections /\ confirmed' = None
    /\ UNCHANGED <<serverVars, stray, changedBy>>

\* A callback of POST r writes the cache and the store.  Its own panel renders
\* as its mutation ends; one mounted since does when the cached answer changes.
Commit(r, data, held, lock) ==
    IF r.own \/ (mounted /\ data # cache) THEN Render(data, held, lock)
    ELSE Write(data, held, lock)

\* Faulty variant of Confirm: the lock that runs since the click is all there is.
ConfirmOnce(r) == Commit(r, cache, optimistic, locked)

\* onSuccess holds the confirmed strategy for a full lock window.
Confirm(r) == Commit(r, cache, r.strategy, TRUE)

\* The POST's answer: an open tab's quotes are fetched anew, whatever poll was
\* under way, unless that is the first one.
Succeed(r) ==
    /\ r.status = "applied"
    /\ posts' = posts \ {r}
    /\ Confirm(r)
    /\ query' = IF mounted /\ (cache # None \/ query.status = "idle") THEN SentQuery
                ELSE query
    /\ confirmed' = IF r.own /\ bot = r.strategy THEN bot ELSE None
    /\ holder' = r.id
    /\ UNCHANGED <<serverVars, stray, used, changedBy>>

\* Faulty variant of RollBack: the selection stays held.
RollBackCacheOnly(r) == Commit(r, r.previous, optimistic, locked)

\* Faulty variant of RollBack: the lock stays.
RollBackLocked(r) == Commit(r, r.previous, None, locked)

\* onError drops whatever selection is held and restores the cache.
RollBack(r) == Commit(r, r.previous, None, FALSE)

\* The POST fails, or its answer is lost; the web server may still forward it.
Fail(r) ==
    /\ \/ r.status = "sent" /\ stray' = stray \cup {r.strategy}
       \/ UNCHANGED stray
    /\ posts' = posts \ {r}
    /\ RollBack(r)
    /\ confirmed' = None /\ holder' = 0
    /\ UNCHANGED <<serverVars, query, used, changedBy>>

\* Every place that hands a strategy on to the dashboard holds s, and what the
\* dashboard falls back to came with data.
Spread(s) ==
    /\ bot = s /\ relay.strategy = s /\ cache # None /\ cache.filled
    /\ \A i \in DOMAIN wire : wire[i] = s
    /\ query = NoQuery

\* Three seconds after it was armed; nothing renders because of it.
LockExpires ==
    /\ locked
    /\ locked' = FALSE
    /\ confirmed' = IF Spread(optimistic) THEN confirmed ELSE None
    /\ UNCHANGED <<serverVars, cache, optimistic, shown, query, posts, stray, used,
                   holder, changedBy>>

\* Every 1.5 seconds, unless a poll is under way.
Poll ==
    /\ mounted
    /\ query.status = "idle"
    /\ query' = SentQuery
    /\ UNCHANGED <<serverVars, storeVars, posts, stray, used, historyVars>>

\* resolveNetworkFirstCacheFallback: an answer of an empty relay does not
\* replace what is cached.
Resolved(answer) ==
    IF ~answer.filled /\ cache # None /\ cache.filled THEN cache ELSE answer

\* The poll's answer arrives.
Receive ==
    /\ query.status = "answered"
    /\ query' = NoQuery
    /\ LET data == Resolved(query.answer)
       IN  IF mounted THEN Render(data, optimistic, locked)
           ELSE Write(data, optimistic, locked)
    /\ UNCHANGED <<serverVars, posts, stray, used, historyVars>>

Fault == CountUse("faults", MaxFaults)

\* The poll fails; what was cached stays.
PollFails ==
    /\ query.status # "idle"
    /\ Fault
    /\ query' = NoQuery
    /\ UNCHANGED <<serverVars, storeVars, posts, stray, historyVars>>

-----------------------------------------------------------------------------
(* The web server and the bot *)

\* GET /api/quotes reads the relay.
AnswerPoll ==
    /\ query.status = "sent"
    /\ query' = [status |-> "answered", answer |-> relay]
    /\ UNCHANGED <<serverVars, storeVars, posts, stray, used, historyVars>>

\* The bot's strategy becomes s without the dashboard's doing.
Overtake(s) == bot' = s /\ confirmed' = None /\ changedBy' = 0

\* POST /api/strategy is forwarded, and the bot applies the preset.
ApplyPreset(r) ==
    /\ r.status = "sent"
    /\ bot' = r.strategy
    /\ posts' = (posts \ {r}) \cup {[r EXCEPT !.status = "applied"]}
    /\ confirmed' = None /\ changedBy' = r.id
    /\ UNCHANGED <<linked, wire, relay, storeVars, query, stray, used, holder>>

\* A POST the dashboard gave up on reaches the bot.
ApplyStray(s) ==
    /\ s \in stray
    /\ stray' = stray \ {s}
    /\ Overtake(s)
    /\ UNCHANGED <<linked, wire, relay, storeVars, query, posts, used, holder>>

\* Another dashboard selects s, or a reset of all data, which this one may have
\* asked for, brings back the default.
OtherSelects(s) ==
    /\ CountUse("others", MaxOthers)
    /\ Overtake(s)
    /\ UNCHANGED <<linked, wire, relay, storeVars, query, posts, stray, holder>>

\* The bot restarts with its default preset; its streams end.
Restart ==
    /\ CountUse("others", MaxOthers)
    /\ Overtake(Balanced)
    /\ linked' = FALSE /\ wire' = <<>>
    /\ relay' = [relay EXCEPT !.connected = FALSE]
    /\ UNCHANGED <<storeVars, query, posts, stray, holder>>

\* The relay's socket opens.
Open ==
    /\ ~linked
    /\ linked' = TRUE
    /\ relay' = [relay EXCEPT !.connected = TRUE]
    /\ UNCHANGED <<bot, wire, storeVars, query, posts, stray, used, historyVars>>

\* A tick's payload, or the one a new stream starts with.
Publish ==
    /\ linked /\ Len(wire) < WireCap
    /\ wire' = Append(wire, bot)
    /\ UNCHANGED <<bot, linked, relay, storeVars, query, posts, stray, used,
                   historyVars>>

\* ingestPayload
Ingest ==
    /\ wire # <<>>
    /\ wire' = Tail(wire)
    /\ relay' = [connected |-> TRUE, filled |-> TRUE, strategy |-> Head(wire)]
    /\ UNCHANGED <<bot, linked, storeVars, query, posts, stray, used, historyVars>>

\* The relay's socket closes.
Close ==
    /\ linked
    /\ Fault
    /\ linked' = FALSE /\ wire' = <<>>
    /\ relay' = [relay EXCEPT !.connected = FALSE]
    /\ UNCHANGED <<bot, storeVars, query, posts, stray, historyVars>>

\* resetAllRelays
ResetRelay ==
    /\ Fault
    /\ relay' = FreshRelay
    /\ UNCHANGED <<bot, linked, wire, storeVars, query, posts, stray, historyVars>>

-----------------------------------------------------------------------------
DashboardNext ==
    \/ \E s \in Strategies : Select(s)
    \/ \E r \in posts : Succeed(r) \/ Fail(r)
    \/ Leave \/ Return \/ Forget
    \/ Rerender \/ LockExpires
    \/ Poll \/ Receive \/ PollFails

ServerNext ==
    \/ \E s \in Strategies : ApplyStray(s) \/ OtherSelects(s)
    \/ \E r \in posts : ApplyPreset(r)
    \/ AnswerPoll \/ Restart
    \/ Open \/ Publish \/ Ingest \/ Close \/ ResetRelay

Next == DashboardNext \/ ServerNext

Spec == Init /\ [][Next]_vars

\* Every POST reaches the bot and is answered.
PostFairness(i) ==
    /\ WF_vars(\E r \in posts : r.id = i /\ ApplyPreset(r))
    /\ WF_vars(\E r \in posts : r.id = i /\ Succeed(r))

\* Timers fire, polls and POSTs end, the stream reconnects and carries ticks.
\* Nobody has to select anything or to open a tab, and nothing has to fail.
Fairness ==
    /\ WF_vars(LockExpires) /\ WF_vars(Rerender)
    /\ WF_vars(Poll) /\ WF_vars(AnswerPoll) /\ WF_vars(Receive)
    /\ \A i \in 1 .. MaxSelections : PostFairness(i)
    /\ WF_vars(Open) /\ WF_vars(Publish) /\ WF_vars(Ingest)

FairSpec == Spec /\ Fairness

-----------------------------------------------------------------------------
(* Properties *)

\* Every variable has its type; a lock only guards a value that is held.
TypeOK ==
    /\ bot \in Strategies /\ linked \in BOOLEAN
    /\ wire \in Seq(Strategies) /\ Len(wire) <= WireCap
    /\ relay \in Snapshot
    /\ cache \in Snapshot \cup {None}
    /\ query \in [status : {"idle", "sent", "answered"}, answer : Snapshot \cup {None}]
    /\ posts \subseteq Post
    /\ stray \subseteq Strategies
    /\ optimistic \in Strategies \cup {None} /\ locked \in BOOLEAN
    /\ locked => optimistic # None
    /\ shown \in Strategies \cup {None}
    /\ used \in [selections : 0 .. MaxSelections, others : 0 .. MaxOthers,
                 tabs : 0 .. MaxTabs, faults : 0 .. MaxFaults]
    /\ confirmed \in Strategies \cup {None}
    /\ holder \in 0 .. MaxSelections /\ changedBy \in 0 .. MaxSelections

\* A confirmed selection does not flicker: from the answer to the panel that sent
\* it on, the open tab shows it, whatever stale answers arrive, whatever streams
\* and relays are lost and whatever tabs are opened meanwhile, until a preset is
\* selected, another POST reaches the bot or ends, something else changes the
\* bot, or the cache forgets it; unless the lock ends before it has spread.
ConfirmedIsShown == mounted /\ confirmed # None => shown = confirmed

\* An open tab ends up showing the bot's strategy, however many POSTs of one or
\* of several panels were under way and in whatever order they reached the bot,
\* succeeded or failed, unless the last one answered was held and something
\* else, another POST or another dashboard, was the last to change the bot.
Converges ==
    <>[](~mounted \/ shown = bot \/ (optimistic # None /\ changedBy # holder))

\* "giving the bot enough time to propagate the new strategy through its tick
\* loop before we allow incoming server data to override the displayed value":
\* in the end the server's data decides what is shown.
ServerDataTakesOver == <>[](mounted => shown = bot)

=============================================================================
