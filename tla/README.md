# A verification of crispy-crypto-market-maker

TLA+ modules, TLC configurations and TLAPS proofs about the trading bots, the
relay in the web server and the dashboard of this repository. Paths below are
relative to `src/`.

## The system

| Component | State | Operations | Talks to |
| --- | --- | --- | --- |
| Bot engine, `apps/bot/src/state` | `EngineState` behind one `RwLock`: pair states, config, counters, kill switch, strategy | `compute_orders`, `build_payload`, `reset_session`, `apply_strategy_preset` | everything in the bot |
| Tick loop, `apps/bot/src/utils.rs` | none of its own | every 250 ms: compute orders (lock), place them (no lock), book and publish (lock), persist | exchange, stream, database |
| Operator handlers, `apps/bot/src/router` | none | config, pause, kill switch, strategy, reset | engine |
| Manual hedge, `router/manual_hedge` | none; read (lock), order (no lock), apply (lock) | one order sized from the inventory read | engine, exchange |
| Stream, `router/ws_app.rs` | `tokio::broadcast` channel of the payloads | connect, forward, close on lag | relay |
| Market feed, `exchange/exchange.rs` | connection | reconnect, apply market updates | exchange, engine |
| Persistence, `db.rs` | append-only tables | insert per payload, prune | PostgreSQL |
| Exchange simulator, `apps/exchange` | price, tick count | tick, `place_order` | bots |
| Web relay, `server/engine-relay.ts` | one relay per bot: socket, timer, last state, listeners | connect, reconnect, ingest, prune, reset | bots, browsers |
| Alerts, `server/alert-dispatch.ts` | ids active per bot | derive, diff, post a webhook | webhook receiver |
| Reset of all data, `app/api/reset` | none | relays, then bots, then tables | all of them |
| Fills and history routes, `app/api` | none | merge and page rows, delete the history | database |
| Runtime topology, `server/runtime-topology.ts` | the running list of bots and the exchange | serve, validate and take over, keep locations | relay, API proxies, browsers |
| Topology form, `topology-config`, `market-maker-dashboard.tsx` | cached topology, draft, saved copy in the browser, selected tab | edit, save, restore on opening | runtime topology |
| API proxies, `app/api` | none | validate, forward to the bot, relay the answer | bots |
| Controls, `kill-switch-section.tsx`, `config-panel`, `bot-dashboard-panel.tsx` | confirmation, edited fields, pending requests | kill switch, config, pause, hedge | API proxies |
| Panel, `bot-dashboard-panel.tsx`, `lib`, `stores` | query cache, sticky sections, optimistic strategy, event log | poll, fall back over late or missing data, mark it as old | API routes |
| History and monitor pages, `components/history` | page turned to, cached pages, sorting | turn, sort, refetch, delete all | history routes |
| Risk and alerts, `lib/risk-metrics.ts`, `lib/alert-service.ts` | none | judge the figures of a bot | panel, relay |
| Map, `geo-map` | a cached lookup per address | look up, place and spread markers | geo route |

What is hard here is what happens between two critical sections: the exchange
is awaited with the lock released, by the tick and by every manual hedge, while
operators change the config, the strategy, the kill switch and reset the
session. Answers get lost, sockets close late, timers race with topology
changes, and rows are pruned while others are inserted. In the browser it is
what is under way while something else happens: an answer that was read before
a POST took effect, a form that was copied before another operator saved, a page
that was asked for before the history was deleted, a request whose panel is
gone.

## Modules

| Module | Contents |
| --- | --- |
| `Engine` | one bot: engine, tick loop, operator handlers, manual hedges; its properties |
| `Quoting` | what `Engine` promises of quoting, without inventories and answers; the liveness of it |
| `Ledger` | what `Engine` promises of orders: how an execution gets into the books, without the tick loop and the handlers |
| `EngineAudit` | the engine's books against what the exchange executed, the mapping of `Engine` to `Ledger`, and what the repository says of the kill switch |
| `EngineRelay` | the web server's relays, their sockets and timers, dashboards, alert webhooks |
| `StrategyView` | one bot's strategy on its way from a click to the bot and back to the display |
| `Storage` | what bots store, how it is pruned, reset and read back page by page |
| `Topology` | the web server's record of the bots, and the dashboards that show, edit, save and restore it |
| `PanelData` | what a panel shows of its bot: polls, query cache, sticky sections, marks for old data, event log |
| `PanelControls` | what a panel sends to its bot: kill switch, config, pause, hedge, from several dashboards |
| `HistoryPages` | the paged tables of stored rows, their cached pages, and the deletion of all history |
| `Risk` | the alerts and the risk report, two judgements of the same figures |
| `TableSort` | the sorting of a page of rows |
| `GeoMap` | lookups of places and the markers of the map |
| `Places` | lists filtered by the places that stay, for `Storage` and its proofs |
| `EngineProofs` | theorems of `Engine`, `Quoting`, `Ledger` and `EngineAudit` |
| `EngineRelayProofs`, `StorageProofs`, `StrategyViewProofs`, `HistoryPagesProofs` | theorems of the module each is named after |
| `PanelProofs` | theorems of `PanelData` and `PanelControls` |
| `DashboardProofs` | theorems of `Topology`, `Risk`, `TableSort` and `GeoMap` |
| `FiniteLemmas` | what several of them need: induction over finite sets, sums over them, places of a list |
| `MCEngine`, `MCEngineRelay`, `MCStorage` | instances for TLC of one module |
| `MCRecovery` | `Quoting`, `EngineRelay`, `StrategyView` and `HistoryPages` with their fairness |
| `MCDashboard` | `Topology`, `PanelData`, `PanelControls`, `Risk`, `TableSort` and `GeoMap` |

`Engine` composes the tick loop, the handlers and the hedges, which share the
engine's lock. `Storage` composes the bots' writers, the relays' fills, the
database and the routes over them. `StrategyView` composes bot, relay and
dashboard, each reduced to the strategy; `PanelData` relay, database and panel,
reduced to which payload a piece of data came with; `PanelControls` panels, web
server and bot, reduced to the settings; `Topology` browsers and web server. A
name is used for the same thing in all of them, but the modules share no
definitions: each keeps of its neighbours only what its own properties tell
apart.

`MCRecovery` and `MCDashboard` put specifications that share no state side by
side. A variable `part` says which of them a behaviour runs, and the others keep
one initial state; a property of one holds in the behaviours of another exactly
if it holds in that state. The state space is the sum of the parts' and not
their product.

### Engine and the code

The lock makes each critical section one action:

| Action | Code |
| --- | --- |
| `ComputeOrders` | step 1 of `bot_tick_once`: `compute_orders` |
| `AnswerOrder`, `LoseOrder` | `place_exchange_orders`: each POST of the batch ends by itself, with an answer or dropped |
| `Publish` | `publish_tick_payload` when `join_all` has them all: `process_exchange_fills`, `update_quotes_and_inventory`, counters |
| `StreamConnect` | `serve_ws_socket` builds a payload, with all side effects of one |
| `UpdateConfig`, `PausePair`, `KillSwitch`, `SetStrategy`, `ResetSession` | the handlers of `router/` |
| `StartHedge`, `AnswerHedge`, `ApplyHedge`, `FailHedge` | `manual_hedge` up to the POST, the exchange, `update_pair_after_hedge`, the 502 or a dropped handler |

Abstractions:

- Inventory is counted in integer units, and `apply_ratio` rounds to zero
  where the decimals of the code do not. No property compares an inventory with
  an exact fraction of another: shrinking and sign are what they need.
- A config is a function from pairs. `MMConfig` is a list, and a list with a
  pair twice (which the schema does not exclude) would quote it twice.
- Prices, spreads, PnL and the simulated health figures are left out, and
  `fill_seq`, which only numbers fills.
- The exchange is its outcomes: an order fills or not, and its answer arrives
  or not. A lost order's execution is placed at the moment the loss is noticed;
  nothing reads `position` in between.
- `position`, `gap` and `carry` are history variables: what was executed, what
  of it the engine stopped tracking, and how many orders were out at the last
  reset.
- A bot that restarts begins at `Init`: nothing of the engine is reloaded.

`Quoting` has the same tick loop over any number of ticks. Of a pair it knows
only whether it may be quoted; which orders fill, and what the inventory then
is, are free choices. Its variables are variables or functions of variables of
`Engine`, so the refinement mapping is the one written at the `INSTANCE`.

`Ledger` is the other abstraction of `Engine`: there are no pairs that quote and
no phases of a tick, only orders, each with its account and a signed amount. An
order is out, then refused, filled or missed; what is filled is booked with its
batch (`Settle`), by itself (`Enter`), or given up with its request (`GiveUp`);
a payload may shrink the book and a reset empties it, both on record.
`EngineAudit` maps to it:

| `Ledger` | `Engine` |
| --- | --- |
| `out` | `pending` and the hedges that are `"sent"`, as signed amounts |
| `executed` | `fills` and the hedges that are `"filled"` |
| `book`, `position`, `writtenOff` | `inventory`, `position`, `gap` |
| `Ask` | `ComputeOrders`, `StartHedge` |
| `Refuse`, `Fill`, `Miss` | `AnswerOrder`, `LoseOrder`, `AnswerHedge`, `FailHedge` by their outcomes |
| `Settle` | `Publish` with the batch, `StreamConnect` without |
| `Enter`, `GiveUp` | `ApplyHedge`, and `FailHedge` of a filled hedge |
| `Clear` | `ResetSession` |
| a stutter | the other handlers, and hedges that end without an execution |

`BooksBalance` says that the sums agree; `LedgerKept` says which steps may
change them, so two mistakes that cancel out would violate it.

### EngineRelay and the code

JavaScript runs one callback at a time, so each event handler is one action;
what interleaves is the order of the events.

| Action | Code |
| --- | --- |
| `Snapshot`, `Subscribe` | requests: `pruneInactiveRelays`, `syncBotRelay`, then `getRelaySnapshot` or `subscribeToEngineStream` |
| `Abort` | the abort handler of `/api/stream` |
| `UpdateTopology` | `updateRuntimeTopology`; relays follow on the next request only |
| `ResetAllRelays` | `resetAllRelays` |
| `Open`, `Message`, `Garbage`, `Error`, `Close` | the handlers `connect` puts on a socket |
| `Reconnect` | the timer of `scheduleReconnect` |
| `Emit`, `Toggle` | the bot process at an address: a payload; it or the network starts or stops |

Abstractions:

- A payload is its place in the log of the bot that sent it and the alerts
  `deriveAlerts` finds in it. One history stands for all the capped lists.
- `ALERT_WEBHOOK_URL` is set, and a webhook counts as told when it is sent.
- The first message of a stream is built on connect from the bot's present
  state, which is that of its last payload.
- A socket that was closed by the relay may deliver messages until the close
  handshake ends, and an open socket whose bot stopped may close without an
  error.
- `told` and `forgot` are history variables.

### StrategyView and the code

`Select`, `Succeed` and `Fail` are `onMutate`, `onSuccess` and `onError` of
`useStrategyMutation`; `Poll`, `AnswerPoll` and `Receive` one round of
`useBotQuotesQuery`; `Render` is the `select` function, which may clear the
store and which runs in every action that changes what it reads. `Rerender` is
a render for another reason: other queries of the panel, clicks.

The panel is keyed by its bot (`market-maker-dashboard.tsx:121`). `Leave` and
`Return` unmount it and mount a new one; `shown` is `None` in between, and
`Forget` lets the cached answer expire. `isPending` belongs to the panel: the
new one enables its presets while POSTs of the old one are under way. `posts`
is therefore a set, and a POST knows what the cache held before it
(`previous`) and whether its panel is still mounted (`own`). Its callbacks run
either way. `Commit` is what they write: a panel that is mounted renders it,
its own as the mutation ends and another when the cached answer changes, and
without one (`Write`) only the cache and the store change.

The time of the lock is not modelled: `LockExpires` may happen at any point, and
if it happens before the selection has spread, nothing is claimed of what is
shown then (`confirmed` is `None`). A POST that failed for the dashboard may
reach the bot later (`stray`), since nothing cancels what the web server
forwards. `confirmed`, `holder` and `changedBy` are history variables: the
selection that was confirmed, the POST that set the optimistic value last and
the one that changed the bot last.

### Storage and the code

`Tick` is a payload of a bot; from then on the inserts of each table and the
prunes, one statement each, run in any order, as the tasks of `persist_payload`
do, and the next tick waits for all of them. `Log` and `PruneLogs` are
`write_system_log`. `BeginReset`, `ResetBot` (or `ResetBotFails`), `DeleteRows`
are the steps of `DELETE /api/reset`. `Answer` is `GET /api/fills`. A row is
its bot, the name it is stored under, its tick and its session; the filter by
pair is left out, and the queries of one answer see the same rows.

### Topology and the code

| Action | Code |
| --- | --- |
| `Mount`, `Leave` | the dashboard page is opened (loaded, or reached from another page of the site) and left; opening posts what `loadTopologyFromStorage` finds |
| `Refetch`, `ServeFetch`, `EndFetch`, `FailFetch` | the query of `GET /api/topology` |
| `SetExchangeDomain`, `SetBotName`, `SetBotDomain`, `RemoveBot`, `AddBot` | the fields and buttons of `topology-config-section.tsx` |
| `SaveTopology`, `ServePost`, `EndPost`, `FailPost` | the mutation, `POST /api/topology` with `updateRuntimeTopology`, `onSuccess` |
| `SelectBotTab` | a tab of a bot |
| `RestartWeb` | the record is seeded from the environment again |

A domain is a class of addresses: one on localhost, one with the port the forms
rewrite it to, a remote one, none. A location is there or not. `seen` and
`dropped` of a post are history: the bots its dashboard knew of, and those the
operator removed.

### PanelData and the code

Data is the number of the payload it came with; `script` says what the payloads
contain. `Payload` is `ingestPayload`, `Served` the answers of the four routes a
panel polls, `Resolved` `resolveNetworkFirstCacheFallback`, `Kept` and
`UsingCache` the sticky sections, `StreamStale` and `Marked` the marks of the
ten sections, `Logged` the effect of the event log. `Poll` and `EndPoll` are the
two ends of a request, and whatever happens in between; `DropPoll` is a failed
or cancelled one; `CloseTab`, `OpenTab` and `Forget` unmount and mount the panel
and let the query cache expire. `StoreFills` is the bot's insert, which
`Storage` models in detail. Fills alone can come from the database instead.

### PanelControls and the code

A request is `sent`, `applied` by the bot and `done` in the dashboard, or
`refused` by the schema, `failed`, or `stray`: failed for the dashboard and still
on its way. `ToggleKillSwitch`, `EngageKillSwitch` and `CloseConfirm` are the
kill switch with its confirmation, `UpdatePair` and `SaveConfig` the form,
whose edits (`overrides`) stay after a save, `PairAction` the buttons of the
inventory table, `Forward` a proxy route and the bot's handler behind it,
`ShowAnswer` a poll, `SwitchTab` a panel that is mounted anew while its requests
go on. A config gives a pair one decimal field and its enabled flag: the other
fields are treated alike. The settings a panel shows are those of a moment; what
may lie between is `PanelData`.

### HistoryPages and the code

Rows are numbered. `ReadItems` and `ReadTotal` are the two queries of one
request, each with its own view of the table; `Keep` stores the answer under the
page in its query key; `RefetchPage` is the interval; `EndDeletion` is
`onSuccess` of the deletion, which turns to first pages, drops fetches for pages
that have an answer and joins those that have none. Filters of the tables are
left out: another filter is another query key, as another page is.

### Risk, TableSort, GeoMap and the code

`Risk` computes `AllMetrics` and `Breaches` as `risk-metrics.ts` and
`DeriveAlerts` as `alert-service.ts` do, over one sheet of figures that changes
figure by figure; figures are integers in units fine enough for every threshold.
`TableSort` sorts as the tables' comparator does, on the page the query cache
holds: `Sorted` counts the rows that stand before a row, and `TableShowsPage`
says that this is a stable sort. `GeoMap` asks (`Ask`) and answers (`Answer`)
lookups per address and builds the markers of `buildMarkers` and the offsets of
`buildMarkerPixelOffsets` in whole pixels: `Math.round(12 * Math.cos(angle))`
falls by one at 24 angles of half a turn, which `PixelSteps` lists in millionths
of a turn, and `RoundedCos` counts those passed. For up to 751 markers around one place
no angle lies between a step and its rounding to millionths, so that the model
gives the pixels of the code.

## Runs

| Run | Shows |
| --- | --- |
| `engine_hedge` | `BooksBalance`, `LedgerKept`: two concurrent hedges, two ticks, lost answers, auto-hedges, resets: each execution is booked once, or written off at a known place, and by steps that `Ledger` has |
| `engine_operator` | `TypeOK`, `FillsCovered`, `TickNeverExposes`, `QuotesAsPromised`: a tick with every handler at every point, configs that add, drop and disable pairs |
| `engine_cautious` | `ExposureBound` over four ticks under the operating discipline, with two presets of which the second has a lower limit |
| `relay_moves` | `NoLeakedSocket`, `RetryArmed`, `ListenersAreOpen`, `AnnouncedAreCurrent`: two bots between two addresses, late messages, failures, resets, a dashboard |
| `storage` | `Retained`, `LeftoversFromOneTick`, `PagesCover`: two bots, failed statements, crashes, resets, relays that come and go |
| `recovery` | `KillSwitchQuiesces`, `PauseQuiesces`: orders die out once the kill switch, or a pause, stands, whatever else operators do; `Reconnects`: a relay that stays at a reachable address ends up connected; `Converges`, `ConfirmedIsShown`: two selections, of one panel or of two mounted one after the other with their POSTs overlapping, against stale polls, lost answers, late POSTs, restarts and another operator; `PagesCatchUp`, `AnswersKeepTheirPage`, `PastEndExplained`: turned pages against late answers, inserts, prunes and deletions; the types of `StrategyView` |
| `dashboard` | `TopologiesWellFormed`, `RefusedForFields`, `PlacesSurvive`, `DropsExplained`: two dashboards that edit, save and restore one topology; `DisconnectedIsMarked`, `NeverBackwards`, `LogTellsState`: a panel over lost streams, resets, restarts and changes of tab; `KillSwitchObeyed`, `SavesOwnEdits`: two panels that control one bot; `AlertsAreBreaches`, `TopBreachesAreTheWorst`, `TableShowsPage`, `MarkersFollowTopology`, `NoMarkerHidden` |

Five runs show where the code does not do what the repository says of it:

| Run | Violated | Because |
| --- | --- | --- |
| `engine_kill_orders` | `NoOrdersWhileKilled` | `manual_hedge` does not look at the kill switch |
| `relay_unwatched` | `NotifiedWithoutDashboard` | relays start when a dashboard asks for them, so a fresh web server alerts nobody |
| `strategy_stuck` | `ServerDataTakesOver` | the optimistic value is given up only for an equal one, so a strategy changed elsewhere is never shown |
| `storage_foreign` | `FillsAreOwn` | without legacy ids the last query of `GET /api/fills` has no condition on the bot |
| `panel_submitting` | `SubmittingIsUnderWay` | the pair of an action is read from the mutation's variables, which outlive the request, so its buttons stay on "Submitting..." |

Bounds, and why they suffice:

- `Engine`: `MaxTicks` ticks that send orders, `MaxHedges` hedges that send one,
  limits two or three orders wide. An inventory passes a limit of two orders in
  three ticks, so in `engine_cautious` breach, auto-hedge, unpausing and a
  second breach all occur; a reset can fall in any gap of a tick; two hedges are
  enough for one to be sized from what the other is about to change. A property
  that failed only with more pairs would have to relate two of them, and no
  handler does except through the flags that `KillSwitch` and `ResetSession`
  copy to all. `Hedgers` are symmetric: requests differ by nothing but identity.
- `EngineRelay`: two bots, two addresses, one topology update, one payload per
  address and a history of one. A relay holds at most one socket, so `SocketIds`
  of two lets an old socket of a bot live beside its new one. Bots, addresses
  and sockets occur in no order and in no constant expression, so all three are
  symmetric in `relay_moves`, which checks no temporal property. What the
  bounds cut off is covered by the proofs.
- `StrategyView`: two strategies (a third would differ from both as they differ
  from each other), one payload under way, so that relay, stream and the answer
  of a poll can each hold another strategy than the bot, two selections so that a
  POST of the first can arrive after the second, one change of tab (`MaxTabs`),
  after which both POSTs can be under way together, one change from elsewhere, one
  fault, and any three of these together (`MaxUsed`). Two POSTs that overlap take
  all three: two selections and the change of tab; the proof of
  `ConfirmedIsShown` has no bound. `strategy_stuck` needs no tab.
- `Storage`: `Budgets` says how many payloads, log entries, resets, connections
  and failures there may be in one behaviour; a few budgets that each
  concentrate on one subject take the place of one large product. The cap is
  one row, and four payloads pass every bound that a bot which does not prune
  could pass. When a budget is spent the model stops, so deadlock is not
  checked there.
- `HistoryPages`: a table of two rows shown one by one, with a third page that
  an insert opens; `HistoryPlans` combine an insert, another's deletion, one or
  two turned pages, a deletion and a failure. A page before, at and after the
  end of the table all occur, with either query of a request on either side of
  every change.
- `Topology`: an environment with two bots, browsers that hold nothing, another
  environment's topology or one the schema refuses, two posts (`MaxPosts`) so
  that one can be computed from what the other overwrites, forms of up to three
  bots (`MaxBots`) so that one can be added and another removed; `Plans` spend
  edits, openings, tabs, failures and a restart on one subject each.
- `PanelData`: two payloads, one before and one after whatever happens, in
  scripts where the second has more or less than the first; `PanelPlans` poll
  one or two queries at a time (the sections relate at most data of two) and
  lose a stream, reset, restart or change tabs.
- `PanelControls`: two dashboards and one pair with a decimal field of two
  values and one the schema refuses; three toggles, or two configs of two
  edits, or one request of each other kind (`ControlPlans`).
- `Risk`: from a calm, an empty and a stormy sheet, four figures (`MaxMoves`)
  take values on either side of their thresholds, missing ones included.
  `TableSort`: pages of no and of three rows, with missing and equal values and
  equal times.
  `GeoMap`: three topologies in which ids keep or change their address, shown
  two after the other (`MaxShown`), with one answer that becomes stale
  (`MaxLookups`).
- In `dashboard` the two browsers, which are also the operators, are symmetric:
  no constant tells them apart and no property there is a liveness property.
  Deadlock is not checked, since budgets run out.

Fairness:

- `Quoting`: the interval keeps the tick loop going and its answers are booked,
  and each call to the exchange ends. The last is an assumption about the
  environment: `reqwest::Client::new()` has no timeout, and an exchange that
  holds a connection open stops the loop. Operators and hedges owe nothing.
- `EngineRelay`: events of sockets and timers are delivered; no request has to
  come.
- `StrategyView`: timers fire, polls and POSTs end, the stream reconnects and
  carries ticks. Failures are never required, nor are clicks, and no tab has to be
  opened.
- `HistoryPages`: the interval refetches the page on display, the database
  answers both queries and the server the request.
- In `recovery` each part has its own fairness while it runs and none while it
  does not; every fair action changes only its part's variables, so this is the
  fairness the part has alone.

The operating discipline (`CautiousSpec` in `Engine`): config, strategy,
unpausing and disengaging are used with no order out and on flat inventories
only, hedges not at all. Without it the bound does not hold: disengaging resumes
a pair that was paused over its limit, and it fills again before a payload
pauses it.

What modelling showed besides:

- Pairs dropped from the config stay paused through a reset
  (`apps/bot/src/state/engine_reset.rs:24`), though the comment at line 8 speaks
  of startup defaults.
- `pause_pair`, `update_config` and `set_strategy` unpause pairs while the kill
  switch is engaged (`router/update_config.rs:24`); no quotes follow, since
  `compute_orders` looks at the switch itself.
- A manual hedge is sized before the exchange is awaited and applied to whatever
  the inventory is then, so it can grow it (`update_pair_after_hedge.rs:26`).
- A socket that was told to close still ingests what arrives on it, and can
  recreate the relay of a removed bot (`server/engine-relay.ts:164`).
- Dashboards whose bot was removed and added again keep a stream that hears
  nothing more (`server/engine-relay.ts:230`).
- A reset drops the alerts a relay knew, so standing ones are announced again
  and cleared ones never resolved (`server/engine-relay.ts:275`).
- Relays are reset before the bots are, so payloads of the old session refill
  them in between (`app/api/reset/route.ts:11`).
- Opening a dashboard posts the topology its browser saved last
  (`market-maker-dashboard.tsx:34`): bots another dashboard added since
  disappear for everybody (`DropsExplained` says that this, and a form that had
  not seen them, are the only ways).
- A `GET /api/topology` answered before a save can arrive after the save's
  answer and put the older topology back into the query cache and the form.
- Edits of the config form stay after a save, so a second save overwrites what
  another dashboard did to the same fields in between
  (`config-panel-section.tsx:30`).
- A change of tab while a preset's POST is under way mounts a panel whose presets
  are enabled (`market-maker-dashboard.tsx:121`). If the bot applies the first
  selection and then the second, and the answers come the other way round, the
  first one's `onSuccess` (`use-strategy-mutation.ts:67`) holds the older selection,
  and the dashboard shows it for good although nobody else changed the bot. The
  first one's `onError` (line 59) drops the later selection and restores a cache
  from before both. `Converges` excepts the first of these ends by name: an answer
  is held and it is not the one of the POST that changed the bot last.
- The PnL history calls the first row of any page the "Latest snapshot", of
  page two too (`pnl-history-section.tsx:36`, `:62`), where it is only the newest of
  its page.
- Of 65 services at one place two are drawn over each other: the eighth and the
  ninth are both moved by (9, 8) (`marker-overlap.ts:20`). `NoMarkerHidden` holds
  up to 64 (`MaxOrbiting`).
- A change of tab while a kill switch request is under way mounts a new panel,
  whose button is enabled at once: two toggles may then be applied in either
  order (`kill-switch-section.tsx:33`).
- Fills may go back to older ones, since the database answers for a relay
  without stream and fills; other sections do not (`NeverBackwards`).
- After a reset empties a relay, panels keep showing the cached answer together
  with its `connected: true` until the relay has data again
  (`lib/query-cache-fallback.ts:10`).
- When another operator deletes the history, a page past the end shows no rows
  and no buttons to turn back, until the page is left or its own history deleted.
- Retention is table-wide: a bot that writes more displaces the rows of others,
  and a table exceeds the cap while inserts overtake prunes (`Retained`).

## Proofs

Every safety property that a passing run checks, invariant or action property,
is a theorem as well, for all values of the constants.

`EngineProofs`, for every finite set of pairs and all limits, sizes, presets:

- `TypeCorrect`: `Spec => []TypeOK`, with one step per action. It carries what
  the others need: orders are for known pairs, adverse fills are fills, an idle
  loop has no order out.
- `TickSafe`: `Spec => TickNeverExposes`. A pair still active after a payload
  was not breached before the auto-hedge, and `AutoHedgeShrinks` says the
  auto-hedge does not grow an inventory.
- `CountersCovered`: `Spec => []FillsCovered`. Inductive together with `TypeOK`;
  a tick adds two orders per counted quote (`FS_Product`), a reset records those
  that are out.
- `ExposureBounded`: `CautiousSpec => []ExposureBound`. Not inductive alone:
  `QuotersWithinLimit` adds that a pair that quotes, or has an order out, is
  within the limit itself, so one fill is all that can carry it over.
- `EngineQuotesAsPromised`: `Spec => QuotesAsPromised`, the refinement of
  `Quoting`: initial states map to initial states and each action to an action
  of `Quoting` or a stutter.
- `OrdersEndWithTheirTick`: `Spec => []Q!TypeOK`. `QuotingType` proves the type
  invariant of `Quoting` of `Quoting`; the refinement carries it over.
- `TickOrdersOnlyDrain`: while the kill switch is engaged the tick's orders only
  become fewer, and at any time a new one is for a pair that is active when it
  is sent. A step of `Quoting` has this property (`QuotingDrains`), and `Engine`
  has no others. It is the safety half of `KillSwitchQuiesces` and
  `PauseQuiesces`; the other half, that orders do end, needs the fairness.
- `BooksAlwaysBalance`: `Spec => []BooksBalance`. The books of a pair are sums
  over the orders that are out and over the hedges that are filled but not
  booked. `AuditInv` adds that no order is executed twice (`OrdersOnce`) and that
  two requests never have one hedge (`HedgesOnce`), without which taking a hedge
  out of the sum could take out another's too.
- `EngineKeepsTheLedger`: `Spec => LedgerKept`, the refinement of `Ledger`
  (`InitLedger`, `NextLedger`, one step per action). The mapping makes sets of
  records out of sets of orders and hedges, so a step that takes one order out
  must take out one record: again `OrdersOnce` and `HedgesOnce`, by which no two
  orders that live at a time have one record. `Publish` is the step that
  needs an argument: the engine books fill by fill in each pair, `Ledger` the sum
  of the batch (`PayloadSettles`), and what `AutoHedged` leaves is between zero and
  that.
- `LedgerBalances`: `Spec => [](L!TypeOK /\ L!Balanced)`. The books of `Ledger`
  balance whoever keeps them (`LedgerKeepsBalance`, proved of `Ledger` alone), and
  the refinement carries this over to the engine.

`EngineRelayProofs`, for any sets of bots, addresses, sockets, dashboards,
alerts and any bounds:

- `TypeCorrect`: `Spec => []TypeOK`.
- `SocketsNeverLeak`, `RelaysKeepRetrying`: `NoLeakedSocket` and `RetryArmed`.
  Neither is inductive. `Linked` joins them with `SocketsInUse` (a
  socket that is not free has a bot and an address, a free one has no bot) and `StartedHasUrl`:
  a close event needs them to know that the socket it clears is the relay's, a
  timer that there is an address to connect to.
- `ListenersEndWithDashboards`: `ListenersAreOpen`. A deleted relay takes its
  listeners along, so a dashboard is listened for at most where it subscribed.
- `AnnouncementsCurrent`: `AnnouncedAreCurrent`. `Remembered` adds, per bot,
  that a relay's set of active alerts is what was announced and that both are
  those of the newest payload it keeps.
- `WebhooksSentOnce`: a message makes the webhooks announce only what they had
  not announced and resolve only what they had (`SentOnce`), unless a reset or a
  prune made the relay forget it. From `Remembered`, which holds whenever a
  message arrives, on a moved or closed socket too.

`StorageProofs`, for any finite set of bots, any tables, names, caps and page
sizes:

- `TypeCorrect`: `Spec => []TypeOK`.
- `RetentionHolds`: `Spec => []Retained`. A prune brings a table down to the cap
  but says nothing of the rows to come. `RetainedInv` bounds the rows together
  with what each bot still owes the table until its next prune (`Owed`), a sum
  over bots; `PersistOwn` says that a bot that owes has begun a tick.
- `ResetLeavesOneTick`: `Spec => []LeftoversFromOneTick`. The payload a bot is
  persisting is a leftover to be; `OneTick` speaks of the rows stored and those
  together, and of no bot that is left to reset when no reset runs.
- `PagingCovers`: `Spec => []PagesCover`. It follows from the types: rows are
  told apart by their place in the table, a page is the places of certain ranks,
  and merging the answers of several names keeps each place once.

`StrategyViewProofs`, for any strategies, any number of selections, changes of
tab, changes from elsewhere and faults, and so for any number of POSTs under way
together:

- `TypeCorrect`: `Spec => []TypeOK`. `Pending` adds that an answered poll has an
  answer and that a panel whose own POST is under way is mounted and has data,
  without which it could not render what the POST's callbacks write.
- `ConfirmedStaysShown`: `Spec => []ConfirmedIsShown`. It speaks of the display
  alone and is far from inductive. `Displayed` adds what protects it, mounted or
  not: while the lock runs, the selection is held; without it, `Settled`,
  everything that can still reach the dashboard (relay, stream, poll) says the
  same or is empty, and the cache is not, so that an empty answer loses against
  it. POSTs of earlier panels may be under way all the time; one of them ends the
  claim only when it reaches the bot or is answered.

`PanelProofs`, for any scripts of payloads and any plans:

- `DisconnectedDataIsMarked`: `PanelSpec => []DisconnectedIsMarked`. What the
  types (`PanelTyped`) have to say for it is that health, config, PnL and
  inventory carry the number of the answer they came with (`Together`): the risk
  section does not look at the config and the fills when the stream is gone, but
  always at the health that came along.
- `NothingGoesBackwards`: `PanelSpec => []NeverBackwards`. `InOrder` orders, for
  each kind, what the panel kept, what is cached, what is under way and what the
  relay has; the database, which has no place in that order, is why fills are
  excepted.
- `LogSaysWhatIsShown`: `PanelSpec => []LogTellsState`, from `LogKept`: the refs
  of a panel on display hold what is shown.

`PanelProofs` also, for any dashboards, pairs, values and plans:

- `SavesOnlyEdits`: `ControlSpec => SavesOwnEdits`. `EditsKept` adds to the types
  that a form overrides edited fields only and that a saved config differs from
  what its panel showed in edited fields only, however long it is under way.
- `KillSwitchIsObeyed`: `ControlSpec => []KillSwitchObeyed`. `KillInv` adds that a
  confirmation is open only while no toggle of its panel is under way, that the
  toggles of a dashboard are sent one after the other (`TogglesInTurn`), and
  that the bot has what the last toggle it took says (`KillAsAsked`).

`HistoryPagesProofs`, for any tables, page sizes, caps and plans:

- `AnswersStayOnTheirPage`: `HistorySpec => []AnswersKeepTheirPage`. The same has
  to hold of the rows of requests under way (`RequestsInPlace`), and that a table's
  newest row only grows.
- `OnlyLossLeadsPastTheEnd`: `HistorySpec => []PastEndExplained`. `Counted` says of
  tables that lost nothing that no total, cached or under way, exceeds the rows
  there are; `PageWithinTotal` that a page the pager offers starts before its
  total ends.

`DashboardProofs`, for any browsers, environment, stored topologies and plans:

- `TopologiesStayWellFormed`: `TopologySpec => []TopologiesWellFormed`.
  `TopologyInv` adds it of what is on its way, the requests and answers, and that
  a form lists every bot of its topology that was not removed. The step that needs an argument
  is `AddBot`: `NextBotId` finds a free number among as many as there are bots,
  and one more (`NextIsFree`).
- `OnlyFieldsAreRefused`: `TopologySpec => []RefusedForFields`, of what forms
  post, from the same invariant.
- `PlacesAreKept`, `DropsHaveReasons`: `PlacesSurvive`, `DropsExplained`, of each
  step that changes what is served (`ServingChanges`): a restart, or a post the
  schema accepts, which has every bot its dashboard had seen and not removed.

For any figures, pairs and feeds:

- `TopBreachesAreWorst`: `RiskSpec => []TopBreachesAreTheWorst`. A report joins
  the metrics of four sections, each with names of its own (`ReportsJoin`), so
  breaches can be counted and picked by place.
- `AlertsAreInTheReport`: `RiskSpec => []AlertsAreBreaches`. An alert compares
  an inventory with a share of its limit, the report with thresholds in whole
  percents of it: what is more than the share is no less than the percentage
  (`ShareOfLimit`), and the report's thresholds are not above the alerts'.

For pages of any length:

- `TablesShowTheirPages`: `TableSpec => []TableShowsPage`. The comparator with the
  place as a tie-break is a strict total order, and in such an order the number
  of elements before one takes each value once (`TotalOrderRanks`).

For any topologies, addresses and places:

- `MarkersAreWhereServicesAre`: `GeoSpec => []MarkersFollowTopology`. `GeoInv` says
  that an answer kept under an address was found for that address, also when it
  arrives after the topology changed.
- `MarkersAreApart`: `GeoSpec => []NoMarkerHidden`. Markers at one place have
  different numbers of markers before them, hence different angles. Two angles
  have the same rounded cosine, and the same rounded sine, only if they passed the
  same steps (`SameCos`); of up to 64 markers any two are parted by a step
  (`OffsetsDiffer`), and none comes to lie in the middle, where the dashboard's
  is (`NotInTheMiddle`). `BoundIsSharp` shows that of 65 two meet.

`FiniteLemmas`: the induction theorems of the library take an operator as a
parameter, which the provers cannot instantiate. Induction over the subsets of
a finite set can be had without: the strict subset ordering is well-founded, so
a set of counterexamples has a smallest one (`SubsetMinimal`,
`SubsetInduction`, where the property is a set of subsets). That the fold behind
`SumFunctionOnSet` has a value, that this does not depend on the order, and what
adding or changing an element does to a sum (`SumAdd`, `SumChange`, `SumBound`)
follow by it; so does what filtering a list by its places leaves
(`NthProperties`, `ElementsAtProperties`).

Assumed are only the constants' assumptions, which TLC evaluates:

- `Engine`: finitely many pairs, a positive order size, configs of the right
  type, presets that leave pairs enabled.
- `EngineRelay`: a positive cap. `HistoryPages`: positive sizes, tables that
  exist. `PanelData`: payloads of the right type. `StrategyView`: a default
  among the strategies and bounds that are numbers.
- `Storage`: finitely many bots; a list of tables that starts with the fills and
  in which the log, which handlers write, does not occur; positive caps.
- `Topology`: the environment's topology is one the schema accepts, since
  `buildInitialTopology` parses it; what browsers saved has only the shape of one.
- `Risk`: figures are what `engineStreamSchema` admits, limits not negative.
- `TableSort`: pages are lists of rows, in any order.
- `GeoMap`: finitely many known exchanges; no two services of a topology share
  an id, and none has that of a known exchange or of the dashboard, as bots' ids begin with
  `bot-` and are unique by the schema.
- Null values are no values, where a proof needs it.

Only model-checked is liveness (`KillSwitchQuiesces`, `PauseQuiesces`,
`Reconnects`, `Converges`, `PagesCatchUp`), which is out of the prover's reach.
`Quoting` is proved with any set of pairs and checked with two.

## Not modelled, and why

- Prices, spreads, PnL, volatility and the simulated health figures: random or
  floating-point values that nothing but the display, the risk report and the
  alerts depends on; there they are inputs.
- The market feed (`exchange/exchange.rs`): one task that connects, reads until
  an error and tries again after two seconds. It writes nothing but such
  figures.
- The ring buffer of the broadcast channel, which is the library's; that a slow
  stream is closed and loses payloads is in `EngineRelay` as a closed socket.
- What happens to a webhook after it was sent.
- Statistics for charts (averages, drawdown, exposure matrix, buckets) and
  fixed-point conversion: arithmetic on display values, without state.
- The drawing of charts, cards and the map; wording of logs and alerts.
- The database schema, migrations, deployment scripts and styles.
- Schema validation beyond what forms can violate (`Acceptable` in `Topology`,
  `Valid` in `PanelControls`): other inputs of the models are valid.

## What is left

1. `PanelControls` with the polls of `PanelData` in between, in place of
   `ShowAnswer`, and `EngineRelay` with the topology of `Topology` above it. Their
   states multiply, so each needs a smaller interface to the other first.
2. The filters of the paged routes, if they grow state.
