------------------------------ MODULE Storage ------------------------------
(***************************************************************************)
(* What the bots store and what the web server makes of it: per tick one   *)
(* task per table and a task that prunes, all concurrent; log entries of   *)
(* the handlers; the reset of all data over relays, bots and tables; and   *)
(* the pages of fills, from the relay, else from the database.             *)
(* The queries of one answer are taken to see the same rows.               *)
(*                                                                         *)
(* A row is the bot that wrote it, the tick it belongs to and the bot's    *)
(* session, which a reset ends; ticks are numbered downwards.  Tables are   *)
(* kept newest row first, the order of createdAt.                          *)
(* Statements of PostgreSQL are atomic; DATABASE_URL is set everywhere.    *)
(***************************************************************************)
EXTENDS Integers, Sequences, FiniteSets, Places

CONSTANTS
    Bots,         \* bots of the topology, each with one process
    Default,      \* DEFAULT_BOT_ID
    Names,        \* values of the botId column
    IdOf,         \* bot -> the name its topology id is
    BotIds,       \* what BOT_ID may be set to: functions from bots to names
    LegacyIds,    \* legacyBotIdCandidates of the default bot
    Tables,       \* payload tables, in the order they are pruned
    MaxRows,      \* MAX_ROWS_PER_TABLE
    RelayCap,     \* fills a relay keeps
    TickRows,     \* bound: rows of one payload in one table
    PageSize,
    Budgets       \* bounds: how many payloads, log entries, resets of all data,
                  \* connections of relays, and failures there will be

Budget == [ticks : Nat, logs : Nat, resets : Nat, streams : Nat, failures : Nat]

ASSUME StorageAssumption ==
    /\ IsFiniteSet(Bots) /\ Budgets \subseteq Budget
    /\ Default \in Bots /\ LegacyIds \subseteq Names
    /\ IdOf \in [Bots -> Names] /\ BotIds \subseteq [Bots -> Names]
    /\ MaxRows \in Nat \ {0} /\ RelayCap \in Nat \ {0} /\ PageSize \in Nat \ {0}
    /\ TickRows \in Nat \ {0}
    /\ Tables \in Seq(STRING) /\ Len(Tables) > 0 /\ Tables[1] = "Fill"
    /\ \A i \in DOMAIN Tables : Tables[i] # "SystemLog"

VARIABLES
    tables,     \* table -> rows, newest first
    logs,       \* number of rows of SystemLog
    logging,    \* handlers between the insert of an entry and the prune
    persisting, \* bot -> the tick being persisted, as long as a task runs
    session,    \* bot -> how often it was reset
    botId,      \* bot -> the name its process writes, BOT_ID or "bot"
    stream,     \* bot -> its relay's stream: "open" when connected is set, "reset"
                \* when only the socket is open
    relayFills, \* bot -> fills its relay keeps, newest first
    reset,      \* DELETE /api/reset: its progress and the bots still to answer
    budget,     \* what is left of the budget
    unpruned    \* history: table -> prunes that failed or were never run

databaseVars == <<tables, logs>>
botVars == <<logging, persisting, session, botId>>
webVars == <<stream, relayFills, reset>>
vars == <<databaseVars, botVars, webVars, budget, unpruned>>

-----------------------------------------------------------------------------
TableSet == {Tables[i] : i \in 1 .. Len(Tables)}

\* Faulty variant of Newest: off by one.
NewestAndOne(s, n) == SubSeq(s, 1, IF Len(s) <= n THEN Len(s) ELSE n + 1)

\* Newest(s, n): what LIMIT n leaves of s.
Newest(s, n) == SubSeq(s, 1, IF Len(s) < n THEN Len(s) ELSE n)

Repeat(x, n) == [i \in 1 .. n |-> x]

NoTick == [row |-> [bot |-> Default, name |-> IdOf[Default], tick |-> 0, session |-> 0],
           left |-> [t \in TableSet |-> 0], prune |-> <<>>]

Idle(b) ==
    /\ \A t \in TableSet : persisting[b].left[t] = 0
    /\ persisting[b].prune = <<>>

Init ==
    /\ tables = [t \in TableSet |-> <<>>] /\ logs = 0 /\ logging = 0
    /\ persisting = [b \in Bots |-> NoTick]
    /\ session = [b \in Bots |-> 0]
    /\ botId \in BotIds
    /\ stream = [b \in Bots |-> "closed"]
    /\ relayFills = [b \in Bots |-> <<>>]
    /\ reset = [status |-> "idle", pending |-> {}]
    /\ budget \in Budgets
    /\ unpruned = [t \in TableSet \cup {"SystemLog"} |-> 0]

Spend(what) ==
    /\ budget[what] > 0
    /\ budget' = [budget EXCEPT ![what] = @ - 1]

-----------------------------------------------------------------------------
(* The bots *)

\* publish_tick_payload with n fills: the payload goes out, then
\* persist_payload spawns the tasks and waits for them.
Tick(b, n) ==
    /\ Idle(b)
    /\ Spend("ticks")
    /\ LET row == [bot |-> b, name |-> botId[b], tick |-> budget.ticks,
                   session |-> session[b]]
       IN /\ persisting' = [persisting EXCEPT ![b] =
                [row |-> row,
                 left |-> [t \in TableSet |-> IF t = "Fill" THEN n ELSE TickRows],
                 prune |-> Tables]]
          /\ \/ /\ stream[b] # "closed"
                /\ stream' = [stream EXCEPT ![b] = "open"]
                /\ relayFills' =
                      [relayFills EXCEPT ![b] = Newest(Repeat(row, n) \o @, RelayCap)]
             \/ stream[b] = "closed" /\ UNCHANGED <<stream, relayFills>>
    /\ UNCHANGED <<databaseVars, logging, session, botId, reset, unpruned>>

\* One insert of write_fills, write_quotes, write_inventory or write_pnl.
Write(b, t) ==
    /\ persisting[b].left[t] > 0
    /\ tables' = [tables EXCEPT ![t] = <<persisting[b].row>> \o @]
    /\ persisting' = [persisting EXCEPT ![b].left[t] = @ - 1]
    /\ UNCHANGED <<logs, logging, session, botId, webVars, budget, unpruned>>

\* A failed insert ends its task.
WriteFails(b, t) ==
    /\ persisting[b].left[t] > 0
    /\ Spend("failures")
    /\ persisting' = [persisting EXCEPT ![b].left[t] = 0]
    /\ UNCHANGED <<databaseVars, logging, session, botId, webVars, unpruned>>

\* prune_oldest_rows: whoever prunes a table prunes the rows of all bots.
Pruned(s) == Newest(s, MaxRows)

\* Faulty variant of Prune: the task returns after the first table.
PruneFirst(b) ==
    /\ persisting[b].prune # <<>>
    /\ LET t == Head(persisting[b].prune)
       IN tables' = [tables EXCEPT ![t] = Pruned(@)]
    /\ persisting' = [persisting EXCEPT ![b].prune = <<>>]
    /\ UNCHANGED <<logs, logging, session, botId, webVars, budget, unpruned>>

\* The pruning task takes the tables in turn.
Prune(b) ==
    /\ persisting[b].prune # <<>>
    /\ LET t == Head(persisting[b].prune)
       IN tables' = [tables EXCEPT ![t] = Pruned(@)]
    /\ persisting' = [persisting EXCEPT ![b].prune = Tail(@)]
    /\ UNCHANGED <<logs, logging, session, botId, webVars, budget, unpruned>>

\* A failed prune is logged, and the next table is pruned.
PruneFails(b) ==
    /\ persisting[b].prune # <<>>
    /\ Spend("failures")
    /\ unpruned' = [unpruned EXCEPT ![Head(persisting[b].prune)] = @ + 1]
    /\ persisting' = [persisting EXCEPT ![b].prune = Tail(@)]
    /\ UNCHANGED <<databaseVars, logging, session, botId, webVars>>

\* write_system_log: the entry is inserted, or not, and SystemLog pruned, or not.
Log ==
    /\ Spend("logs")
    /\ \/ logs' = logs + 1
       \/ UNCHANGED logs
    /\ logging' = logging + 1
    /\ UNCHANGED <<tables, persisting, session, botId, webVars, unpruned>>

PrunedLogs == IF logs > MaxRows THEN MaxRows ELSE logs

PruneLogs ==
    /\ logging > 0
    /\ logging' = logging - 1
    /\ \/ logs' = PrunedLogs /\ UNCHANGED <<budget, unpruned>>
       \/ /\ Spend("failures")
          /\ unpruned' = [unpruned EXCEPT !["SystemLog"] = @ + 1]
          /\ UNCHANGED logs
    /\ UNCHANGED <<tables, persisting, session, botId, webVars>>

\* The bot's process dies with its tasks, and with some of the handlers that
\* log, and starts anew; what is stored stays.
Crash(b) ==
    /\ Spend("failures")
    /\ \E k \in 0 .. logging :
          /\ logging' = logging - k
          /\ unpruned' = [t \in DOMAIN unpruned |->
                IF t = "SystemLog" THEN unpruned[t] + k
                ELSE IF \E i \in DOMAIN persisting[b].prune : persisting[b].prune[i] = t
                THEN unpruned[t] + 1 ELSE unpruned[t]]
    /\ persisting' = [persisting EXCEPT ![b] = [NoTick EXCEPT !.row = persisting[b].row]]
    /\ stream' = [stream EXCEPT ![b] = "closed"]
    /\ UNCHANGED <<databaseVars, session, botId, relayFills, reset>>

-----------------------------------------------------------------------------
(* The web server *)

Connect(b) ==
    /\ stream[b] = "closed"
    /\ Spend("streams")
    /\ stream' = [stream EXCEPT ![b] = "open"]
    /\ UNCHANGED <<databaseVars, botVars, relayFills, reset, unpruned>>

Disconnect(b) ==
    /\ stream[b] # "closed"
    /\ Spend("failures")
    /\ stream' = [stream EXCEPT ![b] = "closed"]
    /\ UNCHANGED <<databaseVars, botVars, relayFills, reset, unpruned>>

\* DELETE /api/reset: the relays first, then POST /reset to every bot.
BeginReset ==
    /\ reset.status = "idle"
    /\ Spend("resets")
    /\ relayFills' = [b \in Bots |-> <<>>]
    /\ stream' = [b \in Bots |-> IF stream[b] = "open" THEN "reset" ELSE stream[b]]
    /\ reset' = [status |-> "bots", pending |-> Bots]
    /\ UNCHANGED <<databaseVars, botVars, unpruned>>

\* reset_session, in the bot; what it is persisting stays.
ResetBot(b) ==
    /\ b \in reset.pending
    /\ session' = [session EXCEPT ![b] = @ + 1]
    /\ reset' = [reset EXCEPT !.pending = @ \ {b}]
    /\ UNCHANGED <<databaseVars, logging, persisting, botId, stream, relayFills,
                   budget, unpruned>>

\* An unreachable bot is logged and otherwise ignored.
ResetBotFails(b) ==
    /\ b \in reset.pending
    /\ Spend("failures")
    /\ reset' = [reset EXCEPT !.pending = @ \ {b}]
    /\ UNCHANGED <<databaseVars, botVars, stream, relayFills, unpruned>>

\* Faulty variant of MayDelete: the tables are emptied while bots still answer.
MayDeleteAnyTime == reset.status = "bots"

\* Promise.allSettled
MayDelete == reset.status = "bots" /\ reset.pending = {}

\* One transaction empties the four tables.
DeleteRows ==
    /\ MayDelete
    /\ tables' = [t \in TableSet |-> <<>>]
    /\ reset' = [reset EXCEPT !.status = "idle"]
    /\ UNCHANGED <<logs, botVars, stream, relayFills, budget, unpruned>>

\* DELETE /api/history: relays and bots are left as they are.
DeleteHistory ==
    /\ Spend("resets")
    /\ tables' = [t \in TableSet |-> <<>>]
    /\ UNCHANGED <<logs, botVars, webVars, unpruned>>

-----------------------------------------------------------------------------
(* GET /api/fills *)

\* s.slice(start, start + pageSize)
Slice(s, page) ==
    SubSeq(s, (page - 1) * PageSize + 1,
           IF Len(s) < page * PageSize THEN Len(s) ELSE page * PageSize)

\* The fills at some places of the table, newest first.
FillsAt(places) == ElementsAt(tables["Fill"], places)

\* The rows stored under a name of ids; no condition at all when there is none.
StoredAs(ids) ==
    LET all == tables["Fill"]
    IN FillsAt({i \in DOMAIN all : ids = {} \/ all[i].name \in ids})

\* Faulty variant of Fetched: each query takes one page, whichever is asked for.
FetchedOnePage(id, page) == Newest(StoredAs({id}), PageSize)

\* What the query for one of several ids takes.
Fetched(id, page) == Newest(StoredAs({id}), page * PageSize)

\* With several ids, their newest rows are merged by createdAt, which is the
\* order of the table.
MergedRows(ids, page) ==
    LET all == tables["Fill"]
        Count(id, i) == Cardinality({j \in 1 .. i : all[j].name = id})
    IN FillsAt({i \in DOMAIN all :
                    \E id \in ids : /\ all[i].name = id
                                    /\ Count(id, i) <= Len(Fetched(id, page))})

QueryDbFills(ids, page) ==
    LET rows == IF Cardinality(ids) > 1 THEN MergedRows(ids, page) ELSE StoredAs(ids)
    IN [items |-> Slice(rows, page), total |-> Len(rows)]

LegacyCandidates(b) == IF b = Default THEN LegacyIds \ {IdOf[b]} ELSE {}

\* The answer for a page of the fills of b.
Answer(b, page) ==
    LET stored == QueryDbFills({IdOf[b]}, page)
        legacy == QueryDbFills(LegacyCandidates(b), page)
    IN IF relayFills[b] # <<>> \/ stream[b] = "open"
       THEN [source |-> "relay", items |-> Slice(relayFills[b], page),
             total |-> Len(relayFills[b])]
       ELSE IF stored.total > 0
       THEN [source |-> "db", items |-> stored.items, total |-> stored.total]
       ELSE [source |-> "db-legacy-bot-id", items |-> legacy.items,
             total |-> legacy.total]

-----------------------------------------------------------------------------
BotNext ==
    \/ \E b \in Bots :
          \/ \E n \in 0 .. TickRows : Tick(b, n)
          \/ \E t \in TableSet : Write(b, t) \/ WriteFails(b, t)
          \/ Prune(b) \/ PruneFails(b) \/ Crash(b)
    \/ Log \/ PruneLogs

WebNext ==
    \/ \E b \in Bots : Connect(b) \/ Disconnect(b) \/ ResetBot(b) \/ ResetBotFails(b)
    \/ BeginReset \/ DeleteRows \/ DeleteHistory

Next == BotNext \/ WebNext

Spec == Init /\ [][Next]_vars

-----------------------------------------------------------------------------
(* Properties *)

Row == [bot : Bots, name : Names, tick : Nat, session : Nat]

\* Every variable has its type, and a relay keeps no more fills than it may.
TypeOK ==
    /\ tables \in [TableSet -> Seq(Row)]
    /\ logs \in Nat /\ logging \in Nat
    /\ persisting \in [Bots -> [row : Row, left : [TableSet -> 0 .. TickRows],
                                prune : Seq(TableSet)]]
    /\ session \in [Bots -> Nat]
    /\ botId \in BotIds
    /\ stream \in [Bots -> {"closed", "open", "reset"}]
    /\ relayFills \in [Bots -> Seq(Row)]
    /\ \A b \in Bots : Len(relayFills[b]) <= RelayCap
    /\ reset \in [status : {"idle", "bots"}, pending : SUBSET Bots]
    /\ budget \in Budget
    /\ unpruned \in [TableSet \cup {"SystemLog"} -> Nat]

\* The bots that have persisted a payload.
Writers == {b \in Bots : persisting[b].row.tick > 0}

\* Retention holds although pruning races the inserts it is meant for: a table
\* exceeds the cap by at most two payloads per bot that wrote, and by one more for
\* each prune that did not happen; SystemLog by the entries whose prune is still to
\* come.
Retained ==
    /\ \A t \in TableSet :
          Len(tables[t]) <= MaxRows + TickRows * (2 * Cardinality(Writers) + unpruned[t])
    /\ logs <= MaxRows + logging + unpruned["SystemLog"]

\* Once a reset of all data is over, the rows of a bot from before it reset are
\* in every table those of one payload, the one it was persisting.
LeftoversFromOneTick ==
    reset.status = "idle" =>
        \A t \in TableSet : \A i, j \in DOMAIN tables[t] :
            LET r == tables[t][i]
                q == tables[t][j]
            IN r.bot = q.bot /\ r.session < session[r.bot] /\ q.session < session[r.bot]
               => r.tick = q.tick

\* Paging neither loses nor repeats fills, wherever they come from: the i-th item
\* of a page is as many fills from the newest as its place says.
PagesCover ==
    \A b \in Bots :
        LET source == Answer(b, 1).source
            all == IF source = "relay" THEN relayFills[b]
                   ELSE IF source = "db" THEN StoredAs({IdOf[b]})
                   ELSE StoredAs(LegacyCandidates(b))
        IN \A n \in 1 .. RelayCap + 1, i \in 1 .. PageSize :
              LET items == Answer(b, n).items
                  place == (n - 1) * PageSize + i
              IN IF place > Len(all) THEN Len(items) < i
                 ELSE Len(items) >= i /\ items[i] = all[place]

\* "GET /api/fills?botId=<bot-id>", answered with that botId: the fills of a bot
\* that is not the default one are its own.
FillsAreOwn ==
    \A b \in Bots \ {Default}, n \in 1 .. RelayCap + 1 :
        \A i \in DOMAIN Answer(b, n).items : Answer(b, n).items[i].bot = b

=============================================================================
