----------------------------- MODULE EngineRelay -----------------------------
(***************************************************************************)
(* The web server's relay of the bot streams: one relay object per bot,    *)
(* its WebSocket and reconnect timer, the runtime topology it follows, the *)
(* dashboards that listen, and the alert webhooks sent on every payload.   *)
(*                                                                         *)
(* JavaScript runs one callback at a time, so each event handler is one    *)
(* action.  What interleaves is the order of the events: a socket that was *)
(* told to close still delivers, timers fire after topology changes, and   *)
(* relays are started, moved and pruned only when a request comes in.      *)
(*                                                                         *)
(* A payload is a place in the log of the bot that sent it and the alerts  *)
(* deriveAlerts finds in it.  ALERT_WEBHOOK_URL is set.                    *)
(***************************************************************************)
EXTENDS Integers, Sequences, FiniteSets

CONSTANTS
    Bots,           \* bot ids a topology may list
    Urls,           \* stream addresses, each served by one bot process
    Clients,        \* dashboards that open /api/stream
    Alerts,         \* alert ids
    SocketIds,      \* bound: sockets that exist at a time
    HistoryCap,     \* length the relay caps its histories to (500, 1000)
    MaxPayloads,    \* bound: payloads a bot process sends
    MaxTopologies,  \* bound: topology updates
    NoUrl, NoSocket, NoBot  \* null

ASSUME RelayAssumption ==
    /\ HistoryCap \in Nat \ {0}
    /\ MaxPayloads \in Nat
    /\ MaxTopologies \in Nat
    /\ NoUrl \notin Urls /\ NoSocket \notin SocketIds /\ NoBot \notin Bots

VARIABLES
    topology,   \* configured bots -> address
    relays,     \* the relays map: bot -> relay object
    sockets,    \* every WebSocket, also those no relay refers to any more
    clients,    \* bot whose stream a dashboard has open
    log,        \* what the bot process at an address has sent so far
    reachable,  \* the addresses that accept and keep connections
    updates,    \* topology updates so far
    told,       \* history: alerts of a bot the webhooks announced, not resolved
    forgot      \* history: bots whose announced alerts a reset or prune forgot

webVars == <<topology, relays, sockets, clients>>
webhookVars == <<told, forgot>>
vars == <<webVars, log, reachable, updates, webhookVars>>

-----------------------------------------------------------------------------
Payload == [url : Urls, n : Nat]

Relay == [started : BOOLEAN, url : Urls \cup {NoUrl},
          socket : SocketIds \cup {NoSocket}, timer : BOOLEAN,
          connected : BOOLEAN, history : Seq(Payload),
          activeAlerts : SUBSET Alerts, listeners : SUBSET Clients]

Socket == [status : {"free", "connecting", "open", "closing", "failed"},
           bot : Bots \cup {NoBot}, url : Urls \cup {NoUrl}, next : Nat]

CreateRelay ==
    [started |-> FALSE, url |-> NoUrl, socket |-> NoSocket, timer |-> FALSE,
     connected |-> FALSE, history |-> <<>>, activeAlerts |-> {},
     listeners |-> {}]

\* createRelayState: the part of a relay a reset replaces.
WithFreshState(r) ==
    [r EXCEPT !.connected = FALSE, !.history = <<>>, !.activeAlerts = {}]

GetRelay(b) == IF b \in DOMAIN relays THEN relays[b] ELSE CreateRelay

SetRelay(b, r) == [c \in DOMAIN relays \cup {b} |-> IF c = b THEN r ELSE relays[c]]

FreeSocket == [status |-> "free", bot |-> NoBot, url |-> NoUrl, next |-> 0]

NewSocket(b, u) == [status |-> "connecting", bot |-> b, url |-> u, next |-> 0]

\* The socket is the one its bot's relay refers to.
Current(s) ==
    /\ sockets[s].bot \in DOMAIN relays
    /\ relays[sockets[s].bot].socket = s

Topologies == UNION {[B -> Urls] : B \in SUBSET Bots \ {{}}}

Init ==
    /\ topology \in Topologies
    /\ relays = << >>
    /\ sockets = [s \in SocketIds |-> FreeSocket]
    /\ clients = [c \in Clients |-> NoBot]
    /\ log = [u \in Urls |-> <<>>]
    /\ reachable \in SUBSET Urls
    /\ updates = 0
    /\ told = [b \in Bots |-> {}]
    /\ forgot = {}

-----------------------------------------------------------------------------
(* Requests *)

\* Faulty variant of CloseAll: the objects are dropped, their sockets are not.
CloseNone(S) == sockets

\* ws.close(): the socket may deliver until the other side answers.
CloseAll(S) ==
    [s \in SocketIds |-> IF s \in S THEN [sockets[s] EXCEPT !.status = "closing"]
                                    ELSE sockets[s]]

\* Faulty variant of Moved: a pending reconnect is left pending.
MovedKeepingTimer(r, u, s) ==
    [r EXCEPT !.started = TRUE, !.url = u, !.socket = s,
              !.connected = IF r.started THEN FALSE ELSE @]

\* syncBotRelay starts a relay, or moves it: stopRelay, then connect.
Moved(r, u, s) ==
    [r EXCEPT !.started = TRUE, !.url = u, !.socket = s, !.timer = FALSE,
              !.connected = IF r.started THEN FALSE ELSE @]

\* pruneInactiveRelays and syncBotRelay, which every request goes through:
\* relays of bots that left the topology are stopped and deleted; the one asked
\* for is started, or moved to the bot's new address.
Request(b, L) ==
    /\ b \in DOMAIN topology
    /\ LET kept == DOMAIN relays \cap DOMAIN topology
           gone == DOMAIN relays \ kept
           old == GetRelay(b)
           asIs == old.started /\ old.url = topology[b]
           stopped == {relays[c].socket : c \in gone}
                      \cup (IF asIs THEN {} ELSE {old.socket})
           With(r) == [c \in kept \cup {b} |->
                          IF c = b THEN [r EXCEPT !.listeners = @ \cup L]
                                   ELSE relays[c]]
       IN /\ \/ /\ asIs
                /\ relays' = With(old)
                /\ sockets' = CloseAll(stopped)
             \/ /\ ~asIs
                /\ \E s \in SocketIds :
                      /\ sockets[s].status = "free"
                      /\ relays' = With(Moved(old, topology[b], s))
                      /\ sockets' = [CloseAll(stopped) EXCEPT
                                        ![s] = NewSocket(b, topology[b])]
          /\ forgot' = forgot \cup {c \in gone : told[c] # {}}
    /\ UNCHANGED <<topology, log, reachable, updates, told>>

\* GET /api/quotes, fills, inventory, pnl: getRelaySnapshot.
Snapshot(b) ==
    /\ Request(b, {})
    /\ UNCHANGED clients

\* GET /api/stream: subscribeToEngineStream.
Subscribe(c, b) ==
    /\ clients[c] = NoBot
    /\ Request(b, {c})
    /\ clients' = [clients EXCEPT ![c] = b]

\* Faulty variant of Unsubscribed: the listener stays.
StillSubscribed(c) == relays

Unsubscribed(c) ==
    [b \in DOMAIN relays |-> [relays[b] EXCEPT !.listeners = @ \ {c}]]

\* The dashboard goes away: its listener is taken out of the relay object it
\* was put into, which may have been deleted since.
Abort(c) ==
    /\ clients[c] # NoBot
    /\ clients' = [clients EXCEPT ![c] = NoBot]
    /\ relays' = Unsubscribed(c)
    /\ UNCHANGED <<topology, sockets, log, reachable, updates, webhookVars>>

\* POST /api/topology: the relays are left as they are.
UpdateTopology(t) ==
    /\ updates < MaxTopologies
    /\ updates' = updates + 1
    /\ topology' = t
    /\ UNCHANGED <<relays, sockets, clients, log, reachable, webhookVars>>

\* resetAllRelays: connections and listeners stay.
ResetAllRelays ==
    /\ relays' = [b \in DOMAIN relays |-> WithFreshState(relays[b])]
    /\ forgot' = forgot \cup {b \in DOMAIN relays : told[b] # {}}
    /\ UNCHANGED <<topology, sockets, clients, log, reachable, updates, told>>

-----------------------------------------------------------------------------
(* Socket events *)

\* The first message of a stream is a payload built for it: the bot's state as
\* of its last one.
Open(s) ==
    LET b == sockets[s].bot IN
    /\ sockets[s].status = "connecting"
    /\ sockets[s].url \in reachable
    /\ sockets' = [sockets EXCEPT ![s].status = "open",
                                  ![s].next = IF log[sockets[s].url] = <<>> THEN 1
                                              ELSE Len(log[sockets[s].url])]
    /\ relays' = IF Current(s) THEN SetRelay(b, [relays[b] EXCEPT !.connected = TRUE])
                 ELSE relays
    /\ UNCHANGED <<topology, clients, log, reachable, updates, webhookVars>>

Arriving(s) ==
    /\ sockets[s].status \in {"open", "closing"}
    /\ sockets[s].next \in 1 .. Len(log[sockets[s].url])

AlertsOf(p) == log[p.url][p.n]

\* Faulty variant of NextActive: the new set is not stored.
NextActiveKept(r, p) == r.activeAlerts

\* dispatchAlertWebhook: what was active is remembered for the next payload.
NextActive(r, p) == AlertsOf(p)

NewAlerts(r, p) == AlertsOf(p) \ r.activeAlerts

ResolvedAlerts(r, p) == r.activeAlerts \ AlertsOf(p)

\* Faulty variant of Capped: one too many is kept.
CappedLate(seq) ==
    IF Len(seq) > HistoryCap + 1 THEN SubSeq(seq, 1, HistoryCap) ELSE seq

Capped(seq) == IF Len(seq) > HistoryCap THEN SubSeq(seq, 1, HistoryCap) ELSE seq

\* ingestPayload, on whatever relay object the map holds for the bot by now.
Message(s) ==
    LET b == sockets[s].bot
        p == [url |-> sockets[s].url, n |-> sockets[s].next]
        r == GetRelay(b)
    IN /\ Arriving(s)
       /\ sockets' = [sockets EXCEPT ![s].next = @ + 1]
       /\ relays' = SetRelay(b, [r EXCEPT !.connected = TRUE,
                                          !.history = Capped(<<p>> \o @),
                                          !.activeAlerts = NextActive(r, p)])
       /\ told' = [told EXCEPT ![b] = (@ \cup NewAlerts(r, p)) \ ResolvedAlerts(r, p)]
       /\ UNCHANGED <<topology, clients, log, reachable, updates, forgot>>

\* A payload that does not parse is logged and dropped.
Garbage(s) ==
    /\ Arriving(s)
    /\ sockets' = [sockets EXCEPT ![s].next = @ + 1]
    /\ UNCHANGED <<topology, relays, clients, log, reachable, updates, webhookVars>>

\* The handler closes the socket and leaves the rest to the close event.
Error(s) ==
    LET b == sockets[s].bot IN
    /\ sockets[s].status \in {"connecting", "open"}
    /\ sockets[s].url \notin reachable
    /\ sockets' = [sockets EXCEPT ![s].status = "failed"]
    /\ relays' = IF Current(s) THEN SetRelay(b, [relays[b] EXCEPT !.connected = FALSE])
                 ELSE relays
    /\ UNCHANGED <<topology, clients, log, reachable, updates, webhookVars>>

\* Faulty variant of Lost: the timer is armed before the socket is cleared and
\* only for a relay that was connected.
LostIfConnected(r) ==
    [r EXCEPT !.socket = NoSocket, !.connected = FALSE, !.timer = r.connected]

\* What the close event of its socket does to a relay.
Lost(r) == [r EXCEPT !.socket = NoSocket, !.connected = FALSE, !.timer = TRUE]

\* The close event: of a socket that failed, was told to close, or lost its bot.
Close(s) ==
    LET b == sockets[s].bot IN
    /\ \/ sockets[s].status \in {"closing", "failed"}
       \/ sockets[s].status = "open" /\ sockets[s].url \notin reachable
    /\ sockets' = [sockets EXCEPT ![s] = FreeSocket]
    /\ relays' = IF Current(s) THEN SetRelay(b, Lost(relays[b])) ELSE relays
    /\ UNCHANGED <<topology, clients, log, reachable, updates, webhookVars>>

\* The reconnect timer fires: connect, unless there is a socket again.
Reconnect(b) ==
    /\ b \in DOMAIN relays
    /\ relays[b].timer
    /\ \/ /\ relays[b].url = NoUrl \/ relays[b].socket # NoSocket
          /\ relays' = SetRelay(b, [relays[b] EXCEPT !.timer = FALSE])
          /\ UNCHANGED sockets
       \/ /\ relays[b].url # NoUrl /\ relays[b].socket = NoSocket
          /\ \E s \in SocketIds :
                /\ sockets[s].status = "free"
                /\ relays' = SetRelay(b, [relays[b] EXCEPT !.timer = FALSE,
                                                           !.socket = s])
                /\ sockets' = [sockets EXCEPT ![s] = NewSocket(b, relays[b].url)]
    /\ UNCHANGED <<topology, clients, log, reachable, updates, webhookVars>>

-----------------------------------------------------------------------------
(* Environment *)

\* The bot at u publishes a payload.
Emit(u, A) ==
    /\ Len(log[u]) < MaxPayloads
    /\ log' = [log EXCEPT ![u] = Append(@, A)]
    /\ UNCHANGED <<webVars, reachable, updates, webhookVars>>

\* The bot at u starts or stops, or the network to it does.
Toggle(u) ==
    /\ reachable' = IF u \in reachable THEN reachable \ {u} ELSE reachable \cup {u}
    /\ UNCHANGED <<webVars, log, updates, webhookVars>>

RequestNext ==
    \/ \E b \in Bots : Snapshot(b)
    \/ \E c \in Clients, b \in Bots : Subscribe(c, b)
    \/ \E c \in Clients : Abort(c)
    \/ \E t \in Topologies : UpdateTopology(t)
    \/ ResetAllRelays

SocketNext ==
    \/ \E s \in SocketIds : Open(s) \/ Message(s) \/ Garbage(s) \/ Error(s) \/ Close(s)
    \/ \E b \in Bots : Reconnect(b)

EnvironmentNext == \E u \in Urls : Toggle(u) \/ \E A \in SUBSET Alerts : Emit(u, A)

Next == RequestNext \/ SocketNext \/ EnvironmentNext

Spec == Init /\ [][Next]_vars

\* Events of sockets and timers are delivered; nobody owes a request.
Fairness ==
    /\ \A s \in SocketIds :
          WF_vars(Open(s)) /\ WF_vars(Message(s)) /\ WF_vars(Error(s)) /\ WF_vars(Close(s))
    /\ \A b \in Bots : WF_vars(Reconnect(b))

FairSpec == Spec /\ Fairness

-----------------------------------------------------------------------------
(* Properties *)

\* Every variable has its type and no history outgrows its cap.
TypeOK ==
    /\ topology \in [DOMAIN topology -> Urls] /\ DOMAIN topology \subseteq Bots
    /\ relays \in [DOMAIN relays -> Relay] /\ DOMAIN relays \subseteq Bots
    /\ \A b \in DOMAIN relays : Len(relays[b].history) <= HistoryCap
    /\ sockets \in [SocketIds -> Socket]
    /\ clients \in [Clients -> Bots \cup {NoBot}]
    /\ log \in [Urls -> Seq(SUBSET Alerts)]
    /\ reachable \subseteq Urls
    /\ updates \in Nat
    /\ told \in [Bots -> SUBSET Alerts]
    /\ forgot \subseteq Bots

\* No connection leaks and none is doubled: a socket that is not on its way out
\* is the one its bot's relay refers to, at the relay's address; and what a
\* relay refers to exists.
NoLeakedSocket ==
    /\ \A s \in SocketIds : sockets[s].status \in {"connecting", "open", "failed"} =>
          Current(s) /\ relays[sockets[s].bot].url = sockets[s].url
    /\ \A b \in DOMAIN relays : relays[b].socket # NoSocket =>
          sockets[relays[b].socket].bot = b

\* A started relay always has either a socket or a timer to get one, never both.
RetryArmed ==
    \A b \in DOMAIN relays :
        relays[b].started => (relays[b].timer <=> relays[b].socket = NoSocket)

\* No listener outlives its dashboard: what a relay would send to still reads.
ListenersAreOpen ==
    \A b \in DOMAIN relays : \A c \in relays[b].listeners : clients[c] = b

\* As long as no reset or prune forgets them, the alerts the webhooks have
\* announced and not resolved are those of the last payload taken in.
AnnouncedAreCurrent ==
    \A b \in DOMAIN relays \ forgot :
        told[b] = IF relays[b].history = <<>> THEN {}
                  ELSE AlertsOf(Head(relays[b].history))

\* Once a relay runs at a reachable address for good, it gets a connection to
\* it for good, however often it failed before.
Reconnects ==
    \A b \in Bots, u \in Urls :
        <>[](/\ b \in DOMAIN relays /\ b \in DOMAIN topology
             /\ relays[b].started /\ relays[b].url = u /\ topology[b] = u
             /\ u \in reachable)
        => <>[](/\ b \in DOMAIN relays
                /\ relays[b].socket # NoSocket
                /\ sockets[relays[b].socket].status = "open")

-----------------------------------------------------------------------------
(* Statements of the repository about the relay *)

\* "you are notified even when the dashboard is not open": an alert that stands
\* in what a configured, reachable bot sends is announced.
NotifiedWithoutDashboard ==
    \A b \in Bots, u \in Urls, a \in Alerts :
        <>[](/\ b \in DOMAIN topology /\ topology[b] = u /\ u \in reachable
             /\ log[u] # <<>> /\ a \in log[u][Len(log[u])])
        => <>(a \in told[b])

=============================================================================
