-------------------------- MODULE EngineRelayProofs --------------------------
(* Theorems of EngineRelay, for any bots, addresses, dashboards, sockets and  *)
(* bounds.                                                                    *)
EXTENDS EngineRelay, SequenceTheorems, TLAPS

-----------------------------------------------------------------------------
(* Lemmas: what the helpers return *)

\* Taking a payload in keeps the history a capped sequence, the payload first.
LEMMA CappedKeepsFirst ==
    ASSUME NEW p \in Payload, NEW h \in Seq(Payload)
    PROVE  /\ Capped(<<p>> \o h) \in Seq(Payload)
           /\ Len(Capped(<<p>> \o h)) <= HistoryCap
           /\ Capped(<<p>> \o h) # <<>>
           /\ Head(Capped(<<p>> \o h)) = p
<1> DEFINE q == <<p>> \o h
<1>1. <<p>> \in Seq(Payload) /\ Len(<<p>>) = 1 /\ <<p>>[1] = p
  OBVIOUS
<1>2. /\ q \in Seq(Payload)
      /\ Len(q) = 1 + Len(h)
      /\ \A i \in 1 .. 1 + Len(h) : q[i] = IF i <= 1 THEN <<p>>[i] ELSE h[i - 1]
  BY <1>1, ConcatProperties
<1>3. Len(h) \in Nat
  BY LenProperties
<1>4. q[1] = p
  BY <1>1, <1>2, <1>3
<1> HIDE DEF q
<1>5. HistoryCap \in Nat \ {0}
  BY RelayAssumption
<1>6. \A t \in Seq(Payload) : t # <<>> => Head(t) = t[1]
  OBVIOUS
<1>7. /\ Capped(q) \in Seq(Payload)
      /\ Len(Capped(q)) <= HistoryCap
      /\ Capped(q) # <<>>
      /\ Capped(q)[1] = p
  <2>1. CASE Len(q) > HistoryCap
    <3>1. Capped(q) = SubSeq(q, 1, HistoryCap)
      BY <2>1 DEF Capped
    <3>2. \A i \in 1 .. HistoryCap : q[i] \in Payload
      BY <1>2, <1>3, <1>5, <2>1, LenProperties
    <3>3. /\ SubSeq(q, 1, HistoryCap) \in Seq(Payload)
          /\ Len(SubSeq(q, 1, HistoryCap)) = HistoryCap
          /\ SubSeq(q, 1, HistoryCap)[1] = q[1]
      BY <1>5, <3>2, SubSeqProperties
    <3>4. SubSeq(q, 1, HistoryCap) # <<>>
      BY <1>5, <3>3, EmptySeq
    <3> QED
      BY <1>4, <1>5, <3>1, <3>3, <3>4
  <2>2. CASE ~(Len(q) > HistoryCap)
    <3>1. Capped(q) = q
      BY <2>2 DEF Capped
    <3>2. q # <<>>
      BY <1>2, <1>3, EmptySeq
    <3> QED
      BY <1>2, <1>3, <1>4, <1>5, <2>2, <3>1, <3>2
  <2> QED
    BY <2>1, <2>2
<1> QED
  BY <1>6, <1>7 DEF q

\* Closing sockets changes nothing of them but their status.
LEMMA CloseAllFacts ==
    ASSUME sockets \in [SocketIds -> Socket], NEW S
    PROVE  /\ CloseAll(S) \in [SocketIds -> Socket]
           /\ \A s \in SocketIds :
                 /\ CloseAll(S)[s].bot = sockets[s].bot
                 /\ CloseAll(S)[s].url = sockets[s].url
                 /\ CloseAll(S)[s].status = IF s \in S THEN "closing"
                                            ELSE sockets[s].status
BY DEF CloseAll, Socket

LEMMA NewSocketFacts ==
    ASSUME NEW b \in Bots, NEW u \in Urls
    PROVE  /\ NewSocket(b, u) \in Socket
           /\ NewSocket(b, u).bot = b
           /\ NewSocket(b, u).url = u
           /\ NewSocket(b, u).status = "connecting"
BY DEF NewSocket, Socket

LEMMA FreeSocketFacts ==
    /\ FreeSocket \in Socket
    /\ FreeSocket.bot = NoBot
    /\ FreeSocket.status = "free"
BY DEF FreeSocket, Socket

LEMMA CreateRelayFacts ==
    /\ CreateRelay \in Relay
    /\ CreateRelay.started = FALSE
    /\ CreateRelay.socket = NoSocket
    /\ CreateRelay.history = <<>>
    /\ CreateRelay.activeAlerts = {}
    /\ CreateRelay.listeners = {}
<1>1. <<>> \in Seq(Payload)
  BY EmptySeq
<1> QED
  BY <1>1 DEF CreateRelay, Relay

\* Entering a relay in the map leaves the others as they are.
LEMMA SetRelayFacts ==
    ASSUME NEW b, NEW r
    PROVE  /\ DOMAIN SetRelay(b, r) = DOMAIN relays \cup {b}
           /\ SetRelay(b, r)[b] = r
           /\ \A c \in DOMAIN relays : c # b => SetRelay(b, r)[c] = relays[c]
BY DEF SetRelay

LEMMA ReplacedRelayFacts ==
    ASSUME NEW b \in DOMAIN relays, NEW r, relays' = SetRelay(b, r)
    PROVE  /\ DOMAIN relays' = DOMAIN relays
           /\ relays'[b] = r
           /\ \A c \in DOMAIN relays : c # b => relays'[c] = relays[c]
<1>1. DOMAIN relays \cup {b} = DOMAIN relays
  OBVIOUS
<1> QED
  BY <1>1 DEF SetRelay

-----------------------------------------------------------------------------
(* Type correctness *)

\* The relays are typed, and entering a typed relay keeps them so.
RelaysTyped ==
    /\ DOMAIN relays \subseteq Bots
    /\ relays \in [DOMAIN relays -> Relay]
    /\ \A b \in DOMAIN relays : Len(relays[b].history) <= HistoryCap

LEMMA SetRelayType ==
    ASSUME RelaysTyped, NEW b \in Bots, NEW r \in Relay, Len(r.history) <= HistoryCap,
           relays' = SetRelay(b, r)
    PROVE  RelaysTyped'
BY SetRelayFacts DEF RelaysTyped, SetRelay

LEMMA GetRelayType ==
    ASSUME RelaysTyped, NEW b \in Bots
    PROVE  GetRelay(b) \in Relay /\ Len(GetRelay(b).history) <= HistoryCap
<1>1. Len(<<>>) <= HistoryCap
  BY RelayAssumption, EmptySeq
<1> QED
  BY <1>1, CreateRelayFacts DEF GetRelay, RelaysTyped

\* What a move makes of a relay.
LEMMA MovedFacts ==
    ASSUME NEW r \in Relay, NEW u \in Urls, NEW s \in SocketIds
    PROVE  /\ Moved(r, u, s) \in Relay
           /\ Moved(r, u, s).started = TRUE
           /\ Moved(r, u, s).url = u
           /\ Moved(r, u, s).socket = s
           /\ Moved(r, u, s).timer = FALSE
           /\ Moved(r, u, s).history = r.history
           /\ Moved(r, u, s).activeAlerts = r.activeAlerts
           /\ Moved(r, u, s).listeners = r.listeners
BY DEF Moved, Relay

Kept == DOMAIN relays \cap DOMAIN topology

StoppedOfGone == {relays[c].socket : c \in DOMAIN relays \ Kept}

\* The map after a request for b that made r of its relay.
RequestedRelays(b, L, r) ==
    [c \in Kept \cup {b} |-> IF c = b THEN [r EXCEPT !.listeners = @ \cup L]
                                      ELSE relays[c]]

\* The relay asked for stays where it is, and so does its socket.
RequestStays(b, L) ==
    /\ GetRelay(b).started
    /\ GetRelay(b).url = topology[b]
    /\ relays' = RequestedRelays(b, L, GetRelay(b))
    /\ sockets' = CloseAll(StoppedOfGone)

\* It gets the free socket s, and its old one is closed.
RequestMoves(b, L, s) ==
    /\ sockets[s].status = "free"
    /\ relays' = RequestedRelays(b, L, Moved(GetRelay(b), topology[b], s))
    /\ sockets' = [CloseAll(StoppedOfGone \cup {GetRelay(b).socket})
                      EXCEPT ![s] = NewSocket(b, topology[b])]

LEMMA RequestCases ==
    ASSUME NEW b, NEW L, Request(b, L)
    PROVE  /\ b \in DOMAIN topology
           /\ RequestStays(b, L) \/ \E s \in SocketIds : RequestMoves(b, L, s)
           /\ forgot' = forgot \cup {c \in DOMAIN relays \ Kept : told[c] # {}}
           /\ UNCHANGED <<topology, log, reachable, updates, told>>
<1>1. CASE GetRelay(b).started /\ GetRelay(b).url = topology[b]
  <2>1. RequestStays(b, L)
    BY <1>1 DEF Request, RequestStays, RequestedRelays, Kept, StoppedOfGone
  <2> QED
    BY <2>1 DEF Request, Kept
<1>2. CASE ~(GetRelay(b).started /\ GetRelay(b).url = topology[b])
  <2>1. \E s \in SocketIds : RequestMoves(b, L, s)
    BY <1>2 DEF Request, RequestMoves, RequestedRelays, Kept, StoppedOfGone
  <2> QED
    BY <2>1 DEF Request, Kept
<1> QED
  BY <1>1, <1>2

\* t is r with more listeners.
GainsListeners(r, t, L) ==
    /\ t \in Relay
    /\ t.started = r.started
    /\ t.url = r.url
    /\ t.socket = r.socket
    /\ t.timer = r.timer
    /\ t.history = r.history
    /\ t.activeAlerts = r.activeAlerts
    /\ t.listeners = r.listeners \cup L

\* The relays of configured bots stay as they are; the one asked for only gains
\* listeners, apart from a move.
LEMMA RequestedRelaysFacts ==
    ASSUME RelaysTyped, NEW b \in Bots, NEW L \in SUBSET Clients, NEW r \in Relay,
           Len(r.history) <= HistoryCap,
           relays' = RequestedRelays(b, L, r)
    PROVE  /\ RelaysTyped'
           /\ DOMAIN relays' = Kept \cup {b}
           /\ \A c \in DOMAIN relays' : c # b =>
                 c \in Kept /\ relays'[c] = relays[c]
           /\ GainsListeners(r, relays'[b], L)
<1>1. /\ DOMAIN relays' = Kept \cup {b}
      /\ \A c \in DOMAIN relays' : c # b =>
            c \in Kept /\ relays'[c] = relays[c]
      /\ relays'[b] = [r EXCEPT !.listeners = @ \cup L]
  BY DEF RequestedRelays
<1>2. GainsListeners(r, relays'[b], L)
  BY <1>1 DEF Relay, GainsListeners
<1>3. /\ DOMAIN relays' \subseteq Bots
      /\ \A c \in DOMAIN relays' : relays'[c] \in Relay
                                   /\ Len(relays'[c].history) <= HistoryCap
  BY <1>1, <1>2 DEF RelaysTyped, Kept, GainsListeners
<1>4. relays' = [c \in DOMAIN relays' |-> relays'[c]]
  BY DEF RequestedRelays
<1>5. RelaysTyped'
  BY <1>3, <1>4 DEF RelaysTyped
<1> QED
  BY <1>1, <1>2, <1>5

LEMMA RequestType ==
    ASSUME TypeOK, NEW b \in Bots, NEW L \in SUBSET Clients, Request(b, L)
    PROVE  /\ RelaysTyped'
           /\ sockets' \in [SocketIds -> Socket]
           /\ forgot' \subseteq Bots
           /\ UNCHANGED <<topology, log, reachable, updates, told>>
<1>1. RelaysTyped
  BY DEF TypeOK, RelaysTyped
<1>2. GetRelay(b) \in Relay /\ Len(GetRelay(b).history) <= HistoryCap
  BY <1>1, GetRelayType
<1>3. topology[b] \in Urls
  BY RequestCases DEF TypeOK
<1>4. forgot' \subseteq Bots
  BY RequestCases DEF TypeOK
<1>5. CASE RequestStays(b, L)
  <2>1. RelaysTyped'
    BY <1>1, <1>2, <1>5, RequestedRelaysFacts DEF RequestStays
  <2>2. sockets' \in [SocketIds -> Socket]
    BY <1>5, CloseAllFacts DEF RequestStays, TypeOK
  <2> QED
    BY <1>4, <2>1, <2>2, RequestCases
<1>6. ASSUME NEW s \in SocketIds, RequestMoves(b, L, s)
      PROVE  RelaysTyped' /\ sockets' \in [SocketIds -> Socket]
  <2>1. /\ Moved(GetRelay(b), topology[b], s) \in Relay
        /\ Moved(GetRelay(b), topology[b], s).history = GetRelay(b).history
    BY <1>2, <1>3, MovedFacts
  <2>2. RelaysTyped'
    BY <1>1, <1>2, <1>6, <2>1, RequestedRelaysFacts DEF RequestMoves
  <2>3. sockets' \in [SocketIds -> Socket]
    BY <1>3, <1>6, CloseAllFacts, NewSocketFacts DEF RequestMoves, TypeOK
  <2> QED
    BY <2>2, <2>3
<1> QED
  BY <1>4, <1>5, <1>6, RequestCases

\* A socket in use has a bot and its address; a free one has none.
SocketsInUse ==
    \A s \in SocketIds :
        /\ sockets[s].status # "free" => sockets[s].bot \in Bots /\ sockets[s].url \in Urls
        /\ sockets[s].status = "free" => sockets[s].bot = NoBot

LEMMA InitType == Init => TypeOK
<1> SUFFICES ASSUME Init PROVE TypeOK
  OBVIOUS
<1>1. topology \in [DOMAIN topology -> Urls] /\ DOMAIN topology \subseteq Bots
  BY DEF Init, Topologies
<1>2. /\ DOMAIN relays = {}
      /\ relays \in [DOMAIN relays -> Relay]
  BY DEF Init
<1>3. sockets \in [SocketIds -> Socket]
  BY FreeSocketFacts DEF Init
<1>4. log \in [Urls -> Seq(SUBSET Alerts)]
  BY EmptySeq DEF Init
<1> QED
  BY <1>1, <1>2, <1>3, <1>4 DEF Init, TypeOK

\* What arrives is a payload of the bot at the other end.
LEMMA ArrivingPayload ==
    ASSUME TypeOK, SocketsInUse, NEW s \in SocketIds, Arriving(s)
    PROVE  /\ sockets[s].bot \in Bots
           /\ [url |-> sockets[s].url, n |-> sockets[s].next] \in Payload
           /\ AlertsOf([url |-> sockets[s].url, n |-> sockets[s].next])
                 \in SUBSET Alerts
<1>1. sockets[s].url \in Urls /\ sockets[s].bot \in Bots
  BY DEF Arriving, SocketsInUse
<1>2. sockets[s].next \in Nat /\ sockets[s].next \in 1 .. Len(log[sockets[s].url])
  BY DEF Arriving, TypeOK, Socket
<1>3. log[sockets[s].url] \in Seq(SUBSET Alerts)
  BY <1>1 DEF TypeOK
<1>4. log[sockets[s].url][sockets[s].next] \in SUBSET Alerts
  BY <1>2, <1>3, LenProperties
<1> QED
  BY <1>1, <1>2, <1>4 DEF Payload, AlertsOf

\* What events do to one relay, but for moves: it stays one, with its history or
\* an empty one.
LEMMA RelayUpdates ==
    ASSUME NEW r \in Relay, NEW v \in BOOLEAN, NEW c
    PROVE  /\ [r EXCEPT !.connected = v] \in Relay
           /\ [r EXCEPT !.connected = v].history = r.history
           /\ Lost(r) \in Relay
           /\ Lost(r).history = r.history
           /\ WithFreshState(r) \in Relay
           /\ WithFreshState(r).history = <<>>
           /\ [r EXCEPT !.listeners = @ \ {c}] \in Relay
           /\ [r EXCEPT !.listeners = @ \ {c}].history = r.history
<1>1. <<>> \in Seq(Payload)
  BY EmptySeq
<1> QED
  BY <1>1 DEF Relay, Lost, WithFreshState

\* And what they do to one socket.
LEMMA SocketUpdates ==
    ASSUME NEW k \in Socket, NEW n \in Nat
    PROVE  /\ [k EXCEPT !.next = n] \in Socket
           /\ [k EXCEPT !.status = "open", !.next = n] \in Socket
           /\ [k EXCEPT !.status = "failed"] \in Socket
           /\ [k EXCEPT !.next = @ + 1] \in Socket
<1>1. k.next + 1 \in Nat
  BY DEF Socket
<1> QED
  BY <1>1 DEF Socket

LEMMA NextType == TypeOK /\ SocketsInUse /\ [Next]_vars => TypeOK'
<1> SUFFICES ASSUME TypeOK, SocketsInUse, [Next]_vars PROVE TypeOK'
  OBVIOUS
<1> USE DEF webVars, webhookVars
<1>1. RelaysTyped
  BY DEF TypeOK, RelaysTyped
<1>2. ASSUME NEW b \in Bots, NEW r \in Relay, Len(r.history) <= HistoryCap,
             relays' = SetRelay(b, r)
      PROVE  RelaysTyped'
  BY <1>1, <1>2, SetRelayType
<1>3. ASSUME NEW b \in Bots, Snapshot(b) PROVE TypeOK'
  <2>1. Request(b, {}) /\ UNCHANGED clients
    BY <1>3 DEF Snapshot
  <2> QED
    BY <2>1, RequestType DEF TypeOK, RelaysTyped
<1>4. ASSUME NEW c \in Clients, NEW b \in Bots, Subscribe(c, b) PROVE TypeOK'
  <2>1. Request(b, {c}) /\ {c} \in SUBSET Clients
    BY <1>4 DEF Subscribe
  <2>2. clients' \in [Clients -> Bots \cup {NoBot}]
    BY <1>4 DEF Subscribe, TypeOK
  <2> QED
    BY <2>1, <2>2, RequestType DEF TypeOK, RelaysTyped
<1>5. ASSUME NEW c \in Clients, Abort(c) PROVE TypeOK'
  <2>1. RelaysTyped'
    <3>1. relays' = [b \in DOMAIN relays |-> [relays[b] EXCEPT !.listeners = @ \ {c}]]
      BY <1>5 DEF Abort, Unsubscribed
    <3>2. \A b \in DOMAIN relays :
             /\ [relays[b] EXCEPT !.listeners = @ \ {c}] \in Relay
             /\ [relays[b] EXCEPT !.listeners = @ \ {c}].history = relays[b].history
      BY <1>1, RelayUpdates DEF RelaysTyped
    <3> QED
      BY <1>1, <3>1, <3>2 DEF RelaysTyped
  <2>2. clients' \in [Clients -> Bots \cup {NoBot}]
    BY <1>5 DEF Abort, TypeOK
  <2> QED
    BY <1>5, <2>1, <2>2 DEF Abort, TypeOK, RelaysTyped
<1>6. ASSUME NEW t \in Topologies, UpdateTopology(t) PROVE TypeOK'
  BY <1>6 DEF UpdateTopology, Topologies, TypeOK
<1>7. CASE ResetAllRelays
  <2>1. Len(<<>>) <= HistoryCap /\ <<>> \in Seq(Payload)
    BY RelayAssumption, EmptySeq
  <2>2. RelaysTyped'
    <3>1. relays' = [b \in DOMAIN relays |-> WithFreshState(relays[b])]
      BY <1>7 DEF ResetAllRelays
    <3>2. \A b \in DOMAIN relays : /\ WithFreshState(relays[b]) \in Relay
                                   /\ WithFreshState(relays[b]).history = <<>>
      BY <1>1, RelayUpdates DEF RelaysTyped
    <3> QED
      BY <1>1, <2>1, <3>1, <3>2 DEF RelaysTyped
  <2>3. forgot' \subseteq Bots
    BY <1>7 DEF ResetAllRelays, TypeOK
  <2> QED
    BY <1>7, <2>2, <2>3 DEF ResetAllRelays, TypeOK, RelaysTyped
<1>8. ASSUME NEW s \in SocketIds, Open(s) PROVE TypeOK'
  <2>1. sockets[s].bot \in Bots /\ sockets[s].url \in Urls
    BY <1>8 DEF Open, SocketsInUse
  <2>2. Len(log[sockets[s].url]) \in Nat
    BY <2>1, LenProperties DEF TypeOK
  <2>3. sockets' \in [SocketIds -> Socket]
    <3> DEFINE n == IF log[sockets[s].url] = <<>> THEN 1
                    ELSE Len(log[sockets[s].url])
    <3>1. sockets' = [sockets EXCEPT ![s] = [sockets[s] EXCEPT !.status = "open",
                                                              !.next = n]]
      BY <1>8 DEF Open
    <3>2. sockets[s] \in Socket /\ n \in Nat
      BY <2>2 DEF TypeOK
    <3> HIDE DEF n
    <3> QED
      BY <3>1, <3>2, SocketUpdates DEF TypeOK
  <2>4. RelaysTyped'
    <3>1. CASE Current(s)
      <4> DEFINE r == [relays[sockets[s].bot] EXCEPT !.connected = TRUE]
      <4>1. r \in Relay /\ Len(r.history) <= HistoryCap
        BY <1>1, <3>1, RelayUpdates DEF Current, RelaysTyped
      <4> QED
        BY <1>2, <1>8, <2>1, <3>1, <4>1 DEF Open
    <3>2. CASE ~Current(s)
      BY <1>1, <1>8, <3>2 DEF Open, RelaysTyped
    <3> QED
      BY <3>1, <3>2
  <2> QED
    BY <1>8, <2>3, <2>4 DEF Open, TypeOK, RelaysTyped
<1>9. ASSUME NEW s \in SocketIds, Message(s) PROVE TypeOK'
  <2> DEFINE b == sockets[s].bot
             p == [url |-> sockets[s].url, n |-> sockets[s].next]
             r == [GetRelay(b) EXCEPT !.connected = TRUE,
                      !.history = Capped(<<p>> \o @),
                      !.activeAlerts = NextActive(GetRelay(b), p)]
  <2>1. Arriving(s)
    BY <1>9 DEF Message
  <2>2. b \in Bots /\ p \in Payload /\ AlertsOf(p) \in SUBSET Alerts
    BY <2>1, ArrivingPayload
  <2>3. GetRelay(b) \in Relay
    BY <1>1, <2>2, GetRelayType
  <2>4. GetRelay(b).history \in Seq(Payload) /\ GetRelay(b).activeAlerts \in SUBSET Alerts
    BY <2>3 DEF Relay
  <2>5. /\ Capped(<<p>> \o GetRelay(b).history) \in Seq(Payload)
        /\ Len(Capped(<<p>> \o GetRelay(b).history)) <= HistoryCap
    BY <2>2, <2>4, CappedKeepsFirst
  <2>6. /\ relays' = SetRelay(b, r)
        /\ told' = [told EXCEPT ![b] = (@ \cup NewAlerts(GetRelay(b), p))
                                          \ ResolvedAlerts(GetRelay(b), p)]
        /\ sockets' = [sockets EXCEPT ![s].next = @ + 1]
        /\ UNCHANGED <<topology, clients, log, reachable, updates, forgot>>
    BY <1>9 DEF Message
  <2>7. sockets' \in [SocketIds -> Socket]
    <3>1. sockets' = [sockets EXCEPT ![s] = [sockets[s] EXCEPT !.next = @ + 1]]
      BY <2>6
    <3> QED
      BY <3>1, SocketUpdates DEF TypeOK
  <2> HIDE DEF p, b
  <2>8. r \in Relay /\ Len(r.history) <= HistoryCap
    BY <2>2, <2>3, <2>5 DEF Relay, NextActive
  <2>9. RelaysTyped'
    BY <1>2, <2>2, <2>6, <2>8
  <2>10. told' \in [Bots -> SUBSET Alerts]
    BY <2>2, <2>4, <2>6 DEF TypeOK, NewAlerts, ResolvedAlerts
  <2> QED
    BY <2>6, <2>7, <2>9, <2>10 DEF TypeOK, RelaysTyped
<1>10. ASSUME NEW s \in SocketIds, Garbage(s) PROVE TypeOK'
  <2>1. sockets' \in [SocketIds -> Socket]
    <3>1. sockets' = [sockets EXCEPT ![s] = [sockets[s] EXCEPT !.next = @ + 1]]
      BY <1>10 DEF Garbage
    <3> QED
      BY <3>1, SocketUpdates DEF TypeOK
  <2> QED
    BY <1>10, <2>1 DEF Garbage, TypeOK
<1>11. ASSUME NEW s \in SocketIds, Error(s) PROVE TypeOK'
  <2>1. sockets[s].bot \in Bots
    BY <1>11 DEF Error, SocketsInUse
  <2>2. sockets' \in [SocketIds -> Socket]
    BY <1>11 DEF Error, TypeOK, Socket
  <2>3. RelaysTyped'
    <3>1. CASE Current(s)
      <4> DEFINE r == [relays[sockets[s].bot] EXCEPT !.connected = FALSE]
      <4>1. r \in Relay /\ Len(r.history) <= HistoryCap
        BY <1>1, <3>1, RelayUpdates DEF Current, RelaysTyped
      <4> QED
        BY <1>2, <1>11, <2>1, <3>1, <4>1 DEF Error
    <3>2. CASE ~Current(s)
      BY <1>1, <1>11, <3>2 DEF Error, RelaysTyped
    <3> QED
      BY <3>1, <3>2
  <2> QED
    BY <1>11, <2>2, <2>3 DEF Error, TypeOK, RelaysTyped
<1>12. ASSUME NEW s \in SocketIds, Close(s) PROVE TypeOK'
  <2>1. sockets[s].bot \in Bots
    BY <1>12 DEF Close, SocketsInUse
  <2>2. sockets' \in [SocketIds -> Socket]
    BY <1>12, FreeSocketFacts DEF Close, TypeOK
  <2>3. RelaysTyped'
    <3>1. CASE Current(s)
      <4>1. /\ Lost(relays[sockets[s].bot]) \in Relay
            /\ Len(Lost(relays[sockets[s].bot]).history) <= HistoryCap
        BY <1>1, <3>1, RelayUpdates DEF Current, RelaysTyped
      <4> QED
        BY <1>2, <1>12, <2>1, <3>1, <4>1 DEF Close
    <3>2. CASE ~Current(s)
      BY <1>1, <1>12, <3>2 DEF Close, RelaysTyped
    <3> QED
      BY <3>1, <3>2
  <2> QED
    BY <1>12, <2>2, <2>3 DEF Close, TypeOK, RelaysTyped
<1>13. ASSUME NEW b \in Bots, Reconnect(b) PROVE TypeOK'
  <2>1. b \in DOMAIN relays /\ relays[b] \in Relay /\ Len(relays[b].history) <= HistoryCap
    BY <1>1, <1>13 DEF Reconnect, RelaysTyped
  <2>2. CASE UNCHANGED sockets /\ relays' = SetRelay(b, [relays[b] EXCEPT !.timer = FALSE])
    <3>1. /\ [relays[b] EXCEPT !.timer = FALSE] \in Relay
          /\ [relays[b] EXCEPT !.timer = FALSE].history = relays[b].history
      BY <2>1 DEF Relay
    <3>2. RelaysTyped'
      BY <1>2, <2>1, <2>2, <3>1
    <3> QED
      BY <1>13, <2>2, <3>2 DEF Reconnect, TypeOK, RelaysTyped
  <2>3. ASSUME NEW s \in SocketIds, relays[b].url # NoUrl,
               relays' = SetRelay(b, [relays[b] EXCEPT !.timer = FALSE, !.socket = s]),
               sockets' = [sockets EXCEPT ![s] = NewSocket(b, relays[b].url)]
        PROVE  TypeOK'
    <3> DEFINE r == [relays[b] EXCEPT !.timer = FALSE, !.socket = s]
    <3>1. r \in Relay /\ r.history = relays[b].history /\ relays[b].url \in Urls
      BY <2>1, <2>3 DEF Relay
    <3>2. RelaysTyped'
      BY <1>2, <2>1, <2>3, <3>1
    <3>3. sockets' \in [SocketIds -> Socket]
      BY <2>3, <3>1, NewSocketFacts DEF TypeOK
    <3> QED
      BY <1>13, <3>2, <3>3 DEF Reconnect, TypeOK, RelaysTyped
  <2> QED
    BY <1>13, <2>2, <2>3 DEF Reconnect
<1>14. ASSUME NEW u \in Urls, Toggle(u) PROVE TypeOK'
  BY <1>14 DEF Toggle, TypeOK
<1>15. ASSUME NEW u \in Urls, NEW A \in SUBSET Alerts, Emit(u, A) PROVE TypeOK'
  <2>1. log' \in [Urls -> Seq(SUBSET Alerts)]
    BY <1>15, AppendProperties DEF Emit, TypeOK
  <2> QED
    BY <1>15, <2>1 DEF Emit, TypeOK
<1>16. CASE UNCHANGED vars
  BY <1>16 DEF vars, TypeOK
<1> QED
  BY <1>3, <1>4, <1>5, <1>6, <1>7, <1>8, <1>9, <1>10, <1>11, <1>12, <1>13,
     <1>14, <1>15, <1>16
     DEF Next, RequestNext, SocketNext, EnvironmentNext

-----------------------------------------------------------------------------
(* Sockets and timers: the inductive invariant of NoLeakedSocket and RetryArmed *)

StartedHasUrl == \A b \in DOMAIN relays : relays[b].started => relays[b].url \in Urls

Linked == SocketsInUse /\ NoLeakedSocket /\ RetryArmed /\ StartedHasUrl

\* Statuses of a socket that is not on its way out.
UsedStatus == {"connecting", "open", "failed"}

SameLinks(b) ==
    /\ relays'[b].started = relays[b].started
    /\ relays'[b].url = relays[b].url
    /\ relays'[b].socket = relays[b].socket
    /\ relays'[b].timer = relays[b].timer

\* Events that move no relay and end no socket keep the links; a message may
\* bring back a removed relay, as one that is not started.
LEMMA LinksKept ==
    ASSUME TypeOK, Linked,
           DOMAIN relays \subseteq DOMAIN relays',
           \A b \in DOMAIN relays : SameLinks(b),
           \A b \in DOMAIN relays' \ DOMAIN relays :
              relays'[b].started = FALSE /\ relays'[b].socket = NoSocket,
           \A s \in SocketIds :
              /\ sockets'[s].bot = sockets[s].bot
              /\ sockets'[s].url = sockets[s].url
              /\ sockets'[s].status = "free" <=> sockets[s].status = "free"
              /\ sockets'[s].status \in UsedStatus => sockets[s].status \in UsedStatus
    PROVE  Linked'
<1> USE DEF Linked, SameLinks
<1>1. SocketsInUse'
  BY DEF SocketsInUse
<1>2. StartedHasUrl'
  BY DEF StartedHasUrl
<1>3. RetryArmed'
  BY DEF RetryArmed
<1>4. ASSUME NEW s \in SocketIds, sockets'[s].status \in UsedStatus
      PROVE  /\ Current(s)'
             /\ relays'[sockets'[s].bot].url = sockets'[s].url
  <2>1. Current(s) /\ relays[sockets[s].bot].url = sockets[s].url
    BY <1>4 DEF NoLeakedSocket, UsedStatus
  <2> QED
    BY <2>1 DEF Current
<1>5. ASSUME NEW b \in DOMAIN relays', relays'[b].socket # NoSocket
      PROVE  sockets'[relays'[b].socket].bot = b
  <2>1. b \in DOMAIN relays
    BY <1>5
  <2>2. relays[b].socket \in SocketIds
    BY <1>5, <2>1 DEF TypeOK, Relay
  <2>3. sockets[relays[b].socket].bot = b
    BY <1>5, <2>1 DEF NoLeakedSocket
  <2> QED
    BY <1>5, <2>1, <2>2, <2>3
<1>6. NoLeakedSocket'
  BY <1>4, <1>5 DEF NoLeakedSocket, UsedStatus
<1> QED
  BY <1>1, <1>2, <1>3, <1>6

\* What a relay refers to is a socket of its bot, in use.
LEMMA LinkedSocket ==
    ASSUME TypeOK, Linked, NEW b \in DOMAIN relays, relays[b].socket # NoSocket
    PROVE  /\ relays[b].socket \in SocketIds
           /\ sockets[relays[b].socket].bot = b
           /\ sockets[relays[b].socket].status # "free"
<1>1. relays[b].socket \in SocketIds /\ b \in Bots
  BY DEF TypeOK, Relay
<1>2. sockets[relays[b].socket].bot = b
  BY DEF Linked, NoLeakedSocket
<1> QED
  BY <1>1, <1>2, RelayAssumption DEF Linked, SocketsInUse

\* A socket in use that a request does not close belongs to a relay it keeps.
LEMMA KeptSocket ==
    ASSUME Linked, NEW s \in SocketIds, NEW S, StoppedOfGone \subseteq S,
           sockets[s].status \in UsedStatus, s \notin S
    PROVE  /\ Current(s)
           /\ sockets[s].bot \in Kept
           /\ relays[sockets[s].bot].url = sockets[s].url
<1>1. Current(s) /\ relays[sockets[s].bot].url = sockets[s].url
  BY DEF Linked, NoLeakedSocket, UsedStatus
<1>2. sockets[s].bot \in Kept
  BY <1>1 DEF Current, StoppedOfGone
<1> QED
  BY <1>1, <1>2

LEMMA RequestStaysLinks ==
    ASSUME TypeOK, Linked, NEW b \in Bots, NEW L \in SUBSET Clients,
           b \in DOMAIN topology, RequestStays(b, L)
    PROVE  Linked'
<1>1. RelaysTyped
  BY DEF TypeOK, RelaysTyped
<1>2. b \in DOMAIN relays /\ GetRelay(b) = relays[b]
  BY CreateRelayFacts DEF RequestStays, GetRelay
<1>3. relays[b] \in Relay /\ Len(relays[b].history) <= HistoryCap
  BY <1>1, <1>2 DEF RelaysTyped
<1>4. /\ DOMAIN relays' = Kept
      /\ \A c \in DOMAIN relays' : c # b => relays'[c] = relays[c]
      /\ GainsListeners(relays[b], relays'[b], L)
  <2>1. relays' = RequestedRelays(b, L, relays[b])
    BY <1>2 DEF RequestStays
  <2>2. Kept \cup {b} = Kept
    BY <1>2 DEF Kept
  <2> QED
    BY <1>1, <1>3, <2>1, <2>2, RequestedRelaysFacts
<1>5. \A c \in DOMAIN relays' : SameLinks(c)
  BY <1>3, <1>4 DEF SameLinks, GainsListeners
<1>6. \A s \in SocketIds :
         /\ sockets'[s].bot = sockets[s].bot
         /\ sockets'[s].url = sockets[s].url
         /\ sockets'[s].status = IF s \in StoppedOfGone THEN "closing"
                                 ELSE sockets[s].status
  BY CloseAllFacts DEF RequestStays, TypeOK
<1>7. \A s \in SocketIds : s \in StoppedOfGone => sockets[s].status # "free"
  BY RelayAssumption, LinkedSocket DEF StoppedOfGone
<1>8. SocketsInUse'
  BY <1>6, <1>7 DEF Linked, SocketsInUse
<1>9. StartedHasUrl' /\ RetryArmed'
  BY <1>4, <1>5 DEF Linked, StartedHasUrl, RetryArmed, SameLinks, Kept
<1>10. ASSUME NEW s \in SocketIds, sockets'[s].status \in UsedStatus
       PROVE  Current(s)' /\ relays'[sockets'[s].bot].url = sockets'[s].url
  <2>1. sockets[s].status \in UsedStatus /\ s \notin StoppedOfGone
    BY <1>6, <1>10 DEF UsedStatus
  <2>2. /\ Current(s)
        /\ sockets[s].bot \in Kept
        /\ relays[sockets[s].bot].url = sockets[s].url
    BY <2>1, KeptSocket
  <2> QED
    BY <1>4, <1>5, <1>6, <2>2 DEF Current, SameLinks
<1>11. ASSUME NEW c \in DOMAIN relays', relays'[c].socket # NoSocket
       PROVE  sockets'[relays'[c].socket].bot = c
  BY <1>4, <1>5, <1>6, <1>11, LinkedSocket DEF SameLinks, Kept
<1>12. NoLeakedSocket'
  BY <1>10, <1>11 DEF NoLeakedSocket, UsedStatus
<1> QED
  BY <1>8, <1>9, <1>12 DEF Linked

LEMMA RequestMovesLinks ==
    ASSUME TypeOK, Linked, NEW b \in Bots, NEW L \in SUBSET Clients,
           b \in DOMAIN topology, NEW n \in SocketIds, RequestMoves(b, L, n)
    PROVE  Linked'
<1> DEFINE S == StoppedOfGone \cup {GetRelay(b).socket}
<1>1. RelaysTyped
  BY DEF TypeOK, RelaysTyped
<1>2. GetRelay(b) \in Relay /\ Len(GetRelay(b).history) <= HistoryCap
  BY <1>1, GetRelayType
<1>3. topology[b] \in Urls
  BY DEF TypeOK
<1>4. /\ DOMAIN relays' = Kept \cup {b}
      /\ \A c \in DOMAIN relays' : c # b => c \in Kept /\ relays'[c] = relays[c]
      /\ relays'[b].started = TRUE
      /\ relays'[b].url = topology[b]
      /\ relays'[b].socket = n
      /\ relays'[b].timer = FALSE
  <2> DEFINE r == Moved(GetRelay(b), topology[b], n)
  <2>1. r \in Relay /\ Len(r.history) <= HistoryCap
    BY <1>2, <1>3, MovedFacts
  <2>2. relays' = RequestedRelays(b, L, r)
    BY DEF RequestMoves
  <2>3. r.started = TRUE /\ r.url = topology[b] /\ r.socket = n /\ r.timer = FALSE
    BY <1>2, <1>3, MovedFacts
  <2> HIDE DEF r
  <2>4. /\ DOMAIN relays' = Kept \cup {b}
        /\ \A c \in DOMAIN relays' : c # b => c \in Kept /\ relays'[c] = relays[c]
        /\ GainsListeners(r, relays'[b], L)
    BY <1>1, <2>1, <2>2, RequestedRelaysFacts
  <2> QED
    BY <2>3, <2>4 DEF GainsListeners
<1>5. /\ sockets'[n] = NewSocket(b, topology[b])
      /\ \A s \in SocketIds \ {n} :
            /\ sockets'[s].bot = sockets[s].bot
            /\ sockets'[s].url = sockets[s].url
            /\ sockets'[s].status = IF s \in S THEN "closing" ELSE sockets[s].status
  BY CloseAllFacts DEF RequestMoves, TypeOK
<1>6. \A s \in SocketIds : s \in S => sockets[s].status # "free"
  BY RelayAssumption, LinkedSocket, CreateRelayFacts DEF StoppedOfGone, GetRelay
<1> HIDE DEF S
<1>7. SocketsInUse'
  BY <1>3, <1>5, <1>6, NewSocketFacts DEF Linked, SocketsInUse
<1>8. StartedHasUrl' /\ RetryArmed'
  BY <1>3, <1>4, RelayAssumption DEF Linked, StartedHasUrl, RetryArmed, Kept
<1>9. ASSUME NEW s \in SocketIds, sockets'[s].status \in UsedStatus
       PROVE  Current(s)' /\ relays'[sockets'[s].bot].url = sockets'[s].url
  <2>1. CASE s = n
    BY <1>3, <1>4, <1>5, <2>1, NewSocketFacts DEF Current
  <2>2. CASE s # n
    <3>1. sockets[s].status \in UsedStatus /\ s \notin S
      BY <1>5, <1>9, <2>2 DEF UsedStatus
    <3>2. /\ Current(s)
          /\ sockets[s].bot \in Kept
          /\ relays[sockets[s].bot].url = sockets[s].url
      BY <3>1, KeptSocket DEF S
    <3>3. sockets[s].bot # b
      BY <3>1, <3>2 DEF Current, GetRelay, S
    <3> QED
      BY <1>4, <1>5, <2>2, <3>2, <3>3 DEF Current
  <2> QED
    BY <2>1, <2>2
<1>10. ASSUME NEW c \in DOMAIN relays', relays'[c].socket # NoSocket
       PROVE  sockets'[relays'[c].socket].bot = c
  <2>1. CASE c = b
    BY <1>3, <1>4, <1>5, <2>1, NewSocketFacts
  <2>2. CASE c # b
    <3>1. c \in DOMAIN relays /\ relays'[c] = relays[c]
      BY <1>4, <2>2 DEF Kept
    <3>2. /\ relays[c].socket \in SocketIds
          /\ sockets[relays[c].socket].bot = c
          /\ relays[c].socket # n
      BY <1>10, <3>1, LinkedSocket DEF RequestMoves
    <3> QED
      BY <1>5, <3>1, <3>2
  <2> QED
    BY <2>1, <2>2
<1>11. NoLeakedSocket'
  BY <1>9, <1>10 DEF NoLeakedSocket, UsedStatus
<1> QED
  BY <1>7, <1>8, <1>11 DEF Linked

LEMMA RequestLinks ==
    ASSUME TypeOK, Linked, NEW b \in Bots, NEW L \in SUBSET Clients, Request(b, L)
    PROVE  Linked'
BY RequestCases, RequestStaysLinks, RequestMovesLinks

\* The close event ends a socket; its relay, if it still has one, gets a timer.
LEMMA CloseLinks ==
    ASSUME TypeOK, Linked, NEW s \in SocketIds, Close(s)
    PROVE  Linked'
<1>1. /\ sockets'[s] = FreeSocket
      /\ \A t \in SocketIds \ {s} : sockets'[t] = sockets[t]
  BY DEF Close, TypeOK
<1>2. sockets[s].bot \in Bots
  BY DEF Close, Linked, SocketsInUse
<1>3. SocketsInUse'
  BY <1>1, FreeSocketFacts DEF Linked, SocketsInUse
<1>4. CASE Current(s)
  <2> DEFINE b == sockets[s].bot
  <2>1. relays' = SetRelay(b, Lost(relays[b]))
    BY <1>4 DEF Close
  <2>2. b \in DOMAIN relays /\ relays[b] \in Relay /\ relays[b].socket = s
    BY <1>4 DEF Current, TypeOK
  <2> HIDE DEF b
  <2>3. /\ Lost(relays[b]).started = relays[b].started
        /\ Lost(relays[b]).url = relays[b].url
        /\ Lost(relays[b]).socket = NoSocket
        /\ Lost(relays[b]).timer = TRUE
    BY <2>2 DEF Lost, Relay
  <2>4. /\ DOMAIN relays' = DOMAIN relays
        /\ relays'[b] = Lost(relays[b])
        /\ \A c \in DOMAIN relays : c # b => relays'[c] = relays[c]
    BY <2>1, <2>2, ReplacedRelayFacts
  <2>5. StartedHasUrl' /\ RetryArmed'
    BY <2>3, <2>4 DEF Linked, StartedHasUrl, RetryArmed
  <2>6. ASSUME NEW t \in SocketIds, sockets'[t].status \in UsedStatus
        PROVE  Current(t)' /\ relays'[sockets'[t].bot].url = sockets'[t].url
    <3>1. t # s /\ sockets'[t] = sockets[t]
      BY <1>1, <2>6, FreeSocketFacts DEF UsedStatus
    <3>2. Current(t) /\ relays[sockets[t].bot].url = sockets[t].url
      BY <2>6, <3>1 DEF Linked, NoLeakedSocket, UsedStatus
    <3>3. sockets[t].bot # b
      BY <2>2, <3>1, <3>2 DEF Current
    <3> QED
      BY <2>4, <3>1, <3>2, <3>3 DEF Current
  <2>7. ASSUME NEW c \in DOMAIN relays', relays'[c].socket # NoSocket
        PROVE  sockets'[relays'[c].socket].bot = c
    <3>1. c # b /\ c \in DOMAIN relays /\ relays'[c] = relays[c]
      BY <2>3, <2>4, <2>7
    <3>2. relays[c].socket \in SocketIds /\ sockets[relays[c].socket].bot = c
      BY <2>7, <3>1, LinkedSocket
    <3>3. relays[c].socket # s
      BY <3>1, <3>2 DEF b
    <3> QED
      BY <1>1, <3>1, <3>2, <3>3
  <2>8. NoLeakedSocket'
    BY <2>6, <2>7 DEF NoLeakedSocket, UsedStatus
  <2> QED
    BY <1>3, <2>5, <2>8 DEF Linked
<1>5. CASE ~Current(s)
  <2>1. relays' = relays
    BY <1>5 DEF Close
  <2>2. StartedHasUrl' /\ RetryArmed'
    BY <2>1 DEF Linked, StartedHasUrl, RetryArmed
  <2>3. ASSUME NEW t \in SocketIds, sockets'[t].status \in UsedStatus
        PROVE  Current(t)' /\ relays'[sockets'[t].bot].url = sockets'[t].url
    <3>1. t # s /\ sockets'[t] = sockets[t]
      BY <1>1, <2>3, FreeSocketFacts DEF UsedStatus
    <3> QED
      BY <2>1, <2>3, <3>1 DEF Linked, NoLeakedSocket, UsedStatus, Current
  <2>4. ASSUME NEW c \in DOMAIN relays', relays'[c].socket # NoSocket
        PROVE  sockets'[relays'[c].socket].bot = c
    <3>1. relays[c].socket \in SocketIds /\ sockets[relays[c].socket].bot = c
      BY <2>1, <2>4, LinkedSocket
    <3>2. relays[c].socket # s
      BY <1>5, <2>1, <2>4, <3>1 DEF Current
    <3> QED
      BY <1>1, <2>1, <3>1, <3>2
  <2>5. NoLeakedSocket'
    BY <2>3, <2>4 DEF NoLeakedSocket, UsedStatus
  <2> QED
    BY <1>3, <2>2, <2>5 DEF Linked
<1> QED
  BY <1>4, <1>5

\* The timer gives its relay a socket.  It finds neither a socket nor no address:
\* those branches are for relays that were never started.
LEMMA ReconnectLinks ==
    ASSUME TypeOK, Linked, NEW b \in Bots, Reconnect(b)
    PROVE  Linked'
<1>1. b \in DOMAIN relays /\ relays[b] \in Relay /\ relays[b].timer
  BY DEF Reconnect, TypeOK
<1>2. CASE /\ UNCHANGED sockets
           /\ relays[b].url = NoUrl \/ relays[b].socket # NoSocket
           /\ relays' = SetRelay(b, [relays[b] EXCEPT !.timer = FALSE])
  <2> DEFINE r == [relays[b] EXCEPT !.timer = FALSE]
  <2>1. /\ r.started = relays[b].started
        /\ r.url = relays[b].url
        /\ r.socket = relays[b].socket
        /\ r.timer = FALSE
    BY <1>1 DEF Relay
  <2>2. ~relays[b].started
    BY <1>1, <1>2, RelayAssumption DEF Linked, StartedHasUrl, RetryArmed
  <2> HIDE DEF r
  <2>3. /\ DOMAIN relays' = DOMAIN relays
        /\ relays'[b] = r
        /\ \A c \in DOMAIN relays : c # b => relays'[c] = relays[c]
    <3>1. relays' = SetRelay(b, r)
      BY <1>2 DEF r
    <3> QED
      BY <1>1, <3>1, ReplacedRelayFacts
  <2>4. SocketsInUse' /\ StartedHasUrl' /\ RetryArmed'
    <3>1. SocketsInUse'
      BY <1>2, <2>3 DEF Linked, SocketsInUse
    <3>2. StartedHasUrl'
      BY <2>1, <2>3 DEF Linked, StartedHasUrl
    <3>3. RetryArmed'
      BY <2>1, <2>2, <2>3 DEF Linked, RetryArmed
    <3> QED
      BY <3>1, <3>2, <3>3
  <2>5. \A c \in DOMAIN relays : /\ relays'[c].socket = relays[c].socket
                                 /\ relays'[c].url = relays[c].url
    BY <2>1, <2>3
  <2>6. NoLeakedSocket'
    <3>1. NoLeakedSocket
      BY DEF Linked
    <3>2. \A s \in SocketIds : Current(s) => Current(s)'
      BY <1>2, <2>3, <2>5 DEF Current
    <3>3. \A s \in SocketIds : Current(s) =>
             relays'[sockets'[s].bot].url = relays[sockets[s].bot].url
      BY <1>2, <2>5 DEF Current
    <3> QED
      BY <1>2, <2>3, <2>5, <3>1, <3>2, <3>3 DEF NoLeakedSocket
  <2> QED
    BY <2>4, <2>6 DEF Linked
<1>3. ASSUME NEW n \in SocketIds, sockets[n].status = "free",
             relays[b].url # NoUrl, relays[b].socket = NoSocket,
             relays' = SetRelay(b, [relays[b] EXCEPT !.timer = FALSE, !.socket = n]),
             sockets' = [sockets EXCEPT ![n] = NewSocket(b, relays[b].url)]
      PROVE  Linked'
  <2> DEFINE r == [relays[b] EXCEPT !.timer = FALSE, !.socket = n]
  <2>1. /\ r.started = relays[b].started
        /\ r.url = relays[b].url
        /\ r.socket = n
        /\ r.timer = FALSE
        /\ relays[b].url \in Urls
    BY <1>1, <1>3 DEF Relay
  <2> HIDE DEF r
  <2>2. /\ DOMAIN relays' = DOMAIN relays
        /\ relays'[b] = r
        /\ \A c \in DOMAIN relays : c # b => relays'[c] = relays[c]
    <3>1. relays' = SetRelay(b, r)
      BY <1>3 DEF r
    <3> QED
      BY <1>1, <3>1, ReplacedRelayFacts
  <2>3. /\ sockets'[n].bot = b
        /\ sockets'[n].url = relays[b].url
        /\ sockets'[n].status = "connecting"
        /\ \A t \in SocketIds \ {n} : sockets'[t] = sockets[t]
    BY <1>3, <2>1, NewSocketFacts DEF TypeOK
  <2>4. SocketsInUse'
    BY <2>1, <2>3 DEF Linked, SocketsInUse
  <2>5. StartedHasUrl' /\ RetryArmed'
    BY <2>1, <2>2, RelayAssumption DEF Linked, StartedHasUrl, RetryArmed
  <2>6. ASSUME NEW t \in SocketIds, sockets'[t].status \in UsedStatus
        PROVE  Current(t)' /\ relays'[sockets'[t].bot].url = sockets'[t].url
    <3>1. CASE t = n
      BY <1>1, <2>1, <2>2, <2>3, <3>1 DEF Current
    <3>2. CASE t # n
      <4>1. Current(t) /\ relays[sockets[t].bot].url = sockets[t].url
        BY <2>3, <2>6, <3>2 DEF Linked, NoLeakedSocket, UsedStatus
      <4>2. sockets[t].bot # b
        BY <1>3, <4>1, RelayAssumption DEF Current
      <4> QED
        BY <2>2, <2>3, <3>2, <4>1, <4>2 DEF Current
    <3> QED
      BY <3>1, <3>2
  <2>7. ASSUME NEW c \in DOMAIN relays', relays'[c].socket # NoSocket
        PROVE  sockets'[relays'[c].socket].bot = c
    <3>1. CASE c = b
      BY <2>1, <2>2, <2>3, <3>1
    <3>2. CASE c # b
      <4>1. c \in DOMAIN relays /\ relays'[c] = relays[c]
        BY <2>2, <3>2
      <4>2. /\ relays[c].socket \in SocketIds
            /\ sockets[relays[c].socket].bot = c
            /\ relays[c].socket # n
        BY <1>3, <2>7, <4>1, LinkedSocket
      <4> QED
        BY <2>3, <4>1, <4>2
    <3> QED
      BY <3>1, <3>2
  <2>8. NoLeakedSocket'
    BY <2>6, <2>7 DEF NoLeakedSocket, UsedStatus
  <2> QED
    BY <2>4, <2>5, <2>8 DEF Linked
<1> QED
  BY <1>2, <1>3 DEF Reconnect

LEMMA NextLinks == TypeOK /\ Linked /\ [Next]_vars => Linked'
<1> SUFFICES ASSUME TypeOK, Linked, [Next]_vars PROVE Linked'
  OBVIOUS
<1> USE DEF webVars, webhookVars, UsedStatus
<1>1. ASSUME NEW b \in Bots, Snapshot(b) PROVE Linked'
  <2>1. Request(b, {})
    BY <1>1 DEF Snapshot
  <2> QED
    BY <2>1, RequestLinks
<1>2. ASSUME NEW c \in Clients, NEW b \in Bots, Subscribe(c, b) PROVE Linked'
  <2>1. Request(b, {c}) /\ {c} \in SUBSET Clients
    BY <1>2 DEF Subscribe
  <2> QED
    BY <2>1, RequestLinks
<1>3. ASSUME NEW c \in Clients, Abort(c) PROVE Linked'
  <2>1. /\ DOMAIN relays' = DOMAIN relays
        /\ \A b \in DOMAIN relays : relays'[b] = [relays[b] EXCEPT !.listeners = @ \ {c}]
        /\ UNCHANGED sockets
    BY <1>3 DEF Abort, Unsubscribed
  <2>2. \A b \in DOMAIN relays : SameLinks(b)
    BY <2>1 DEF TypeOK, Relay, SameLinks
  <2> QED
    BY <2>1, <2>2, LinksKept
<1>4. CASE ResetAllRelays
  <2>1. /\ DOMAIN relays' = DOMAIN relays
        /\ \A b \in DOMAIN relays : relays'[b] = WithFreshState(relays[b])
        /\ UNCHANGED sockets
    BY <1>4 DEF ResetAllRelays
  <2>2. \A b \in DOMAIN relays : SameLinks(b)
    <3> SUFFICES ASSUME NEW b \in DOMAIN relays PROVE SameLinks(b)
      OBVIOUS
    <3>1. relays[b] \in Relay /\ relays'[b] = WithFreshState(relays[b])
      BY <2>1 DEF TypeOK
    <3> QED
      BY <3>1 DEF Relay, WithFreshState, SameLinks
  <2> QED
    BY <2>1, <2>2, LinksKept
<1>5. ASSUME NEW s \in SocketIds, NEW v \in BOOLEAN,
             relays' = IF Current(s)
                       THEN SetRelay(sockets[s].bot,
                                     [relays[sockets[s].bot] EXCEPT !.connected = v])
                       ELSE relays
      PROVE  DOMAIN relays' = DOMAIN relays /\ \A b \in DOMAIN relays : SameLinks(b)
  <2>1. CASE Current(s)
    <3> DEFINE b == sockets[s].bot
               r == [relays[b] EXCEPT !.connected = v]
    <3>1. b \in DOMAIN relays /\ relays[b] \in Relay /\ relays' = SetRelay(b, r)
      BY <1>5, <2>1 DEF Current, TypeOK
    <3>2. /\ r.started = relays[b].started /\ r.url = relays[b].url
          /\ r.socket = relays[b].socket /\ r.timer = relays[b].timer
      BY <3>1 DEF Relay
    <3> HIDE DEF r, b
    <3>3. /\ DOMAIN relays' = DOMAIN relays /\ relays'[b] = r
          /\ \A c \in DOMAIN relays : c # b => relays'[c] = relays[c]
      BY <3>1, ReplacedRelayFacts
    <3> QED
      BY <3>2, <3>3 DEF SameLinks
  <2>2. CASE ~Current(s)
    BY <1>5, <2>2 DEF SameLinks
  <2> QED
    BY <2>1, <2>2
<1>6. ASSUME NEW s \in SocketIds, Open(s) PROVE Linked'
  <2>1. DOMAIN relays' = DOMAIN relays /\ \A b \in DOMAIN relays : SameLinks(b)
    BY <1>5, <1>6 DEF Open
  <2>2. \A t \in SocketIds :
           /\ sockets'[t].bot = sockets[t].bot
           /\ sockets'[t].url = sockets[t].url
           /\ sockets'[t].status = IF t = s THEN "open" ELSE sockets[t].status
    <3> DEFINE n == IF log[sockets[s].url] = <<>> THEN 1
                    ELSE Len(log[sockets[s].url])
               k == [sockets[s] EXCEPT !.status = "open", !.next = n]
    <3>1. sockets' = [sockets EXCEPT ![s] = k] /\ sockets[s] \in Socket
      BY <1>6 DEF Open, TypeOK
    <3> HIDE DEF n
    <3>2. k.bot = sockets[s].bot /\ k.url = sockets[s].url /\ k.status = "open"
      BY <3>1 DEF Socket
    <3> HIDE DEF k
    <3> QED
      BY <3>1, <3>2 DEF TypeOK
  <2>3. sockets[s].status = "connecting"
    BY <1>6 DEF Open
  <2> QED
    BY <2>1, <2>2, <2>3, LinksKept
<1>7. ASSUME NEW s \in SocketIds, sockets' = [sockets EXCEPT ![s].next = @ + 1]
      PROVE  \A t \in SocketIds : /\ sockets'[t].bot = sockets[t].bot
                                  /\ sockets'[t].url = sockets[t].url
                                  /\ sockets'[t].status = sockets[t].status
  BY <1>7 DEF TypeOK, Socket
<1>8. ASSUME NEW s \in SocketIds, Message(s) PROVE Linked'
  <2> DEFINE b == sockets[s].bot
             p == [url |-> sockets[s].url, n |-> sockets[s].next]
             r == [GetRelay(b) EXCEPT !.connected = TRUE,
                      !.history = Capped(<<p>> \o @),
                      !.activeAlerts = NextActive(GetRelay(b), p)]
  <2>1. sockets' = [sockets EXCEPT ![s].next = @ + 1] /\ relays' = SetRelay(b, r)
    BY <1>8 DEF Message
  <2>2. b \in Bots /\ GetRelay(b) \in Relay
    BY <1>8, ArrivingPayload, GetRelayType DEF Message, Linked, TypeOK, RelaysTyped
  <2>3. /\ r.started = GetRelay(b).started /\ r.url = GetRelay(b).url
        /\ r.socket = GetRelay(b).socket /\ r.timer = GetRelay(b).timer
    BY <2>2 DEF Relay
  <2> HIDE DEF r, b
  <2>4. /\ DOMAIN relays' = DOMAIN relays \cup {b} /\ relays'[b] = r
        /\ \A c \in DOMAIN relays : c # b => relays'[c] = relays[c]
    BY <2>1 DEF SetRelay
  <2>5. \A c \in DOMAIN relays : SameLinks(c)
    BY <2>3, <2>4 DEF SameLinks, GetRelay
  <2>6. \A c \in DOMAIN relays' \ DOMAIN relays :
           relays'[c].started = FALSE /\ relays'[c].socket = NoSocket
    BY <2>3, <2>4, CreateRelayFacts DEF GetRelay
  <2> QED
    BY <1>7, <2>1, <2>4, <2>5, <2>6, LinksKept
<1>9. ASSUME NEW s \in SocketIds, Garbage(s) PROVE Linked'
  <2>1. relays' = relays /\ sockets' = [sockets EXCEPT ![s].next = @ + 1]
    BY <1>9 DEF Garbage
  <2> QED
    BY <1>7, <2>1, LinksKept DEF SameLinks
<1>10. ASSUME NEW s \in SocketIds, Error(s) PROVE Linked'
  <2>1. DOMAIN relays' = DOMAIN relays /\ \A b \in DOMAIN relays : SameLinks(b)
    BY <1>5, <1>10 DEF Error
  <2>2. \A t \in SocketIds :
           /\ sockets'[t].bot = sockets[t].bot
           /\ sockets'[t].url = sockets[t].url
           /\ sockets'[t].status = IF t = s THEN "failed" ELSE sockets[t].status
    BY <1>10 DEF Error, TypeOK, Socket
  <2>3. sockets[s].status \in {"connecting", "open"}
    BY <1>10 DEF Error
  <2> QED
    BY <2>1, <2>2, <2>3, LinksKept
<1>11. ASSUME NEW s \in SocketIds, Close(s) PROVE Linked'
  BY <1>11, CloseLinks
<1>12. ASSUME NEW b \in Bots, Reconnect(b) PROVE Linked'
  BY <1>12, ReconnectLinks
<1>13. CASE UNCHANGED <<relays, sockets>>
  BY <1>13, LinksKept DEF SameLinks
<1> QED
  BY <1>1, <1>2, <1>3, <1>4, <1>6, <1>8, <1>9, <1>10, <1>11, <1>12, <1>13
     DEF Next, RequestNext, SocketNext, EnvironmentNext, vars,
         UpdateTopology, Toggle, Emit

LEMMA InitLinks == Init => Linked
BY FreeSocketFacts DEF Init, Linked, SocketsInUse, NoLeakedSocket, RetryArmed,
                       StartedHasUrl

LEMMA InductiveLinks == Spec => [](TypeOK /\ Linked)
<1>1. Init => TypeOK /\ Linked
  BY InitType, InitLinks
<1>2. TypeOK /\ Linked /\ [Next]_vars => (TypeOK /\ Linked)'
  BY NextType, NextLinks DEF Linked
<1> QED
  BY <1>1, <1>2, PTL DEF Spec

\* Every variable of the relay has its type, and no history outgrows its cap, for
\* any number of bots, sockets and payloads (the relays map, ingestPayload, cap).
THEOREM TypeCorrect == Spec => []TypeOK
BY InductiveLinks, PTL

\* No connection to a bot leaks or is doubled, whatever the order of requests,
\* topology changes, timers and late socket events (connect, stopRelay).
THEOREM SocketsNeverLeak == Spec => []NoLeakedSocket
<1>1. Linked => NoLeakedSocket
  BY DEF Linked
<1> QED
  BY <1>1, InductiveLinks, PTL

\* A started relay is never left with neither socket nor timer, nor with both
\* (scheduleReconnect, stopRelay).
THEOREM RelaysKeepRetrying == Spec => []RetryArmed
<1>1. Linked => RetryArmed
  BY DEF Linked
<1> QED
  BY <1>1, InductiveLinks, PTL

-----------------------------------------------------------------------------
(* Listeners and announced alerts: what a relay carries through its moves *)

SameContents(b) ==
    /\ relays'[b].history = relays[b].history
    /\ relays'[b].activeAlerts = relays[b].activeAlerts

\* A request carries listeners, history and active alerts over.
LEMMA RequestContents ==
    ASSUME TypeOK, NEW b \in Bots, NEW L \in SUBSET Clients, Request(b, L)
    PROVE  /\ DOMAIN relays' = Kept \cup {b}
           /\ \A c \in DOMAIN relays' : c # b => c \in Kept /\ relays'[c] = relays[c]
           /\ relays'[b].listeners = GetRelay(b).listeners \cup L
           /\ relays'[b].history = GetRelay(b).history
           /\ relays'[b].activeAlerts = GetRelay(b).activeAlerts
<1>1. RelaysTyped
  BY DEF TypeOK, RelaysTyped
<1>2. GetRelay(b) \in Relay /\ Len(GetRelay(b).history) <= HistoryCap
  BY <1>1, GetRelayType
<1>3. topology[b] \in Urls
  BY RequestCases DEF TypeOK
<1>4. CASE RequestStays(b, L)
  <2>1. relays' = RequestedRelays(b, L, GetRelay(b))
    BY <1>4 DEF RequestStays
  <2>2. /\ DOMAIN relays' = Kept \cup {b}
        /\ \A c \in DOMAIN relays' : c # b => c \in Kept /\ relays'[c] = relays[c]
        /\ GainsListeners(GetRelay(b), relays'[b], L)
    BY <1>1, <1>2, <2>1, RequestedRelaysFacts
  <2> QED
    BY <2>2 DEF GainsListeners
<1>5. ASSUME NEW s \in SocketIds, RequestMoves(b, L, s)
      PROVE  /\ DOMAIN relays' = Kept \cup {b}
             /\ \A c \in DOMAIN relays' : c # b => c \in Kept /\ relays'[c] = relays[c]
             /\ relays'[b].listeners = GetRelay(b).listeners \cup L
             /\ relays'[b].history = GetRelay(b).history
             /\ relays'[b].activeAlerts = GetRelay(b).activeAlerts
  <2> DEFINE r == Moved(GetRelay(b), topology[b], s)
  <2>1. /\ r \in Relay /\ Len(r.history) <= HistoryCap
        /\ r.history = GetRelay(b).history
        /\ r.activeAlerts = GetRelay(b).activeAlerts
        /\ r.listeners = GetRelay(b).listeners
    <3>1. GetRelay(b) \in Relay /\ Len(GetRelay(b).history) <= HistoryCap
          /\ topology[b] \in Urls
      BY <1>2, <1>3
    <3> DEFINE old == GetRelay(b)
               url == topology[b]
    <3> HIDE DEF old, url
    <3>2. old \in Relay /\ url \in Urls
      BY <3>1 DEF old, url
    <3>3. /\ Moved(old, url, s) \in Relay
          /\ Moved(old, url, s).history = old.history
          /\ Moved(old, url, s).activeAlerts = old.activeAlerts
          /\ Moved(old, url, s).listeners = old.listeners
      BY <3>2 DEF Moved, Relay
    <3> QED
      BY <3>1, <3>3 DEF old, url
  <2>2. relays' = RequestedRelays(b, L, r)
    BY <1>5 DEF RequestMoves
  <2> HIDE DEF r
  <2>3. /\ DOMAIN relays' = Kept \cup {b}
        /\ \A c \in DOMAIN relays' : c # b => c \in Kept /\ relays'[c] = relays[c]
        /\ GainsListeners(r, relays'[b], L)
    BY <1>1, <2>1, <2>2, RequestedRelaysFacts
  <2> QED
    BY <2>1, <2>3 DEF GainsListeners
<1> QED
  BY <1>4, <1>5, RequestCases

\* Socket events and timers touch neither listeners, history nor active alerts,
\* but for a message that is taken in.
LEMMA EventsKeepContents ==
    ASSUME TypeOK, SocketsInUse,
           \/ \E s \in SocketIds : Open(s) \/ Garbage(s) \/ Error(s) \/ Close(s)
           \/ \E b \in Bots : Reconnect(b)
    PROVE  /\ DOMAIN relays' = DOMAIN relays
           /\ \A b \in DOMAIN relays :
                 SameContents(b) /\ relays'[b].listeners = relays[b].listeners
           /\ UNCHANGED <<clients, log, told, forgot>>
<1> DEFINE Goal == /\ DOMAIN relays' = DOMAIN relays
                   /\ \A b \in DOMAIN relays :
                         SameContents(b) /\ relays'[b].listeners = relays[b].listeners
<1> USE DEF webhookVars
<1>1. ASSUME NEW b \in DOMAIN relays, NEW r, relays' = SetRelay(b, r),
             r.history = relays[b].history, r.activeAlerts = relays[b].activeAlerts,
             r.listeners = relays[b].listeners
      PROVE  Goal
  <2>1. /\ DOMAIN relays' = DOMAIN relays /\ relays'[b] = r
        /\ \A c \in DOMAIN relays : c # b => relays'[c] = relays[c]
    BY <1>1, ReplacedRelayFacts
  <2> QED
    BY <1>1, <2>1 DEF SameContents
<1>2. \A b \in DOMAIN relays : relays[b] \in Relay
  BY DEF TypeOK
<1>3. ASSUME NEW s \in SocketIds, NEW v \in BOOLEAN,
             relays' = IF Current(s)
                       THEN SetRelay(sockets[s].bot,
                                     [relays[sockets[s].bot] EXCEPT !.connected = v])
                       ELSE relays
      PROVE  Goal
  <2>1. CASE Current(s)
    <3> DEFINE b == sockets[s].bot
               r == [relays[b] EXCEPT !.connected = v]
    <3>1. b \in DOMAIN relays /\ relays[b] \in Relay /\ relays' = SetRelay(b, r)
      BY <1>2, <1>3, <2>1 DEF Current
    <3>2. /\ r.history = relays[b].history /\ r.listeners = relays[b].listeners
          /\ r.activeAlerts = relays[b].activeAlerts
      BY <3>1 DEF Relay
    <3> HIDE DEF r, b, Goal
    <3> QED
      BY <1>1, <3>1, <3>2
  <2>2. CASE ~Current(s)
    BY <1>3, <2>2 DEF SameContents
  <2> QED
    BY <2>1, <2>2
<1> HIDE DEF Goal
<1>4. ASSUME NEW s \in SocketIds, Open(s)
      PROVE  Goal /\ UNCHANGED <<clients, log, told, forgot>>
  <2>1. relays' = IF Current(s)
                  THEN SetRelay(sockets[s].bot,
                                [relays[sockets[s].bot] EXCEPT !.connected = TRUE])
                  ELSE relays
    BY <1>4 DEF Open
  <2> QED
    BY <1>3, <1>4, <2>1 DEF Open
<1>5. ASSUME NEW s \in SocketIds, Garbage(s)
      PROVE  Goal /\ UNCHANGED <<clients, log, told, forgot>>
  BY <1>5 DEF Garbage, Goal, SameContents
<1>6. ASSUME NEW s \in SocketIds, Error(s)
      PROVE  Goal /\ UNCHANGED <<clients, log, told, forgot>>
  BY <1>3, <1>6 DEF Error
<1>7. ASSUME NEW s \in SocketIds, Close(s)
      PROVE  Goal /\ UNCHANGED <<clients, log, told, forgot>>
  <2>1. CASE Current(s)
    <3> DEFINE b == sockets[s].bot
    <3>1. b \in DOMAIN relays /\ relays[b] \in Relay
          /\ relays' = SetRelay(b, Lost(relays[b]))
      BY <1>2, <1>7, <2>1 DEF Current, Close
    <3>2. /\ Lost(relays[b]).history = relays[b].history
          /\ Lost(relays[b]).listeners = relays[b].listeners
          /\ Lost(relays[b]).activeAlerts = relays[b].activeAlerts
      BY <3>1 DEF Relay, Lost
    <3> HIDE DEF b
    <3> QED
      BY <1>1, <1>7, <3>1, <3>2 DEF Close
  <2>2. CASE ~Current(s)
    BY <1>7, <2>2 DEF Close, Goal, SameContents
  <2> QED
    BY <2>1, <2>2
<1>8. ASSUME NEW b \in Bots, Reconnect(b)
      PROVE  Goal /\ UNCHANGED <<clients, log, told, forgot>>
  <2>1. b \in DOMAIN relays /\ relays[b] \in Relay
    BY <1>2, <1>8 DEF Reconnect
  <2>2. \E r : /\ relays' = SetRelay(b, r)
               /\ r.history = relays[b].history
               /\ r.listeners = relays[b].listeners
               /\ r.activeAlerts = relays[b].activeAlerts
    <3>1. CASE relays' = SetRelay(b, [relays[b] EXCEPT !.timer = FALSE])
      <4>1. /\ [relays[b] EXCEPT !.timer = FALSE].history = relays[b].history
            /\ [relays[b] EXCEPT !.timer = FALSE].listeners = relays[b].listeners
            /\ [relays[b] EXCEPT !.timer = FALSE].activeAlerts = relays[b].activeAlerts
        BY <2>1 DEF Relay
      <4> QED
        BY <3>1, <4>1
    <3>2. ASSUME NEW n \in SocketIds,
                 relays' = SetRelay(b, [relays[b] EXCEPT !.timer = FALSE, !.socket = n])
          PROVE  \E r : /\ relays' = SetRelay(b, r)
                        /\ r.history = relays[b].history
                        /\ r.listeners = relays[b].listeners
                        /\ r.activeAlerts = relays[b].activeAlerts
      <4> DEFINE t == [relays[b] EXCEPT !.timer = FALSE, !.socket = n]
      <4>1. /\ t.history = relays[b].history /\ t.listeners = relays[b].listeners
            /\ t.activeAlerts = relays[b].activeAlerts
        BY <2>1 DEF Relay
      <4>2. relays' = SetRelay(b, t)
        BY <3>2
      <4> HIDE DEF t
      <4> QED
        BY <4>1, <4>2
    <3> QED
      BY <1>8, <3>1, <3>2 DEF Reconnect
  <2> QED
    BY <1>1, <1>8, <2>1, <2>2 DEF Reconnect
<1> QED
  BY <1>4, <1>5, <1>6, <1>7, <1>8 DEF Goal

LEMMA NextListeners ==
    TypeOK /\ SocketsInUse /\ ListenersAreOpen /\ [Next]_vars => ListenersAreOpen'
<1> SUFFICES ASSUME TypeOK, SocketsInUse, ListenersAreOpen, [Next]_vars
             PROVE  ListenersAreOpen'
  OBVIOUS
<1> USE DEF webVars, webhookVars
<1>1. ASSUME NEW b \in Bots, NEW L \in SUBSET Clients, Request(b, L),
             NEW c \in DOMAIN relays', NEW x \in relays'[c].listeners
      PROVE  (x \in L /\ c = b) \/ (c \in DOMAIN relays /\ x \in relays[c].listeners)
  <2>1. CASE c = b
    <3>1. relays'[b].listeners = GetRelay(b).listeners \cup L
      BY <1>1, RequestContents
    <3>2. b \in DOMAIN relays => GetRelay(b) = relays[b]
      BY DEF GetRelay
    <3>3. b \notin DOMAIN relays => GetRelay(b).listeners = {}
      BY CreateRelayFacts DEF GetRelay
    <3> QED
      BY <1>1, <2>1, <3>1, <3>2, <3>3
  <2>2. CASE c # b
    BY <1>1, <2>2, RequestContents DEF Kept
  <2> QED
    BY <2>1, <2>2
<1>2. ASSUME NEW b \in Bots, Snapshot(b) PROVE ListenersAreOpen'
  <2>1. Request(b, {}) /\ UNCHANGED clients
    BY <1>2 DEF Snapshot
  <2> QED
    BY <1>1, <2>1 DEF ListenersAreOpen
<1>3. ASSUME NEW c \in Clients, NEW b \in Bots, Subscribe(c, b)
      PROVE  ListenersAreOpen'
  <2>1. /\ Request(b, {c}) /\ {c} \in SUBSET Clients
        /\ clients[c] = NoBot
        /\ clients' = [clients EXCEPT ![c] = b]
    BY <1>3 DEF Subscribe
  <2>2. ASSUME NEW d \in DOMAIN relays', NEW x \in relays'[d].listeners
        PROVE  clients'[x] = d
    <3>1. CASE x = c /\ d = b
      BY <2>1, <3>1 DEF TypeOK
    <3>2. CASE d \in DOMAIN relays /\ x \in relays[d].listeners
      <4>1. clients[x] = d /\ d \in Bots /\ x \in Clients
        BY <3>2 DEF ListenersAreOpen, TypeOK, Relay
      <4>2. x # c
        BY <2>1, <4>1, RelayAssumption
      <4> QED
        BY <2>1, <4>1, <4>2 DEF TypeOK
    <3> QED
      BY <1>1, <2>1, <2>2, <3>1, <3>2
  <2> QED
    BY <2>2 DEF ListenersAreOpen
<1>4. ASSUME NEW c \in Clients, Abort(c) PROVE ListenersAreOpen'
  <2>1. /\ clients' = [clients EXCEPT ![c] = NoBot]
        /\ DOMAIN relays' = DOMAIN relays
        /\ \A b \in DOMAIN relays : relays'[b] = [relays[b] EXCEPT !.listeners = @ \ {c}]
    BY <1>4 DEF Abort, Unsubscribed
  <2>2. ASSUME NEW b \in DOMAIN relays', NEW x \in relays'[b].listeners
        PROVE  clients'[x] = b
    <3>1. /\ b \in DOMAIN relays /\ relays[b] \in Relay
          /\ relays'[b] = [relays[b] EXCEPT !.listeners = @ \ {c}]
      BY <2>1, <2>2 DEF TypeOK
    <3>2. relays'[b].listeners = relays[b].listeners \ {c}
      BY <3>1 DEF Relay
    <3>3. x \in relays[b].listeners /\ x # c /\ x \in Clients
      BY <2>2, <3>1, <3>2 DEF Relay
    <3> QED
      BY <2>1, <3>1, <3>3 DEF ListenersAreOpen, TypeOK
  <2> QED
    BY <2>2 DEF ListenersAreOpen
<1>5. CASE ResetAllRelays
  <2>1. /\ UNCHANGED clients
        /\ DOMAIN relays' = DOMAIN relays
        /\ \A b \in DOMAIN relays : relays'[b] = WithFreshState(relays[b])
    BY <1>5 DEF ResetAllRelays
  <2>2. ASSUME NEW b \in DOMAIN relays'
        PROVE  relays'[b].listeners = relays[b].listeners
    <3>1. relays[b] \in Relay /\ relays'[b] = WithFreshState(relays[b])
      BY <2>1, <2>2 DEF TypeOK
    <3> QED
      BY <3>1 DEF Relay, WithFreshState
  <2> QED
    BY <2>1, <2>2 DEF ListenersAreOpen
<1>6. ASSUME NEW s \in SocketIds, Message(s) PROVE ListenersAreOpen'
  <2> DEFINE b == sockets[s].bot
             p == [url |-> sockets[s].url, n |-> sockets[s].next]
             r == [GetRelay(b) EXCEPT !.connected = TRUE,
                      !.history = Capped(<<p>> \o @),
                      !.activeAlerts = NextActive(GetRelay(b), p)]
  <2>1. relays' = SetRelay(b, r) /\ UNCHANGED clients
    BY <1>6 DEF Message
  <2>2. b \in Bots /\ GetRelay(b) \in Relay
    BY <1>6, ArrivingPayload, GetRelayType DEF Message, TypeOK, RelaysTyped
  <2>3. r.listeners = GetRelay(b).listeners
    BY <2>2 DEF Relay
  <2> HIDE DEF r, b
  <2>4. /\ DOMAIN relays' = DOMAIN relays \cup {b} /\ relays'[b] = r
        /\ \A c \in DOMAIN relays : c # b => relays'[c] = relays[c]
    BY <2>1 DEF SetRelay
  <2> QED
    BY <2>1, <2>3, <2>4, CreateRelayFacts DEF ListenersAreOpen, GetRelay
<1>7. CASE \/ \E s \in SocketIds : Open(s) \/ Garbage(s) \/ Error(s) \/ Close(s)
           \/ \E b \in Bots : Reconnect(b)
  BY <1>7, EventsKeepContents DEF ListenersAreOpen
<1>8. CASE UNCHANGED <<relays, clients>>
  BY <1>8 DEF ListenersAreOpen
<1> QED
  BY <1>2, <1>3, <1>4, <1>5, <1>6, <1>7, <1>8
     DEF Next, RequestNext, SocketNext, EnvironmentNext, vars,
         UpdateTopology, Toggle, Emit

\* No listener outlives its dashboard, whatever moves, prunes, late messages and
\* resets happen to the relay it was put into (subscribeToEngineStream).
THEOREM ListenersEndWithDashboards == Spec => []ListenersAreOpen
<1>1. Init => ListenersAreOpen
  BY DEF Init, ListenersAreOpen
<1>2. Linked => SocketsInUse
  BY DEF Linked
<1> QED
  BY <1>1, <1>2, InductiveLinks, NextListeners, PTL DEF Spec

\* What the webhooks told of a bot is what its relay r remembers as active, and
\* that is what the last payload in its history says, by the logs l.
Recalls(r, t, l) ==
    /\ r.activeAlerts = t
    /\ r.history = <<>> => t = {}
    /\ r.history # <<>> => LET p == Head(r.history) IN
          t = l[p.url][p.n] /\ p.n \in 1 .. Len(l[p.url])

\* A bot without a relay has nothing announced.
Remembered ==
    \A b \in Bots \ forgot :
        IF b \in DOMAIN relays THEN Recalls(relays[b], told[b], log)
                               ELSE told[b] = {}

LEMMA RememberedKept ==
    ASSUME Remembered, DOMAIN relays' = DOMAIN relays,
           \A b \in DOMAIN relays : SameContents(b),
           UNCHANGED <<log, told, forgot>>
    PROVE  Remembered'
BY DEF Remembered, SameContents, Recalls

LEMMA RequestRemembers ==
    ASSUME TypeOK, Remembered, NEW b \in Bots, NEW L \in SUBSET Clients, Request(b, L)
    PROVE  Remembered'
<1>1. /\ DOMAIN relays' = Kept \cup {b}
      /\ \A c \in DOMAIN relays' : c # b => c \in Kept /\ relays'[c] = relays[c]
      /\ relays'[b].history = GetRelay(b).history
      /\ relays'[b].activeAlerts = GetRelay(b).activeAlerts
  BY RequestContents
<1>2. /\ forgot' = forgot \cup {c \in DOMAIN relays \ Kept : told[c] # {}}
      /\ UNCHANGED <<log, told>>
  BY RequestCases
<1>3. ASSUME NEW c \in Bots \ forgot', c \notin DOMAIN relays'
      PROVE  told'[c] = {}
  <2>1. CASE c \in DOMAIN relays
    BY <1>1, <1>2, <1>3, <2>1
  <2>2. CASE c \notin DOMAIN relays
    BY <1>2, <1>3, <2>2 DEF Remembered
  <2> QED
    BY <2>1, <2>2
<1>4. ASSUME NEW c \in Bots \ forgot', c \in DOMAIN relays'
      PROVE  Recalls(relays'[c], told'[c], log')
  <2>1. CASE c \in DOMAIN relays
    <3>1. /\ relays'[c].history = relays[c].history
          /\ relays'[c].activeAlerts = relays[c].activeAlerts
      BY <1>1, <1>4, <2>1 DEF GetRelay
    <3>2. Recalls(relays[c], told[c], log)
      BY <1>2, <1>4, <2>1 DEF Remembered
    <3> QED
      BY <1>2, <3>1, <3>2 DEF Recalls
  <2>2. CASE c \notin DOMAIN relays
    <3>1. c = b /\ told[c] = {}
      BY <1>1, <1>2, <1>4, <2>2 DEF Kept, Remembered
    <3>2. relays'[c].history = <<>> /\ relays'[c].activeAlerts = {}
      BY <1>1, <2>2, <3>1, CreateRelayFacts DEF GetRelay
    <3> QED
      BY <1>2, <3>1, <3>2 DEF Recalls
  <2> QED
    BY <2>1, <2>2
<1> QED
  BY <1>3, <1>4 DEF Remembered

\* A payload taken in becomes the head of the history, its alerts what is told.
LEMMA MessageRemembers ==
    ASSUME TypeOK, SocketsInUse, Remembered, NEW s \in SocketIds, Message(s)
    PROVE  Remembered'
<1>1. PICK b, p : /\ b = sockets[s].bot
                  /\ p = [url |-> sockets[s].url, n |-> sockets[s].next]
  OBVIOUS
<1>2. PICK old : old = GetRelay(b)
  OBVIOUS
<1>3. PICK r : r = [old EXCEPT !.connected = TRUE,
                               !.history = Capped(<<p>> \o @),
                               !.activeAlerts = NextActive(old, p)]
  OBVIOUS
<1>4. /\ Arriving(s)
      /\ relays' = SetRelay(b, r)
      /\ told' = [told EXCEPT ![b] = (@ \cup NewAlerts(old, p))
                                        \ ResolvedAlerts(old, p)]
      /\ UNCHANGED <<log, forgot>>
  BY <1>1, <1>2, <1>3 DEF Message
<1>5. b \in Bots /\ p \in Payload /\ old \in Relay
  BY <1>1, <1>2, <1>4, ArrivingPayload, GetRelayType DEF TypeOK, RelaysTyped
<1>6. p.n \in 1 .. Len(log[p.url])
  BY <1>1, <1>4 DEF Arriving
<1>7. /\ r.history = Capped(<<p>> \o old.history)
      /\ r.activeAlerts = log[p.url][p.n]
      /\ old.history \in Seq(Payload)
  BY <1>3, <1>5 DEF Relay, NextActive, AlertsOf
<1>8. r.history # <<>> /\ Head(r.history) = p
  BY <1>5, <1>7, CappedKeepsFirst
<1>9. /\ DOMAIN relays' = DOMAIN relays \cup {b} /\ relays'[b] = r
      /\ \A c \in DOMAIN relays : c # b => relays'[c] = relays[c]
  BY <1>4 DEF SetRelay
<1>10. b \notin forgot => told'[b] = log[p.url][p.n]
  <2>1. told'[b] = (told[b] \cup (log[p.url][p.n] \ old.activeAlerts))
                      \ (old.activeAlerts \ log[p.url][p.n])
    BY <1>4, <1>5 DEF NewAlerts, ResolvedAlerts, AlertsOf, TypeOK
  <2>2. b \notin forgot => old.activeAlerts = told[b]
    BY <1>2, <1>5, CreateRelayFacts DEF Remembered, Recalls, GetRelay
  <2> QED
    BY <2>1, <2>2
<1>11. \A c \in Bots : c # b => told'[c] = told[c]
  BY <1>4 DEF TypeOK
<1>12. ASSUME NEW c \in Bots \ forgot'
       PROVE  IF c \in DOMAIN relays' THEN Recalls(relays'[c], told'[c], log')
                                      ELSE told'[c] = {}
  <2>1. CASE c = b
    <3>1. Recalls(r, log[p.url][p.n], log)
      BY <1>6, <1>7, <1>8 DEF Recalls
    <3> QED
      BY <1>4, <1>9, <1>10, <2>1, <3>1
  <2>2. CASE c # b
    BY <1>4, <1>9, <1>11, <2>2 DEF Remembered
  <2> QED
    BY <2>1, <2>2
<1> QED
  BY <1>12 DEF Remembered

\* Logs only grow: what the head of a history refers to stays what it was.
LEMMA EmitRemembers ==
    ASSUME TypeOK, Remembered, NEW u \in Urls, NEW A \in SUBSET Alerts, Emit(u, A)
    PROVE  Remembered'
<1>1. /\ log' = [log EXCEPT ![u] = Append(@, A)]
      /\ UNCHANGED <<relays, told, forgot>>
  BY DEF Emit, webVars, webhookVars
<1>2. log[u] \in Seq(SUBSET Alerts)
  BY DEF TypeOK
<1>3. /\ Len(log[u]) \in Nat
      /\ Len(Append(log[u], A)) = Len(log[u]) + 1
      /\ \A n \in 1 .. Len(log[u]) : Append(log[u], A)[n] = log[u][n]
  BY <1>2, LenProperties, AppendProperties
<1>4. ASSUME NEW v \in Urls, NEW n \in 1 .. Len(log[v])
      PROVE  log'[v][n] = log[v][n] /\ n \in 1 .. Len(log'[v])
  BY <1>1, <1>3, <1>4 DEF TypeOK
<1>5. ASSUME NEW b \in Bots \ forgot, b \in DOMAIN relays
      PROVE  Recalls(relays[b], told[b], log')
  <2>1. Recalls(relays[b], told[b], log)
    BY <1>5 DEF Remembered
  <2>2. relays[b].history # <<>> => Head(relays[b].history).url \in Urls
    <3>1. relays[b].history \in Seq(Payload)
      BY <1>5 DEF TypeOK, Relay
    <3>2. relays[b].history # <<>> => Head(relays[b].history) \in Payload
      BY <3>1, HeadTailProperties
    <3> QED
      BY <3>2 DEF Payload
  <2> QED
    BY <1>4, <2>1, <2>2 DEF Recalls
<1> QED
  BY <1>1, <1>5 DEF Remembered

LEMMA NextRemembers ==
    TypeOK /\ SocketsInUse /\ Remembered /\ [Next]_vars => Remembered'
<1> SUFFICES ASSUME TypeOK, SocketsInUse, Remembered, [Next]_vars
             PROVE  Remembered'
  OBVIOUS
<1> USE DEF webVars, webhookVars
<1>1. ASSUME NEW b \in Bots, Snapshot(b) PROVE Remembered'
  <2>1. Request(b, {})
    BY <1>1 DEF Snapshot
  <2> QED
    BY <2>1, RequestRemembers
<1>2. ASSUME NEW c \in Clients, NEW b \in Bots, Subscribe(c, b) PROVE Remembered'
  <2>1. Request(b, {c}) /\ {c} \in SUBSET Clients
    BY <1>2 DEF Subscribe
  <2> QED
    BY <2>1, RequestRemembers
<1>3. ASSUME NEW c \in Clients, Abort(c) PROVE Remembered'
  <2>1. /\ UNCHANGED <<log, told, forgot>>
        /\ DOMAIN relays' = DOMAIN relays
        /\ \A b \in DOMAIN relays : relays'[b] = [relays[b] EXCEPT !.listeners = @ \ {c}]
    BY <1>3 DEF Abort, Unsubscribed
  <2>2. ASSUME NEW b \in DOMAIN relays PROVE SameContents(b)
    <3>1. relays[b] \in Relay /\ relays'[b] = [relays[b] EXCEPT !.listeners = @ \ {c}]
      BY <2>1 DEF TypeOK
    <3> QED
      BY <3>1 DEF Relay, SameContents
  <2> QED
    BY <2>1, <2>2, RememberedKept
<1>4. CASE ResetAllRelays
  <2>1. /\ UNCHANGED <<log, told>>
        /\ forgot' = forgot \cup {b \in DOMAIN relays : told[b] # {}}
        /\ DOMAIN relays' = DOMAIN relays
        /\ \A b \in DOMAIN relays : relays'[b] = WithFreshState(relays[b])
    BY <1>4 DEF ResetAllRelays
  <2>2. ASSUME NEW b \in Bots \ forgot', b \in DOMAIN relays
        PROVE  Recalls(relays'[b], told[b], log)
    <3>1. relays[b] \in Relay /\ relays'[b] = WithFreshState(relays[b])
      BY <2>1, <2>2 DEF TypeOK
    <3>2. relays'[b].history = <<>> /\ relays'[b].activeAlerts = {}
      BY <3>1 DEF Relay, WithFreshState
    <3>3. told[b] = {}
      BY <2>1, <2>2
    <3> QED
      BY <3>2, <3>3 DEF Recalls
  <2> QED
    BY <2>1, <2>2 DEF Remembered
<1>5. ASSUME NEW s \in SocketIds, Message(s) PROVE Remembered'
  BY <1>5, MessageRemembers
<1>6. CASE \/ \E s \in SocketIds : Open(s) \/ Garbage(s) \/ Error(s) \/ Close(s)
           \/ \E b \in Bots : Reconnect(b)
  BY <1>6, EventsKeepContents, RememberedKept
<1>7. ASSUME NEW u \in Urls, NEW A \in SUBSET Alerts, Emit(u, A) PROVE Remembered'
  BY <1>7, EmitRemembers
<1>8. CASE UNCHANGED <<relays, log, told, forgot>>
  BY <1>8 DEF Remembered
<1> QED
  BY <1>1, <1>2, <1>3, <1>4, <1>5, <1>6, <1>7, <1>8
     DEF Next, RequestNext, SocketNext, EnvironmentNext, vars,
         UpdateTopology, Toggle

\* Unless a reset or a prune forgot them, the alerts that the webhooks announced
\* and did not resolve are those of the last payload taken in, for any alerts
\* and any number of payloads (dispatchAlertWebhook).
THEOREM AnnouncementsCurrent == Spec => []AnnouncedAreCurrent
<1>1. Init => Remembered
  BY DEF Init, Remembered
<1>2. TypeOK /\ Remembered => AnnouncedAreCurrent
  BY DEF TypeOK, Remembered, Recalls, AnnouncedAreCurrent, AlertsOf
<1>3. Linked => SocketsInUse
  BY DEF Linked
<1> QED
  BY <1>1, <1>2, <1>3, InductiveLinks, NextRemembers, PTL DEF Spec

\* What the message of s makes the webhooks say is news: no alert is announced
\* that they announced before and did not resolve, and none is resolved that
\* they did not announce.
SentOnce(s) ==
    LET b == sockets[s].bot
        p == [url |-> sockets[s].url, n |-> sockets[s].next]
        r == GetRelay(b)
    IN  b \notin forgot => /\ NewAlerts(r, p) \cap told[b] = {}
                           /\ ResolvedAlerts(r, p) \subseteq told[b]

LEMMA MessageSendsOnce ==
    ASSUME TypeOK, SocketsInUse, Remembered, NEW s \in SocketIds, Message(s)
    PROVE  SentOnce(s)
<1> DEFINE b == sockets[s].bot
<1>1. Arriving(s)
  BY DEF Message
<1>2. b \in Bots
  BY <1>1, ArrivingPayload
<1>3. b \notin forgot => GetRelay(b).activeAlerts = told[b]
  BY <1>2, CreateRelayFacts DEF Remembered, Recalls, GetRelay
<1> QED
  BY <1>3 DEF SentOnce, NewAlerts, ResolvedAlerts

\* For any number of bots, alerts, moves, failures and reconnects, an alert is
\* announced once and resolved once (dispatchAlertWebhook), unless a reset or a
\* prune made the relay forget what it had announced.
THEOREM WebhooksSentOnce ==
    Spec => [][\A s \in SocketIds : Message(s) => SentOnce(s)]_vars
<1>1. Init => Remembered
  BY DEF Init, Remembered
<1>2. Linked => SocketsInUse
  BY DEF Linked
<1>3. TypeOK /\ SocketsInUse /\ Remembered =>
          \A s \in SocketIds : Message(s) => SentOnce(s)
  BY MessageSendsOnce
<1> QED
  BY <1>1, <1>2, <1>3, InductiveLinks, NextRemembers, PTL DEF Spec

=============================================================================
