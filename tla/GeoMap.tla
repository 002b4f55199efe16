------------------------------- MODULE GeoMap -------------------------------
(***************************************************************************)
(* The infrastructure map of one dashboard: the topology it is given, the  *)
(* lookups of where services are, one for every address and one for the    *)
(* dashboard, and the markers made of both.  An answer may be null, which  *)
(* is cached like a place, and may come when the topology is another one.  *)
(***************************************************************************)
EXTENDS Integers, Sequences, FiniteSets, SequencesExt, Places

CONSTANTS
    Maps,           \* topologies: exchange, dashboard place, bots (a sequence);
                    \* a service is [id, url, place]
    LookupOf,       \* address -> the places GET /api/geo may find for it
    KnownExchanges, \* places of EXCHANGE_LOCATIONS
    MaxShown,       \* bound: topologies shown one after the other
    MaxLookups,     \* bound: answers that become stale
    NoPlace         \* undefined, null

VARIABLES
    network,    \* the topology
    lookups,    \* key -> lookup under way, answer fresh, and the answer
    geoUsed     \* topologies shown and answers outdated so far

geoVars == <<network, lookups, geoUsed>>

Services(t) == Append(t.bots, t.exchange)

\* The dashboard's own place is looked up as that of an address.
Dashboard == [id |-> "dashboard", url |-> "dashboard", place |-> NoPlace]

\* Faulty variant of KeyOf: the answer is cached under the service.
KeyById(service) == service.id

\* queryKey: the address.
KeyOf(service) == service.url

Keys == UNION {{service.id, service.url} :
                  service \in (UNION {Range(Services(t)) : t \in Maps}) \cup {Dashboard}}

\* Ids of bots differ and begin with bot-; the exchange has one of its own.
ASSUME GeoAssumption ==
    /\ IsFiniteSet(KnownExchanges) /\ {NoPlace, "dashboard"} \cap KnownExchanges = {}
    /\ \A t \in Maps :
          /\ t.bots \in Seq(Range(t.bots))
          /\ \A i \in DOMAIN Services(t) :
                /\ Services(t)[i].id \notin KnownExchanges \cup {"dashboard"}
                /\ \A j \in DOMAIN Services(t) :
                      Services(t)[i].id = Services(t)[j].id => i = j

NoLookup == [busy |-> FALSE, fresh |-> FALSE, url |-> NoPlace, data |-> NoPlace]

GeoInit ==
    /\ network \in Maps
    /\ lookups = [key \in Keys |-> NoLookup]
    /\ geoUsed = [shown |-> 0, outdated |-> 0]

\* What is looked up: services without a place of their own.
Wanted ==
    {service \in Range(Services(network)) : service.place = NoPlace}
    \cup (IF network.dashboardPlace = NoPlace THEN {Dashboard} ELSE {})

-----------------------------------------------------------------------------
\* Another topology was saved or fetched.
ShowTopology ==
    /\ geoUsed.shown < MaxShown
    /\ network' \in Maps \ {network}
    /\ geoUsed' = [geoUsed EXCEPT !.shown = @ + 1]
    /\ UNCHANGED lookups

\* A query without a fresh answer is fetched.
Ask(service) ==
    LET key == KeyOf(service) IN
    /\ ~lookups[key].busy /\ ~lookups[key].fresh
    /\ lookups' = [lookups EXCEPT ![key].busy = TRUE, ![key].url = service.url]
    /\ UNCHANGED <<network, geoUsed>>

\* fetchGeoForUrl, fetchDashboardGeo: every failure is the answer null.
Answer(key) ==
    /\ lookups[key].busy
    /\ \E place \in LookupOf[lookups[key].url] \cup {NoPlace} :
          lookups' = [lookups EXCEPT
                         ![key] = [NoLookup EXCEPT !.fresh = TRUE, !.data = place]]
    /\ UNCHANGED <<network, geoUsed>>

\* Five minutes later the answer is stale, or forgotten if nothing wanted it.
Outdate(key) ==
    /\ lookups[key].fresh
    /\ geoUsed.outdated < MaxLookups
    /\ geoUsed' = [geoUsed EXCEPT !.outdated = @ + 1]
    /\ \E data \in {lookups[key].data, NoPlace} :
          lookups' = [lookups EXCEPT ![key] = [NoLookup EXCEPT !.data = data]]
    /\ UNCHANGED network

GeoNext ==
    \/ ShowTopology
    \/ \E service \in Wanted : Ask(service)
    \/ \E key \in Keys : Answer(key) \/ Outdate(key)

-----------------------------------------------------------------------------
(* The markers *)

Or(place, other) == IF place # NoPlace THEN place ELSE other

PlaceOf(service) == Or(service.place, lookups[KeyOf(service)].data)

ExplicitDashboard == Or(network.dashboardPlace, lookups[KeyOf(Dashboard)].data)

\* Where the dashboard is taken to be: with the exchange, else with a bot.
InferredDashboard ==
    LET located == {i \in DOMAIN network.bots : PlaceOf(network.bots[i]) # NoPlace}
    IN Or(PlaceOf(network.exchange),
          IF located = {} THEN NoPlace ELSE PlaceOf(network.bots[Nth(located, 1)]))

Marker(kind, id, place) == [kind |-> kind, id |-> id, place |-> place]

\* buildMarkers
Markers ==
    LET known == SetToSeq(KnownExchanges)
        At(kind, service) == Marker(kind, service.id, PlaceOf(service))
        listed ==
            [i \in DOMAIN known |-> Marker("exchange", known[i], known[i])]
            \o <<At("simulated-exchange", network.exchange)>>
            \o [i \in DOMAIN network.bots |-> At("bot", network.bots[i])]
            \o <<Marker("dashboard", "dashboard", Or(ExplicitDashboard, InferredDashboard))>>
    IN ElementsAt(listed, {i \in DOMAIN listed : listed[i].place # NoPlace})

\* Where 12 cos, rounded to whole pixels, falls by one: in millionths of a turn,
\* exact for up to 751 markers around a place.
PixelSteps ==
    <<46105, 80431, 104607, 124724, 142549, 158897, 174223, 188821, 202895, 216598,
      230053, 243367, 256633, 269947, 283402, 297105, 311179, 325777, 341103, 357451,
      375276, 395393, 419569, 453895>>

\* How far num / den of a turn is from none, the short way round, in parts of den.
Apart(num, den) ==
    LET way == IF num < 0 THEN -num ELSE num
    IN IF way <= den - way THEN way ELSE den - way

\* Math.round(12 cos) of num / den of a turn, which is less than one either way.
RoundedCos(num, den) ==
    12 - Cardinality({k \in DOMAIN PixelSteps :
                         PixelSteps[k] * den <= Apart(num, den) * 1000000})

\* radialOffset: the sine is the cosine a quarter of a turn before.
RadialOffset(index, total) ==
    <<RoundedCos(index, total), RoundedCos(4 * index - total, 4 * total)>>

\* Markers of one place, without the dashboard's, which stays in the middle.
Orbiting(markers, place) ==
    {j \in DOMAIN markers : markers[j].place = place /\ markers[j].kind # "dashboard"}

\* Faulty variant of OffsetOf: markers of a kind are spread by themselves.
OffsetOfKind(markers, i) ==
    LET group == {j \in DOMAIN markers : /\ markers[j].place = markers[i].place
                                         /\ markers[j].kind = markers[i].kind}
    IN IF markers[i].kind = "dashboard" THEN <<0, 0>>
       ELSE RadialOffset(Cardinality({j \in group : j < i}), Cardinality(group))

\* buildMarkerPixelOffsets: the pixels a marker is moved by, around the place it
\* shares with others.
OffsetOf(markers, i) ==
    LET group == {j \in DOMAIN markers : markers[j].place = markers[i].place}
        orbiting == Orbiting(markers, markers[i].place)
    IN IF Cardinality(group) = 1 \/ i \notin orbiting THEN <<0, 0>>
       ELSE RadialOffset(Cardinality({j \in orbiting : j < i}), Cardinality(orbiting))

-----------------------------------------------------------------------------
(* Properties *)

\* A marker is where the topology on display puts its service, or where the
\* address it has in that topology was found, however late the answers to the
\* lookups of earlier topologies come.  A dashboard whose place is only inferred
\* is where another marker is.
MarkersFollowTopology ==
    LET markers == Markers IN
    /\ \A service \in Range(Services(network)), i \in DOMAIN markers :
          markers[i].id = service.id =>
              \/ markers[i].place = service.place
              \/ service.place = NoPlace /\ markers[i].place \in LookupOf[service.url]
    /\ \A i \in DOMAIN markers :
          markers[i].kind = "dashboard" /\ ExplicitDashboard = NoPlace =>
              \E j \in DOMAIN markers \ {i} : markers[j].place = markers[i].place

\* How many markers whole pixels keep apart around one place; of 65, the eighth
\* and the ninth are drawn over each other.
MaxOrbiting == 64

\* No marker hides another one of the same place, of whatever kinds they are and
\* whether or not the dashboard is there too, while no more are there than whole
\* pixels keep apart.
NoMarkerHidden ==
    LET markers == Markers IN
    \A i, j \in DOMAIN markers :
        /\ i # j /\ markers[i].place = markers[j].place
        /\ Cardinality(Orbiting(markers, markers[i].place)) <= MaxOrbiting
        => OffsetOf(markers, i) # OffsetOf(markers, j)

=============================================================================
