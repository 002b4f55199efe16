------------------------------ MODULE Topology ------------------------------
(***************************************************************************)
(* The runtime topology: the web server's record of the bots and of the    *)
(* exchange, and the dashboards that show, edit, save and restore it.      *)
(*                                                                         *)
(* A dashboard keeps the topology of its last answer in the query cache,   *)
(* the form a copy of it to edit, and the browser the one it last saved.   *)
(* Opening a dashboard posts the saved one to the server again.            *)
(*                                                                         *)
(* A bot is a number (bot-1, bot-2, ...).  The two URLs made from a domain *)
(* are one address.  A location is there or not: no screen edits it.       *)
(***************************************************************************)
EXTENDS Integers, Sequences, SequencesExt, FiniteSets, Places

CONSTANTS
    Browsers,   \* dashboards
    Remote,     \* domains that are not on localhost
    Start,      \* the topology of the environment variables
    Stored,     \* topologies a browser may have saved earlier
    MaxBots,    \* bound: bots a form lists
    MaxPosts,   \* bound: topologies posted
    Plans,      \* bounds: how often forms are changed, dashboards opened and
                \* left, tabs clicked, requests lost and the server restarted
    None        \* null

VARIABLES
    serving,    \* topologyState
    saved,      \* browser -> its localStorage entry
    page,       \* browser -> the dashboard it has open, with its query cache
    posts,      \* POST /api/topology, in the order they were sent
    budget      \* what is left of the plan

topologyVars == <<serving, saved, page, posts, budget>>

-----------------------------------------------------------------------------
(* Topologies *)

\* localhost in general and with the port the forms rewrite it to; the address
\* made of an empty domain.
Local == {"localhost", "localhost:port"}
NoHost == "nohost"
Hosts == Remote \cup Local \cup {NoHost}

Bot == [id : Nat \ {0}, name : {"given", "blank", "empty"}, host : Hosts,
        place : BOOLEAN]

IdsOf(t) == {t.bots[i].id : i \in DOMAIN t.bots}

BotOf(t, b) == CHOOSE bot \in Range(t.bots) : bot.id = b

OnBots(t, Change(_)) == [t EXCEPT !.bots = [i \in DOMAIN @ |-> Change(@[i])]]

\* runtimeTopologySchema: at least one bot, ids that differ, a name and
\* addresses that parse.
Acceptable(t) ==
    /\ t.bots # <<>>
    /\ Cardinality(IdsOf(t)) = Len(t.bots)
    /\ t.exchange # NoHost
    /\ \A i \in DOMAIN t.bots : t.bots[i].name # "empty" /\ t.bots[i].host # NoHost

Topologies == [exchange : Hosts, exchangePlace : BOOLEAN, dashboardPlace : BOOLEAN,
               bots : Seq(Bot)]

\* The environment's topology is parsed by the schema when the server starts;
\* what a browser saved may be anything of a topology's shape.
ASSUME TopologyAssumption ==
    /\ Start \in Topologies /\ Acceptable(Start)
    /\ Stored \subseteq Topologies
    /\ None \notin Topologies /\ None \notin Nat
    /\ Plans \subseteq [edits : Nat, mounts : Nat, leaves : Nat, tabs : Nat,
                       faults : Nat, restarts : Nat]

\* Faulty variant of NextBotId: the number of bots is taken for their last id.
NextBotIdByCount(bots) == Len(bots) + 1

NextBotId(bots) ==
    CHOOSE n \in Len(bots) + 1 .. 2 * Len(bots) + 1 :
        /\ \A i \in DOMAIN bots : bots[i].id # n
        /\ \A m \in Len(bots) + 1 .. n - 1 : \E i \in DOMAIN bots : bots[i].id = m

\* botUrlsFromDomain, exchangeUrlsFromDomain: any localhost gets one port.
UrlsFromDomain(h) == IF h \in Local THEN "localhost:port" ELSE h

\* cloneTopology of the form: the exchange's and the dashboard's location are
\* not copied.
FormCopy(t) ==
    OnBots([t EXCEPT !.exchange = UrlsFromDomain(@), !.exchangePlace = FALSE,
                     !.dashboardPlace = FALSE],
           LAMBDA bot : [bot EXCEPT !.host = UrlsFromDomain(@)])

\* Faulty variant of UpdateRuntimeTopology: locations are taken from the body.
UpdateAll(t) == OnBots(t, LAMBDA bot : [bot EXCEPT !.name = "given"])

\* updateRuntimeTopology: what the body has no location for keeps the old one.
UpdateRuntimeTopology(t) ==
    OnBots([t EXCEPT !.exchangePlace = @ \/ serving.exchangePlace,
                     !.dashboardPlace = @ \/ serving.dashboardPlace],
           LAMBDA bot :
               [bot EXCEPT !.name = "given",
                           !.place = @ \/ \E old \in Range(serving.bots) :
                                              old.id = bot.id /\ old.place])

-----------------------------------------------------------------------------
(* Dashboards *)

\* The states of GET /api/topology: not sent, sent, answered with a topology.
NoFetch == [status |-> "none", answer |-> None]
SentFetch == [status |-> "sent", answer |-> None]

Closed == [open |-> FALSE, cache |-> None, draft |-> None, selected |-> None,
           removed |-> {}, fetch |-> NoFetch]

\* Faulty variant of LoadTopologyFromStorage: what is stored is trusted.
LoadUnchecked(d) == saved[d]

\* The topology the browser saved, unless it does not validate.
LoadTopologyFromStorage(d) ==
    IF saved[d] # None /\ Acceptable(saved[d]) THEN saved[d] ELSE None

\* Faulty variant of WithCache: a form without a key keeps its copy.
WithCacheUnkeyed(p, t) ==
    [p EXCEPT !.cache = t,
              !.draft = IF p.open /\ p.cache = None THEN FormCopy(t) ELSE @]

\* The key of the form is the cached topology: another one mounts a new form
\* on a copy of it.
WithCache(p, t) ==
    IF p.cache = t THEN p
    ELSE IF ~p.open THEN [p EXCEPT !.cache = t]
    ELSE [p EXCEPT !.cache = t, !.draft = FormCopy(t), !.removed = {}]

\* A mutation of the dashboard that is open is under way.
Saving(d) == \E i \in DOMAIN posts :
    posts[i].by = d /\ posts[i].mount = "open" /\ posts[i].status \in {"sent", "served"}

Post(d, t, seen, dropped) ==
    [by |-> d, body |-> t, status |-> "sent", answer |-> None, mount |-> "open",
     seen |-> seen, dropped |-> dropped]

\* The posts of a dashboard that is left or reloaded.
Abandoned(d, mount) ==
    [i \in DOMAIN posts |->
        IF posts[i].by = d /\ posts[i].mount # "reloaded"
        THEN [posts[i] EXCEPT !.mount = mount] ELSE posts[i]]

Spend(what) ==
    /\ budget[what] > 0
    /\ budget' = [budget EXCEPT ![what] = @ - 1]

\* A dashboard is opened: from another page of the site (the query cache is
\* still there) or by a load of the page.  It asks for the topology and posts
\* the one the browser saved.
Mount(d, reload) ==
    LET p == page[d]
        t == LoadTopologyFromStorage(d)
        before == Abandoned(d, IF reload THEN "reloaded" ELSE "left")
    IN /\ ~p.open \/ reload
       /\ page' = [page EXCEPT ![d] =
              [Closed EXCEPT !.open = TRUE,
                             !.cache = IF reload THEN None ELSE p.cache,
                             !.draft = IF reload \/ p.cache = None THEN None
                                       ELSE FormCopy(p.cache),
                             !.fetch = IF reload \/ p.fetch = NoFetch THEN SentFetch
                                       ELSE p.fetch]]
       /\ t # None => Len(posts) < MaxPosts
       /\ posts' = IF t = None THEN before
                   ELSE Append(before, Post(d, t, IdsOf(t), {}))
       /\ Spend("mounts")
       /\ UNCHANGED <<serving, saved>>

\* The operator follows a link to another page.
Leave(d) ==
    /\ page[d].open
    /\ page' = [page EXCEPT ![d].open = FALSE, ![d].draft = None,
                            ![d].selected = None, ![d].removed = {}]
    /\ posts' = Abandoned(d, "left")
    /\ Spend("leaves")
    /\ UNCHANGED <<serving, saved>>

\* The browser is online again: the query is fetched once more.
Refetch(d) ==
    /\ page[d].open /\ page[d].fetch = NoFetch
    /\ page' = [page EXCEPT ![d].fetch = SentFetch]
    /\ Spend("mounts")
    /\ UNCHANGED <<serving, saved, posts>>

\* GET /api/topology.
ServeFetch(d) ==
    /\ page[d].fetch.status = "sent"
    /\ page' = [page EXCEPT ![d].fetch = [status |-> "answered", answer |-> serving]]
    /\ UNCHANGED <<serving, saved, posts, budget>>

\* The answer replaces what is cached, a topology saved meanwhile included.
EndFetch(d) ==
    /\ page[d].fetch.status = "answered"
    /\ page' = [page EXCEPT ![d] =
                    WithCache([@ EXCEPT !.fetch = NoFetch], @.fetch.answer)]
    /\ UNCHANGED <<serving, saved, posts, budget>>

\* The request or its answer is lost.
FailFetch(d) ==
    /\ page[d].fetch # NoFetch
    /\ page' = [page EXCEPT ![d].fetch = NoFetch]
    /\ Spend("faults")
    /\ UNCHANGED <<serving, saved, posts>>

Edit(d, draft) ==
    /\ page[d].draft # None
    /\ draft # page[d].draft
    /\ page' = [page EXCEPT ![d].draft = draft]
    /\ Spend("edits")
    /\ UNCHANGED <<serving, saved, posts>>

SetExchangeDomain(d, h) ==
    Edit(d, [page[d].draft EXCEPT !.exchange = UrlsFromDomain(h)])

SetBotName(d, b, name) ==
    Edit(d, OnBots(page[d].draft, LAMBDA bot :
        IF bot.id = b THEN [bot EXCEPT !.name = name] ELSE bot))

SetBotDomain(d, b, h) ==
    Edit(d, OnBots(page[d].draft, LAMBDA bot :
        IF bot.id = b THEN [bot EXCEPT !.host = UrlsFromDomain(h)] ELSE bot))

\* The last bot stays.
RemoveBot(d, b) ==
    /\ page[d].draft # None
    /\ b \in IdsOf(page[d].draft)
    /\ Len(page[d].draft.bots) > 1
    /\ page' = [page EXCEPT
           ![d].draft.bots = ElementsAt(@, {i \in DOMAIN @ : @[i].id # b}),
           ![d].removed = @ \cup {b}]
    /\ Spend("edits")
    /\ UNCHANGED <<serving, saved, posts>>

AddBot(d) ==
    /\ page[d].draft # None
    /\ ~Saving(d)
    /\ Len(page[d].draft.bots) < MaxBots
    /\ \E h \in Remote :
          Edit(d, [page[d].draft EXCEPT !.bots =
              Append(@, [id |-> NextBotId(@), name |-> "given", host |-> h,
                         place |-> FALSE])])

SaveTopology(d) ==
    /\ page[d].draft # None
    /\ ~Saving(d)
    /\ Len(posts) < MaxPosts
    /\ posts' = Append(posts, Post(d, page[d].draft, IdsOf(page[d].cache),
                                   page[d].removed))
    /\ UNCHANGED <<serving, saved, page, budget>>

SelectBotTab(d, b) ==
    /\ page[d].open /\ page[d].cache # None
    /\ b \in IdsOf(page[d].cache)
    /\ page[d].selected # b
    /\ page' = [page EXCEPT ![d].selected = b]
    /\ Spend("tabs")
    /\ UNCHANGED <<serving, saved, posts>>

\* POST /api/topology: validated and taken over as a whole.
ServePost(i) ==
    LET t == UpdateRuntimeTopology(posts[i].body) IN
    /\ posts[i].status = "sent"
    /\ IF Acceptable(posts[i].body)
       THEN /\ serving' = t
            /\ posts' = [posts EXCEPT ![i].status = "served", ![i].answer = t]
       ELSE /\ posts' = [posts EXCEPT ![i].status = "refused"]
            /\ UNCHANGED serving
    /\ UNCHANGED <<saved, page, budget>>

\* The bot whose tab is open once an answer has come: the new one if there are
\* more than before, else the same if it is still there, else the first.
SelectedAfter(p, t) ==
    IF p.selected # None /\ p.cache # None /\ Len(t.bots) > Len(p.cache.bots)
    THEN Last(t.bots).id
    ELSE IF p.selected \in IdsOf(t) THEN p.selected ELSE Head(t.bots).id

\* onSuccess, also of a dashboard that was left; a reload forgets the request.
EndPost(i) ==
    LET d == posts[i].by
        t == posts[i].answer
    IN /\ posts[i].status = "served"
       /\ posts' = [posts EXCEPT ![i].status = "done", ![i].answer = None]
       /\ IF posts[i].mount = "reloaded" THEN UNCHANGED <<saved, page>>
          ELSE /\ saved' = [saved EXCEPT ![d] = t]
               /\ page' = [page EXCEPT ![d] =
                     IF posts[i].mount = "left" THEN WithCache(@, t)
                     ELSE [WithCache(@, t) EXCEPT !.selected = SelectedAfter(page[d], t)]]
       /\ UNCHANGED <<serving, budget>>

\* The request is lost before the server sees it, or its answer is.
FailPost(i) ==
    /\ posts[i].status \in {"sent", "served"}
    /\ posts' = [posts EXCEPT ![i].status = "done", ![i].answer = None]
    /\ Spend("faults")
    /\ UNCHANGED <<serving, saved, page>>

\* The server restarts with the topology of its environment.
RestartWeb ==
    /\ serving' = Start
    /\ Spend("restarts")
    /\ UNCHANGED <<saved, page, posts>>

TopologyInit ==
    /\ serving = Start
    /\ saved \in [Browsers -> Stored \cup {None}]
    /\ page = [d \in Browsers |-> Closed]
    /\ posts = <<>>
    /\ budget \in Plans

EditForm(d) ==
    \/ \E h \in Hosts : SetExchangeDomain(d, h)
    \/ AddBot(d)
    \/ /\ page[d].draft # None
       /\ \E b \in IdsOf(page[d].draft) :
             \/ \E name \in {"given", "blank", "empty"} : SetBotName(d, b, name)
             \/ \E h \in Hosts : SetBotDomain(d, b, h)
             \/ RemoveBot(d, b)

TopologyNext ==
    \/ \E d \in Browsers :
          \/ \E reload \in BOOLEAN : Mount(d, reload)
          \/ Leave(d) \/ Refetch(d) \/ ServeFetch(d) \/ EndFetch(d) \/ FailFetch(d)
          \/ EditForm(d)
          \/ SaveTopology(d)
          \/ \E b \in 1 .. 2 * MaxBots : SelectBotTab(d, b)
    \/ \E i \in DOMAIN posts : ServePost(i) \/ EndPost(i) \/ FailPost(i)
    \/ RestartWeb

-----------------------------------------------------------------------------
(* Properties *)

\* What the server runs, and every topology a dashboard shows or a form lists,
\* has at least one bot, and no two bots share an id.
TopologiesWellFormed ==
    LET OneOfEach(t) == t.bots # <<>> /\ Cardinality(IdsOf(t)) = Len(t.bots) IN
    /\ Acceptable(serving)
    /\ \A i \in DOMAIN serving.bots : serving.bots[i] \in Bot
    /\ \A d \in Browsers :
          /\ page[d].cache # None => Acceptable(page[d].cache)
          /\ page[d].draft # None => OneOfEach(page[d].draft)
          /\ page[d].open /\ page[d].cache # None => page[d].draft # None

\* The server refuses a topology for a name or an address that was typed in, and
\* for nothing a dashboard put together itself or brought back from the browser.
RefusedForFields ==
    \A i \in DOMAIN posts : posts[i].status = "refused" =>
        \/ posts[i].body.exchange = NoHost
        \/ \E bot \in Range(posts[i].body.bots) : bot.name = "empty" \/ bot.host = NoHost

\* Although no form sends the exchange's and the dashboard's location, they are
\* kept until the server restarts; and so is that of a bot that stays.
PlacesSurvive ==
    [][budget.restarts' = budget.restarts =>
          /\ serving.exchangePlace => serving'.exchangePlace
          /\ serving.dashboardPlace => serving'.dashboardPlace
          /\ \A b \in IdsOf(serving) \cap IdsOf(serving') :
                BotOf(serving, b).place => BotOf(serving', b).place]_topologyVars

\* A bot leaves the running topology for a reason: the operator removed it, or
\* the dashboard that saved had not seen it (it was added by another dashboard
\* meanwhile, or after the browser saved what it restores).
DropsExplained ==
    [][budget.restarts' = budget.restarts =>
          \A b \in IdsOf(serving) \ IdsOf(serving') :
              \E i \in DOMAIN posts :
                  /\ posts[i].status = "sent" /\ posts'[i].status = "served"
                  /\ b \in posts[i].dropped \/ b \notin posts[i].seen]_topologyVars

=============================================================================
