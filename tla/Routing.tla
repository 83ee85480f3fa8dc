------------------------------- MODULE Routing -------------------------------
(***************************************************************************)
(* From the rows of add_domain() to the servers a host name reaches.       *)
(*                                                                         *)
(* A domain has one backend, which has its servers; generate_config()      *)
(* reads the domains with their backends, then the servers of one backend  *)
(* after the other, and renders two rules for an exact domain - one for    *)
(* server-sent events, to <name>-sse-backend, and one for the rest - and   *)
(* one for a wildcard.  HAProxy takes the first rule that matches, and     *)
(* refuses a configuration whose rules name a backend that is not there.   *)
(*                                                                         *)
(* The rows are committed before they are rendered, so that a row that     *)
(* cannot be rendered stays, and so does the configuration that is live.   *)
(* How the file is written, validated and rolled back is ConfigReload's    *)
(* subject: here a configuration that does not load changes nothing.       *)
(***************************************************************************)
EXTENDS Naturals, Sequences, FiniteSetsExt

CONSTANTS
    Threads,
    Requests,       \* the bodies of POST /api/domain
    Covers,         \* the hosts that end in .<base> of each domain
    Optionless,     \* servers without options, rendered as "None"
    NoTemplate,     \* no template_override
    Default,        \* the servers of default-backend
    MaxRequests     \* bound: requests in one behaviour

Sites == {q.domain : q \in Requests}
Hosts   == Sites \cup UNION {Covers[d] : d \in Sites}
Empty   == {}

VARIABLES
    domains,        \* the rows of domains, each with that of its backend
    servers,        \* backend_servers: backends.id -> its servers
    live,           \* what of the rows and servers the configuration HAProxy runs has
    pc, job,        \* where each thread is, and what it has read
    route_reply,    \* the answer each thread gave last
    asked,          \* history: the servers last asked for, per domain
    route_alone,    \* history: the operations under way that nothing has overlapped
    requests        \* history: requests so far

routing_vars == <<domains, servers, live, pc, job, route_reply, asked, route_alone, requests>>

Ids   == 1..(MaxRequests + 1)
Names == {q.name : q \in Requests}

\* backend is 0 and name "" when the domain has none ("cert/management-only").
DomainRow ==
    [id: Ids, domain: Sites, wildcard: BOOLEAN, name: Names \cup {""}, backend: Ids \cup {0},
     override: {q.override : q \in Requests} \cup {NoTemplate}]

\* A domain as it is rendered: its rules and its backend.
Block == [row: DomainRow, servers: {q.servers : q \in Requests} \cup {Empty}]

Unique(rows) ==
    \A r, s \in rows : r # s =>
        /\ r.id # s.id /\ r.domain # s.domain
        /\ r.backend # 0 => r.backend # s.backend /\ r.name # s.name

RoutingTypeOK ==
    /\ domains \subseteq DomainRow /\ Unique(domains)
    /\ servers \in [Ids -> {q.servers : q \in Requests} \cup {Empty}]
    /\ live \subseteq Block
    /\ pc \in [Threads -> {"idle", "domains", "servers", "install"}]
    /\ job \in [Threads -> [todo: SUBSET DomainRow, cfg: SUBSET Block]]
    /\ route_reply \in [Threads -> {"none", "success", "error"}]
    /\ asked \in [Sites -> {q.servers : q \in Requests} \cup {Empty}]
    /\ route_alone \subseteq Threads /\ requests \in 0..MaxRequests
-----------------------------------------------------------------------------
(* Rendering *)

\* haproxy_manager renders <name>-sse-backend; a backend named <name>-sse has the
\* same section.
SseOf(name) == name \o "-sse"

\* The sections that are there whatever the rows say.
Builtin == {"default", "letsencrypt"}

\* Two of the templates that may override hap_backend.tpl define one section only.
BothSections == {NoTemplate, "hap_backend_websocket", "hap_backend_longlived"}
OneSection   == {"hap_backend_basic", "hap_backend_http_check"}

\* A backend without servers, or whose template is not there, is left out.
Sections(b) ==
    IF b.servers = Empty THEN {}
    ELSE CASE b.row.override \in BothSections -> {b.row.name, SseOf(b.row.name)}
           [] b.row.override \in OneSection   -> {b.row.name}
           [] OTHER                           -> {}

\* hap_subdomain_acl.tpl and hap_wildcard_acl.tpl: the backends the rules name.
Targets(r) == IF r.wildcard THEN {r.name} ELSE {r.name, SseOf(r.name)}

Matches(r, host) == IF r.wildcard THEN host \in Covers[r.domain] ELSE host = r.domain

\* haproxy -c: no section twice, every backend a rule names, no unknown keyword.
Loads(cfg) ==
    \A b \in cfg :
        /\ Sections(b) \cap (Builtin \cup UNION {Sections(c) : c \in cfg \ {b}}) = {}
        /\ Targets(b.row) \subseteq Builtin \cup UNION {Sections(c) : c \in cfg}
        /\ b.servers \cap Optionless = {}

\* Mutant: the rules are rendered in the order of the rows.
RenderOrder_ByRow(r, s) == r.id < s.id

\* "exact domain ACLs (higher priority - evaluated first)"; else by domains.id.
RenderOrder(r, s) == IF r.wildcard = s.wildcard THEN r.id < s.id ELSE s.wildcard

\* The servers of the backend that the first matching rule of a loaded
\* configuration names.
Reaches(cfg, host, sse) ==
    LET hits   == {b \in cfg : Matches(b.row, host)}
        rule   == (CHOOSE b \in hits : \A c \in hits \ {b} : RenderOrder(b.row, c.row)).row
        target == IF sse /\ ~rule.wildcard THEN SseOf(rule.name) ELSE rule.name
    IN  IF hits = {} THEN Default ELSE (CHOOSE b \in cfg : target \in Sections(b)).servers

\* What the constants stand for: a body without a name is refused, and a suffix
\* keeps names apart.
ASSUME RequestsFit ==
    /\ MaxRequests \in Nat
    /\ \A q \in Requests : q.wildcard \in BOOLEAN /\ q.name # ""
    /\ \A m, n \in Names : SseOf(m) = SseOf(n) => m = n
    /\ \A n \in Names : SseOf(n) \notin Builtin
    /\ NoTemplate \notin OneSection
-----------------------------------------------------------------------------
(* The requests *)

NoJob == [todo |-> {}, cfg |-> {}]

Goto(t, label) == pc' = [pc EXCEPT ![t] = label]

BeginRequest(t) ==
    /\ pc[t] = "idle" /\ requests < MaxRequests
    /\ requests' = requests + 1
    /\ route_alone' = IF \A u \in Threads : pc[u] = "idle" THEN {t} ELSE {}

\* INTEGER PRIMARY KEY: one more than the greatest there is.
NewId(ids) == 1 + Max(ids \cup {0})

\* UNIQUE constraint of backends.name
NameTaken(q) == \E r \in domains : r.name = q.name /\ r.domain # q.domain

\* The row of the domain after the INSERTs or UPDATEs.
NewRow(q) ==
    LET old == {r \in domains : r.domain = q.domain} IN
    [id       |-> IF old = {} THEN NewId({r.id : r \in domains}) ELSE (CHOOSE r \in old : TRUE).id,
     domain   |-> q.domain, wildcard |-> q.wildcard, override |-> q.override, name |-> q.name,
     backend  |-> IF \E r \in old : r.backend # 0 THEN (CHOOSE r \in old : TRUE).backend
                  ELSE NewId({r.backend : r \in domains})]

\* The row is inserted or updated, and the servers replaced (those of a new backend
\* are added to what its number may have had); a name that is taken rolls everything
\* back, and nothing is generated.
add_domain(t, q) ==
    /\ BeginRequest(t)
    /\ IF NameTaken(q)
       THEN /\ route_reply' = [route_reply EXCEPT ![t] = "error"]
            /\ UNCHANGED <<domains, servers, asked, pc>>
       ELSE LET id  == NewRow(q).backend
                has == \E r \in domains : r.domain = q.domain /\ r.backend # 0
            IN  /\ domains' = {r \in domains : r.domain # q.domain} \cup {NewRow(q)}
                /\ servers' = [servers EXCEPT ![id] = IF has THEN q.servers ELSE @ \cup q.servers]
                /\ asked' = [asked EXCEPT ![q.domain] = q.servers]
                /\ route_reply' = [route_reply EXCEPT ![t] = "none"]
                /\ Goto(t, "domains")
    /\ UNCHANGED <<live, job>>

\* The servers, the backends and the domain, in one transaction.  (What becomes of
\* its certificate is CertLifecycle's subject.)
remove_domain(t, d) ==
    LET gone == {r \in domains : r.domain = d} IN
    /\ BeginRequest(t)
    /\ gone # {}
    /\ domains' = domains \ gone
    /\ servers' = [id \in Ids |-> IF \E r \in gone : r.backend = id THEN Empty ELSE servers[id]]
    /\ asked' = [asked EXCEPT ![d] = Empty]
    /\ route_reply' = [route_reply EXCEPT ![t] = "none"]
    /\ Goto(t, "domains")
    /\ UNCHANGED <<live, job>>

\* Every other route that ends in generate_config().
regenerate_conf(t) ==
    /\ BeginRequest(t)
    /\ route_reply' = [route_reply EXCEPT ![t] = "none"]
    /\ Goto(t, "domains")
    /\ UNCHANGED <<domains, servers, live, job, asked>>
-----------------------------------------------------------------------------
(* generate_config() *)

Advance(t, todo, cfg) ==
    /\ job' = [job EXCEPT ![t] = [todo |-> todo, cfg |-> cfg]]
    /\ Goto(t, IF todo = {} THEN "install" ELSE "servers")

\* SELECT ... FROM domains d LEFT JOIN backends b; rows without a backend are skipped.
select_domains(t) ==
    /\ pc[t] = "domains"
    /\ Advance(t, {r \in domains : r.name # ""}, {})
    /\ UNCHANGED <<domains, servers, live, route_reply, asked, route_alone, requests>>

\* generate_backend_for_domain() of the next one: SELECT * FROM backend_servers
\* WHERE backend_id = ?
select_servers(t) ==
    LET todo == job[t].todo IN
    /\ pc[t] = "servers"
    /\ \E r \in todo :
        /\ \A s \in todo \ {r} : RenderOrder(r, s)
        /\ Advance(t, todo \ {r}, job[t].cfg \cup {[row |-> r, servers |-> servers[r.backend]]})
    /\ UNCHANGED <<domains, servers, live, route_reply, asked, route_alone, requests>>

\* The configuration is written, validated and reloaded, or rolled back.
install(t) ==
    LET cfg == job[t].cfg IN
    /\ pc[t] = "install"
    /\ live' = IF Loads(cfg) THEN cfg ELSE live
    /\ route_reply' = [route_reply EXCEPT ![t] = IF Loads(cfg) THEN "success" ELSE "error"]
    /\ job' = [job EXCEPT ![t] = NoJob]
    /\ Goto(t, "idle")
    /\ UNCHANGED <<domains, servers, asked, route_alone, requests>>
-----------------------------------------------------------------------------
\* An empty table, or one domain that is there for its certificate only.
RoutingInit ==
    /\ \/ domains = {}
       \/ \E d \in Sites :
            domains = {[id |-> 1, domain |-> d, wildcard |-> FALSE, override |-> NoTemplate,
                        name |-> "", backend |-> 0]}
    /\ servers = [id \in Ids |-> Empty]
    /\ live = {}
    /\ pc = [t \in Threads |-> "idle"] /\ job = [t \in Threads |-> NoJob]
    /\ route_reply = [t \in Threads |-> "none"]
    /\ asked = [d \in Sites |-> Empty]
    /\ route_alone = {} /\ requests = 0

RoutingStep(t) ==
    \/ \E q \in Requests : add_domain(t, q)
    \/ \E d \in Sites : remove_domain(t, d)
    \/ regenerate_conf(t)
    \/ select_domains(t) \/ select_servers(t) \/ install(t)

RoutingNext == \E t \in Threads : RoutingStep(t)

RoutingSpec == RoutingInit /\ [][RoutingNext]_routing_vars
-----------------------------------------------------------------------------
(* Properties *)

\* No backend has the name of another one's section for server-sent events, or of
\* a section that is always there.  (When one does, and the other has a template
\* without that section, the configuration loads and sends those requests of the
\* one to the servers of the other; a backend called "default" that has no servers
\* loads too, and its host gets the default page.)
Distinct(rows) ==
    \A r \in rows : r.name # "" =>
        r.name \notin Builtin /\ \A s \in rows : SseOf(r.name) # s.name

\* Rows that every template can render: each backend has servers, with options, and
\* each exact domain a template with the section for server-sent events.
WellFormed(rows) ==
    \A r \in rows :
        r.name # "" =>
            /\ asked[r.domain] # Empty /\ asked[r.domain] \cap Optionless = {}
            /\ r.override \in BothSections \/ (r.wildcard /\ r.override \in OneSection)

\* What the clients asked for: the servers of the domain itself, else of a wildcard
\* over the host, else the default page.
Wanted(host) ==
    LET proxied == {r \in domains : r.name # ""}
        exact   == {r \in proxied : ~r.wildcard /\ r.domain = host}
        wild    == {r \in proxied : r.wildcard /\ host \in Covers[r.domain]}
        Of(s)   == {asked[r.domain] : r \in s}
    IN  IF exact # {} THEN Of(exact) ELSE IF wild # {} THEN Of(wild) ELSE {Default}

\* "Domain configured successfully": after an operation nobody has overlapped that
\* says so, every host reaches the servers last asked for it, by both kinds of
\* traffic - "exact matches first, wildcards evaluated after" - whatever rows were
\* added, renamed and removed before; and an operation on rows that can be rendered
\* does succeed.  (Names that collide are the exception.)
InstallsWhatWasAsked ==
    \A t \in route_alone :
        pc[t] = "install" /\ pc'[t] = "idle" /\ Distinct(domains) =>
            /\ WellFormed(domains) => route_reply'[t] = "success"
            /\ route_reply'[t] = "success" =>
                \A host \in Hosts, sse \in BOOLEAN :
                    Reaches(live', host, sse) \in Wanted(host)

HostsReachTheirServers == [][InstallsWhatWasAsked]_routing_vars
=============================================================================
