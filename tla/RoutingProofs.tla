---------------------------- MODULE RoutingProofs ----------------------------
(***************************************************************************)
(* Proofs about Routing, for any threads, requests and number of requests  *)
(* that RequestsFit allows.                                                *)
(*                                                                         *)
(*   RoutingTypes         RoutingSpec => []RoutingTypeOK                   *)
(*   AsksAreAnswered      RoutingSpec => HostsReachTheirServers            *)
(***************************************************************************)
EXTENDS Routing, WellFoundedInduction, TLAPS

-----------------------------------------------------------------------------
(* The inductive invariant *)

\* Ids are counted up from 1, and a name goes with a backend.
Numbered ==
    \A r \in domains :
        /\ r.id <= requests + 1 /\ r.backend <= requests
        /\ r.backend = 0 <=> r.name = ""

\* backend_servers holds what was last asked for, and nothing under an id that no
\* backend has.
Stored ==
    /\ \A r \in domains : r.backend # 0 => servers[r.backend] = asked[r.domain]
    /\ \A id \in Ids : (\A r \in domains : r.backend # id) => servers[id] = Empty

\* What an operation has read is what the tables hold.
Copied(t) ==
    /\ \A r \in DomainRow : (r \in domains /\ r.name # "") <=>
                      (r \in job[t].todo \/ \E b \in job[t].cfg : b.row = r)
    /\ \A b \in job[t].cfg : b.servers = asked[b.row.domain]
    /\ pc[t] = "install" => job[t].todo = {}

\* No other operation is under way beside one that nothing has overlapped.
Alone ==
    \A t \in route_alone :
        /\ \A u \in Threads : u # t => pc[u] = "idle"
        /\ pc[t] \in {"servers", "install"} => Copied(t)

\* Only backends are looked up.
Readable == \A t \in Threads : \A r \in job[t].todo : r.backend # 0

Tables == RoutingTypeOK /\ Numbered /\ Stored /\ Readable
Inv    == Tables /\ Alone
-----------------------------------------------------------------------------
(* A least number, a greatest number, and the first rule that matches *)

\* A set of numbers that is not empty has a least one.
LEMMA LeastNumber ==
  ASSUME NEW S \in SUBSET Nat, S # {}
  PROVE  \E x \in S : \A y \in S : x <= y
<1> DEFINE Less == {p \in Nat \X Nat : p[1] < p[2]}
<1>1. IsWellFoundedOn(Less, Nat)
  BY NatLessThanWellFounded DEF OpToRel
<1>2. \A x, y \in Nat : <<y, x>> \notin Less => x <= y
  OBVIOUS
<1> HIDE DEF Less
<1>3. PICK x \in S : \A y \in S : <<y, x>> \notin Less
  BY <1>1, WFMin
<1> QED
  BY <1>2, <1>3

\* A set of numbers up to n that is not empty has a greatest one.
LEMMA GreatestNumber ==
  ASSUME NEW n \in Nat, NEW S \in SUBSET (0..n), S # {}
  PROVE  Max(S) \in S /\ \A y \in S : Max(S) >= y
<1> DEFINE Bounds == {b \in Nat : \A y \in S : b >= y}
<1>1. n \in Bounds
  OBVIOUS
<1>2. PICK b \in Bounds : \A c \in Bounds : b <= c
  BY <1>1, LeastNumber
<1>3. b \in S
  <2> SUFFICES ASSUME b \notin S PROVE FALSE
    OBVIOUS
  <2>1. \A y \in S : b > y /\ y \in Nat
    BY <1>2
  <2>2. b - 1 \in Nat
    <3>1. PICK y \in S : TRUE
      OBVIOUS
    <3> QED
      BY <2>1, <3>1
  <2>3. b - 1 \in Bounds
    BY <2>1, <2>2
  <2> QED
    BY <1>2, <2>3
<1>4. \A y \in S : b >= y
  BY <1>2
<1> HIDE DEF Bounds
<1> QED
  BY <1>3, <1>4 DEF Max

LEMMA NewIdFits ==
  ASSUME NEW n \in Nat, NEW S \in SUBSET (0..n)
  PROVE  NewId(S) \in 1..(n + 1) /\ \A i \in S : NewId(S) > i
<1> DEFINE T == S \cup {0}
<1>1. Max(T) \in T /\ \A y \in T : Max(T) >= y
  <2>1. T \in SUBSET (0..n) /\ T # {}
    OBVIOUS
  <2> HIDE DEF T
  <2> QED
    BY <2>1, GreatestNumber
<1>2. NewId(S) = 1 + Max(T)
  BY DEF NewId
<1>3. \A i \in S : i \in T /\ i \in Nat
  OBVIOUS
<1>4. T \subseteq 0..n
  OBVIOUS
<1> HIDE DEF T
<1>5. Max(T) \in 0..n
  BY <1>1, <1>4
<1>6. ASSUME NEW i \in S PROVE NewId(S) > i
  BY <1>1, <1>2, <1>3, <1>5
<1>7. NewId(S) \in 1..(n + 1)
  BY <1>2, <1>5
<1> QED
  BY <1>6, <1>7

\* The rows of the tables have fields of their types.
LEMMA RowFields ==
  ASSUME NEW r \in DomainRow
  PROVE  /\ r.id \in Nat /\ r.backend \in Nat /\ r.wildcard \in BOOLEAN
         /\ r.name # "" => r.name \in Names
<1>1. r.id \in Ids /\ r.backend \in Ids \cup {0} /\ r.name \in Names \cup {""}
  BY DEF DomainRow
<1>2. r.wildcard \in BOOLEAN
  BY DEF DomainRow
<1>3. MaxRequests \in Nat
  BY RequestsFit
<1>4. \A i \in Ids : i \in Nat
  BY <1>3 DEF Ids
<1>5. r.id \in Nat /\ r.backend \in Nat
  <2>1. \A i \in Ids \cup {0} : i \in Nat
    BY <1>4
  <2> QED
    BY <1>1, <2>1
<1>6. r.name # "" => r.name \in Names
  BY <1>1
<1> QED
  BY <1>2, <1>5, <1>6

\* Among rows that differ in their ids one comes before all the others.
LEMMA FirstRow ==
  ASSUME NEW R \in SUBSET DomainRow, R # {},
         \A r, s \in R : r # s => r.id # s.id
  PROVE  \E r \in R : \A s \in R \ {r} : RenderOrder(r, s)
<1> DEFINE Exact == {r \in R : ~r.wildcard}
           Best  == IF Exact = {} THEN R ELSE Exact
           Nums  == {r.id : r \in Best}
<1>1. Best # {} /\ Best \subseteq R
  OBVIOUS
<1>2. \A r \in R : r.id \in Nat /\ r.wildcard \in BOOLEAN
  BY RowFields
<1>3. Nums \in SUBSET Nat /\ Nums # {}
  BY <1>1, <1>2
<1>4. PICK r \in Best : \A s \in Best : r.id <= s.id
  <2>1. PICK x \in Nums : \A y \in Nums : x <= y
    <3> HIDE DEF Nums
    <3> QED
      BY <1>3, LeastNumber
  <2> QED
    BY <2>1
<1>5. ASSUME NEW s \in R \ {r} PROVE RenderOrder(r, s)
  <2>1. r \in R /\ r.id # s.id /\ r.id \in Nat /\ s.id \in Nat
    BY <1>1, <1>2, <1>5
  <2>2. CASE s \in Best
    <3>1. r.wildcard = s.wildcard \/ (~r.wildcard /\ s.wildcard)
      BY <1>2, <1>5, <2>1, <2>2
    <3>2. r.id < s.id
      BY <1>4, <2>1, <2>2
    <3> QED
      BY <3>1, <3>2 DEF RenderOrder
  <2>3. CASE s \notin Best
    <3>1. ~r.wildcard /\ s.wildcard
      BY <1>2, <1>5, <2>3
    <3> QED
      BY <3>1 DEF RenderOrder
  <2> QED
    BY <2>2, <2>3
<1> QED
  BY <1>1, <1>5
-----------------------------------------------------------------------------
(* A configuration that is a copy of the tables *)

FullCopy(cfg) ==
    /\ cfg \subseteq Block
    /\ \A r \in DomainRow : (r \in domains /\ r.name # "") <=> \E b \in cfg : b.row = r
    /\ \A b \in cfg : b.servers = asked[b.row.domain]

LEMMA Blocks ==
  ASSUME NEW cfg, FullCopy(cfg)
  PROVE  /\ \A b \in cfg : b.row \in DomainRow /\ b.row \in domains /\ b.row.name # ""
         /\ \A b, c \in cfg : b.row = c.row => b = c
<1>1. \A b \in cfg : b.row \in DomainRow
  BY DEF FullCopy, Block
<1>2. \A b \in cfg : b.row \in domains /\ b.row.name # ""
  BY <1>1 DEF FullCopy
<1>3. ASSUME NEW b \in cfg, NEW c \in cfg, b.row = c.row PROVE b = c
  <2>1. b.servers = c.servers
    BY <1>3 DEF FullCopy
  <2>2. b \in Block /\ c \in Block
    BY DEF FullCopy
  <2> QED
    BY <1>3, <2>1, <2>2 DEF Block
<1> QED
  BY <1>1, <1>2, <1>3

\* A template defines sections of the backend's own names only.
LEMMA OwnSections ==
  ASSUME NEW b
  PROVE  /\ Sections(b) \subseteq {b.row.name, SseOf(b.row.name)}
         /\ b.servers # Empty /\ b.row.override \in BothSections
                => Sections(b) = {b.row.name, SseOf(b.row.name)}
<1>0. BothSections \cap OneSection = {}
  BY RequestsFit DEF BothSections, OneSection
<1>1. CASE b.servers = Empty
  BY <1>1 DEF Sections
<1>2. CASE b.servers # Empty /\ b.row.override \in BothSections
  BY <1>0, <1>2 DEF Sections
<1>3. CASE b.servers # Empty /\ b.row.override \notin BothSections /\ b.row.override \in OneSection
  BY <1>0, <1>3 DEF Sections
<1>4. CASE b.servers # Empty /\ b.row.override \notin BothSections /\ b.row.override \notin OneSection
  BY <1>4 DEF Sections
<1> QED
  BY <1>1, <1>2, <1>3, <1>4

\* A section belongs to one backend, and is none of those that are always there.
LEMMA SectionsApart ==
  ASSUME Unique(domains), Numbered, Distinct(domains),
         NEW cfg, FullCopy(cfg),
         NEW b \in cfg, NEW c \in cfg,
         NEW n \in {b.row.name, SseOf(b.row.name)}
  PROVE  n \notin Builtin /\ (n \in {c.row.name, SseOf(c.row.name)} => b = c)
<1> DEFINE r == b.row
           s == c.row
<1>1. /\ r \in DomainRow /\ r \in domains /\ r.name # "" /\ s \in DomainRow /\ s \in domains /\ s.name # ""
      /\ r = s => b = c
  BY Blocks
<1>2. r.name \in Names /\ s.name \in Names
  BY <1>1, RowFields
<1>3. n \in {r.name, SseOf(r.name)}
  OBVIOUS
<1> HIDE DEF r, s
<1>4. r.name \notin Builtin /\ SseOf(r.name) # s.name /\ SseOf(s.name) # r.name
  BY <1>1 DEF Distinct
<1>5. SseOf(r.name) \notin Builtin /\ (SseOf(r.name) = SseOf(s.name) => r.name = s.name)
  BY <1>2, RequestsFit
<1>6. r.name = s.name => r = s
  <2> SUFFICES ASSUME r.name = s.name, r # s PROVE FALSE
    OBVIOUS
  <2>1. r.backend = 0 /\ s.backend = 0
    BY <1>1 DEF Unique
  <2> QED
    BY <1>1, <2>1 DEF Numbered
<1>7. n \in {s.name, SseOf(s.name)} => b = c
  BY <1>1, <1>3, <1>4, <1>5, <1>6
<1> QED
  BY <1>3, <1>4, <1>5, <1>7 DEF r, s
-----------------------------------------------------------------------------
(* What HAProxy makes of it *)

\* Rows that every template can render make a configuration that loads.
LEMMA WellFormedLoads ==
  ASSUME Unique(domains), Numbered, Distinct(domains), WellFormed(domains),
         NEW cfg, FullCopy(cfg)
  PROVE  Loads(cfg)
<1> SUFFICES ASSUME NEW b \in cfg
             PROVE  /\ Sections(b) \cap (Builtin \cup UNION {Sections(c) : c \in cfg \ {b}}) = {}
                    /\ Targets(b.row) \subseteq Builtin \cup UNION {Sections(c) : c \in cfg}
                    /\ b.servers \cap Optionless = {}
  BY DEF Loads
<1>1. \A c \in cfg : Sections(c) \subseteq {c.row.name, SseOf(c.row.name)}
  BY OwnSections
<1>2. ASSUME NEW n \in Sections(b), n \in Builtin \cup UNION {Sections(c) : c \in cfg \ {b}}
      PROVE  FALSE
  <2>1. n \in {b.row.name, SseOf(b.row.name)}
    BY <1>1
  <2>2. n \notin Builtin
    BY <2>1, SectionsApart
  <2>3. PICK c \in cfg \ {b} : n \in Sections(c)
    BY <1>2, <2>2
  <2>4. n \in {c.row.name, SseOf(c.row.name)}
    BY <1>1, <2>3
  <2> QED
    BY <2>1, <2>3, <2>4, SectionsApart
<1>3. /\ b.row \in DomainRow /\ b.row \in domains /\ b.row.name # ""
      /\ b.servers = asked[b.row.domain]
  BY Blocks DEF FullCopy
<1>4. /\ b.servers # Empty /\ b.servers \cap Optionless = {}
      /\ b.row.override \in BothSections \/ (b.row.wildcard /\ b.row.override \in OneSection)
  BY <1>3 DEF WellFormed
<1>5. Targets(b.row) \subseteq Sections(b)
  <2>1. CASE b.row.override \in BothSections
    BY <1>4, <2>1, OwnSections DEF Targets
  <2>2. CASE b.row.override \notin BothSections
    BY <1>4, <2>2 DEF Targets, Sections
  <2> QED
    BY <2>1, <2>2
<1> QED
  BY <1>2, <1>4, <1>5

\* Of the rules that match one is the first.
LEMMA FirstExists ==
  ASSUME Unique(domains), NEW cfg, FullCopy(cfg), NEW hits \in SUBSET cfg, hits # {}
  PROVE  \E b \in hits : \A c \in hits \ {b} : RenderOrder(b.row, c.row)
<1> DEFINE R == {b.row : b \in hits}
<1>1. /\ \A b \in cfg : b.row \in DomainRow /\ b.row \in domains
      /\ \A b, c \in cfg : b.row = c.row => b = c
  BY Blocks
<1>2. R \in SUBSET DomainRow /\ R \subseteq domains /\ R # {}
  BY <1>1
<1>3. PICK r \in R : \A s \in R \ {r} : RenderOrder(r, s)
  <2> HIDE DEF R
  <2>1. \A r, s \in R : r # s => r.id # s.id
    BY <1>2 DEF Unique
  <2> QED
    BY <1>2, <2>1, FirstRow
<1>4. PICK b \in hits : b.row = r
  OBVIOUS
<1>5. \A c \in hits \ {b} : c.row \in R \ {r}
  BY <1>1, <1>4
<1>6. \A c \in hits \ {b} : RenderOrder(b.row, c.row)
  BY <1>3, <1>4, <1>5
<1> QED
  BY <1>6

\* It is the rule of a domain the host was asked for.
LEMMA FirstRule ==
  ASSUME domains \subseteq DomainRow, Unique(domains), NEW cfg, FullCopy(cfg), NEW host,
         NEW first \in cfg, Matches(first.row, host),
         \A c \in cfg \ {first} : Matches(c.row, host) => RenderOrder(first.row, c.row)
  PROVE  asked[first.row.domain] \in Wanted(host)
<1>1. \A b \in cfg : b.row \in DomainRow /\ b.row \in domains /\ b.row.name # ""
  BY Blocks
<1> DEFINE r == first.row
           proxied == {s \in domains : s.name # ""}
           exact   == {s \in proxied : ~s.wildcard /\ s.domain = host}
           wild    == {s \in proxied : s.wildcard /\ host \in Covers[s.domain]}
<1>4. r \in proxied /\ (r \in exact \/ r \in wild)
  BY <1>1 DEF Matches
<1>5. exact # {} => r \in exact
  <2> SUFFICES ASSUME NEW s \in exact, r \notin exact PROVE FALSE
    OBVIOUS
  <2>1. PICK b \in cfg : b.row = s
    BY DEF FullCopy
  <2>2. Matches(b.row, host) /\ b # first
    BY <2>1 DEF Matches
  <2>3. RenderOrder(r, s)
    BY <2>1, <2>2
  <2>4. r.wildcard
    BY <1>4
  <2> QED
    BY <2>3, <2>4 DEF RenderOrder
<1>6. Wanted(host) = IF exact # {} THEN {asked[s.domain] : s \in exact}
                     ELSE IF wild # {} THEN {asked[s.domain] : s \in wild} ELSE {Default}
  BY DEF Wanted
<1> HIDE DEF exact, wild
<1>7. CASE exact # {}
  BY <1>5, <1>6, <1>7
<1>8. CASE exact = {}
  BY <1>4, <1>6, <1>8
<1> QED
  BY <1>7, <1>8

\* The backend that a rule of a configuration that loads names is the rule's own.
LEMMA OwnBackend ==
  ASSUME Unique(domains), Numbered, Distinct(domains),
         NEW cfg, FullCopy(cfg), Loads(cfg), NEW b \in cfg,
         NEW target \in Targets(b.row)
  PROVE  (CHOOSE c \in cfg : target \in Sections(c)) = b
<1>1. target \in {b.row.name, SseOf(b.row.name)}
  BY DEF Targets
<1>2. target \notin Builtin
  BY <1>1, SectionsApart
<1>3. target \in Builtin \cup UNION {Sections(c) : c \in cfg}
  BY DEF Loads
<1>4. \E c \in cfg : target \in Sections(c)
  BY <1>2, <1>3
<1>5. ASSUME NEW c \in cfg, target \in Sections(c) PROVE c = b
  <2>1. target \in {c.row.name, SseOf(c.row.name)}
    BY <1>5, OwnSections
  <2> QED
    BY <1>1, <2>1, SectionsApart
<1> QED
  BY <1>4, <1>5

\* In a configuration that loads a host reaches what was asked for it.
LEMMA LoadedReaches ==
  ASSUME domains \subseteq DomainRow, Unique(domains), Numbered, Distinct(domains),
         NEW cfg, FullCopy(cfg), Loads(cfg), NEW host, NEW sse \in BOOLEAN
  PROVE  Reaches(cfg, host, sse) \in Wanted(host)
<1> DEFINE hits   == {b \in cfg : Matches(b.row, host)}
           first  == CHOOSE b \in hits : \A c \in hits \ {b} : RenderOrder(b.row, c.row)
           target == IF sse /\ ~first.row.wildcard THEN SseOf(first.row.name) ELSE first.row.name
<1>1. Reaches(cfg, host, sse) =
        IF hits = {} THEN Default ELSE (CHOOSE b \in cfg : target \in Sections(b)).servers
  BY DEF Reaches
<1>2. hits \subseteq cfg /\ \A b \in cfg : b \in hits <=> Matches(b.row, host)
  OBVIOUS
<1>3. CASE hits # {}
  <2>1. first \in hits /\ \A c \in hits \ {first} : RenderOrder(first.row, c.row)
    <3>1. first = CHOOSE b \in hits : \A c \in hits \ {b} : RenderOrder(b.row, c.row)
      OBVIOUS
    <3> HIDE DEF hits, first
    <3>2. \E b \in hits : \A c \in hits \ {b} : RenderOrder(b.row, c.row)
      BY <1>2, <1>3, FirstExists
    <3> QED
      BY <3>1, <3>2
  <2>2. target \in Targets(first.row)
    BY DEF Targets
  <2> HIDE DEF hits, first, target
  <2>3. first \in cfg /\ asked[first.row.domain] \in Wanted(host)
    BY <1>2, <2>1, FirstRule
  <2>4. (CHOOSE b \in cfg : target \in Sections(b)) = first
    BY <2>2, <2>3, OwnBackend
  <2>5. first.servers = asked[first.row.domain]
    BY <2>3 DEF FullCopy
  <2> QED
    BY <1>1, <1>3, <2>3, <2>4, <2>5
<1>4. CASE hits = {}
  <2>1. \A s \in domains : s.name # "" => ~Matches(s, host)
    <3> SUFFICES ASSUME NEW s \in domains, s.name # "", Matches(s, host) PROVE FALSE
      OBVIOUS
    <3>1. PICK b \in cfg : b.row = s
      BY DEF FullCopy
    <3> QED
      BY <1>4, <3>1
  <2>2. {s \in {r \in domains : r.name # ""} : ~s.wildcard /\ s.domain = host} = {}
    BY <2>1 DEF Matches
  <2>3. {s \in {r \in domains : r.name # ""} : s.wildcard /\ host \in Covers[s.domain]} = {}
    BY <2>1 DEF Matches
  <2>4. Wanted(host) = {Default}
    BY <2>2, <2>3 DEF Wanted
  <2> QED
    BY <1>1, <1>4, <2>4
<1> QED
  BY <1>3, <1>4
-----------------------------------------------------------------------------
(* The tables *)

\* The types that arithmetic is about.
LEMMA Counts ==
  ASSUME RoutingTypeOK
  PROVE  /\ MaxRequests \in Nat /\ requests \in Nat /\ requests <= MaxRequests
         /\ 1 \in Ids /\ \A i \in 1..(MaxRequests + 1) : i \in Ids
<1>1. MaxRequests \in Nat
  BY RequestsFit
<1>2. requests \in 0..MaxRequests
  BY DEF RoutingTypeOK
<1> QED
  BY <1>1, <1>2 DEF Ids

LEMMA RowMade ==
  ASSUME NEW i \in Ids, NEW d \in Sites, NEW w \in BOOLEAN, NEW n \in Names \cup {""},
         NEW b \in Ids \cup {0}, NEW o \in {q.override : q \in Requests} \cup {NoTemplate}
  PROVE  [id |-> i, domain |-> d, wildcard |-> w, override |-> o, name |-> n, backend |-> b] \in DomainRow
  BY DEF DomainRow

LEMMA InitTables ==
  ASSUME RoutingInit
  PROVE  Inv
<1>0. MaxRequests \in Nat
  BY RequestsFit
<1>1. /\ domains \subseteq DomainRow
      /\ \A r \in domains : r.id = 1 /\ r.backend = 0 /\ r.name = ""
      /\ \A r, s \in domains : r = s
  <2>1. CASE domains = {}
    BY <2>1
  <2>2. CASE domains # {}
    <3> DEFINE Site(d) == [id |-> 1, domain |-> d, wildcard |-> FALSE, override |-> NoTemplate,
                           name |-> "", backend |-> 0]
    <3>1. PICK d \in Sites : domains = {Site(d)}
      BY <2>2 DEF RoutingInit
    <3>2. 1 \in Ids
      BY <1>0 DEF Ids
    <3>3. Site(d) \in DomainRow
      BY <3>2, RowMade
    <3>4. Site(d).id = 1 /\ Site(d).backend = 0 /\ Site(d).name = ""
      OBVIOUS
    <3> HIDE DEF Site
    <3> QED
      BY <3>1, <3>3, <3>4
  <2> QED
    BY <2>1, <2>2
<1>2. Unique(domains)
  BY <1>1 DEF Unique
<1>3. /\ servers = [id \in Ids |-> Empty] /\ live = {} /\ pc = [t \in Threads |-> "idle"]
      /\ job = [t \in Threads |-> NoJob] /\ route_reply = [t \in Threads |-> "none"]
      /\ asked = [d \in Sites |-> Empty] /\ route_alone = {} /\ requests = 0
  BY DEF RoutingInit
<1>4. RoutingTypeOK
  <2>1. requests \in 0..MaxRequests
    BY <1>0, <1>3
  <2>2. job \in [Threads -> [todo: SUBSET DomainRow, cfg: SUBSET Block]]
    BY <1>3 DEF NoJob
  <2> QED
    BY <1>1, <1>2, <1>3, <2>1, <2>2 DEF RoutingTypeOK
<1>5. Numbered
  <2> SUFFICES ASSUME NEW r \in domains
               PROVE  r.id <= requests + 1 /\ r.backend <= requests /\ (r.backend = 0 <=> r.name = "")
    BY DEF Numbered
  <2>1. r.id = 1 /\ r.backend = 0 /\ r.name = "" /\ requests = 0
    BY <1>1, <1>3
  <2>2. 1 <= 0 + 1 /\ 0 <= 0
    OBVIOUS
  <2>3. r.id <= requests + 1 /\ r.backend <= requests
    BY <2>1, <2>2
  <2> QED
    BY <2>1, <2>3
<1>6. Stored
  BY <1>1, <1>3 DEF Stored
<1>7. Alone
  BY <1>3 DEF Alone
<1>8. Readable
  BY <1>3 DEF Readable, NoJob
<1> QED
  BY <1>4, <1>5, <1>6, <1>7, <1>8 DEF Inv, Tables

\* The row that add_domain() writes is a row, and none of the other domains has its
\* numbers or its name.
LEMMA NewRowFits ==
  ASSUME Tables, NEW q \in Requests, requests < MaxRequests, ~NameTaken(q)
  PROVE  /\ NewRow(q) \in DomainRow
         /\ NewRow(q).domain = q.domain /\ NewRow(q).name = q.name /\ q.name # ""
         /\ NewRow(q).id <= requests + 2
         /\ NewRow(q).backend \in Ids /\ NewRow(q).backend <= requests + 1
         /\ \A r \in domains : r.domain # q.domain =>
               r.id # NewRow(q).id /\ r.backend # NewRow(q).backend /\ r.name # q.name
         /\ \A r \in domains : r.domain = q.domain /\ r.backend # 0 => r.backend = NewRow(q).backend
         /\ (\A r \in domains : r.domain = q.domain => r.backend = 0)
               => \A r \in domains : r.backend # NewRow(q).backend
<1> DEFINE old == {r \in domains : r.domain = q.domain}
           id  == IF old = {} THEN NewId({r.id : r \in domains}) ELSE (CHOOSE r \in old : TRUE).id
           has == \E r \in old : r.backend # 0
           bid == IF has THEN (CHOOSE r \in old : TRUE).backend
                  ELSE NewId({r.backend : r \in domains})
<1>0. MaxRequests \in Nat /\ requests \in Nat /\ requests + 1 <= MaxRequests
  BY Counts DEF Tables
<1>1. \A r \in domains : /\ r \in DomainRow /\ r.id \in 1..(requests + 1) /\ r.backend \in 0..requests
                         /\ r.id \in Ids /\ r.backend \in Ids \cup {0}
  <2> SUFFICES ASSUME NEW r \in domains
               PROVE  /\ r \in DomainRow /\ r.id \in 1..(requests + 1) /\ r.backend \in 0..requests
                      /\ r.id \in Ids /\ r.backend \in Ids \cup {0}
    OBVIOUS
  <2>1. r \in DomainRow
    BY DEF Tables, RoutingTypeOK
  <2>2. r.id \in Ids /\ r.backend \in Ids \cup {0}
    BY <2>1 DEF DomainRow
  <2>3. r.id <= requests + 1 /\ r.backend <= requests
    BY DEF Tables, Numbered
  <2> QED
    BY <1>0, <2>1, <2>2, <2>3 DEF Ids
<1>2. \A r, s \in old : r = s
  BY DEF Tables, RoutingTypeOK, Unique
<1>3. /\ NewId({r.id : r \in domains}) \in 1..(requests + 2)
      /\ \A r \in domains : NewId({s.id : s \in domains}) > r.id
  <2> DEFINE S == {r.id : r \in domains}
  <2>1. S \in SUBSET (0..(requests + 1)) /\ requests + 1 \in Nat
    BY <1>0, <1>1
  <2>2. NewId(S) \in 1..((requests + 1) + 1) /\ \A i \in S : NewId(S) > i
    <3> HIDE DEF S
    <3> QED
      BY <2>1, NewIdFits
  <2> QED
    BY <1>0, <2>2
<1>4. /\ NewId({r.backend : r \in domains}) \in 1..(requests + 1)
      /\ \A r \in domains : NewId({s.backend : s \in domains}) > r.backend
  <2> DEFINE S == {r.backend : r \in domains}
  <2>1. S \in SUBSET (0..requests)
    BY <1>1
  <2>2. NewId(S) \in 1..(requests + 1) /\ \A i \in S : NewId(S) > i
    <3> HIDE DEF S
    <3> QED
      BY <1>0, <2>1, NewIdFits
  <2> QED
    BY <2>2
<1>5. /\ id \in 1..(requests + 2)
      /\ \A r \in domains : r.domain # q.domain => r.id # id
  <2>1. CASE old = {}
    <3>1. id = NewId({r.id : r \in domains})
      BY <2>1
    <3>2. \A r \in domains : id > r.id /\ r.id \in Nat /\ id \in Nat
      BY <1>0, <1>1, <1>3, <3>1
    <3> HIDE DEF id
    <3> QED
      BY <1>3, <3>1, <3>2
  <2>2. CASE old # {}
    <3>1. PICK r \in old : id = r.id
      BY <2>2
    <3>2. r \in domains /\ r.domain = q.domain
      OBVIOUS
    <3>3. \A s \in domains : s.domain # q.domain => s.id # r.id
      BY <3>2 DEF Tables, RoutingTypeOK, Unique
    <3>4. r.id \in 1..(requests + 2)
      BY <1>0, <1>1, <3>2
    <3> HIDE DEF id
    <3> QED
      BY <3>1, <3>3, <3>4
  <2> QED
    BY <2>1, <2>2
<1>6. /\ bid \in 1..(requests + 1)
      /\ \A r \in domains : r.domain # q.domain => r.backend # bid
      /\ \A r \in domains : r.domain = q.domain /\ r.backend # 0 => r.backend = bid
      /\ (\A r \in domains : r.domain = q.domain => r.backend = 0)
            => \A r \in domains : r.backend # bid
  <2>1. CASE ~has
    <3>1. bid = NewId({r.backend : r \in domains})
      BY <2>1
    <3>2. \A r \in domains : r.domain = q.domain => r.backend = 0
      BY <2>1
    <3> HIDE DEF bid
    <3>3. \A r \in domains : bid > r.backend /\ r.backend \in Nat /\ bid \in Nat
      BY <1>0, <1>1, <1>4, <3>1
    <3>4. \A r \in domains : r.backend # bid
      BY <3>3
    <3> QED
      BY <1>4, <3>1, <3>2, <3>4
  <2>2. CASE has
    <3>1. PICK r \in old : r.backend # 0 /\ bid = r.backend
      BY <1>2, <2>2
    <3>2. r \in domains /\ r.domain = q.domain
      OBVIOUS
    <3>3. \A s \in domains : s.domain # q.domain => s.backend # r.backend
      BY <3>1, <3>2 DEF Tables, RoutingTypeOK, Unique
    <3>4. r.backend \in 1..(requests + 1)
      BY <1>0, <1>1, <3>1, <3>2
    <3>5. \A s \in domains : s.domain = q.domain => s = r
      BY <1>2
    <3> HIDE DEF bid
    <3> QED
      BY <3>1, <3>2, <3>3, <3>4, <3>5
  <2> QED
    BY <2>1, <2>2
<1>7. \A r \in domains : r.domain # q.domain => r.name # q.name
  BY DEF NameTaken
<1>8. q.name \in Names /\ q.name # "" /\ q.domain \in Sites /\ q.wildcard \in BOOLEAN
  BY RequestsFit DEF Names, Sites
<1>8a. q.override \in {p.override : p \in Requests} \cup {NoTemplate}
  OBVIOUS
<1>9. id \in Ids /\ bid \in Ids
  BY <1>0, <1>5, <1>6 DEF Ids
<1>10. NewRow(q) = [id |-> id, domain |-> q.domain, wildcard |-> q.wildcard,
                    override |-> q.override, name |-> q.name, backend |-> bid]
  BY DEF NewRow
<1> HIDE DEF id, bid
<1>11. NewRow(q) \in DomainRow
  <2>1. q.name \in Names \cup {""} /\ bid \in Ids \cup {0}
    BY <1>8, <1>9
  <2>2. [id |-> id, domain |-> q.domain, wildcard |-> q.wildcard,
         override |-> q.override, name |-> q.name, backend |-> bid] \in DomainRow
    BY <1>8, <1>8a, <1>9, <2>1, RowMade
  <2> QED
    BY <1>10, <2>2
<1>12. /\ NewRow(q).id = id /\ NewRow(q).domain = q.domain /\ NewRow(q).name = q.name
       /\ NewRow(q).backend = bid
  BY <1>10
<1>13. NewRow(q).id <= requests + 2 /\ NewRow(q).backend <= requests + 1
  BY <1>0, <1>5, <1>6, <1>12
<1> QED
  BY <1>5, <1>6, <1>7, <1>8, <1>9, <1>11, <1>12, <1>13
-----------------------------------------------------------------------------
(* What the requests do to the tables *)

LEMMA BeginTypes ==
  ASSUME RoutingTypeOK, NEW t \in Threads, BeginRequest(t)
  PROVE  /\ requests' = requests + 1 /\ requests' \in 0..MaxRequests /\ requests < MaxRequests
         /\ requests \in Nat /\ route_alone' \subseteq Threads /\ pc[t] = "idle"
  BY Counts DEF BeginRequest

\* Where a thread is, and what it is told.
LEMMA GotoTypes ==
  ASSUME RoutingTypeOK, NEW t \in Threads,
         NEW label \in {"idle", "domains", "servers", "install"}, Goto(t, label)
  PROVE  pc' \in [Threads -> {"idle", "domains", "servers", "install"}]
  BY DEF RoutingTypeOK, Goto

LEMMA AddTables ==
  ASSUME Tables, NEW t \in Threads, NEW q \in Requests, add_domain(t, q)
  PROVE  Tables'
<1>1. RoutingTypeOK /\ BeginRequest(t)
  BY DEF Tables, add_domain
<1>2. /\ requests' = requests + 1 /\ requests' \in 0..MaxRequests /\ requests < MaxRequests
      /\ requests \in Nat /\ route_alone' \subseteq Threads
  BY <1>1, BeginTypes
<1>3. CASE NameTaken(q)
  <2>1. /\ route_reply' = [route_reply EXCEPT ![t] = "error"]
        /\ UNCHANGED <<domains, servers, asked, pc, live, job>>
    BY <1>3 DEF add_domain
  <2>2. route_reply' \in [Threads -> {"none", "success", "error"}]
    BY <1>1, <2>1 DEF RoutingTypeOK
  <2>3. RoutingTypeOK'
    BY <1>1, <1>2, <2>1, <2>2 DEF RoutingTypeOK
  <2>4. ASSUME NEW r \in domains
        PROVE  r.id <= requests' + 1 /\ r.backend <= requests'
    <3>1. r.id <= requests + 1 /\ r.backend <= requests /\ r.id \in Nat /\ r.backend \in Nat
      BY <1>1, RowFields DEF Tables, Numbered, RoutingTypeOK
    <3> QED
      BY <1>2, <3>1
  <2>5. Numbered'
    BY <2>1, <2>4 DEF Tables, Numbered
  <2>6. Stored'
    BY <2>1 DEF Tables, Stored
  <2> QED
    BY <2>1, <2>3, <2>5, <2>6 DEF Tables, Readable
<1>4. CASE ~NameTaken(q)
  <2> DEFINE n   == NewRow(q)
             has == \E r \in domains : r.domain = q.domain /\ r.backend # 0
  <2>1. /\ n \in DomainRow /\ n.domain = q.domain /\ n.name = q.name /\ q.name # ""
        /\ n.id <= requests + 2 /\ n.backend \in Ids /\ n.backend <= requests + 1
        /\ \A r \in domains : r.domain # q.domain =>
              r.id # n.id /\ r.backend # n.backend /\ r.name # q.name
        /\ \A r \in domains : r.domain = q.domain /\ r.backend # 0 => r.backend = n.backend
        /\ (\A r \in domains : r.domain = q.domain => r.backend = 0)
               => \A r \in domains : r.backend # n.backend
    BY <1>2, <1>4, NewRowFits
  <2>2. /\ domains' = {r \in domains : r.domain # q.domain} \cup {n}
        /\ servers' = [servers EXCEPT ![n.backend] = IF has THEN q.servers ELSE @ \cup q.servers]
        /\ asked' = [asked EXCEPT ![q.domain] = q.servers]
        /\ route_reply' = [route_reply EXCEPT ![t] = "none"]
        /\ Goto(t, "domains") /\ UNCHANGED <<live, job>>
    BY <1>4 DEF add_domain
  <2> HIDE DEF n
  <2>3. n.backend # 0
    <3>1. \A i \in Ids : i # 0
      BY <1>1, Counts DEF Ids
    <3> QED
      BY <2>1, <3>1
  <2>4. servers'[n.backend] = q.servers
    <3>1. servers'[n.backend] = IF has THEN q.servers ELSE servers[n.backend] \cup q.servers
      BY <1>1, <2>1, <2>2 DEF RoutingTypeOK
    <3>2. CASE ~has
      <4>1. \A r \in domains : r.backend # n.backend
        BY <2>1, <3>2
      <4>2. servers[n.backend] = Empty
        BY <2>1, <4>1 DEF Tables, Stored
      <4> QED
        BY <3>1, <3>2, <4>2 DEF Empty
    <3> QED
      BY <3>1, <3>2
  <2>5. \A id \in Ids : id # n.backend => servers'[id] = servers[id]
    BY <1>1, <2>2 DEF RoutingTypeOK
  <2>6. /\ asked'[q.domain] = q.servers
        /\ \A d \in Sites : d # q.domain => asked'[d] = asked[d]
    BY <1>1, <2>2 DEF RoutingTypeOK, Sites
  <2>7. domains \subseteq DomainRow /\ Unique(domains)
    BY <1>1 DEF RoutingTypeOK
  <2>8. domains' \subseteq DomainRow /\ Unique(domains)'
    <3>1. domains' \subseteq DomainRow
      BY <2>1, <2>2, <2>7
    <3>2. ASSUME NEW r \in domains', NEW s \in domains', r # s
          PROVE  /\ r.id # s.id /\ r.domain # s.domain
                 /\ r.backend # 0 => r.backend # s.backend /\ r.name # s.name
      <4>1. CASE r = n
        <5>1. s \in domains /\ s.domain # q.domain
          BY <2>2, <3>2, <4>1
        <5> QED
          BY <2>1, <4>1, <5>1
      <4>2. CASE s = n
        <5>1. r \in domains /\ r.domain # q.domain
          BY <2>2, <3>2, <4>2
        <5> QED
          BY <2>1, <4>2, <5>1
      <4>3. CASE r # n /\ s # n
        <5>1. r \in domains /\ s \in domains
          BY <2>2, <4>3
        <5> QED
          BY <2>7, <3>2, <5>1 DEF Unique
      <4> QED
        BY <4>1, <4>2, <4>3
    <3> QED
      BY <3>1, <3>2 DEF Unique
  <2>9. RoutingTypeOK'
    <3>1. servers' \in [Ids -> {p.servers : p \in Requests} \cup {Empty}]
      <4>1. DOMAIN servers' = Ids /\ servers' = [id \in Ids |-> servers'[id]]
        BY <1>1, <2>2 DEF RoutingTypeOK
      <4>2. \A id \in Ids : servers'[id] \in {p.servers : p \in Requests} \cup {Empty}
        BY <1>1, <2>4, <2>5 DEF RoutingTypeOK
      <4> QED
        BY <4>1, <4>2
    <3>2. asked' \in [Sites -> {p.servers : p \in Requests} \cup {Empty}]
      BY <1>1, <2>2 DEF RoutingTypeOK
    <3>3. pc' \in [Threads -> {"idle", "domains", "servers", "install"}]
      BY <1>1, <2>2, GotoTypes
    <3>4. route_reply' \in [Threads -> {"none", "success", "error"}]
      BY <1>1, <2>2 DEF RoutingTypeOK
    <3> QED
      BY <1>1, <1>2, <2>2, <2>8, <3>1, <3>2, <3>3, <3>4 DEF RoutingTypeOK
  <2>10. Numbered'
    <3> SUFFICES ASSUME NEW r \in domains'
                 PROVE  /\ r.id <= requests' + 1 /\ r.backend <= requests'
                        /\ r.backend = 0 <=> r.name = ""
      BY DEF Numbered
    <3>1. CASE r = n
      <4>1. r.id \in Nat /\ r.backend \in Nat
        BY <2>1, <3>1, RowFields
      <4>2. r.id <= requests' + 1 /\ r.backend <= requests'
        <5>1. r.id <= requests + 2 /\ r.backend <= requests + 1
          BY <2>1, <3>1
        <5> QED
          BY <1>2, <4>1, <5>1
      <4> QED
        BY <2>1, <2>3, <3>1, <4>2
    <3>2. CASE r # n
      <4>1. r \in domains /\ r \in DomainRow
        BY <2>2, <2>7, <3>2
      <4>2. r.id <= requests + 1 /\ r.backend <= requests
        BY <4>1 DEF Tables, Numbered
      <4>3. r.id \in Nat /\ r.backend \in Nat
        BY <4>1, RowFields
      <4>4. r.id <= requests' + 1 /\ r.backend <= requests'
        BY <1>2, <4>2, <4>3
      <4> QED
        BY <4>1, <4>4 DEF Tables, Numbered
    <3> QED
      BY <3>1, <3>2
  <2>11. Stored'
    <3>1. ASSUME NEW r \in domains', r.backend # 0
          PROVE  servers'[r.backend] = asked'[r.domain]
      <4>1. CASE r = n
        BY <2>1, <2>4, <2>6, <4>1
      <4>2. CASE r # n
        <5>1. r \in domains /\ r \in DomainRow /\ r.domain # q.domain
          BY <2>2, <2>7, <4>2
        <5>2. r.domain \in Sites /\ r.backend \in Ids
          BY <3>1, <5>1 DEF DomainRow
        <5>3. servers[r.backend] = asked[r.domain] /\ r.backend # n.backend
          BY <2>1, <3>1, <5>1 DEF Tables, Stored
        <5> QED
          BY <2>5, <2>6, <5>1, <5>2, <5>3
      <4> QED
        BY <4>1, <4>2
    <3>2. ASSUME NEW id \in Ids, \A r \in domains' : r.backend # id
          PROVE  servers'[id] = Empty
      <4>1. id # n.backend
        BY <2>2, <3>2
      <4>2. \A r \in domains : r.backend # id
        <5> SUFFICES ASSUME NEW r \in domains, r.backend = id PROVE FALSE
          OBVIOUS
        <5>1. CASE r.domain = q.domain
          <6>1. id # 0
            BY <1>1, Counts DEF Ids
          <6> QED
            BY <2>1, <4>1, <5>1, <6>1
        <5>2. CASE r.domain # q.domain
          BY <2>2, <3>2, <5>2
        <5> QED
          BY <5>1, <5>2
      <4> QED
        BY <2>5, <4>1, <4>2 DEF Tables, Stored
    <3> QED
      BY <3>1, <3>2 DEF Stored
  <2> QED
    BY <2>2, <2>9, <2>10, <2>11 DEF Tables, Readable
<1> QED
  BY <1>3, <1>4

LEMMA RemoveTables ==
  ASSUME Tables, NEW t \in Threads, NEW d \in Sites, remove_domain(t, d)
  PROVE  Tables'
<1> DEFINE gone == {r \in domains : r.domain = d}
<1>1. RoutingTypeOK /\ BeginRequest(t) /\ domains \subseteq DomainRow /\ Unique(domains)
  BY DEF Tables, RoutingTypeOK, remove_domain
<1>2. /\ requests' = requests + 1 /\ requests' \in 0..MaxRequests /\ requests < MaxRequests
      /\ requests \in Nat /\ route_alone' \subseteq Threads
  BY <1>1, BeginTypes
<1>3. /\ domains' = domains \ gone
      /\ servers' = [id \in Ids |-> IF \E r \in gone : r.backend = id THEN Empty ELSE servers[id]]
      /\ asked' = [asked EXCEPT ![d] = Empty]
      /\ route_reply' = [route_reply EXCEPT ![t] = "none"]
      /\ Goto(t, "domains") /\ UNCHANGED <<live, job>>
  BY DEF remove_domain
<1>4. \A r \in domains' : r \in domains /\ r.domain # d
  BY <1>3
<1>5. RoutingTypeOK'
  <2>1. domains' \subseteq DomainRow /\ Unique(domains)'
    BY <1>1, <1>4 DEF Unique
  <2>2. servers' \in [Ids -> {p.servers : p \in Requests} \cup {Empty}]
    BY <1>1, <1>3 DEF RoutingTypeOK
  <2>3. asked' \in [Sites -> {p.servers : p \in Requests} \cup {Empty}]
    BY <1>1, <1>3 DEF RoutingTypeOK
  <2>4. pc' \in [Threads -> {"idle", "domains", "servers", "install"}]
    BY <1>1, <1>3, GotoTypes
  <2>5. route_reply' \in [Threads -> {"none", "success", "error"}]
    BY <1>1, <1>3 DEF RoutingTypeOK
  <2> QED
    BY <1>1, <1>2, <1>3, <2>1, <2>2, <2>3, <2>4, <2>5 DEF RoutingTypeOK
<1>6. Numbered'
  <2>1. ASSUME NEW r \in domains'
        PROVE  r.id <= requests' + 1 /\ r.backend <= requests'
    <3>1. r \in domains /\ r \in DomainRow
      BY <1>1, <1>4
    <3>2. r.id <= requests + 1 /\ r.backend <= requests
      BY <3>1 DEF Tables, Numbered
    <3>3. r.id \in Nat /\ r.backend \in Nat
      BY <3>1, RowFields
    <3> QED
      BY <1>2, <3>2, <3>3
  <2> QED
    BY <1>4, <2>1 DEF Tables, Numbered
<1>7. Stored'
  <2>1. ASSUME NEW r \in domains', r.backend # 0
        PROVE  servers'[r.backend] = asked'[r.domain]
    <3>1. r \in domains /\ r \in DomainRow /\ r.domain # d
      BY <1>1, <1>4
    <3>2. r.domain \in Sites /\ r.backend \in Ids
      BY <2>1, <3>1 DEF DomainRow
    <3>3. \A s \in gone : s.backend # r.backend
      BY <1>1, <2>1, <3>1 DEF Unique
    <3>4. servers[r.backend] = asked[r.domain]
      BY <2>1, <3>1 DEF Tables, Stored
    <3> QED
      BY <1>1, <1>3, <3>1, <3>2, <3>3, <3>4 DEF RoutingTypeOK
  <2>2. ASSUME NEW id \in Ids, \A r \in domains' : r.backend # id
        PROVE  servers'[id] = Empty
    <3>1. CASE \E r \in gone : r.backend = id
      BY <1>3, <3>1
    <3>2. CASE ~\E r \in gone : r.backend = id
      <4>1. \A r \in domains : r.backend # id
        BY <1>3, <2>2, <3>2
      <4> QED
        BY <1>3, <3>2, <4>1 DEF Tables, Stored
    <3> QED
      BY <3>1, <3>2
  <2> QED
    BY <2>1, <2>2 DEF Stored
<1> QED
  BY <1>3, <1>5, <1>6, <1>7 DEF Tables, Readable

LEMMA RegenerateTables ==
  ASSUME Tables, NEW t \in Threads, regenerate_conf(t)
  PROVE  Tables'
<1>1. RoutingTypeOK /\ BeginRequest(t) /\ domains \subseteq DomainRow
  BY DEF Tables, RoutingTypeOK, regenerate_conf
<1>2. /\ requests' = requests + 1 /\ requests' \in 0..MaxRequests
      /\ requests \in Nat /\ route_alone' \subseteq Threads
  BY <1>1, BeginTypes
<1>3. /\ UNCHANGED <<domains, servers, live, job, asked>>
      /\ route_reply' = [route_reply EXCEPT ![t] = "none"] /\ Goto(t, "domains")
  BY DEF regenerate_conf
<1>4. RoutingTypeOK'
  <2>1. pc' \in [Threads -> {"idle", "domains", "servers", "install"}]
    BY <1>1, <1>3, GotoTypes
  <2>2. route_reply' \in [Threads -> {"none", "success", "error"}]
    BY <1>1, <1>3 DEF RoutingTypeOK
  <2> QED
    BY <1>1, <1>2, <1>3, <2>1, <2>2 DEF RoutingTypeOK
<1>5. Numbered'
  <2>1. ASSUME NEW r \in domains
        PROVE  r.id <= requests' + 1 /\ r.backend <= requests'
    <3>1. r.id <= requests + 1 /\ r.backend <= requests
      BY DEF Tables, Numbered
    <3>2. r.id \in Nat /\ r.backend \in Nat
      BY <1>1, RowFields
    <3> QED
      BY <1>2, <3>1, <3>2
  <2> QED
    BY <1>3, <2>1 DEF Tables, Numbered
<1>6. Stored'
  BY <1>3 DEF Tables, Stored
<1> QED
  BY <1>3, <1>4, <1>5, <1>6 DEF Tables, Readable

-----------------------------------------------------------------------------
(* generate_config() *)

\* It only reads the tables.
LEMMA GenerationTables ==
  ASSUME Tables, NEW t \in Threads,
         select_domains(t) \/ select_servers(t) \/ install(t)
  PROVE  Tables' /\ UNCHANGED <<domains, servers, asked, route_alone, requests>>
<1>1. RoutingTypeOK /\ domains \subseteq DomainRow
  BY DEF Tables, RoutingTypeOK
<1>2. UNCHANGED <<domains, servers, asked, route_alone, requests>>
  BY DEF select_domains, select_servers, install
<1>3. ASSUME NEW todo \in SUBSET DomainRow, \A r \in todo : r.backend # 0,
             NEW cfg \in SUBSET Block, Advance(t, todo, cfg), UNCHANGED <<live, route_reply>>
      PROVE  RoutingTypeOK' /\ Readable'
  <2>1. job' \in [Threads -> [todo: SUBSET DomainRow, cfg: SUBSET Block]]
    BY <1>1, <1>3 DEF Advance, RoutingTypeOK
  <2>2. pc' \in [Threads -> {"idle", "domains", "servers", "install"}]
    BY <1>1, <1>3, GotoTypes DEF Advance
  <2>3. \A u \in Threads : job'[u].todo = IF u = t THEN todo ELSE job[u].todo
    BY <1>1, <1>3 DEF Advance, RoutingTypeOK
  <2>4. Readable'
    BY <1>3, <2>3 DEF Tables, Readable
  <2> QED
    BY <1>1, <1>2, <1>3, <2>1, <2>2, <2>4 DEF RoutingTypeOK
<1>4. Numbered' /\ Stored'
  BY <1>2 DEF Tables, Numbered, Stored
<1>5. job[t].todo \in SUBSET DomainRow /\ job[t].cfg \in SUBSET Block
  BY <1>1 DEF RoutingTypeOK
<1>6. CASE select_domains(t)
  <2> DEFINE rows == {r \in domains : r.name # ""}
  <2>1. rows \in SUBSET DomainRow /\ {} \in SUBSET Block
    BY <1>1
  <2>2. \A r \in rows : r.backend # 0
    BY DEF Tables, Numbered
  <2>3. Advance(t, rows, {}) /\ UNCHANGED <<live, route_reply>>
    BY <1>6 DEF select_domains
  <2> HIDE DEF rows
  <2> QED
    BY <1>2, <1>3, <1>4, <2>1, <2>2, <2>3 DEF Tables
<1>7. CASE select_servers(t)
  <2>1. PICK r \in job[t].todo :
          /\ Advance(t, job[t].todo \ {r},
                     job[t].cfg \cup {[row |-> r, servers |-> servers[r.backend]]})
          /\ UNCHANGED <<live, route_reply>>
    BY <1>7 DEF select_servers
  <2> DEFINE block == [row |-> r, servers |-> servers[r.backend]]
  <2>2. block \in Block
    <3>1. r \in DomainRow /\ r.backend # 0
      BY <1>5 DEF Tables, Readable
    <3>2. r.backend \in Ids
      BY <3>1 DEF DomainRow
    <3>3. servers[r.backend] \in {q.servers : q \in Requests} \cup {Empty}
      BY <1>1, <3>2 DEF RoutingTypeOK
    <3> QED
      BY <3>1, <3>3 DEF Block
  <2> HIDE DEF block
  <2>3. job[t].todo \ {r} \in SUBSET DomainRow /\ job[t].cfg \cup {block} \in SUBSET Block
    BY <1>5, <2>2
  <2>4. \A s \in job[t].todo \ {r} : s.backend # 0
    BY DEF Tables, Readable
  <2>5. Advance(t, job[t].todo \ {r}, job[t].cfg \cup {block}) /\ UNCHANGED <<live, route_reply>>
    BY <2>1 DEF block
  <2> QED
    BY <1>2, <1>3, <1>4, <2>3, <2>4, <2>5 DEF Tables
<1>8. CASE install(t)
  <2>1. /\ live' = IF Loads(job[t].cfg) THEN job[t].cfg ELSE live
        /\ route_reply' = [route_reply EXCEPT ![t] = IF Loads(job[t].cfg) THEN "success" ELSE "error"]
        /\ job' = [job EXCEPT ![t] = NoJob] /\ Goto(t, "idle")
    BY <1>8 DEF install
  <2>2. live' \subseteq Block
    BY <1>1, <1>5, <2>1 DEF RoutingTypeOK
  <2>3. route_reply' \in [Threads -> {"none", "success", "error"}]
    BY <1>1, <2>1 DEF RoutingTypeOK
  <2>4. job' \in [Threads -> [todo: SUBSET DomainRow, cfg: SUBSET Block]]
    BY <1>1, <2>1 DEF RoutingTypeOK, NoJob
  <2>5. pc' \in [Threads -> {"idle", "domains", "servers", "install"}]
    BY <1>1, <2>1, GotoTypes
  <2>6. RoutingTypeOK'
    BY <1>1, <1>2, <2>2, <2>3, <2>4, <2>5 DEF RoutingTypeOK
  <2>7. \A u \in Threads : job'[u].todo = IF u = t THEN {} ELSE job[u].todo
    BY <1>1, <2>1 DEF RoutingTypeOK, NoJob
  <2>8. Readable'
    BY <2>7 DEF Tables, Readable
  <2> QED
    BY <1>2, <1>4, <2>6, <2>8 DEF Tables
<1> QED
  BY <1>6, <1>7, <1>8
-----------------------------------------------------------------------------
(* An operation that nothing overlaps reads the tables as they are *)

\* A request that begins alone finds every thread idle.
LEMMA BeginAlone ==
  ASSUME RoutingTypeOK, NEW t \in Threads, BeginRequest(t), pc' = pc \/ Goto(t, "domains")
  PROVE  Alone'
<1>1. route_alone' = IF \A u \in Threads : pc[u] = "idle" THEN {t} ELSE {}
  BY DEF BeginRequest
<1>2. SUFFICES ASSUME \A u \in Threads : pc[u] = "idle", route_alone' = {t}
               PROVE  Alone'
  BY <1>1 DEF Alone
<1>3. \A u \in Threads : pc'[u] \in {"idle", "domains"} /\ (u # t => pc'[u] = "idle")
  BY <1>2 DEF Goto, RoutingTypeOK
<1> QED
  BY <1>2, <1>3 DEF Alone

\* What the next SELECT adds to a copy of the tables.
LEMMA CopyGrows ==
  ASSUME Tables, NEW t \in Threads, select_servers(t), Copied(t)
  PROVE  Copied(t)'
<1>1. RoutingTypeOK /\ UNCHANGED <<domains, servers, asked>>
  BY DEF Tables, select_servers
<1>2. PICK r \in job[t].todo :
        Advance(t, job[t].todo \ {r}, job[t].cfg \cup {[row |-> r, servers |-> servers[r.backend]]})
  BY DEF select_servers
<1> DEFINE block == [row |-> r, servers |-> servers[r.backend]]
<1>3. block.row = r /\ block.servers = servers[r.backend]
  OBVIOUS
<1> HIDE DEF block
<1>4. job'[t].todo = job[t].todo \ {r} /\ job'[t].cfg = job[t].cfg \cup {block}
  BY <1>1, <1>2 DEF Advance, RoutingTypeOK, block
<1>5. r \in domains
  <2>1. r \in DomainRow
    BY <1>1 DEF RoutingTypeOK
  <2> QED
    BY <2>1 DEF Copied
<1>6. block.servers = asked[block.row.domain]
  BY <1>3, <1>5 DEF Tables, Stored, Readable
<1>7. ASSUME NEW s \in DomainRow
      PROVE  (s \in job'[t].todo \/ \E b \in job'[t].cfg : b.row = s)
             <=> (s \in job[t].todo \/ \E b \in job[t].cfg : b.row = s)
  BY <1>3, <1>4
<1>8. \A b \in job'[t].cfg : b.servers = asked[b.row.domain]
  BY <1>4, <1>6 DEF Copied
<1>9. pc'[t] = "install" => job'[t].todo = {}
  BY <1>1, <1>2, <1>4 DEF Advance, Goto, RoutingTypeOK
<1> QED
  BY <1>1, <1>7, <1>8, <1>9 DEF Copied

LEMMA AloneStep ==
  ASSUME Inv, NEW t \in Threads, RoutingStep(t)
  PROVE  Alone'
<1>1. Tables /\ RoutingTypeOK
  BY DEF Inv, Tables
<1>2. CASE \E q \in Requests : add_domain(t, q)
  BY <1>1, <1>2, BeginAlone DEF add_domain
<1>3. CASE \E d \in Sites : remove_domain(t, d)
  BY <1>1, <1>3, BeginAlone DEF remove_domain
<1>4. CASE regenerate_conf(t)
  BY <1>1, <1>4, BeginAlone DEF regenerate_conf
<1>5. CASE select_domains(t) \/ select_servers(t) \/ install(t)
  <2>1. UNCHANGED <<domains, servers, asked, route_alone, requests>> /\ pc[t] # "idle"
    BY <1>5 DEF select_domains, select_servers, install
  <2>2. SUFFICES ASSUME NEW v \in route_alone'
                 PROVE  /\ \A u \in Threads : u # v => pc'[u] = "idle"
                        /\ pc'[v] \in {"servers", "install"} => Copied(v)'
    BY DEF Alone
  <2>3. v = t /\ v \in route_alone
    BY <2>1 DEF Inv, Alone
  <2>4. \A u \in Threads : u # t => pc'[u] = "idle"
    <3>1. \A u \in Threads : u # t => pc[u] = "idle"
      BY <2>3 DEF Inv, Alone
    <3>2. \A u \in Threads : u # t => pc'[u] = pc[u]
      BY <1>1, <1>5 DEF select_domains, select_servers, install, Advance, Goto, RoutingTypeOK
    <3> QED
      BY <3>1, <3>2
  <2>5. CASE select_domains(t)
    <3>1. /\ job'[t].todo = {r \in domains : r.name # ""} /\ job'[t].cfg = {}
          /\ pc'[t] = IF job'[t].todo = {} THEN "install" ELSE "servers"
      BY <1>1, <2>5 DEF select_domains, Advance, Goto, RoutingTypeOK
    <3>2. Copied(t)'
      BY <2>1, <3>1 DEF Copied
    <3> QED
      BY <2>3, <2>4, <3>2
  <2>6. CASE select_servers(t)
    <3>1. Copied(t)
      BY <2>3, <2>6 DEF Inv, Alone, select_servers
    <3>2. Copied(t)'
      BY <1>1, <2>6, <3>1, CopyGrows
    <3> QED
      BY <2>3, <2>4, <3>2
  <2>7. CASE install(t)
    <3>1. pc'[t] = "idle"
      BY <1>1, <2>7 DEF install, Goto, RoutingTypeOK
    <3> QED
      BY <2>3, <2>4, <3>1
  <2> QED
    BY <1>5, <2>5, <2>6, <2>7
<1> QED
  BY <1>2, <1>3, <1>4, <1>5 DEF RoutingStep

LEMMA InvStep ==
  ASSUME Inv, [RoutingNext]_routing_vars
  PROVE  Inv'
<1>1. CASE UNCHANGED routing_vars
  <2>1. UNCHANGED <<domains, servers, live, pc, job, route_reply, asked, route_alone, requests>>
    BY <1>1 DEF routing_vars
  <2>2. RoutingTypeOK'
    BY <2>1 DEF Inv, Tables, RoutingTypeOK
  <2>3. Numbered' /\ Stored' /\ Readable'
    BY <2>1 DEF Inv, Tables, Numbered, Stored, Readable
  <2>4. ASSUME NEW v \in route_alone' PROVE Copied(v) => Copied(v)'
    BY <2>1 DEF Copied
  <2>5. Alone'
    BY <2>1, <2>4 DEF Inv, Alone
  <2> QED
    BY <2>2, <2>3, <2>5 DEF Inv, Tables
<1>2. ASSUME NEW t \in Threads, RoutingStep(t) PROVE Inv'
  <2>1. Tables
    BY DEF Inv
  <2>2. Tables'
    BY <1>2, <2>1, AddTables, RemoveTables, RegenerateTables, GenerationTables DEF RoutingStep
  <2> QED
    BY <1>2, <2>2, AloneStep DEF Inv
<1> QED
  BY <1>1, <1>2 DEF RoutingNext

\* The tables keep their types: no two domains share a name, a number or a backend.
THEOREM RoutingTypes ==
  RoutingSpec => []RoutingTypeOK
<1>1. RoutingInit => Inv
  BY InitTables
<1>2. Inv /\ [RoutingNext]_routing_vars => Inv'
  BY InvStep
<1>3. Inv => RoutingTypeOK
  BY DEF Inv, Tables
<1> QED
  BY <1>1, <1>2, <1>3, PTL DEF RoutingSpec

-----------------------------------------------------------------------------
(* After an operation that says it succeeded *)

LEMMA InstallAnswers ==
  ASSUME Inv, [RoutingNext]_routing_vars
  PROVE  InstallsWhatWasAsked
<1> SUFFICES ASSUME NEW t \in route_alone, pc[t] = "install", pc'[t] = "idle", Distinct(domains)
             PROVE  /\ WellFormed(domains) => route_reply'[t] = "success"
                    /\ route_reply'[t] = "success" =>
                         \A host \in Hosts, sse \in BOOLEAN :
                             Reaches(live', host, sse) \in Wanted(host)
  BY DEF InstallsWhatWasAsked
<1>1. RoutingTypeOK /\ Numbered /\ domains \subseteq DomainRow /\ Unique(domains) /\ t \in Threads
  BY DEF Inv, Tables, RoutingTypeOK
<1>2. Copied(t) /\ job[t].todo = {}
  BY <1>1 DEF Inv, Alone, Copied
<1>3. install(t)
  <2>1. PICK u \in Threads : RoutingStep(u)
    BY DEF RoutingNext, routing_vars
  <2>2. u = t
    BY <1>1, <2>1
       DEF RoutingStep, add_domain, remove_domain, regenerate_conf, select_domains, select_servers,
           install, Advance, Goto, RoutingTypeOK
  <2> QED
    BY <2>1, <2>2
       DEF RoutingStep, add_domain, remove_domain, regenerate_conf, BeginRequest, select_domains, select_servers
<1> DEFINE cfg == job[t].cfg
<1>4. FullCopy(cfg)
  <2>1. cfg \subseteq Block
    BY <1>1 DEF RoutingTypeOK
  <2> QED
    BY <1>2, <2>1 DEF FullCopy, Copied
<1>5. /\ live' = IF Loads(cfg) THEN cfg ELSE live
      /\ route_reply'[t] = IF Loads(cfg) THEN "success" ELSE "error"
  BY <1>1, <1>3 DEF install, RoutingTypeOK
<1> HIDE DEF cfg
<1>6. WellFormed(domains) => route_reply'[t] = "success"
  BY <1>1, <1>4, <1>5, WellFormedLoads
<1>7. ASSUME route_reply'[t] = "success", NEW host \in Hosts, NEW sse \in BOOLEAN
      PROVE  Reaches(live', host, sse) \in Wanted(host)
  <2>1. Loads(cfg) /\ live' = cfg
    BY <1>5, <1>7
  <2> QED
    BY <1>1, <1>4, <2>1, LoadedReaches
<1> QED
  BY <1>6, <1>7

\* "Domain configured successfully": after an operation nobody has overlapped that
\* says so every host reaches the servers last asked for it, whatever rows were added,
\* renamed and removed before; and it does say so when the rows can be rendered.
THEOREM AsksAreAnswered ==
  RoutingSpec => HostsReachTheirServers
<1>1. RoutingInit => Inv
  BY InitTables
<1>2. Inv /\ [RoutingNext]_routing_vars => Inv'
  BY InvStep
<1>3. Inv /\ [RoutingNext]_routing_vars => [InstallsWhatWasAsked]_routing_vars
  BY InstallAnswers
<1> QED
  BY <1>1, <1>2, <1>3, PTL DEF RoutingSpec, HostsReachTheirServers
=============================================================================
