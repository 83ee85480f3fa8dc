------------------------- MODULE CertLifecycleProofs -------------------------
(***************************************************************************)
(* Proofs about CertLifecycle.tla: type correctness; and, for operations   *)
(* that do not overlap, that a lineage is never left in pieces, that a     *)
(* bundle request which reports success has delivered, and that moving the *)
(* superseded files takes HTTPS from no name.  The code does not keep      *)
(* operations from overlapping; Serialized says where that is assumed.     *)
(***************************************************************************)
EXTENDS CertLifecycle, SequenceTheorems, TLAPS

\* At most one thread is in an operation.
OneActive ==
    \A s, t \in Threads : pc[s] # "idle" /\ pc[t] # "idle" => s = t

Resting(t) == pc[t] = "idle" => job[t] = NoJob

Moving == {"tree", "restore"}

\* A lineage on its way out has a name.
Mover(t) == pc[t] \in Moving => job[t].tree \in Lineages

\* What has been moved of the lineage on its way out is what its mover counts, and
\* the mover's picture of it was the whole lineage, unless it was broken before.
TreeInv(t) ==
    LET j == job[t] IN
    /\ pc[t] \notin Moving => j.tree = NoPath /\ j.moved = 0
    /\ pc[t] \in Moving =>
        /\ j.tree \in Lineages \ {j.own}
        /\ j.tree \notin broken =>
            /\ j.had = Parts
            /\ lineage[j.tree].parts = Parts \ {Order[i] : i \in 1..j.moved}

AfterRecord == {"inventory", "quarantine", "collect", "lineages", "tree", "restore"}

\* certbot has put the names of the bundle into its lineage, ...
Ordered(t) ==
    LET j == job[t] IN
    /\ pc[t] \in AfterRecord => j.op = "bundle"
    /\ j.op = "bundle" => j.own \in Lineages
    /\ pc[t] = "publish" /\ j.op = "bundle" =>
        Whole(j.own) /\ Names(lineage[j.own].cert) = j.names

\* ... and from its publication to the answer the bundle is what is served, valid,
\* and what certbot goes on renewing.
Published(t) ==
    LET j == job[t] IN
    pc[t] \in AfterRecord \/ (pc[t] = "record" /\ j.op = "bundle") =>
        /\ pem[j.own] = j.new /\ lineage[j.own].cert = j.new /\ Whole(j.own)
        /\ j.names \subseteq Names(j.new) /\ Valid(j.new)

\* The inventory is the directory; whoever has a row counts as served.
Inventoried(t) ==
    LET j == job[t] IN
    pc[t] = "quarantine" =>
        /\ j.seen = pem /\ j.was = expired
        /\ _served_names \subseteq j.served

\* The bundle's own file and lineage are never candidates.
Candidates(t) ==
    pc[t] \in AfterRecord \ {"inventory"} => job[t].todo \subseteq Lineages \ {job[t].own}

\* What has been looked at and still overlaps the bundle had not expired.
Cleared(t) ==
    LET j    == job[t]
        left == IF pc[t] = "quarantine" THEN j.todo ELSE {} IN
    pc[t] \in AfterRecord \ {"inventory"} /\ j.clean =>
        \A f \in Lineages \ ({j.own} \cup left) :
            _overlaps_bundle(pem[f], j.names) => pem[f] > j.was

ThreadInv(t) ==
    /\ Resting(t) /\ TreeInv(t) /\ Ordered(t) /\ Published(t)
    /\ Inventoried(t) /\ Candidates(t) /\ Cleared(t)

LifecycleInv == TypeOK /\ OneActive /\ TreeWhole /\ (\A t \in Threads : ThreadInv(t))

\* No lineage is half there, but for the broken ones.
AllWhole == \A l \in Lineages : lineage[l].parts \in {{}, Parts} \/ l \in broken
-----------------------------------------------------------------------------
(* Types *)

LEMMA OwnType == \A d \in Domains : Own(d) \in Lineages
  BY DEF Own, Lineages

LEMMA NoJobType == NoJob \in Job
  BY LifecycleAssumption DEF NoJob, Job, Certs

LEMMA GotoType ==
    ASSUME TypeOK, NEW t \in Threads, NEW label \in Labels, NEW j \in Job, Goto(t, label, j)
    PROVE  /\ pc' \in [Threads -> Labels] /\ job' \in [Threads -> Job] /\ faults' \in Nat
           /\ pc' = [pc EXCEPT ![t] = label] /\ job' = [job EXCEPT ![t] = j]
  BY DEF TypeOK, Goto

LEMMA FailType ==
    ASSUME TypeOK, NEW t \in Threads, NEW kind, NEW label \in Labels, NEW j \in Job,
           Fail(t, kind, label, j)
    PROVE  /\ pc' \in [Threads -> Labels] /\ job' \in [Threads -> Job] /\ faults' \in Nat
  <1>1. [j EXCEPT !.clean = FALSE] \in Job
    BY DEF Job
  <1>2. (IF label = "idle" THEN NoJob ELSE [j EXCEPT !.clean = FALSE]) \in Job
    BY <1>1, NoJobType
  <1> QED BY <1>2 DEF TypeOK, Fail

LEMMA LeaveType ==
    ASSUME TypeOK, NEW t \in Threads, Leave(t)
    PROVE  pc' \in [Threads -> Labels] /\ job' \in [Threads -> Job] /\ faults' \in Nat
  BY NoJobType, GotoType DEF Leave, Labels

\* The certificates and the lineages after certbot has issued one.
LEMMA IssueType ==
    ASSUME TypeOK, NEW l \in Lineages, NEW names \in SUBSET Domains, Issue(l, names)
    PROVE  /\ issued' \in Seq(SUBSET Domains) /\ Len(issued') = Len(issued) + 1
           /\ Len(issued') <= MaxIssued
           /\ \A i \in 1..Len(issued) : issued'[i] = issued[i]
           /\ issued'[Len(issued')] = names
           /\ lineage' \in [Lineages -> Lineage]
           /\ \A m \in Lineages : /\ lineage'[m].cert <= Len(issued')
                                  /\ "archive" \in lineage'[m].parts => lineage'[m].cert # 0
  <1>1. /\ issued \in Seq(SUBSET Domains) /\ Len(issued) \in Nat /\ Len(issued) < MaxIssued
        /\ lineage \in [Lineages -> Lineage] /\ MaxIssued \in Nat
    BY LifecycleAssumption DEF TypeOK, Issue
  <1>2. /\ issued' = Append(issued, names)
        /\ lineage' = [lineage EXCEPT ![l] = [cert |-> Len(issued) + 1, parts |-> Parts]]
    BY DEF Issue
  <1>3. /\ issued' \in Seq(SUBSET Domains) /\ Len(issued') = Len(issued) + 1
        /\ \A i \in 1..Len(issued) : issued'[i] = issued[i]
        /\ issued'[Len(issued')] = names
    BY <1>1, <1>2
  <1>4. [cert |-> Len(issued) + 1, parts |-> Parts] \in Lineage
    BY <1>1 DEF Lineage, Certs
  <1>5. lineage' \in [Lineages -> Lineage]
    BY <1>1, <1>2, <1>4
  <1>6. \A m \in Lineages : /\ lineage'[m].cert <= Len(issued')
                            /\ "archive" \in lineage'[m].parts => lineage'[m].cert # 0
    <2> TAKE m \in Lineages
    <2>1. lineage[m].cert \in Nat /\ lineage[m].cert <= Len(issued)
          /\ ("archive" \in lineage[m].parts => lineage[m].cert # 0)
      BY <1>1 DEF TypeOK, Lineage, Certs
    <2> QED BY <1>1, <1>2, <1>3, <2>1
  <1> QED BY <1>1, <1>3, <1>5, <1>6

LEMMA CertonlyType ==
    ASSUME TypeOK, NEW l \in Lineages, NEW names \in SUBSET Domains, certonly(l, names)
    PROVE  /\ issued' \in Seq(SUBSET Domains) /\ Len(issued') <= MaxIssued
           /\ Len(issued') >= Len(issued)
           /\ lineage' \in [Lineages -> Lineage]
           /\ \A m \in Lineages : /\ lineage'[m].cert <= Len(issued')
                                  /\ "archive" \in lineage'[m].parts => lineage'[m].cert # 0
  <1>0. Len(issued) \in Nat
    BY DEF TypeOK
  <1>1. CASE Issue(l, names)
    BY <1>0, <1>1, IssueType
  <1>2. CASE UNCHANGED <<issued, lineage>>
    BY <1>0, <1>2 DEF TypeOK
  <1> QED BY <1>1, <1>2 DEF certonly
-----------------------------------------------------------------------------

\* A job that has been looked at or edited is still a job.
LEMMA JobTypes ==
    ASSUME TypeOK, NEW t \in Threads
    PROVE  /\ job[t] \in Job /\ job[t].own \in Lineages \cup {NoPath}
           /\ pem \in [Lineages -> Certs] /\ expired \in Certs
  <1>1. \A n \in 0..Len(issued) : n \in Certs
    BY LifecycleAssumption DEF TypeOK, Certs
  <1>2. job[t] \in Job /\ pem \in [Lineages -> 0..Len(issued)] /\ expired \in 0..Len(issued)
    BY DEF TypeOK
  <1> QED BY <1>1, <1>2 DEF Job

LEMMA RequestType == ASSUME TypeOK, NEW t \in Threads, Request(t) PROVE TypeOK'
  <1> USE LifecycleAssumption
  <1>0. /\ "publish" \in Labels /\ "renew" \in Labels /\ "unlink" \in Labels /\ "idle" \in Labels
        /\ NoJob \in Job /\ Len(issued) \in Nat
    BY NoJobType DEF Labels, TypeOK
  <1>1. ASSUME NEW d \in Domains, NEW names \in Groups, NEW gone \in SUBSET Domains,
               request_ssl_bundle(t, d, names, gone)
        PROVE  TypeOK'
    <2>1. [NoJob EXCEPT !.op = "bundle", !.own = Own(d), !.names = names, !.gone = gone] \in Job
      BY <1>0, OwnType DEF Job
    <2>2. names \in SUBSET Domains /\ Own(d) \in Lineages
      BY OwnType
    <2> QED BY <1>0, <1>1, <2>1, <2>2, GotoType, CertonlyType DEF request_ssl_bundle, TypeOK
  <1>2. ASSUME NEW d \in Domains, NEW names \in SUBSET Domains, NEW forced \in BOOLEAN,
               NEW op \in {"ssl", "certs"},
               NEW l \in Chosen(d, names, forced), certonly(l, names),
               Goto(t, "publish", [NoJob EXCEPT !.op = op, !.own = Own(d), !.names = {d}]),
               UNCHANGED <<rows, expired, pem, broken>>
        PROVE  TypeOK'
    <2>1. [NoJob EXCEPT !.op = op, !.own = Own(d), !.names = {d}] \in Job
      BY <1>0, OwnType DEF Job
    <2>2. l \in Lineages
      BY DEF Chosen, Family
    <2> QED BY <1>0, <1>2, <2>1, <2>2, GotoType, CertonlyType DEF TypeOK
  <1>3. ASSUME NEW d \in Domains, request_ssl(t, d) PROVE TypeOK'
    <2>1. {d} \in SUBSET Domains
      OBVIOUS
    <2> QED BY <1>2, <1>3, <2>1 DEF request_ssl
  <1>4. ASSUME NEW d \in Domains, NEW names \in Groups, request_certificates(t, d, names) PROVE TypeOK'
    <2>1. names \in SUBSET Domains
      OBVIOUS
    <2> QED BY <1>2, <1>4, <2>1 DEF request_certificates
  <1>5. ASSUME NEW d \in Domains, remove_domain(t, d) PROVE TypeOK'
    <2>1. rows' \in [Domains -> Lineages \cup {NoRow, NoPath}]
      BY <1>5 DEF remove_domain, TypeOK
    <2>2. rows[d] \in Lineages \cup {NoPath}
      BY <1>5 DEF remove_domain, TypeOK
    <2>3. rows[d] # NoPath => [NoJob EXCEPT !.op = "remove", !.own = rows[d]] \in Job
      BY <1>0, <2>2 DEF Job
    <2>4. /\ pc' \in [Threads -> Labels] /\ job' \in [Threads -> Job] /\ faults' \in Nat
      BY <1>0, <1>5, <2>3, GotoType DEF remove_domain
    <2> QED BY <1>5, <2>1, <2>4 DEF remove_domain, TypeOK
  <1>6. CASE renew_certificates(t)
    <2>1. {Own(d) : d \in {e \in Domains : rows[e] \in Lineages}} \subseteq Lineages
      BY OwnType
    <2>2. [NoJob EXCEPT !.op = "renew", !.paths = rows,
                        !.todo = {Own(d) : d \in {e \in Domains : rows[e] \in Lineages}}] \in Job
      BY <1>0, <2>1 DEF Job, TypeOK
    <2> QED BY <1>0, <1>6, <2>2, GotoType DEF renew_certificates, TypeOK
  <1> QED BY <1>1, <1>3, <1>4, <1>5, <1>6 DEF Request

\* The steps of a thread change its job and at most one of the files, rows, lineages.
LEMMA IssueStepType ==
    ASSUME TypeOK, NEW t \in Threads,
           \/ publish_pem_bundle(t)
           \/ request_ssl_record(t) \/ request_certificates_record(t) \/ request_ssl_bundle_record(t)
    PROVE  TypeOK'
  <1> USE LifecycleAssumption
  <1>0. /\ "record" \in Labels /\ "inventory" \in Labels /\ "idle" \in Labels
        /\ job[t] \in Job /\ job[t].own \in Lineages \cup {NoPath}
    BY JobTypes DEF Labels
  <1>1. CASE publish_pem_bundle(t)
    <2>1. ASSUME NEW l \in Source(job[t]), Valid(lineage[l].cert),
                 pem' = [pem EXCEPT ![job[t].own] = lineage[l].cert],
                 Goto(t, "record", [job[t] EXCEPT !.new = lineage[l].cert]),
                 UNCHANGED <<rows, issued, expired, lineage, broken>>
          PROVE  TypeOK'
      <3>1. l \in Lineages
        BY <1>0, <1>1, <2>1 DEF Source, find_certbot_live_dir, Family, Job
      <3>2. lineage[l].cert \in 0..Len(issued) /\ lineage[l].cert \in Certs
        BY <3>1 DEF TypeOK, Lineage, Certs
      <3>3. [job[t] EXCEPT !.new = lineage[l].cert] \in Job
        BY <1>0, <3>2 DEF Job
      <3> QED BY <1>0, <2>1, <3>2, <3>3, GotoType DEF TypeOK
    <2>2. ASSUME Leave(t) \/ Fail(t, "publish", "idle", job[t]), UNCHANGED pem,
                 UNCHANGED <<rows, issued, expired, lineage, broken>>
          PROVE  TypeOK'
      BY <1>0, <2>2, LeaveType, FailType DEF TypeOK
    <2> QED BY <1>1, <2>1, <2>2 DEF publish_pem_bundle
  <1>2. CASE request_certificates_record(t)
    <2>1. job[t].op = "certs" /\ Leave(t)
      BY <1>2 DEF request_certificates_record
    <2>2. rows' \in [Domains -> Lineages \cup {NoRow, NoPath}]
      BY <1>0, <1>2 DEF request_certificates_record, TypeOK
    <2> QED BY <1>2, <2>1, <2>2, LeaveType DEF request_certificates_record, TypeOK
  <1>3. CASE request_ssl_record(t) \/ request_ssl_bundle_record(t)
    <2>1. rows' \in [Domains -> Lineages \cup {NoRow, NoPath}]
      BY <1>0, <1>3 DEF request_ssl_record, request_ssl_bundle_record, Update, TypeOK
    <2>2. Leave(t) \/ Goto(t, "inventory", job[t])
      BY <1>3 DEF request_ssl_record, request_ssl_bundle_record
    <2>3. pc' \in [Threads -> Labels] /\ job' \in [Threads -> Job] /\ faults' \in Nat
      BY <1>0, <2>2, LeaveType, GotoType
    <2> QED BY <1>3, <2>1, <2>3 DEF request_ssl_record, request_ssl_bundle_record, TypeOK
  <1> QED BY <1>1, <1>2, <1>3

LEMMA AskType ==
    ASSUME TypeOK, NEW t \in Threads, NEW label \in Labels, NEW j \in Job, Ask(t, label, j)
    PROVE  pc' \in [Threads -> Labels] /\ job' \in [Threads -> Job] /\ faults' \in Nat
  <1>1. [j EXCEPT !.served = _served_names] \in Job /\ [j EXCEPT !.served = Domains] \in Job
    BY DEF Job, _served_names
  <1> QED BY <1>1, GotoType, FailType DEF Ask

LEMMA RetireFilesType ==
    ASSUME TypeOK, NEW t \in Threads,
           \/ inventory(t) \/ _quarantine_superseded_certs(t) \/ generate_config(t) \/ collect(t)
    PROVE  TypeOK'
  <1> USE LifecycleAssumption
  <1>0. /\ "quarantine" \in Labels /\ "lineages" \in Labels /\ "collect" \in Labels /\ "idle" \in Labels
        /\ job[t] \in Job /\ pem \in [Lineages -> Certs] /\ expired \in Certs /\ 0 \in Certs
    BY JobTypes DEF Labels, Certs
  <1>1. CASE inventory(t)
    <2> DEFINE j == [job[t] EXCEPT !.seen = pem, !.was = expired,
                     !.todo = {f \in Lineages \ {job[t].own} : _overlaps_bundle(pem[f], job[t].names)}]
    <2>1. j \in Job
      BY <1>0 DEF Job
    <2>2. Ask(t, "quarantine", j)
      BY <1>1 DEF inventory
    <2>3. pc' \in [Threads -> Labels] /\ job' \in [Threads -> Job] /\ faults' \in Nat
      BY <1>0, <2>1, <2>2, AskType
    <2> QED BY <1>1, <2>3 DEF inventory, TypeOK
  <1>2. CASE collect(t)
    <2> DEFINE j == [job[t] EXCEPT !.seen = pem,
                     !.todo = {l \in Lineages \ {job[t].own} :
                         Readable(l) /\ _overlaps_bundle(lineage[l].cert, job[t].names)}]
    <2>1. j \in Job
      BY <1>0 DEF Job
    <2>2. Ask(t, "lineages", j)
      BY <1>2 DEF collect
    <2>3. pc' \in [Threads -> Labels] /\ job' \in [Threads -> Job] /\ faults' \in Nat
      BY <1>0, <2>1, <2>2, AskType
    <2> QED BY <1>2, <2>3 DEF collect, TypeOK
  <1>3. CASE generate_config(t)
    <2>1. Goto(t, "collect", job[t]) \/ Fail(t, "generate", "idle", NoJob)
      BY <1>3 DEF generate_config
    <2>2. pc' \in [Threads -> Labels] /\ job' \in [Threads -> Job] /\ faults' \in Nat
      BY <1>0, <2>1, GotoType, FailType, NoJobType
    <2> QED BY <1>3, <2>2 DEF generate_config, TypeOK
  <1>4. CASE _quarantine_superseded_certs(t)
    <2> DEFINE rest(f) == [job[t] EXCEPT !.todo = @ \ {f}]
               less(f) == [rest(f) EXCEPT !.seen[f] = 0]
    <2>1. PICK f \in job[t].todo :
            /\ \/ Goto(t, "quarantine", rest(f)) \/ Goto(t, "quarantine", less(f))
               \/ Fail(t, "move", "quarantine", rest(f))
            /\ pem' = pem \/ pem' = [pem EXCEPT ![f] = 0]
      BY <1>4 DEF _quarantine_superseded_certs
    <2>2. f \in Lineages
      BY <1>0 DEF Job
    <2>3. rest(f) \in Job
      BY <1>0, <2>2 DEF Job
    <2>4. less(f) \in Job
      BY <1>0, <2>2, <2>3 DEF Job
    <2>5. pc' \in [Threads -> Labels] /\ job' \in [Threads -> Job] /\ faults' \in Nat
      BY <1>0, <2>1, <2>3, <2>4, GotoType, FailType
    <2>6. pem' \in [Lineages -> 0..Len(issued)]
      <3>1. pem \in [Lineages -> 0..Len(issued)] /\ 0 \in 0..Len(issued)
        BY DEF TypeOK
      <3> QED BY <2>1, <2>2, <3>1
    <2> QED BY <1>4, <2>5, <2>6 DEF _quarantine_superseded_certs, TypeOK
  <1> QED BY <1>1, <1>2, <1>3, <1>4

\* The lineages' part of TypeOK.
LineageOK ==
    /\ lineage \in [Lineages -> Lineage]
    /\ \A l \in Lineages : /\ lineage[l].cert <= Len(issued)
                           /\ "archive" \in lineage[l].parts => lineage[l].cert # 0

LEMMA FewerParts ==
    ASSUME TypeOK, NEW l, NEW part, UNCHANGED issued,
           lineage' = lineage \/ lineage' = [lineage EXCEPT ![l].parts = @ \ {part}]
    PROVE  LineageOK'
  <1>1. \A m \in Lineages :
            /\ lineage'[m] \in Lineage /\ lineage'[m].cert = lineage[m].cert
            /\ lineage'[m].parts \subseteq lineage[m].parts
    <2> TAKE m \in Lineages
    <2>1. lineage[m] \in [cert: Certs, parts: SUBSET Parts]
      BY DEF TypeOK, Lineage
    <2>2. lineage'[m] = lineage[m] \/ lineage'[m] = [lineage[m] EXCEPT !.parts = @ \ {part}]
      BY DEF TypeOK
    <2> QED BY <2>1, <2>2 DEF Lineage
  <1>2. lineage' \in [Lineages -> Lineage]
    BY <1>1 DEF TypeOK
  <1> QED BY <1>1, <1>2 DEF TypeOK, LineageOK

LEMMA MoreParts ==
    ASSUME TypeOK, NEW l, NEW part \in {"renewal", "live"}, NEW had, UNCHANGED issued,
           \/ lineage' = lineage
           \/ lineage' = [lineage EXCEPT ![l].parts = @ \cup ({part} \cap had)]
    PROVE  LineageOK'
  <1>1. \A m \in Lineages :
            /\ lineage'[m] \in Lineage /\ lineage'[m].cert = lineage[m].cert
            /\ "archive" \in lineage'[m].parts => "archive" \in lineage[m].parts
    BY DEF TypeOK, Lineage, Parts
  <1>2. lineage' \in [Lineages -> Lineage]
    BY <1>1 DEF TypeOK
  <1> QED BY <1>1, <1>2 DEF TypeOK, LineageOK

LEMMA RetireLineagesType ==
    ASSUME TypeOK, NEW t \in Threads, Mover(t),
           \/ _retire_superseded_lineages(t) \/ respond(t)
           \/ retire_lineage_tree(t) \/ retire_lineage_tree_restore(t)
    PROVE  TypeOK'
  <1> USE LifecycleAssumption
  <1>a. job[t] \in Job
    BY JobTypes
  <1>b. Done(job[t]) \in Job
    <2>1. [job[t] EXCEPT !.tree = NoPath] \in Job
      BY <1>a DEF Job
    <2>2. [job[t] EXCEPT !.tree = NoPath, !.had = {}] \in Job
      BY <1>a, <2>1 DEF Job
    <2>3. \A k \in Job : [k EXCEPT !.moved = 0] \in Job
      BY DEF Job
    <2>4. Done(job[t]) = [[job[t] EXCEPT !.tree = NoPath, !.had = {}] EXCEPT !.moved = 0]
      BY <1>a DEF Done, Job
    <2> QED BY <2>2, <2>3, <2>4
  <1>0. /\ "lineages" \in Labels /\ "tree" \in Labels /\ "restore" \in Labels
        /\ job[t] \in Job /\ Done(job[t]) \in Job
    BY <1>a, <1>b DEF Labels
  <1>1. CASE _retire_superseded_lineages(t)
    <2> DEFINE rest(l) == [job[t] EXCEPT !.todo = @ \ {l}]
               next(l) == [rest(l) EXCEPT !.tree = l, !.had = lineage[l].parts]
    <2>1. PICK l \in job[t].todo : Goto(t, "tree", next(l)) \/ Goto(t, "lineages", rest(l))
      BY <1>1 DEF _retire_superseded_lineages
    <2>2. l \in Lineages
      BY <1>0 DEF Job
    <2>3. rest(l) \in Job
      BY <1>0, <2>2 DEF Job
    <2>4. lineage[l].parts \in SUBSET Parts
      BY <2>2 DEF TypeOK, Lineage
    <2>5. next(l) \in Job
      BY <2>2, <2>3, <2>4 DEF Job
    <2>6. pc' \in [Threads -> Labels] /\ job' \in [Threads -> Job] /\ faults' \in Nat
      BY <1>0, <2>1, <2>3, <2>5, GotoType
    <2> QED BY <1>1, <2>6 DEF _retire_superseded_lineages, TypeOK
  <1>2. CASE respond(t)
    BY <1>2, LeaveType DEF respond, TypeOK
  <1>3. CASE retire_lineage_tree(t)
    <2> DEFINE more == [job[t] EXCEPT !.moved = @ + 1]
               part == Order[job[t].moved + 1]
    <2>1. \/ /\ lineage' = [lineage EXCEPT ![job[t].tree].parts = @ \ {part}]
             /\ \/ Goto(t, "lineages", Done(job[t]))
                \/ job[t].moved # 2 /\ Goto(t, "tree", more)
          \/ Fail(t, "move", "restore", job[t]) /\ UNCHANGED lineage
      BY <1>3 DEF retire_lineage_tree
    <2>2. job[t].moved # 2 => more \in Job
      BY <1>0 DEF Job
    <2>3. pc' \in [Threads -> Labels] /\ job' \in [Threads -> Job] /\ faults' \in Nat
      BY <1>0, <2>1, <2>2, GotoType, FailType
    <2>4. lineage' = lineage \/ lineage' = [lineage EXCEPT ![job[t].tree].parts = @ \ {part}]
      BY <2>1
    <2>5. LineageOK'
      BY <1>3, <2>4, FewerParts DEF retire_lineage_tree
    <2> QED BY <1>3, <2>3, <2>5 DEF retire_lineage_tree, TypeOK, LineageOK
  <1>4. CASE retire_lineage_tree_restore(t)
    <2> DEFINE rest == [job[t] EXCEPT !.moved = @ - 1]
    <2>1. CASE job[t].moved = 0
      <3>1. Goto(t, "lineages", Done(job[t])) /\ UNCHANGED <<lineage, broken>>
        BY <1>4, <2>1 DEF retire_lineage_tree_restore
      <3> QED BY <1>0, <1>4, <3>1, GotoType DEF retire_lineage_tree_restore, TypeOK
    <2>2. CASE job[t].moved # 0
      <3>1. job[t].moved \in {1, 2} /\ rest \in Job
        BY <1>0, <2>2 DEF Job
      <3>2. Order[job[t].moved] \in {"renewal", "live"}
        BY <3>1 DEF Order
      <3>3. /\ Goto(t, "restore", rest)
            /\ broken' = broken \/ broken' = broken \cup {job[t].tree}
            /\ \/ lineage' = lineage
               \/ lineage' = [lineage EXCEPT ![job[t].tree].parts = @ \cup ({Order[job[t].moved]} \cap job[t].had)]
        BY <1>4, <2>2 DEF retire_lineage_tree_restore
      <3>4. LineageOK'
        BY <1>4, <3>2, <3>3, MoreParts DEF retire_lineage_tree_restore
      <3>5. broken' \subseteq Lineages
        BY <1>4, <3>3 DEF retire_lineage_tree_restore, Mover, Moving, TypeOK
      <3>6. pc' \in [Threads -> Labels] /\ job' \in [Threads -> Job] /\ faults' \in Nat
        BY <1>0, <3>1, <3>3, GotoType
      <3> QED BY <1>4, <3>4, <3>5, <3>6 DEF retire_lineage_tree_restore, TypeOK, LineageOK
    <2> QED BY <2>1, <2>2
  <1> QED BY <1>1, <1>2, <1>3, <1>4

LEMMA RemovalType ==
    ASSUME TypeOK, NEW t \in Threads, Mover(t),
           \/ renew_row(t) \/ remove_file(t) \/ remove_lineage(t) \/ process_exits(t)
    PROVE  TypeOK'
  <1> USE LifecycleAssumption
  <1>0. /\ "renew" \in Labels /\ "delete" \in Labels /\ "idle" \in Labels
        /\ job[t] \in Job /\ NoJob \in Job /\ Len(issued) \in Nat
    BY JobTypes, NoJobType DEF Labels, TypeOK
  <1>1. CASE renew_row(t)
    <2> DEFINE rest(r) == [job[t] EXCEPT !.todo = @ \ {r}]
    <2>1. PICK r \in job[t].todo :
            /\ \E label \in {"idle", "renew"}, after \in {NoJob, rest(r)} :
                 Goto(t, label, after) \/ Fail(t, "publish", label, after)
            /\ \/ pem' = pem
               \/ \E l \in find_certbot_live_dir(r[1]), path \in {job[t].paths[r[1]]} :
                    Valid(lineage[l].cert) /\ pem' = [pem EXCEPT ![path] = lineage[l].cert]
      BY <1>1 DEF renew_row
    <2>2. rest(r) \in Job
      BY <1>0 DEF Job
    <2>3. pc' \in [Threads -> Labels] /\ job' \in [Threads -> Job] /\ faults' \in Nat
      BY <1>0, <2>1, <2>2, GotoType, FailType
    <2>4. pem' \in [Lineages -> 0..Len(issued)]
      <3>1. \A l \in find_certbot_live_dir(r[1]) : lineage[l].cert \in 0..Len(issued)
        BY <1>0 DEF find_certbot_live_dir, Family, TypeOK, Lineage, Certs
      <3> QED BY <2>1, <3>1 DEF TypeOK
    <2> QED BY <1>1, <2>3, <2>4 DEF renew_row, TypeOK
  <1>2. CASE remove_file(t)
    <2>1. pem' = pem \/ pem' = [pem EXCEPT ![job[t].own] = 0]
      BY <1>2 DEF remove_file
    <2>2. pem' \in [Lineages -> 0..Len(issued)]
      BY <1>0, <2>1 DEF TypeOK
    <2>3. pc' \in [Threads -> Labels] /\ job' \in [Threads -> Job] /\ faults' \in Nat
      BY <1>0, <1>2, GotoType, FailType DEF remove_file
    <2> QED BY <1>2, <2>2, <2>3 DEF remove_file, TypeOK
  <1>3. CASE remove_lineage(t)
    <2>1. Deleted \in Lineage /\ Deleted.cert = 0 /\ Deleted.parts = {}
      BY DEF Deleted, Lineage, Certs
    <2>2. lineage' = lineage \/ lineage' = [lineage EXCEPT ![job[t].own] = Deleted]
      BY <1>3 DEF remove_lineage
    <2>3. lineage' \in [Lineages -> Lineage] /\ \A l \in Lineages : lineage'[l] \in {lineage[l], Deleted}
      BY <2>1, <2>2 DEF TypeOK
    <2>4. LineageOK'
      BY <1>0, <1>3, <2>1, <2>3 DEF remove_lineage, TypeOK, LineageOK
    <2>5. pc' \in [Threads -> Labels] /\ job' \in [Threads -> Job] /\ faults' \in Nat
      BY <1>0, <1>3, LeaveType, FailType DEF remove_lineage
    <2> QED BY <1>3, <2>4, <2>5 DEF remove_lineage, TypeOK, LineageOK
  <1>4. CASE process_exits(t)
    <2>1. pc' \in [Threads -> Labels] /\ job' \in [Threads -> Job] /\ faults' \in Nat
      BY <1>0, <1>4, FailType DEF process_exits
    <2>2. broken' \subseteq Lineages
      BY <1>0, <1>4 DEF process_exits, TypeOK, Job
    <2> QED BY <1>4, <2>1, <2>2 DEF process_exits, TypeOK
  <1> QED BY <1>1, <1>2, <1>3, <1>4

LEMMA StepType == ASSUME TypeOK, NEW t \in Threads, Mover(t), Step(t) PROVE TypeOK'
  BY IssueStepType, RetireFilesType, RetireLineagesType, RemovalType DEF Step

LEMMA EnvironmentType ==
    ASSUME TypeOK, Environment \/ \E d \in Domains : add_domain(d)
    PROVE  TypeOK'
  <1> USE LifecycleAssumption
  <1>0. Len(issued) \in Nat
    BY DEF TypeOK
  <1>1. CASE expire
    BY <1>0, <1>1 DEF expire, TypeOK
  <1>2. ASSUME NEW l \in Lineages, certbot_renew(l) PROVE TypeOK'
    <2>1. Names(lineage[l].cert) \in SUBSET Domains
      BY <1>0, <1>2 DEF certbot_renew, Names, TypeOK, Lineage, Certs
    <2> QED BY <1>0, <1>2, <2>1, IssueType DEF certbot_renew, TypeOK
  <1>3. ASSUME NEW l \in Lineages, cert_publish(l) \/ cert_retire_expired_pems(l) PROVE TypeOK'
    <2>1. lineage[l].cert \in 0..Len(issued) /\ 0 \in 0..Len(issued)
      BY <1>0 DEF TypeOK, Lineage, Certs
    <2>2. pem' \in [Lineages -> 0..Len(issued)]
      BY <1>3, <2>1 DEF cert_publish, cert_retire_expired_pems, TypeOK
    <2> QED BY <1>3, <2>2 DEF cert_publish, cert_retire_expired_pems, TypeOK
  <1>4. ASSUME NEW d \in Domains, add_domain(d) PROVE TypeOK'
    BY <1>4 DEF add_domain, TypeOK
  <1> QED BY <1>1, <1>2, <1>3, <1>4 DEF Environment
-----------------------------------------------------------------------------
(* Who changes what *)

\* A step moves its own thread and no other.
LEMMA Local ==
    ASSUME NEW t \in Threads, TypeOK, NEW label, NEW j, NEW kind,
           Goto(t, label, j) \/ Leave(t) \/ Fail(t, kind, label, j)
    PROVE  \A s \in Threads \ {t} : pc'[s] = pc[s] /\ job'[s] = job[s]
  BY DEF TypeOK, Goto, Leave, Fail

LEMMA StepIsLocal ==
    ASSUME TypeOK, NEW t \in Threads, Step(t)
    PROVE  /\ pc[t] # "idle"
           /\ \A s \in Threads \ {t} : pc'[s] = pc[s] /\ job'[s] = job[s]
  <1>1. CASE \/ publish_pem_bundle(t) \/ request_ssl_record(t) \/ request_certificates_record(t)
             \/ request_ssl_bundle_record(t) \/ inventory(t) \/ generate_config(t) \/ collect(t)
    BY <1>1, Local DEF publish_pem_bundle, request_ssl_record, request_certificates_record,
       request_ssl_bundle_record, inventory, generate_config, collect, Ask
  <1>2. CASE _quarantine_superseded_certs(t) \/ _retire_superseded_lineages(t) \/ respond(t)
    BY <1>2, Local DEF _quarantine_superseded_certs, _retire_superseded_lineages, respond
  <1>3. CASE \/ retire_lineage_tree(t) \/ retire_lineage_tree_restore(t) \/ renew_row(t)
             \/ remove_file(t) \/ remove_lineage(t) \/ process_exits(t)
    BY <1>3, Local DEF retire_lineage_tree, retire_lineage_tree_restore, renew_row, remove_file,
       remove_lineage, process_exits
  <1> QED BY <1>1, <1>2, <1>3 DEF Step

LEMMA RequestIsLocal ==
    ASSUME TypeOK, NEW t \in Threads, Request(t)
    PROVE  /\ pc[t] = "idle" /\ Free
           /\ \A s \in Threads \ {t} : pc'[s] = pc[s] /\ job'[s] = job[s]
  BY Local DEF Request, request_ssl_bundle, request_ssl, request_certificates, remove_domain,
     renew_certificates

\* Where a thread is after a step that does not move a lineage.
LEMMA StepLabels ==
    ASSUME TypeOK, NEW t \in Threads, Step(t),
           ~ _retire_superseded_lineages(t), ~ retire_lineage_tree(t), ~ retire_lineage_tree_restore(t)
    PROVE  pc'[t] \notin Moving
  <1>1. ASSUME NEW label \in Labels \ Moving, NEW j, NEW kind,
               Goto(t, label, j) \/ Leave(t) \/ Fail(t, kind, label, j)
        PROVE  pc'[t] \notin Moving
    BY <1>1 DEF TypeOK, Goto, Leave, Fail, Moving
  <1>2. /\ "publish" \in Labels \ Moving /\ "record" \in Labels \ Moving /\ "inventory" \in Labels \ Moving
        /\ "quarantine" \in Labels \ Moving /\ "collect" \in Labels \ Moving
        /\ "lineages" \in Labels \ Moving /\ "renew" \in Labels \ Moving
        /\ "delete" \in Labels \ Moving /\ "idle" \in Labels \ Moving
    BY DEF Labels, Moving
  <1>3. CASE \/ publish_pem_bundle(t) \/ request_ssl_record(t) \/ request_certificates_record(t)
             \/ request_ssl_bundle_record(t) \/ inventory(t) \/ generate_config(t) \/ collect(t)
    BY <1>1, <1>2, <1>3 DEF publish_pem_bundle, request_ssl_record, request_certificates_record,
       request_ssl_bundle_record, inventory, generate_config, collect, Ask
  <1>4. CASE \/ _quarantine_superseded_certs(t) \/ respond(t) \/ renew_row(t)
             \/ remove_file(t) \/ remove_lineage(t) \/ process_exits(t)
    BY <1>1, <1>2, <1>4 DEF _quarantine_superseded_certs, respond, renew_row, remove_file,
       remove_lineage, process_exits
  <1> QED BY <1>3, <1>4 DEF Step

LEMMA RequestLabels ==
    ASSUME TypeOK, NEW t \in Threads, Request(t)
    PROVE  pc'[t] \in {"publish", "renew", "unlink", "idle"}
  BY DEF TypeOK, Request, request_ssl_bundle, request_ssl, request_certificates, remove_domain,
     renew_certificates, Goto

LEMMA MoverStep ==
    ASSUME TypeOK, NEW t \in Threads, Mover(t), Step(t)
    PROVE  Mover(t)'
  <1>0. job[t] \in Job
    BY JobTypes
  <1>1. CASE _retire_superseded_lineages(t)
    <2>1. PICK l \in job[t].todo :
            \/ job'[t] = [job[t] EXCEPT !.todo = @ \ {l}, !.tree = l, !.had = lineage[l].parts]
            \/ pc'[t] = "lineages"
      BY <1>1 DEF _retire_superseded_lineages, Goto, TypeOK
    <2>2. l \in Lineages
      BY <1>0 DEF Job
    <2> QED BY <1>0, <2>1, <2>2 DEF Mover, Moving, Job
  <1>2. CASE retire_lineage_tree(t) \/ retire_lineage_tree_restore(t)
    <2>1. job[t].tree \in Lineages
      BY <1>2 DEF Mover, Moving, retire_lineage_tree, retire_lineage_tree_restore
    <2>2. pc'[t] = "lineages" \/ job'[t].tree = job[t].tree
      BY <1>0, <1>2 DEF retire_lineage_tree, retire_lineage_tree_restore, Goto, Fail, Job, TypeOK
    <2> QED BY <2>1, <2>2 DEF Mover, Moving
  <1>3. CASE pc'[t] \notin Moving
    BY <1>3 DEF Mover
  <1> QED BY <1>1, <1>2, <1>3, StepLabels

TypeInv == TypeOK /\ \A t \in Threads : Mover(t)

LEMMA TypeInvStep == TypeInv /\ [Next]_vars => TypeInv'
  <1> SUFFICES ASSUME TypeOK, \A t \in Threads : Mover(t), [Next]_vars
               PROVE  TypeOK' /\ \A t \in Threads : Mover(t)'
    BY DEF TypeInv
  <1>1. ASSUME NEW t \in Threads, Step(t) PROVE TypeOK' /\ \A s \in Threads : Mover(s)'
    <2>1. \A s \in Threads \ {t} : Mover(s)'
      BY <1>1, StepIsLocal DEF Mover
    <2> QED BY <1>1, <2>1, StepType, MoverStep
  <1>2. ASSUME NEW t \in Threads, Request(t) PROVE TypeOK' /\ \A s \in Threads : Mover(s)'
    <2>1. \A s \in Threads \ {t} : Mover(s)'
      BY <1>2, RequestIsLocal DEF Mover
    <2> QED BY <1>2, <2>1, RequestType, RequestLabels DEF Mover, Moving
  <1>3. CASE Environment \/ \E d \in Domains : add_domain(d)
    <2>1. UNCHANGED <<pc, job>>
      BY <1>3 DEF Environment, expire, certbot_renew, cert_publish, cert_retire_expired_pems, add_domain
    <2> QED BY <1>3, <2>1, EnvironmentType DEF Mover
  <1>4. CASE UNCHANGED vars
    BY <1>4 DEF vars, TypeOK, Mover
  <1> QED BY <1>1, <1>2, <1>3, <1>4 DEF Next

LEMMA InitType == Init => TypeInv
  <1> SUFFICES ASSUME Init PROVE TypeInv
    OBVIOUS
  <1>1. issued \in Seq(SUBSET Domains) /\ Len(issued) = 0 /\ MaxIssued \in Nat
    BY LifecycleAssumption DEF Init
  <1>2. Deleted \in Lineage /\ Deleted.cert = 0 /\ Deleted.parts = {}
    BY <1>1 DEF Deleted, Lineage, Certs
  <1>3. LineageOK
    BY <1>1, <1>2 DEF Init, LineageOK
  <1>4. job \in [Threads -> Job] /\ pc \in [Threads -> Labels]
    BY NoJobType DEF Init, Labels
  <1>5. TypeOK
    BY <1>1, <1>3, <1>4 DEF Init, TypeOK, LineageOK
  <1>6. \A t \in Threads : Mover(t)
    BY DEF Init, Mover, Moving
  <1> QED BY <1>5, <1>6 DEF TypeInv

LEMMA TypeInvariant == Spec => []TypeInv
  <1> QED BY InitType, TypeInvStep, PTL DEF Spec

\* No operation on certificates, however it is interleaved with others and wherever
\* it fails, leaves a row, a file, a lineage or a job outside its type.
THEOREM LifecycleTypes == Spec => []TypeOK
  <1>1. TypeInv => TypeOK
    BY DEF TypeInv
  <1> QED BY <1>1, TypeInvariant, PTL
-----------------------------------------------------------------------------
(* Operations that do not overlap *)

LEMMA IdleThread ==
    ASSUME NEW t \in Threads, pc'[t] = "idle", job'[t] = NoJob
    PROVE  ThreadInv(t)'
  BY DEF ThreadInv, Resting, TreeInv, Moving, Ordered, AfterRecord, Published, Inventoried,
         Candidates, Cleared, NoJob

\* While a thread is in an operation no other one is, and a lineage is half there
\* only if it is the one this thread is moving.
LEMMA Alone ==
    ASSUME LifecycleInv, NEW t \in Threads, pc[t] # "idle"
    PROVE  /\ \A s \in Threads \ {t} : pc[s] = "idle" /\ job[s] = NoJob
           /\ pc[t] \notin Moving => AllWhole
           /\ \A l \in Lineages :
                lineage[l].parts \in {{}, Parts} \/ l \in broken \/ job[t].tree = l
  <1>1. \A s \in Threads \ {t} : pc[s] = "idle" /\ job[s] = NoJob
    BY DEF LifecycleInv, OneActive, ThreadInv, Resting
  <1>2. NoPath \notin Lineages
    BY LifecycleAssumption
  <1>3. \A l \in Lineages : lineage[l].parts \in {{}, Parts} \/ l \in broken \/ job[t].tree = l
    BY <1>1, <1>2 DEF LifecycleInv, TreeWhole, NoJob
  <1>4. pc[t] \notin Moving => job[t].tree = NoPath
    BY DEF LifecycleInv, ThreadInv, TreeInv
  <1> QED BY <1>1, <1>2, <1>3, <1>4 DEF AllWhole

LEMMA QuietWhole ==
    ASSUME LifecycleInv, Quiet
    PROVE  AllWhole /\ \A s \in Threads : job[s] = NoJob
  <1>1. \A s \in Threads : job[s] = NoJob
    BY DEF Quiet, LifecycleInv, ThreadInv, Resting
  <1>2. NoPath \notin Lineages
    BY LifecycleAssumption
  <1>3. \A s \in Threads : job[s].tree = NoPath
    BY <1>1 DEF NoJob
  <1>4. AllWhole
    BY <1>2, <1>3 DEF LifecycleInv, TreeWhole, AllWhole
  <1> QED BY <1>1, <1>4

\* What Published asks of the next state, spelled out.
LEMMA PublishedNext ==
    ASSUME NEW t \in Threads, NEW j, job'[t] = j, pc'[t] \in AfterRecord => j.op = "bundle",
           j.op = "bundle" =>
               /\ pem'[j.own] = j.new /\ lineage'[j.own].cert = j.new
               /\ lineage'[j.own].parts = Parts
               /\ j.new # 0 /\ j.names \subseteq issued'[j.new] /\ j.new > expired'
    PROVE  Published(t)'
  BY DEF Published, Whole, Names, Valid

\* A thread that stops has no job left.
LEMMA Stopped ==
    ASSUME TypeOK, NEW t \in Threads, NEW kind, NEW j,
           Leave(t) \/ Fail(t, kind, "idle", j) \/ Goto(t, "idle", NoJob)
    PROVE  pc'[t] = "idle" /\ job'[t] = NoJob /\ ThreadInv(t)'
  <1>1. pc'[t] = "idle" /\ job'[t] = NoJob
    BY DEF TypeOK, Leave, Goto, Fail
  <1> QED BY <1>1, IdleThread

LEMMA PublishKeeps ==
    ASSUME LifecycleInv, NEW t \in Threads, publish_pem_bundle(t)
    PROVE  ThreadInv(t)'
  <1>0. TypeOK /\ ThreadInv(t) /\ job[t] \in Job /\ pc[t] = "publish"
    BY JobTypes DEF LifecycleInv, publish_pem_bundle
  <1>1. CASE Leave(t) \/ Fail(t, "publish", "idle", job[t])
    BY <1>0, <1>1, Stopped
  <1>2. ASSUME NEW l \in Source(job[t]), Valid(lineage[l].cert),
               pem' = [pem EXCEPT ![job[t].own] = lineage[l].cert],
               Goto(t, "record", [job[t] EXCEPT !.new = lineage[l].cert]),
               UNCHANGED <<rows, issued, expired, lineage, broken>>
        PROVE  ThreadInv(t)'
    <2> DEFINE j == job[t]
               k == [j EXCEPT !.new = lineage[l].cert]
    <2>1. pc'[t] = "record" /\ job'[t] = k
      BY <1>0, <1>2 DEF TypeOK, Goto
    <2>2. /\ k.op = j.op /\ k.own = j.own /\ k.names = j.names /\ k.tree = j.tree
          /\ k.moved = j.moved /\ k.new = lineage[l].cert
      BY <1>0 DEF Job
    <2>3. /\ j.tree = NoPath /\ j.moved = 0 /\ (j.op = "bundle" => j.own \in Lineages)
          /\ j.op = "bundle" => Whole(j.own) /\ Names(lineage[j.own].cert) = j.names
      BY <1>0 DEF ThreadInv, TreeInv, Ordered, Moving
    <2>4. j.op = "bundle" => l = j.own
      BY DEF Source
    <2>5. Published(t)'
      <3>1. ASSUME j.op = "bundle"
            PROVE  /\ pem'[k.own] = k.new /\ lineage'[k.own].cert = k.new
                   /\ lineage'[k.own].parts = Parts
                   /\ k.new # 0 /\ k.names \subseteq issued'[k.new] /\ k.new > expired'
        <4>1. j.own \in Lineages /\ l = j.own /\ lineage[l].parts = Parts
              /\ Names(lineage[l].cert) = j.names
          BY <2>3, <2>4, <3>1 DEF Whole
        <4>2. pem'[j.own] = lineage[l].cert
          BY <1>0, <1>2, <4>1 DEF TypeOK
        <4> QED BY <1>2, <2>2, <4>1, <4>2 DEF Names, Valid
      <3> QED BY <2>1, <2>2, <3>1, PublishedNext DEF AfterRecord
    <2>6. Resting(t)' /\ TreeInv(t)' /\ Inventoried(t)' /\ Candidates(t)' /\ Cleared(t)'
      BY <2>1, <2>2, <2>3 DEF Resting, TreeInv, Moving, Inventoried, Candidates, Cleared, AfterRecord
    <2>7. Ordered(t)'
      BY <2>1, <2>2, <2>3 DEF Ordered, AfterRecord
    <2> QED BY <2>5, <2>6, <2>7 DEF ThreadInv
  <1> QED BY <1>1, <1>2 DEF publish_pem_bundle

LEMMA RecordKeeps ==
    ASSUME LifecycleInv, NEW t \in Threads,
           request_ssl_record(t) \/ request_certificates_record(t) \/ request_ssl_bundle_record(t)
    PROVE  ThreadInv(t)'
  <1>0. TypeOK /\ ThreadInv(t) /\ job[t] \in Job /\ pc[t] = "record"
    BY JobTypes DEF LifecycleInv, request_ssl_record, request_certificates_record,
       request_ssl_bundle_record
  <1>1. CASE request_ssl_record(t) \/ request_certificates_record(t)
    BY <1>0, <1>1, Stopped DEF request_ssl_record, request_certificates_record
  <1>2. CASE request_ssl_bundle_record(t)
    <2>1. /\ job[t].op = "bundle" /\ pc'[t] = "inventory" /\ job'[t] = job[t]
          /\ UNCHANGED <<issued, expired, lineage, pem, broken>>
      BY <1>0, <1>2 DEF request_ssl_bundle_record, Goto, TypeOK
    <2>2. Published(t)'
      BY <1>0, <2>1 DEF ThreadInv, Published, Whole, Names, Valid
    <2>3. Resting(t)' /\ TreeInv(t)' /\ Ordered(t)'
      BY <1>0, <2>1 DEF ThreadInv, Resting, TreeInv, Moving, Ordered
    <2>4. Inventoried(t)' /\ Candidates(t)' /\ Cleared(t)'
      BY <2>1 DEF Inventoried, Candidates, Cleared
    <2> QED BY <2>2, <2>3, <2>4 DEF ThreadInv
  <1> QED BY <1>1, <1>2

LEMMA GotoNext ==
    ASSUME TypeOK, NEW t \in Threads, NEW label, NEW j, Goto(t, label, j)
    PROVE  pc'[t] = label /\ job'[t] = j
  BY DEF TypeOK, Goto

\* What a thread has in hand after a step that failed or was asked of the database.
SameWork(t, j) ==
    LET k == job'[t] IN
    /\ k.op = j.op /\ k.own = j.own /\ k.names = j.names /\ k.gone = j.gone /\ k.new = j.new
    /\ k.seen = j.seen /\ k.was = j.was /\ k.todo = j.todo
    /\ k.tree = j.tree /\ k.had = j.had /\ k.moved = j.moved

LEMMA FailNext ==
    ASSUME TypeOK, NEW t \in Threads, NEW kind, NEW label, label # "idle", NEW j \in Job,
           Fail(t, kind, label, j)
    PROVE  pc'[t] = label /\ SameWork(t, j) /\ job'[t].served = j.served /\ ~ job'[t].clean
  <1>1. pc'[t] = label /\ job'[t] = [j EXCEPT !.clean = FALSE]
    BY DEF TypeOK, Fail
  <1> QED BY <1>1 DEF SameWork, Job

LEMMA AskNext ==
    ASSUME TypeOK, NEW t \in Threads, NEW label, label # "idle", NEW j \in Job, Ask(t, label, j)
    PROVE  /\ pc'[t] = label /\ SameWork(t, j)
           /\ _served_names \subseteq job'[t].served /\ (job'[t].clean => j.clean)
  <1>1. CASE Goto(t, label, [j EXCEPT !.served = _served_names])
    BY <1>1, GotoNext DEF SameWork, Job
  <1>2. CASE Fail(t, "select", label, [j EXCEPT !.served = Domains])
    <2>1. [j EXCEPT !.served = Domains] \in Job
      BY DEF Job
    <2>2. pc'[t] = label /\ job'[t] = [[j EXCEPT !.served = Domains] EXCEPT !.clean = FALSE]
      BY <1>2 DEF TypeOK, Fail
    <2> QED BY <2>1, <2>2 DEF SameWork, Job, _served_names
  <1> QED BY <1>1, <1>2 DEF Ask

\* The bundle stays published while its own file and lineage are left alone.
LEMMA PublishedCarries ==
    ASSUME NEW t \in Threads, ThreadInv(t), pc[t] \in AfterRecord,
           job'[t].own = job[t].own, job'[t].new = job[t].new, job'[t].names = job[t].names,
           pem'[job[t].own] = pem[job[t].own], lineage'[job[t].own] = lineage[job[t].own],
           UNCHANGED <<issued, expired>>
    PROVE  Published(t)'
  BY DEF ThreadInv, Published, Whole, Names, Valid

\* A step from one place of a bundle request to another that moves no lineage.
LEMMA RestingParts ==
    ASSUME NEW t \in Threads, ThreadInv(t), pc[t] \in AfterRecord \ Moving,
           pc'[t] \in AfterRecord \ Moving,
           job'[t].op = job[t].op, job'[t].own = job[t].own,
           job'[t].tree = job[t].tree, job'[t].moved = job[t].moved
    PROVE  Resting(t)' /\ TreeInv(t)' /\ Ordered(t)'
  BY DEF ThreadInv, Resting, TreeInv, Ordered, AfterRecord, Moving

LEMMA InventoryKeeps ==
    ASSUME LifecycleInv, NEW t \in Threads, inventory(t)
    PROVE  ThreadInv(t)'
  <1> DEFINE j == job[t]
             k == [j EXCEPT !.seen = pem, !.was = expired,
                     !.todo = {f \in Lineages \ {j.own} : _overlaps_bundle(pem[f], j.names)}]
  <1>0. TypeOK /\ ThreadInv(t) /\ j \in Job /\ pc[t] = "inventory"
        /\ pem \in [Lineages -> Certs] /\ expired \in Certs
        /\ UNCHANGED <<rows, issued, expired, lineage, pem, broken>>
    BY JobTypes DEF LifecycleInv, inventory
  <1>1. k \in Job
    BY <1>0 DEF Job
  <1>2. /\ k.op = j.op /\ k.own = j.own /\ k.names = j.names /\ k.new = j.new
        /\ k.seen = pem /\ k.was = expired /\ k.tree = j.tree /\ k.moved = j.moved
        /\ k.todo = {f \in Lineages \ {j.own} : _overlaps_bundle(pem[f], j.names)}
    BY <1>0 DEF Job
  <1>3. Ask(t, "quarantine", k)
    BY DEF inventory
  <1>4. pc'[t] = "quarantine" /\ SameWork(t, k) /\ _served_names \subseteq job'[t].served
    BY <1>0, <1>1, <1>3, AskNext
  <1>5. Published(t)'
    BY <1>0, <1>2, <1>4, PublishedCarries DEF SameWork, AfterRecord
  <1>6. Resting(t)' /\ TreeInv(t)' /\ Ordered(t)'
    BY <1>0, <1>2, <1>4, RestingParts DEF SameWork, AfterRecord, Moving
  <1>7. Inventoried(t)'
    BY <1>0, <1>2, <1>4 DEF Inventoried, SameWork, _served_names
  <1>8. Candidates(t)'
    BY <1>2, <1>4 DEF Candidates, SameWork
  <1>9. Cleared(t)'
    BY <1>0, <1>2, <1>4 DEF Cleared, SameWork, _overlaps_bundle, Names
  <1> QED BY <1>5, <1>6, <1>7, <1>8, <1>9 DEF ThreadInv

LEMMA QuarantineKeeps ==
    ASSUME LifecycleInv, NEW t \in Threads, _quarantine_superseded_certs(t)
    PROVE  ThreadInv(t)'
  <1> DEFINE j       == job[t]
             rest(f) == [j EXCEPT !.todo = @ \ {f}]
             less(f) == [rest(f) EXCEPT !.seen[f] = 0]
             blockers(f) == retirement_blockers(j.seen[f], {j.seen[g] : g \in Lineages \ {f}}, j)
  <1>0. /\ TypeOK /\ ThreadInv(t) /\ j \in Job /\ pc[t] = "quarantine"
        /\ pem \in [Lineages -> Certs] /\ expired \in Certs
        /\ UNCHANGED <<rows, issued, expired, lineage, broken>>
    BY JobTypes DEF LifecycleInv, _quarantine_superseded_certs
  <1>1. PICK f \in j.todo :
          \/ blockers(f) # {} /\ Goto(t, "quarantine", rest(f)) /\ UNCHANGED pem
          \/ pem' = [pem EXCEPT ![f] = 0] /\ Goto(t, "quarantine", less(f))
          \/ /\ UNCHANGED pem
             /\ \/ pem[f] = 0 /\ Goto(t, "quarantine", rest(f))
                \/ Fail(t, "move", "quarantine", rest(f))
    BY DEF _quarantine_superseded_certs
  <1>2. /\ f \in Lineages /\ f # j.own /\ j.todo \subseteq Lineages \ {j.own}
        /\ j.seen = pem /\ j.was = expired /\ _served_names \subseteq j.served
        /\ j.own \in Lineages
    BY <1>0 DEF ThreadInv, Candidates, Inventoried, Ordered, AfterRecord
  <1>3. /\ rest(f) \in Job /\ less(f) \in Job
        /\ less(f).seen = [pem EXCEPT ![f] = 0] /\ less(f).served = j.served
        /\ \A k \in {rest(f), less(f)} :
             /\ k.op = j.op /\ k.own = j.own /\ k.names = j.names /\ k.new = j.new
             /\ k.was = j.was /\ k.tree = j.tree /\ k.moved = j.moved
             /\ k.todo = j.todo \ {f} /\ k.clean = j.clean /\ k.served = j.served
        /\ rest(f).seen = pem
    <2>1. 0 \in Certs
      BY LifecycleAssumption DEF Certs
    <2> QED BY <1>0, <1>2, <2>1 DEF Job
  <1> HIDE DEF rest, less
  <1>4. /\ pc'[t] = "quarantine"
        /\ job'[t].op = j.op /\ job'[t].own = j.own /\ job'[t].names = j.names
        /\ job'[t].new = j.new /\ job'[t].was = j.was /\ job'[t].todo = j.todo \ {f}
        /\ job'[t].tree = j.tree /\ job'[t].moved = j.moved /\ job'[t].served = j.served
        /\ (job'[t].clean => j.clean)
    <2>1. CASE \E k \in {rest(f), less(f)} : Goto(t, "quarantine", k)
      BY <1>0, <1>3, <2>1, GotoNext
    <2>2. CASE Fail(t, "move", "quarantine", rest(f))
      BY <1>0, <1>3, <2>2, FailNext DEF SameWork
    <2> QED BY <1>1, <2>1, <2>2
  <1>5. job'[t].seen = pem' /\ \A g \in Lineages \ {f} : pem'[g] = pem[g]
    <2>1. CASE Goto(t, "quarantine", rest(f)) /\ UNCHANGED pem
      BY <1>0, <1>3, <2>1, GotoNext
    <2>2. CASE pem' = [pem EXCEPT ![f] = 0] /\ Goto(t, "quarantine", less(f))
      BY <1>0, <1>3, <2>2, GotoNext
    <2>3. CASE Fail(t, "move", "quarantine", rest(f)) /\ UNCHANGED pem
      BY <1>0, <1>3, <2>3, FailNext DEF SameWork
    <2> QED BY <1>1, <2>1, <2>2, <2>3
  <1>6. job'[t].clean => (_overlaps_bundle(pem'[f], j.names) => pem'[f] > j.was)
    <2>1. CASE blockers(f) # {} /\ UNCHANGED pem
      <3>1. ~ Expired(pem[f])
        BY <1>2, <2>1 DEF retirement_blockers
      <3>2. pem[f] \in Nat /\ expired \in Nat
        BY <1>0, <1>2 DEF Certs
      <3>3. pem[f] = 0 \/ pem[f] > expired
        BY <3>1, <3>2 DEF Expired
      <3> QED BY <1>2, <2>1, <3>3 DEF _overlaps_bundle, Names
    <2>2. CASE pem'[f] = 0
      BY <2>2 DEF _overlaps_bundle, Names
    <2>3. CASE Fail(t, "move", "quarantine", rest(f))
      BY <1>0, <1>3, <2>3, FailNext
    <2> QED BY <1>0, <1>1, <1>2, <2>1, <2>2, <2>3
  <1>7. Published(t)'
    BY <1>0, <1>2, <1>4, <1>5, PublishedCarries DEF AfterRecord
  <1>8. Resting(t)' /\ TreeInv(t)' /\ Ordered(t)'
    BY <1>0, <1>4, RestingParts DEF AfterRecord, Moving
  <1>9. Inventoried(t)'
    BY <1>0, <1>2, <1>4, <1>5 DEF Inventoried, _served_names
  <1>10. Candidates(t)'
    BY <1>2, <1>4 DEF Candidates
  <1>11. Cleared(t)'
    <2> SUFFICES ASSUME job'[t].clean, NEW g \in Lineages, g # j.own, g \notin j.todo \ {f},
                        _overlaps_bundle(pem'[g], j.names)
                 PROVE  pem'[g] > j.was
      BY <1>0, <1>4 DEF Cleared, _overlaps_bundle, Names
    <2>1. CASE g = f
      BY <1>6, <2>1
    <2>2. CASE g # f
      <3>1. g \notin j.todo /\ pem'[g] = pem[g] /\ j.clean
        BY <1>4, <1>5, <2>2
      <3>2. _overlaps_bundle(pem[g], j.names)
        BY <3>1
      <3> QED BY <1>0, <3>1, <3>2 DEF ThreadInv, Cleared, AfterRecord
    <2> QED BY <2>1, <2>2
  <1> QED BY <1>7, <1>8, <1>9, <1>10, <1>11 DEF ThreadInv

\* What was cleared stays cleared when the files are left alone.
LEMMA CleanedCarries ==
    ASSUME NEW t \in Threads, ThreadInv(t), pc[t] \in AfterRecord \ {"inventory"},
           pc[t] = "quarantine" => job[t].todo = {},
           pc'[t] \in AfterRecord \ {"inventory", "quarantine"},
           job'[t].own = job[t].own, job'[t].names = job[t].names, job'[t].was = job[t].was,
           job'[t].todo \subseteq Lineages \ {job[t].own},
           job'[t].clean => job[t].clean,
           UNCHANGED <<issued, pem>>
    PROVE  Inventoried(t)' /\ Candidates(t)' /\ Cleared(t)'
  <1>1. Inventoried(t)' /\ Candidates(t)'
    BY DEF Inventoried, Candidates
  <1>2. Cleared(t)'
    BY DEF ThreadInv, Cleared, _overlaps_bundle, Names
  <1> QED BY <1>1, <1>2

LEMMA GenerateKeeps ==
    ASSUME LifecycleInv, NEW t \in Threads, generate_config(t)
    PROVE  ThreadInv(t)'
  <1>0. /\ TypeOK /\ ThreadInv(t) /\ job[t] \in Job /\ pc[t] = "quarantine" /\ job[t].todo = {}
        /\ UNCHANGED <<rows, issued, expired, lineage, pem, broken>>
    BY JobTypes DEF LifecycleInv, generate_config
  <1>1. CASE Fail(t, "generate", "idle", NoJob)
    BY <1>0, <1>1, Stopped
  <1>2. CASE Goto(t, "collect", job[t])
    <2>1. pc'[t] = "collect" /\ job'[t] = job[t]
      BY <1>0, <1>2, GotoNext
    <2>2. Published(t)'
      BY <1>0, <2>1, PublishedCarries DEF AfterRecord
    <2>3. Resting(t)' /\ TreeInv(t)' /\ Ordered(t)'
      BY <1>0, <2>1, RestingParts DEF AfterRecord, Moving
    <2>4. Inventoried(t)' /\ Candidates(t)' /\ Cleared(t)'
      BY <1>0, <2>1, CleanedCarries DEF AfterRecord
    <2> QED BY <2>2, <2>3, <2>4 DEF ThreadInv
  <1> QED BY <1>1, <1>2 DEF generate_config

LEMMA CollectKeeps ==
    ASSUME LifecycleInv, NEW t \in Threads, collect(t)
    PROVE  ThreadInv(t)'
  <1> DEFINE j == job[t]
             k == [j EXCEPT !.seen = pem,
                     !.todo = {l \in Lineages \ {j.own} :
                                 Readable(l) /\ _overlaps_bundle(lineage[l].cert, j.names)}]
  <1>0. /\ TypeOK /\ ThreadInv(t) /\ j \in Job /\ pc[t] = "collect" /\ pem \in [Lineages -> Certs]
        /\ UNCHANGED <<rows, issued, expired, lineage, pem, broken>>
    BY JobTypes DEF LifecycleInv, collect
  <1>1. /\ k \in Job
        /\ k.op = j.op /\ k.own = j.own /\ k.names = j.names /\ k.new = j.new /\ k.was = j.was
        /\ k.tree = j.tree /\ k.moved = j.moved /\ k.clean = j.clean
        /\ k.todo \subseteq Lineages \ {j.own}
    BY <1>0 DEF Job
  <1>2. Ask(t, "lineages", k)
    BY DEF collect
  <1> HIDE DEF k
  <1>3. pc'[t] = "lineages" /\ SameWork(t, k) /\ (job'[t].clean => k.clean)
    BY <1>0, <1>1, <1>2, AskNext
  <1>4. Published(t)'
    BY <1>0, <1>1, <1>3, PublishedCarries DEF SameWork, AfterRecord
  <1>5. Resting(t)' /\ TreeInv(t)' /\ Ordered(t)'
    BY <1>0, <1>1, <1>3, RestingParts DEF SameWork, AfterRecord, Moving
  <1>6. Inventoried(t)' /\ Candidates(t)' /\ Cleared(t)'
    BY <1>0, <1>1, <1>3, CleanedCarries DEF SameWork, AfterRecord
  <1> QED BY <1>4, <1>5, <1>6 DEF ThreadInv

\* A lineage that is chosen can be read, so it is whole unless it was broken before.
LEMMA ChooseKeeps ==
    ASSUME LifecycleInv, NEW t \in Threads, _retire_superseded_lineages(t)
    PROVE  ThreadInv(t)'
  <1> DEFINE j       == job[t]
             rest(l) == [j EXCEPT !.todo = @ \ {l}]
             next(l) == [rest(l) EXCEPT !.tree = l, !.had = lineage[l].parts]
  <1>0. /\ TypeOK /\ ThreadInv(t) /\ j \in Job /\ pc[t] = "lineages"
        /\ UNCHANGED <<rows, issued, expired, lineage, pem, broken>>
    BY JobTypes DEF LifecycleInv, _retire_superseded_lineages
  <1>1. PICK l \in j.todo :
          IF Superseded(l, j) THEN Goto(t, "tree", next(l)) ELSE Goto(t, "lineages", rest(l))
    BY DEF _retire_superseded_lineages
  <1>2. /\ l \in Lineages /\ l # j.own /\ j.todo \subseteq Lineages \ {j.own}
        /\ j.op = "bundle" /\ j.own \in Lineages /\ j.tree = NoPath /\ j.moved = 0
    BY <1>0 DEF ThreadInv, Candidates, Ordered, TreeInv, AfterRecord, Moving
  <1>3. /\ \A k \in {rest(l), next(l)} :
             /\ k.op = j.op /\ k.own = j.own /\ k.names = j.names /\ k.new = j.new
             /\ k.was = j.was /\ k.moved = j.moved /\ k.clean = j.clean
             /\ k.todo = j.todo \ {l}
        /\ rest(l).tree = j.tree /\ next(l).tree = l /\ next(l).had = lineage[l].parts
    BY <1>0 DEF Job
  <1> HIDE DEF rest, next
  <1>4. PICK k \in {rest(l), next(l)} :
          /\ job'[t] = k
          /\ \/ pc'[t] = "tree" /\ Readable(l) /\ k = next(l)
             \/ pc'[t] = "lineages" /\ k = rest(l)
    BY <1>0, <1>1, GotoNext DEF Superseded
  <1>5. Published(t)'
    BY <1>0, <1>3, <1>4, PublishedCarries DEF AfterRecord
  <1>6. Resting(t)' /\ Ordered(t)'
    BY <1>2, <1>3, <1>4 DEF Resting, Ordered
  <1>7. Inventoried(t)' /\ Candidates(t)' /\ Cleared(t)'
    BY <1>0, <1>2, <1>3, <1>4, CleanedCarries DEF AfterRecord
  <1>8. TreeInv(t)'
    <2>1. CASE pc'[t] = "lineages"
      BY <1>2, <1>3, <1>4, <2>1 DEF TreeInv, Moving
    <2>2. CASE pc'[t] = "tree"
      <3>1. l \notin broken => lineage[l].parts = Parts
        <4>1. AllWhole
          BY <1>0, Alone DEF Moving
        <4> QED BY <1>2, <1>4, <2>2, <4>1 DEF AllWhole, Readable
      <3>2. Parts = Parts \ {Order[i] : i \in 1..0}
        OBVIOUS
      <3>3. job'[t].tree = l /\ job'[t].had = lineage[l].parts /\ job'[t].moved = 0 /\ job'[t].own = j.own
        BY <1>2, <1>3, <1>4, <2>2
      <3> QED BY <1>0, <1>2, <2>2, <3>1, <3>2, <3>3 DEF TreeInv, Moving
    <2> QED BY <1>4, <2>1, <2>2
  <1> QED BY <1>5, <1>6, <1>7, <1>8 DEF ThreadInv

\* What is left of a lineage of which m directories have been moved.
Left(m) == Parts \ {Order[i] : i \in 1..m}

LEMMA LeftIs ==
    /\ Left(0) = Parts /\ Left(3) = {}
    /\ \A m \in 0..2 : /\ Left(m) \ {Order[m + 1]} = Left(m + 1)
                       /\ m # 0 => Left(m) \cup ({Order[m]} \cap Parts) = Left(m - 1)
  <1>1. Order[1] = "renewal" /\ Order[2] = "live" /\ Order[3] = "archive"
    BY DEF Order
  <1>2. 1..0 = {} /\ 1..1 = {1} /\ 1..2 = {1, 2} /\ 1..3 = {1, 2, 3} /\ 0..2 = {0, 1, 2}
    OBVIOUS
  <1>3. /\ Left(0) = Parts /\ Left(1) = {"live", "archive"} /\ Left(2) = {"archive"} /\ Left(3) = {}
    BY <1>1, <1>2 DEF Left, Parts
  <1>4. Left(0) \ {Order[0 + 1]} = Left(0 + 1)
    BY <1>1, <1>3 DEF Parts
  <1>5. Left(1) \ {Order[1 + 1]} = Left(1 + 1) /\ Left(1) \cup ({Order[1]} \cap Parts) = Left(1 - 1)
    BY <1>1, <1>3 DEF Parts
  <1>6. Left(2) \ {Order[2 + 1]} = Left(2 + 1) /\ Left(2) \cup ({Order[2]} \cap Parts) = Left(2 - 1)
    BY <1>1, <1>3 DEF Parts
  <1> QED BY <1>2, <1>3, <1>4, <1>5, <1>6

\* While a lineage is moved, every other one is whole, gone or broken.
LEMMA OthersWhole ==
    ASSUME LifecycleInv, NEW t \in Threads, pc[t] \in Moving, broken \subseteq broken',
           \A l \in Lineages \ {job[t].tree} : lineage'[l] = lineage[l],
           \/ job'[t].tree = job[t].tree
           \/ lineage'[job[t].tree].parts \in {{}, Parts} \/ job[t].tree \in broken'
    PROVE  TreeWhole'
  <1>1. \A l \in Lineages : lineage[l].parts \in {{}, Parts} \/ l \in broken \/ job[t].tree = l
    BY Alone DEF Moving
  <1> QED BY <1>1 DEF TreeWhole

\* While none is moved, a step keeps them so that replaces or removes whole lineages.
LEMMA AllStayWhole ==
    ASSUME LifecycleInv, NEW t \in Threads, pc[t] # "idle", pc[t] \notin Moving,
           broken \subseteq broken',
           \A l \in Lineages : lineage'[l].parts \in {lineage[l].parts, {}, Parts}
    PROVE  TreeWhole'
  <1>1. AllWhole
    BY Alone
  <1> QED BY <1>1 DEF AllWhole, TreeWhole

LEMMA MoveKeeps ==
    ASSUME LifecycleInv, NEW t \in Threads, retire_lineage_tree(t)
    PROVE  ThreadInv(t)' /\ TreeWhole'
  <1> DEFINE j    == job[t]
             part == Order[j.moved + 1]
             more == [j EXCEPT !.moved = @ + 1]
  <1>0. /\ TypeOK /\ ThreadInv(t) /\ j \in Job /\ pc[t] = "tree" /\ lineage \in [Lineages -> Lineage]
        /\ UNCHANGED <<rows, issued, expired, pem, broken>>
    BY JobTypes DEF LifecycleInv, retire_lineage_tree, TypeOK
  <1>1. /\ j.tree \in Lineages /\ j.tree # j.own /\ j.own \in Lineages /\ j.op = "bundle"
        /\ j.tree \notin broken => j.had = Parts /\ lineage[j.tree].parts = Left(j.moved)
        /\ j.todo \subseteq Lineages \ {j.own} /\ j.moved \in 0..2
    BY <1>0 DEF ThreadInv, TreeInv, Ordered, Candidates, AfterRecord, Moving, Left, Job
  <1>2. /\ more.op = j.op /\ more.own = j.own /\ more.names = j.names /\ more.new = j.new
        /\ more.was = j.was /\ more.clean = j.clean /\ more.todo = j.todo
        /\ more.tree = j.tree /\ more.had = j.had /\ more.moved = j.moved + 1
        /\ Done(j).op = j.op /\ Done(j).own = j.own /\ Done(j).names = j.names
        /\ Done(j).new = j.new /\ Done(j).was = j.was /\ Done(j).clean = j.clean
        /\ Done(j).todo = j.todo /\ Done(j).tree = NoPath /\ Done(j).moved = 0
    BY <1>0 DEF Job, Done
  <1> HIDE DEF more
  <1>3. /\ SameWork(t, j) \/ job'[t] = more \/ job'[t] = Done(j)
        /\ job'[t].clean => j.clean
        /\ \/ /\ pc'[t] = "lineages" /\ job'[t] = Done(j) /\ j.moved = 2
              /\ lineage' = [lineage EXCEPT ![j.tree].parts = @ \ {part}]
           \/ /\ pc'[t] = "tree" /\ job'[t] = more /\ j.moved # 2
              /\ lineage' = [lineage EXCEPT ![j.tree].parts = @ \ {part}]
           \/ pc'[t] = "restore" /\ SameWork(t, j) /\ UNCHANGED lineage
    <2>1. CASE Fail(t, "move", "restore", j) /\ UNCHANGED lineage
      BY <1>0, <2>1, FailNext
    <2>2. CASE /\ lineage' = [lineage EXCEPT ![j.tree].parts = @ \ {part}]
               /\ j.moved = 2 /\ Goto(t, "lineages", Done(j))
      BY <1>0, <1>2, <2>2, GotoNext
    <2>3. CASE /\ lineage' = [lineage EXCEPT ![j.tree].parts = @ \ {part}]
               /\ j.moved # 2 /\ Goto(t, "tree", more)
      BY <1>0, <1>2, <2>3, GotoNext
    <2> QED BY <2>1, <2>2, <2>3 DEF retire_lineage_tree, more
  <1>4. /\ job'[t].op = j.op /\ job'[t].own = j.own /\ job'[t].names = j.names
        /\ job'[t].new = j.new /\ job'[t].was = j.was /\ job'[t].todo = j.todo
        /\ pc'[t] \in {"lineages", "tree", "restore"}
    BY <1>2, <1>3 DEF SameWork
  <1>5. \A l \in Lineages \ {j.tree} : lineage'[l] = lineage[l]
    BY <1>0, <1>3
  <1>6. Published(t)'
    BY <1>0, <1>1, <1>4, <1>5, PublishedCarries DEF AfterRecord
  <1>7. Inventoried(t)' /\ Candidates(t)' /\ Cleared(t)'
    BY <1>0, <1>1, <1>3, <1>4, CleanedCarries DEF AfterRecord
  <1>8. Resting(t)' /\ Ordered(t)'
    BY <1>1, <1>4 DEF Resting, Ordered, AfterRecord
  <1>9. j.moved # 2 => j.moved + 1 \in 0..2
    BY <1>1
  <1>10. j.tree \notin broken /\ lineage' = [lineage EXCEPT ![j.tree].parts = @ \ {part}] =>
            lineage'[j.tree].parts = Left(j.moved + 1)
    <2>1. lineage' = [lineage EXCEPT ![j.tree].parts = @ \ {part}] =>
            lineage'[j.tree].parts = lineage[j.tree].parts \ {part}
      BY <1>0, <1>1 DEF Lineage
    <2>2. Left(j.moved) \ {part} = Left(j.moved + 1)
      BY <1>1, LeftIs
    <2> QED BY <1>1, <2>1, <2>2
  <1>11. TreeInv(t)'
    <2>1. CASE pc'[t] = "lineages"
      BY <1>2, <1>3, <2>1 DEF TreeInv, Moving
    <2>2. CASE pc'[t] = "tree"
      <3>1. job'[t].tree = j.tree /\ job'[t].had = j.had /\ job'[t].moved = j.moved + 1
        BY <1>2, <1>3, <2>2
      <3>2. j.tree \notin broken => j.had = Parts /\ lineage'[j.tree].parts = Left(j.moved + 1)
        BY <1>1, <1>3, <1>10, <2>2
      <3> QED BY <1>0, <1>1, <1>4, <2>2, <3>1, <3>2 DEF TreeInv, Moving, Left
    <2>3. CASE pc'[t] = "restore"
      BY <1>0, <1>1, <1>3, <2>3 DEF TreeInv, Moving, Left, SameWork
    <2> QED BY <1>4, <2>1, <2>2, <2>3
  <1>12. TreeWhole'
    <2>1. CASE pc'[t] = "lineages"
      <3>1. j.tree \notin broken => lineage'[j.tree].parts = {}
        BY <1>1, <1>3, <1>10, <2>1, LeftIs
      <3> QED BY <1>0, <1>5, <3>1, OthersWhole DEF Moving
    <2>2. CASE pc'[t] # "lineages"
      <3>1. job'[t].tree = j.tree
        BY <1>2, <1>3, <2>2 DEF SameWork
      <3> QED BY <1>0, <1>5, <3>1, OthersWhole DEF Moving
    <2> QED BY <2>1, <2>2
  <1> QED BY <1>6, <1>7, <1>8, <1>11, <1>12 DEF ThreadInv

LEMMA RestoreKeeps ==
    ASSUME LifecycleInv, NEW t \in Threads, retire_lineage_tree_restore(t)
    PROVE  ThreadInv(t)' /\ TreeWhole'
  <1> DEFINE j    == job[t]
             less == [j EXCEPT !.moved = @ - 1]
             back == {Order[j.moved]} \cap j.had
  <1>0. /\ TypeOK /\ ThreadInv(t) /\ j \in Job /\ pc[t] = "restore" /\ lineage \in [Lineages -> Lineage]
        /\ UNCHANGED <<rows, issued, expired, pem>>
    BY JobTypes DEF LifecycleInv, retire_lineage_tree_restore, TypeOK
  <1>1. /\ j.tree \in Lineages /\ j.tree # j.own /\ j.own \in Lineages /\ j.op = "bundle"
        /\ j.tree \notin broken => j.had = Parts /\ lineage[j.tree].parts = Left(j.moved)
        /\ j.todo \subseteq Lineages \ {j.own} /\ j.moved \in 0..2
    BY <1>0 DEF ThreadInv, TreeInv, Ordered, Candidates, AfterRecord, Moving, Left, Job
  <1>2. /\ less.op = j.op /\ less.own = j.own /\ less.names = j.names /\ less.new = j.new
        /\ less.was = j.was /\ less.clean = j.clean /\ less.todo = j.todo
        /\ less.tree = j.tree /\ less.had = j.had /\ less.moved = j.moved - 1
        /\ Done(j).op = j.op /\ Done(j).own = j.own /\ Done(j).names = j.names
        /\ Done(j).new = j.new /\ Done(j).was = j.was /\ Done(j).clean = j.clean
        /\ Done(j).todo = j.todo /\ Done(j).tree = NoPath /\ Done(j).moved = 0
    BY <1>0 DEF Job, Done
  <1> HIDE DEF less
  <1>3. \/ /\ pc'[t] = "lineages" /\ job'[t] = Done(j) /\ j.moved = 0
           /\ UNCHANGED <<lineage, broken>>
        \/ /\ pc'[t] = "restore" /\ job'[t] = less /\ j.moved # 0 /\ UNCHANGED broken
           /\ lineage' = [lineage EXCEPT ![j.tree].parts = @ \cup back]
        \/ /\ pc'[t] = "restore" /\ job'[t] = less
           /\ broken' = broken \cup {j.tree} /\ UNCHANGED lineage
    <2>1. CASE j.moved = 0
      BY <1>0, <2>1, GotoNext DEF retire_lineage_tree_restore
    <2>2. CASE j.moved # 0
      <3>1. Goto(t, "restore", less)
            /\ \/ lineage' = [lineage EXCEPT ![j.tree].parts = @ \cup back] /\ UNCHANGED broken
               \/ broken' = broken \cup {j.tree} /\ UNCHANGED lineage
        BY <2>2 DEF retire_lineage_tree_restore, less
      <3> QED BY <1>0, <2>2, <3>1, GotoNext
    <2> QED BY <2>1, <2>2
  <1>4. /\ job'[t].op = j.op /\ job'[t].own = j.own /\ job'[t].names = j.names
        /\ job'[t].new = j.new /\ job'[t].was = j.was /\ job'[t].todo = j.todo
        /\ job'[t].clean = j.clean /\ pc'[t] \in {"lineages", "restore"}
    BY <1>2, <1>3
  <1>5. /\ \A l \in Lineages \ {j.tree} : lineage'[l] = lineage[l]
        /\ broken \subseteq broken'
    BY <1>0, <1>3
  <1>6. Published(t)'
    BY <1>0, <1>1, <1>4, <1>5, PublishedCarries DEF AfterRecord
  <1>7. Inventoried(t)' /\ Candidates(t)' /\ Cleared(t)'
    BY <1>0, <1>1, <1>4, CleanedCarries DEF AfterRecord
  <1>8. Resting(t)' /\ Ordered(t)'
    BY <1>1, <1>4 DEF Resting, Ordered, AfterRecord
  <1>9. ASSUME pc'[t] = "restore", j.tree \notin broken'
        PROVE  lineage'[j.tree].parts = Left(j.moved - 1) /\ j.had = Parts
    <2>1. /\ j.moved # 0 /\ j.tree \notin broken
          /\ lineage' = [lineage EXCEPT ![j.tree].parts = @ \cup back]
      BY <1>3, <1>9
    <2>2. lineage'[j.tree].parts = lineage[j.tree].parts \cup back
      BY <1>0, <1>1, <2>1 DEF Lineage
    <2>3. j.had = Parts /\ lineage[j.tree].parts = Left(j.moved)
      BY <1>1, <2>1
    <2>4. Left(j.moved) \cup ({Order[j.moved]} \cap Parts) = Left(j.moved - 1)
      BY <1>1, <2>1, LeftIs
    <2> QED BY <2>2, <2>3, <2>4
  <1>10. TreeInv(t)'
    <2>1. CASE pc'[t] = "lineages"
      BY <1>2, <1>3, <2>1 DEF TreeInv, Moving
    <2>2. CASE pc'[t] = "restore"
      <3>1. job'[t].tree = j.tree /\ job'[t].had = j.had /\ job'[t].moved = j.moved - 1
        BY <1>2, <1>3, <2>2
      <3> QED BY <1>1, <1>4, <1>9, <2>2, <3>1 DEF TreeInv, Moving, Left
    <2> QED BY <1>4, <2>1, <2>2
  <1>11. TreeWhole'
    <2>1. CASE pc'[t] = "lineages"
      <3>1. j.tree \notin broken => lineage'[j.tree].parts = Parts
        BY <1>1, <1>3, <2>1, LeftIs
      <3> QED BY <1>0, <1>5, <3>1, OthersWhole DEF Moving
    <2>2. CASE pc'[t] = "restore"
      <3>1. job'[t].tree = j.tree
        BY <1>2, <1>3, <2>2
      <3> QED BY <1>0, <1>5, <3>1, OthersWhole DEF Moving
    <2> QED BY <1>4, <2>1, <2>2
  <1> QED BY <1>6, <1>7, <1>8, <1>10, <1>11 DEF ThreadInv

\* Nothing is claimed of a thread that renews or removes but that it moves nothing.
LEMMA RenewalKeeps ==
    ASSUME LifecycleInv, NEW t \in Threads, renew_row(t) \/ remove_file(t) \/ remove_lineage(t)
    PROVE  ThreadInv(t)'
  <1>0. TypeOK /\ ThreadInv(t) /\ job[t] \in Job /\ pc[t] \in {"renew", "unlink", "delete"}
    BY JobTypes DEF LifecycleInv, renew_row, remove_file, remove_lineage
  <1>1. ASSUME NEW label \in {"renew", "delete"}, pc'[t] = label,
               job'[t].op = job[t].op, job'[t].own = job[t].own,
               job'[t].tree = job[t].tree, job'[t].moved = job[t].moved
        PROVE  ThreadInv(t)'
    <2>1. pc'[t] \notin AfterRecord \cup Moving /\ pc'[t] \notin {"idle", "publish", "record", "quarantine"}
      BY <1>1 DEF AfterRecord, Moving
    <2>2. pc[t] \notin Moving
      BY <1>0 DEF Moving
    <2> QED BY <1>0, <1>1, <2>1, <2>2 DEF ThreadInv, Resting, TreeInv, Ordered, Published,
            Inventoried, Candidates, Cleared
  <1>2. CASE renew_row(t)
    <2> DEFINE rest(r)  == [job[t] EXCEPT !.todo = @ \ {r}]
               label(r) == IF rest(r).todo = {} THEN "idle" ELSE "renew"
               after(r) == IF rest(r).todo = {} THEN NoJob ELSE rest(r)
    <2>1. PICK r \in job[t].todo :
            Goto(t, label(r), after(r)) \/ Fail(t, "publish", label(r), after(r))
      BY <1>2 DEF renew_row
    <2>2. /\ rest(r) \in Job /\ rest(r).op = job[t].op /\ rest(r).own = job[t].own
          /\ rest(r).tree = job[t].tree /\ rest(r).moved = job[t].moved
      BY <1>0 DEF Job
    <2>3. CASE rest(r).todo = {}
      BY <1>0, <2>1, <2>3, Stopped
    <2>4. CASE rest(r).todo # {}
      <3>1. Goto(t, "renew", rest(r)) \/ Fail(t, "publish", "renew", rest(r))
        BY <2>1, <2>4
      <3> HIDE DEF rest
      <3>2. pc'[t] = "renew" /\ (job'[t] = rest(r) \/ SameWork(t, rest(r)))
        BY <1>0, <2>2, <3>1, GotoNext, FailNext
      <3> QED BY <1>1, <2>2, <3>2 DEF SameWork
    <2> QED BY <2>3, <2>4
  <1>3. CASE remove_file(t)
    <2>1. Goto(t, "delete", job[t]) \/ Fail(t, "unlink", "delete", job[t])
      BY <1>3 DEF remove_file
    <2>2. pc'[t] = "delete" /\ (job'[t] = job[t] \/ SameWork(t, job[t]))
      BY <1>0, <2>1, GotoNext, FailNext
    <2> QED BY <1>1, <2>2 DEF SameWork
  <1>4. CASE remove_lineage(t)
    BY <1>0, <1>4, Stopped DEF remove_lineage
  <1> QED BY <1>2, <1>3, <1>4

LEMMA EndKeeps ==
    ASSUME LifecycleInv, NEW t \in Threads, respond(t) \/ process_exits(t)
    PROVE  ThreadInv(t)'
  BY Stopped DEF LifecycleInv, respond, process_exits

LEMMA StepKeeps ==
    ASSUME LifecycleInv, NEW t \in Threads, Step(t)
    PROVE  ThreadInv(t)'
  BY PublishKeeps, RecordKeeps, InventoryKeeps, QuarantineKeeps, GenerateKeeps, CollectKeeps,
     ChooseKeeps, MoveKeeps, RestoreKeeps, RenewalKeeps, EndKeeps DEF Step

LEMMA StepWhole ==
    ASSUME LifecycleInv, NEW t \in Threads, Step(t)
    PROVE  TreeWhole'
  <1>0. TypeOK /\ ThreadInv(t) /\ pc[t] # "idle" /\ lineage \in [Lineages -> Lineage]
    BY StepIsLocal DEF LifecycleInv, TypeOK
  <1>1. CASE retire_lineage_tree(t) \/ retire_lineage_tree_restore(t)
    BY <1>1, MoveKeeps, RestoreKeeps
  <1>2. CASE process_exits(t)
    <2>1. /\ UNCHANGED lineage /\ broken \subseteq broken'
          /\ job[t].tree # NoPath => job[t].tree \in broken'
      BY <1>2 DEF process_exits
    <2>2. CASE pc[t] \notin Moving
      BY <1>0, <2>1, <2>2, AllStayWhole
    <2>3. CASE pc[t] \in Moving
      <3>1. job[t].tree # NoPath
        BY <1>0, <2>3, LifecycleAssumption DEF ThreadInv, TreeInv
      <3> QED BY <2>1, <2>3, <3>1, OthersWhole
    <2> QED BY <2>2, <2>3
  <1>3. CASE remove_lineage(t)
    <2>1. pc[t] \notin Moving /\ UNCHANGED broken
          /\ (lineage' = lineage \/ lineage' = [lineage EXCEPT ![job[t].own] = Deleted])
      BY <1>3 DEF remove_lineage, Moving
    <2>2. \A l \in Lineages : lineage'[l].parts \in {lineage[l].parts, {}, Parts}
      BY <1>0, <2>1 DEF Deleted
    <2> QED BY <1>0, <2>1, <2>2, AllStayWhole
  <1>4. CASE UNCHANGED <<lineage, broken>> /\ pc[t] \notin Moving
    BY <1>0, <1>4, AllStayWhole
  <1>5. CASE \/ publish_pem_bundle(t) \/ request_ssl_record(t) \/ request_certificates_record(t)
             \/ request_ssl_bundle_record(t) \/ inventory(t) \/ _quarantine_superseded_certs(t)
             \/ generate_config(t) \/ collect(t) \/ _retire_superseded_lineages(t) \/ respond(t)
             \/ renew_row(t) \/ remove_file(t)
    BY <1>4, <1>5 DEF publish_pem_bundle, request_ssl_record, request_certificates_record,
       request_ssl_bundle_record, inventory, _quarantine_superseded_certs, generate_config,
       collect, _retire_superseded_lineages, respond, renew_row, remove_file, Moving
  <1> QED BY <1>1, <1>2, <1>3, <1>5 DEF Step

LEMMA CertonlyWhole ==
    ASSUME TypeOK, AllWhole, NEW l \in Lineages, NEW names, certonly(l, names), UNCHANGED broken
    PROVE  TreeWhole' /\ lineage'[l].parts = Parts /\ Names(lineage[l].cert)' = names
  <1>0. issued \in Seq(SUBSET Domains) /\ Len(issued) \in Nat /\ lineage \in [Lineages -> Lineage]
    BY DEF TypeOK
  <1>1. CASE UNCHANGED <<issued, lineage>> /\ Whole(l) /\ Names(lineage[l].cert) = names
    BY <1>1 DEF TreeWhole, AllWhole, Whole, Names
  <1>2. CASE Issue(l, names)
    <2>1. /\ issued' = Append(issued, names)
          /\ lineage'[l] = [cert |-> Len(issued) + 1, parts |-> Parts]
          /\ \A m \in Lineages \ {l} : lineage'[m] = lineage[m]
      BY <1>0, <1>2 DEF Issue
    <2>2. issued'[Len(issued) + 1] = names
      BY <1>0, <2>1
    <2>3. TreeWhole'
      BY <2>1 DEF TreeWhole, AllWhole
    <2>4. Names(lineage[l].cert)' = names
      BY <1>0, <2>1, <2>2 DEF Names
    <2> QED BY <2>1, <2>3, <2>4
  <1> QED BY <1>1, <1>2 DEF certonly

LEMMA RequestKeeps ==
    ASSUME LifecycleInv, Quiet, NEW t \in Threads, Request(t)
    PROVE  ThreadInv(t)' /\ TreeWhole'
  <1>0. TypeOK /\ AllWhole /\ job[t] = NoJob
    BY QuietWhole DEF LifecycleInv
  <1>1. /\ NoJob.op = "none" /\ NoJob.tree = NoPath /\ NoJob.moved = 0
    BY DEF NoJob
  <1>2. ASSUME NEW label \in {"publish", "unlink", "renew"}, pc'[t] = label,
               job'[t].tree = NoPath, job'[t].moved = 0,
               job'[t].op # "bundle"
                 \/ /\ job'[t].own \in Lineages
                    /\ lineage'[job'[t].own].parts = Parts
                    /\ Names(lineage[job[t].own].cert)' = job'[t].names
        PROVE  ThreadInv(t)'
    <2>1. pc'[t] \notin AfterRecord \cup Moving /\ pc'[t] \notin {"idle", "record", "quarantine"}
      BY <1>2 DEF AfterRecord, Moving
    <2> QED BY <1>2, <2>1 DEF ThreadInv, Resting, TreeInv, Ordered, Published, Whole,
            Inventoried, Candidates, Cleared
  <1>3. ASSUME NEW d \in Domains, NEW names \in Groups, NEW gone \in SUBSET Domains,
               request_ssl_bundle(t, d, names, gone)
        PROVE  ThreadInv(t)' /\ TreeWhole'
    <2> DEFINE k == [NoJob EXCEPT !.op = "bundle", !.own = Own(d), !.names = names, !.gone = gone]
    <2>1. k.tree = NoPath /\ k.moved = 0 /\ k.own = Own(d) /\ k.names = names
      BY DEF NoJob
    <2>2. pc'[t] = "publish" /\ job'[t] = k
      BY <1>0, <1>3, GotoNext DEF request_ssl_bundle
    <2>3. Own(d) \in Lineages /\ certonly(Own(d), names) /\ UNCHANGED broken
      BY <1>3, OwnType DEF request_ssl_bundle
    <2>4. TreeWhole' /\ lineage'[Own(d)].parts = Parts /\ Names(lineage[Own(d)].cert)' = names
      BY <1>0, <2>3, CertonlyWhole
    <2>5. Names(lineage[job[t].own].cert)' = names
      BY <2>1, <2>2, <2>4 DEF Names
    <2> HIDE DEF k
    <2> QED BY <1>2, <2>1, <2>2, <2>3, <2>4, <2>5
  <1>4. ASSUME NEW d \in Domains, NEW names, NEW forced, NEW op \in {"ssl", "certs"},
               NEW l \in Chosen(d, names, forced), certonly(l, names),
               Goto(t, "publish", [NoJob EXCEPT !.op = op, !.own = Own(d), !.names = {d}]),
               UNCHANGED broken
        PROVE  ThreadInv(t)' /\ TreeWhole'
    <2> DEFINE k == [NoJob EXCEPT !.op = op, !.own = Own(d), !.names = {d}]
    <2>1. k.tree = NoPath /\ k.moved = 0 /\ k.op = op
      BY DEF NoJob
    <2>2. pc'[t] = "publish" /\ job'[t] = k
      BY <1>0, <1>4, GotoNext
    <2>3. l \in Lineages
      BY DEF Chosen, Family
    <2> HIDE DEF k
    <2> QED BY <1>0, <1>2, <1>4, <2>1, <2>2, <2>3, CertonlyWhole
  <1>5. ASSUME NEW d \in Domains, request_ssl(t, d) PROVE ThreadInv(t)' /\ TreeWhole'
    BY <1>4, <1>5 DEF request_ssl
  <1>6. ASSUME NEW d \in Domains, NEW names \in Groups, request_certificates(t, d, names)
        PROVE  ThreadInv(t)' /\ TreeWhole'
    BY <1>4, <1>6 DEF request_certificates
  <1>7. UNCHANGED <<lineage, broken>> => TreeWhole'
    BY <1>0 DEF AllWhole, TreeWhole
  <1>8. ASSUME NEW d \in Domains, remove_domain(t, d) PROVE ThreadInv(t)' /\ TreeWhole'
    <2> DEFINE k == [NoJob EXCEPT !.op = "remove", !.own = rows[d]]
    <2>1. k.tree = NoPath /\ k.moved = 0 /\ k.op = "remove"
      BY DEF NoJob
    <2>2. Goto(t, "idle", NoJob) \/ Goto(t, "unlink", k)
      BY <1>8 DEF remove_domain
    <2> HIDE DEF k
    <2>3. CASE Goto(t, "unlink", k)
      <3>1. pc'[t] = "unlink" /\ job'[t] = k
        BY <1>0, <2>3, GotoNext
      <3> QED BY <1>2, <1>7, <1>8, <2>1, <3>1 DEF remove_domain
    <2>4. CASE Goto(t, "idle", NoJob)
      BY <1>0, <1>7, <1>8, <2>4, Stopped DEF remove_domain
    <2> QED BY <2>2, <2>3, <2>4
  <1>9. CASE renew_certificates(t)
    <2> DEFINE k == [NoJob EXCEPT !.op = "renew", !.paths = rows,
                       !.todo = {Own(d) : d \in {e \in Domains : rows[e] \in Lineages}}]
    <2>1. k.tree = NoPath /\ k.moved = 0 /\ k.op = "renew"
      BY DEF NoJob
    <2>2. pc'[t] = "renew" /\ job'[t] = k
      BY <1>0, <1>9, GotoNext DEF renew_certificates
    <2> HIDE DEF k
    <2> QED BY <1>2, <1>7, <1>9, <2>1, <2>2 DEF renew_certificates
  <1> QED BY <1>3, <1>5, <1>6, <1>8, <1>9 DEF Request

LEMMA WorldKeeps ==
    ASSUME LifecycleInv, Quiet, Environment \/ \E d \in Domains : add_domain(d)
    PROVE  UNCHANGED <<pc, job>> /\ TreeWhole'
  <1>0. TypeOK /\ AllWhole /\ lineage \in [Lineages -> Lineage]
    BY QuietWhole DEF LifecycleInv, TypeOK
  <1>1. UNCHANGED <<pc, job, broken>>
    BY DEF Environment, expire, certbot_renew, cert_publish, cert_retire_expired_pems, add_domain
  <1>2. ASSUME NEW l \in Lineages, certbot_renew(l) PROVE TreeWhole'
    BY <1>0, <1>2 DEF certbot_renew, Issue, AllWhole, TreeWhole
  <1>3. CASE UNCHANGED lineage
    BY <1>0, <1>1, <1>3 DEF AllWhole, TreeWhole
  <1> QED BY <1>1, <1>2, <1>3 DEF Environment, expire, cert_publish, cert_retire_expired_pems,
          add_domain

LEMMA LifecycleInvInit == Init => LifecycleInv
  <1> SUFFICES ASSUME Init PROVE LifecycleInv
    OBVIOUS
  <1>1. TypeOK
    BY InitType DEF TypeInv
  <1>2. \A t \in Threads : pc[t] = "idle" /\ job[t] = NoJob
    BY DEF Init
  <1>3. OneActive
    BY <1>2 DEF OneActive
  <1>4. TreeWhole
    BY DEF Init, TreeWhole, Deleted
  <1>5. ASSUME NEW t \in Threads PROVE ThreadInv(t)
    <2>1. pc[t] = "idle" /\ job[t] = NoJob
      BY <1>2
    <2> QED BY <2>1 DEF ThreadInv, Resting, TreeInv, Moving, Ordered, AfterRecord, Published,
            Inventoried, Candidates, Cleared, NoJob
  <1> QED BY <1>1, <1>3, <1>4, <1>5 DEF LifecycleInv

LEMMA LifecycleInvStep ==
    ASSUME Serialized
    PROVE  LifecycleInv /\ [Next]_vars => LifecycleInv'
  <1> SUFFICES ASSUME LifecycleInv, [Next]_vars PROVE LifecycleInv'
    OBVIOUS
  <1>0. TypeOK /\ OneActive /\ \A t \in Threads : ThreadInv(t)
    BY DEF LifecycleInv
  <1>1. TypeOK'
    <2>1. TypeInv
      BY <1>0, LifecycleAssumption DEF TypeInv, Mover, ThreadInv, TreeInv
    <2> QED BY <2>1, TypeInvStep DEF TypeInv
  <1>2. ASSUME NEW t \in Threads, Step(t) PROVE LifecycleInv'
    <2>1. /\ pc[t] # "idle"
          /\ \A s \in Threads \ {t} : pc'[s] = pc[s] /\ job'[s] = job[s]
      BY <1>0, <1>2, StepIsLocal
    <2>2. \A s \in Threads \ {t} : pc[s] = "idle" /\ job[s] = NoJob
      BY <2>1, Alone
    <2>3. \A s \in Threads \ {t} : pc'[s] = "idle" /\ ThreadInv(s)'
      BY <2>1, <2>2, IdleThread
    <2>4. OneActive'
      BY <2>3 DEF OneActive
    <2> QED BY <1>1, <1>2, <2>3, <2>4, StepKeeps, StepWhole DEF LifecycleInv
  <1>3. ASSUME NEW t \in Threads, Request(t) PROVE LifecycleInv'
    <2>1. Quiet /\ \A s \in Threads \ {t} : pc'[s] = pc[s] /\ job'[s] = job[s]
      BY <1>0, <1>3, RequestIsLocal DEF Free
    <2>2. \A s \in Threads \ {t} : pc'[s] = "idle" /\ ThreadInv(s)'
      BY <2>1, QuietWhole, IdleThread DEF Quiet
    <2>3. OneActive'
      BY <2>2 DEF OneActive
    <2> QED BY <1>1, <1>3, <2>1, <2>2, <2>3, RequestKeeps DEF LifecycleInv
  <1>4. CASE Environment \/ \E d \in Domains : add_domain(d)
    <2>1. Quiet
      BY <1>4 DEF Environment, expire, certbot_renew, cert_publish, cert_retire_expired_pems,
         add_domain, Free
    <2>2. UNCHANGED <<pc, job>> /\ TreeWhole'
      BY <1>4, <2>1, WorldKeeps
    <2>3. \A s \in Threads : pc'[s] = "idle" /\ ThreadInv(s)'
      BY <2>1, <2>2, QuietWhole, IdleThread DEF Quiet
    <2>4. OneActive'
      BY <2>3 DEF OneActive
    <2> QED BY <1>1, <2>2, <2>3, <2>4 DEF LifecycleInv
  <1>5. CASE UNCHANGED vars
    BY <1>5, <1>1 DEF vars, LifecycleInv, OneActive, TreeWhole, ThreadInv, Resting, TreeInv, Ordered,
       Published, Inventoried, Candidates, Cleared, Whole, Names, Valid, _served_names,
       _overlaps_bundle
  <1> QED BY <1>2, <1>3, <1>4, <1>5 DEF Next

LEMMA LifecycleInvariant ==
    ASSUME Serialized
    PROVE  Spec => []LifecycleInv
  BY LifecycleInvInit, LifecycleInvStep, PTL DEF Spec

\* Where operations do not overlap, no request, however it ends, leaves a lineage in
\* pieces, unless what was moved could not be moved back or its mover was killed.
THEOREM TreesWhole ==
    ASSUME Serialized
    PROVE  Spec => []TreeWhole
  <1>1. LifecycleInv => TreeWhole
    BY DEF LifecycleInv
  <1> QED BY <1>1, LifecycleInvariant, PTL

\* Where operations do not overlap, a bundle request that answers with success has
\* delivered, for any number of names, bundles and files in the crt directory.
THEOREM BundleDelivered ==
    ASSUME Serialized
    PROVE  Spec => []Delivered
  <1>1. LifecycleInv => Delivered
    <2> SUFFICES ASSUME LifecycleInv, NEW t \in Threads, pc[t] = "lineages", job[t].clean
                 PROVE  LET j == job[t] IN
                        /\ pem[j.own] = j.new /\ j.names \subseteq Names(j.new)
                        /\ Whole(j.own) /\ lineage[j.own].cert = j.new
                        /\ \A f \in Lineages \ {j.own} :
                             _overlaps_bundle(pem[f], j.names) => pem[f] > j.was
      BY DEF Delivered
    <2>1. Published(t) /\ Cleared(t)
      BY DEF LifecycleInv, ThreadInv
    <2> QED BY <2>1 DEF Published, Cleared, AfterRecord
  <1> QED BY <1>1, LifecycleInvariant, PTL

\* Only the thread that judges the old files touches the crt directory meanwhile.
LEMMA QuarantineAlone ==
    ASSUME Serialized, LifecycleInv, NEW t \in Threads, pc[t] = "quarantine", Next, pem' # pem
    PROVE  _quarantine_superseded_certs(t)
  <1>0. TypeOK /\ ~ Quiet
    BY DEF LifecycleInv, Quiet
  <1>1. PICK s \in Threads : Step(s)
    BY <1>0 DEF Next, Request, Environment, expire, certbot_renew, cert_publish,
       cert_retire_expired_pems, add_domain, Free
  <1>2. s = t
    BY <1>0, <1>1, StepIsLocal DEF LifecycleInv, OneActive
  <1>3. ~ generate_config(t) /\ ~ process_exits(t)
    BY DEF generate_config, process_exits
  <1> QED BY <1>1, <1>2, <1>3 DEF Step, publish_pem_bundle, request_ssl_record,
          request_certificates_record, request_ssl_bundle_record, inventory, collect,
          _retire_superseded_lineages, respond, retire_lineage_tree, retire_lineage_tree_restore,
          renew_row, remove_file, remove_lineage

\* A name that had a valid certificate in a file that is moved has it in another file
\* the judgement counted on, or in the bundle.
LEMMA QuarantineCovers ==
    ASSUME LifecycleInv, NEW t \in Threads, _quarantine_superseded_certs(t), pem' # pem,
           NEW d \in Domains, rows[d] # NoRow, d \notin job[t].gone, Covered(d)
    PROVE  Covered(d)'
  <1> DEFINE j == job[t]
  <1>0. /\ TypeOK /\ ThreadInv(t) /\ pc[t] = "quarantine" /\ pem \in [Lineages -> Certs]
        /\ UNCHANGED <<issued, expired>>
    BY JobTypes DEF LifecycleInv, _quarantine_superseded_certs
  <1>1. PICK f \in j.todo :
          /\ retirement_blockers(j.seen[f], {j.seen[g] : g \in Lineages \ {f}}, j) = {}
          /\ pem' = [pem EXCEPT ![f] = 0]
    BY DEF _quarantine_superseded_certs
  <1>2. /\ f \in Lineages /\ f # j.own /\ j.own \in Lineages
        /\ j.seen = pem /\ d \in j.served
    BY <1>0 DEF ThreadInv, Candidates, Inventoried, Ordered, AfterRecord, _served_names
  <1>3. pem[j.own] = j.new /\ j.names \subseteq Names(j.new) /\ Valid(j.new)
    BY <1>0 DEF ThreadInv, Published, AfterRecord
  <1>4. \A g \in Lineages : g # f /\ Valid(pem[g]) /\ d \in Names(pem[g]) => Covered(d)'
    BY <1>0, <1>1 DEF Covered, Valid, Names
  <1>5. PICK g \in Lineages : Valid(pem[g]) /\ d \in Names(pem[g])
    BY DEF Covered
  <1>6. CASE g = f
    <2>1. ~ Expired(pem[f])
      <3>1. pem[f] \in Nat /\ expired \in Nat
        BY <1>0, <1>2 DEF Certs, TypeOK
      <3> QED BY <1>5, <1>6, <3>1 DEF Valid, Expired
    <2>2. \/ d \in j.names
          \/ \E h \in Lineages \ {f} : Valid(pem[h]) /\ d \in Names(pem[h])
      BY <1>1, <1>2, <1>5, <1>6, <2>1 DEF retirement_blockers
    <2> QED BY <1>2, <1>3, <1>4, <2>2
  <1> QED BY <1>4, <1>5, <1>6

\* Where operations do not overlap, moving the files a bundle supersedes takes the
\* last valid certificate from no name with a row, but for those called unreachable.
THEOREM RetirementCovers ==
    ASSUME Serialized
    PROVE  Spec => RetirementKeepsServed
  <1>1. LifecycleInv /\ [Next]_vars =>
          [\A t \in Threads, d \in Domains :
             /\ pc[t] = "quarantine" /\ pem' # pem
             /\ rows[d] # NoRow /\ d \notin job[t].gone /\ Covered(d)
             => Covered(d)']_vars
    <2> SUFFICES ASSUME LifecycleInv, Next, NEW t \in Threads, NEW d \in Domains,
                        pc[t] = "quarantine", pem' # pem,
                        rows[d] # NoRow, d \notin job[t].gone, Covered(d)
                 PROVE  Covered(d)'
      OBVIOUS
    <2> QED BY QuarantineAlone, QuarantineCovers
  <1> QED BY <1>1, LifecycleInvariant, PTL DEF Spec, RetirementKeepsServed
=============================================================================
