-------------------------- MODULE CertPublishProofs --------------------------
(***************************************************************************)
(* Proofs about CertPublish, for any set of lineages and publishers.       *)
(*                                                                         *)
(*   PublishTypeCorrect    Spec => []TypeOK                                *)
(*   LivePairs             Spec => PublishesPairs                          *)
(*   GoodBackups           Spec => BackupKept                              *)
(*   ScriptsRefuseExpired  no API threads: Spec => NoExpiredPublished      *)
(*   RetirementSafe        one publisher: Spec => RetiresOnlyExpired       *)
(*   NeverEmptiedByOne     one script: Spec => NeverEmptied                *)
(*   CleanRunsServe        one script, no API: Spec => CleanRunServes      *)
(***************************************************************************)
EXTENDS CertPublish, FiniteSetTheorems, TLAPS

USE DEF Publishers, env

LEMMA Bundles ==
    /\ NoBundle \in Bundle /\ Pair(1) \in Bundle
    /\ \A b \in Bundle : Torn(b) \in Bundle
    /\ NoJob \in Job /\ NoJob.dom = NoDomain
  BY PublishAssumption DEF NoBundle, Pair, Torn, Bundle, Material, NoJob, NoGoal, Job

LEMMA InitTypes == Init => TypeOK
  BY Bundles, PublishAssumption
     DEF Init, TypeOK, NoGoal, Labels, Publishing, Material

-----------------------------------------------------------------------------
(* Type correctness *)

\* The part of TypeOK that is about what the publishers do.
WorkOK ==
    /\ pc \in [Publishers -> Labels]
    /\ job \in [Publishers -> Job]
    /\ \A t \in Publishers : pc[t] \in Publishing <=> job[t].dom # NoDomain

\* A publisher goes from a label of its loop to another with a job that fits.
LEMMA WorkStep ==
  ASSUME WorkOK, NEW t \in Publishers, NEW label \in Labels, NEW j \in Job,
         label \in Publishing <=> j.dom # NoDomain,
         Goto(t, label), job' = [job EXCEPT ![t] = j]
  PROVE  WorkOK'
  BY DEF WorkOK, Goto

LEMMA DoneStep ==
  ASSUME WorkOK, NEW t \in Publishers, NEW label \in Labels \ Publishing,
         NEW j \in Job, Done(t, label, j)
  PROVE  WorkOK'
<1> DEFINE k == [j EXCEPT !.dom = NoDomain, !.staged = NoBundle, !.was = 0]
<1>1. k \in Job /\ k.dom = NoDomain
  <2>1. 0 \in Material
    BY PublishAssumption DEF Material
  <2> QED
    BY <2>1, Bundles DEF Job
<1> HIDE DEF k
<1>2. Goto(t, label) /\ job' = [job EXCEPT ![t] = k]
  BY DEF Done, k
<1> QED
  BY <1>1, <1>2, WorkStep

LEMMA FailStep ==
  ASSUME WorkOK, NEW t \in Publishers, Fail(t)
  PROVE  WorkOK'
<1> DEFINE j == [job[t] EXCEPT !.failed = TRUE]
<1>1. j \in Job
  BY DEF WorkOK, Job
<1>2. Done(t, "next", j)
  BY DEF Fail
<1> HIDE DEF j
<1> QED
  BY <1>1, <1>2, DoneStep DEF Labels, Publishing

LEMMA GotoStep ==
  ASSUME WorkOK, NEW t \in Publishers, NEW label \in Labels,
         label \in Publishing <=> pc[t] \in Publishing,
         Goto(t, label), UNCHANGED job
  PROVE  WorkOK'
  BY DEF WorkOK, Goto

\* A turn of a loop that takes up the name d.
LEMMA TakeStep ==
  ASSUME WorkOK, NEW t \in Publishers, NEW label \in Publishing, NEW d \in Domains,
         NEW w \in Material, Goto(t, label),
         \/ job' = [job EXCEPT ![t].dom = d, ![t].todo = @ \ {d}, ![t].was = w]
         \/ job' = [job EXCEPT ![t].dom = d, ![t].todo = @ \ {d}]
  PROVE  WorkOK'
<1> DEFINE j == job'[t]
<1>1. j \in Job /\ j.dom # NoDomain /\ job' = [job EXCEPT ![t] = j]
  BY PublishAssumption DEF WorkOK, Job
<1> HIDE DEF j
<1> QED
  BY <1>1, WorkStep DEF Labels

\* The names left are one fewer.
LEMMA DropStep ==
  ASSUME WorkOK, NEW t \in Publishers, NEW d, NEW label \in Labels \ Publishing,
         Done(t, label, [job[t] EXCEPT !.todo = @ \ {d}])
  PROVE  WorkOK'
<1>1. [job[t] EXCEPT !.todo = @ \ {d}] \in Job
  BY DEF WorkOK, Job
<1> QED
  BY <1>1, DoneStep

\* The rest of TypeOK.
FilesOK ==
    /\ lineage \in [Domains -> Bundle]
    /\ expired \in [Domains -> Material]
    /\ pem \in [Domains -> Bundle] /\ bak \in [Domains -> Bundle]
    /\ served \in [Domains -> Bundle]
    /\ status \in [Scripts -> {"none", "ok", "failed"}]
    /\ faults \in Nat

LEMMA Parts == (TypeOK <=> FilesOK /\ WorkOK) /\ (TypeOK' <=> FilesOK' /\ WorkOK')
  BY DEF TypeOK, FilesOK, WorkOK

LEMMA LoadedType ==
  ASSUME FilesOK
  PROVE  Loaded \in [Domains -> Bundle]
  BY DEF FilesOK, Loaded

LEMMA CertbotTypes ==
  ASSUME TypeOK, NEW d \in Domains, certbot_renew(d) \/ certbot_finish(d) \/ expire(d)
  PROVE  TypeOK'
<1>1. CASE certbot_renew(d)
  <2> DEFINE n == lineage[d].cert + 1
  <2>1. n \in Material
    BY <1>1, PublishAssumption DEF certbot_renew, TypeOK, Bundle, Material
  <2>2. PICK f \in {"cert", "key"} : lineage' = [lineage EXCEPT ![d][f] = n]
    BY <1>1 DEF certbot_renew
  <2> HIDE DEF n
  <2>3. [lineage[d] EXCEPT ![f] = n] \in Bundle
    BY <2>1 DEF TypeOK, Bundle
  <2>4. lineage' \in [Domains -> Bundle]
    BY <2>2, <2>3 DEF TypeOK
  <2> QED
    BY <1>1, <2>4 DEF certbot_renew, TypeOK
<1>2. CASE certbot_finish(d)
  <2>1. Pair(IF lineage[d].cert > lineage[d].key THEN lineage[d].cert ELSE lineage[d].key)
            \in Bundle
    BY DEF TypeOK, Bundle, Pair
  <2> QED
    BY <1>2, <2>1 DEF certbot_finish, TypeOK
<1>3. CASE expire(d)
  <2>1. expired[d] + 1 \in Material
    BY <1>3, PublishAssumption DEF expire, TypeOK, Bundle, Material
  <2> QED
    BY <1>3, <2>1 DEF expire, TypeOK
<1> QED
  BY <1>1, <1>2, <1>3

LEMMA StartTypes ==
  ASSUME TypeOK, NEW t \in Publishers, script_start(t) \/ api_start(t)
  PROVE  TypeOK'
<1>1. CASE script_start(t)
  <2> DEFINE present == {d \in Domains : lineage[d] # NoBundle}
             goal == [d \in Domains |->
                         IF cert_bundle_valid(lineage[d]) THEN lineage[d].cert ELSE 0]
             j == [NoJob EXCEPT !.todo = present, !.goal = goal]
  <2>1. goal \in [Domains -> Material]
    BY PublishAssumption DEF TypeOK, Bundle, Material
  <2>2. present \in SUBSET Domains
    OBVIOUS
  <2> HIDE DEF goal, present
  <2>3. j \in Job /\ j.dom = NoDomain
    BY <2>1, <2>2, Bundles DEF Job
  <2> HIDE DEF j
  <2>4. job' = [job EXCEPT ![t] = j] /\ Goto(t, "next")
    BY <1>1 DEF script_start, j, goal, present
  <2>5. WorkOK'
    BY <2>3, <2>4, Parts, WorkStep DEF Labels, Publishing
  <2>6. FilesOK'
    BY <1>1 DEF script_start, TypeOK, FilesOK
  <2> QED
    BY <2>5, <2>6, Parts
<1>2. CASE api_start(t)
  <2>1. PICK S \in SUBSET Domains : job' = [job EXCEPT ![t] = [NoJob EXCEPT !.todo = S]]
    BY <1>2 DEF api_start
  <2>2. [NoJob EXCEPT !.todo = S] \in Job /\ [NoJob EXCEPT !.todo = S].dom = NoDomain
    BY Bundles DEF Job
  <2>3. WorkOK'
    BY <1>2, <2>1, <2>2, Parts, WorkStep DEF api_start, Labels, Publishing
  <2>4. FilesOK'
    BY <1>2 DEF api_start, TypeOK, FilesOK
  <2> QED
    BY <2>3, <2>4, Parts
<1> QED
  BY <1>1, <1>2

\* What the publishers do to the files keeps the types.
LEMMA StagedStep ==
  ASSUME WorkOK, FilesOK, NEW t \in Publishers, NEW f \in {"cert", "key"},
         pc[t] \in Publishing, NEW label \in Publishing, Goto(t, label),
         job' = [job EXCEPT ![t].staged[f] = lineage[job[t].dom][f]]
  PROVE  WorkOK'
<1>1. job[t] \in Job /\ job[t].dom \in Domains
  BY DEF WorkOK, Job
<1> DEFINE j == job'[t]
<1>2. lineage[job[t].dom][f] \in Material
  BY <1>1 DEF FilesOK, Bundle
<1>3. j = [job[t] EXCEPT !.staged[f] = lineage[job[t].dom][f]]
  BY DEF WorkOK
<1>4. [job[t].staged EXCEPT ![f] = lineage[job[t].dom][f]] \in Bundle
  BY <1>1, <1>2 DEF Job, Bundle
<1>5. j \in Job /\ j.dom = job[t].dom
  BY <1>1, <1>3, <1>4 DEF Job
<1>6. job' = [job EXCEPT ![t] = j]
  BY DEF WorkOK
<1> HIDE DEF j
<1> QED
  BY <1>1, <1>5, <1>6, WorkStep, PublishAssumption DEF Labels

LEMMA SharedTypes ==
  ASSUME TypeOK, NEW t \in Publishers, SharedStep(t)
  PROVE  TypeOK'
<1>1. WorkOK /\ FilesOK
  BY Parts
<1>2. job[t].dom # NoDomain => job[t].dom \in Domains
  BY <1>1 DEF WorkOK, Job
<1>3. CASE read_cert(t)
  <2>1. WorkOK'
    BY <1>1, <1>3, StagedStep DEF read_cert, Publishing
  <2> QED
    BY <1>1, <1>3, <2>1, Parts DEF read_cert, FilesOK
<1>4. CASE read_key(t)
  <2>1. WorkOK'
    <3>1. CASE Fail(t)
      BY <1>1, <3>1, FailStep
    <3>2. CASE ~Fail(t)
      BY <1>1, <1>4, <3>2, StagedStep DEF read_key, Publishing
    <3> QED
      BY <3>1, <3>2
  <2> QED
    BY <1>1, <1>4, <2>1, Parts DEF read_key, FilesOK, Fault
<1>5. CASE backup_existing_pem(t)
  <2>1. WorkOK'
    BY <1>1, <1>5, GotoStep DEF backup_existing_pem, Publishing, Labels
  <2> QED
    BY <1>1, <1>5, <2>1, Parts DEF backup_existing_pem, FilesOK
<1>6. CASE backup_existing_pem_copy(t)
  <2>1. WorkOK'
    BY <1>1, <1>6, GotoStep DEF backup_existing_pem_copy, Publishing, Labels
  <2>2. job[t].dom \in Domains
    BY <1>1, <1>2, <1>6 DEF backup_existing_pem_copy, WorkOK, Publishing
  <2>3. bak' \in [Domains -> Bundle]
    BY <1>1, <1>6, <2>2, Bundles DEF backup_existing_pem_copy, FilesOK
  <2> QED
    BY <1>1, <1>6, <2>1, <2>3, Parts DEF backup_existing_pem_copy, FilesOK, Fault
<1> QED
  BY <1>3, <1>4, <1>5, <1>6 DEF SharedStep

LEMMA ApiTypes ==
  ASSUME TypeOK, NEW a \in Publishers, ApiStep(a)
  PROVE  TypeOK'
<1>1. WorkOK /\ FilesOK
  BY Parts
<1>2. job[a] \in Job /\ pc[a] \in Labels
  BY <1>1 DEF WorkOK
<1>3. CASE publish_pem_bundle_next(a)
  <2>1. FilesOK'
    BY <1>1, <1>3 DEF publish_pem_bundle_next, FilesOK
  <2>2. CASE \E d \in job[a].todo :
            /\ Goto(a, "cert")
            /\ job' = [job EXCEPT ![a].dom = d, ![a].todo = @ \ {d}, ![a].was = expired[d]]
    <3>1. PICK d \in job[a].todo :
            /\ Goto(a, "cert")
            /\ job' = [job EXCEPT ![a].dom = d, ![a].todo = @ \ {d}, ![a].was = expired[d]]
      BY <2>2
    <3>2. d \in Domains /\ expired[d] \in Material
      BY <1>1, <1>2 DEF Job, FilesOK
    <3>3. WorkOK'
      BY <1>1, <3>1, <3>2, TakeStep DEF Publishing
    <3> QED
      BY <2>1, <3>3, Parts
  <2>3. CASE /\ Goto(a, "reload") \/ Goto(a, "idle")
             /\ job' = [job EXCEPT ![a] = NoJob]
    <3>1. WorkOK'
      BY <1>1, <2>3, Bundles, WorkStep DEF Labels, Publishing
    <3> QED
      BY <2>1, <3>1, Parts
  <2> QED
    BY <1>3, <2>2, <2>3 DEF publish_pem_bundle_next
<1>4. CASE publish_pem_bundle_check(a)
  <2>1. WorkOK'
    <3>1. CASE Fail(a)
      BY <1>1, <3>1, FailStep
    <3>2. CASE Goto(a, "backup") /\ UNCHANGED job
      BY <1>1, <1>4, <3>2, GotoStep DEF publish_pem_bundle_check, Publishing, Labels
    <3> QED
      BY <1>4, <3>1, <3>2 DEF publish_pem_bundle_check
  <2> QED
    BY <1>1, <1>4, <2>1, Parts DEF publish_pem_bundle_check, FilesOK
<1>5. CASE publish_pem_bundle_swap(a)
  <2>1. job[a].dom \in Domains /\ job[a].staged \in Bundle
    BY <1>1, <1>2, <1>5 DEF publish_pem_bundle_swap, WorkOK, Publishing, Job
  <2>2. pem' \in [Domains -> Bundle]
    BY <1>1, <1>5, <2>1 DEF publish_pem_bundle_swap, FilesOK
  <2>3. [job[a] EXCEPT !.updated = TRUE] \in Job
    BY <1>2 DEF Job
  <2>4. WorkOK'
    <3>1. CASE Fail(a)
      BY <1>1, <3>1, FailStep
    <3>2. CASE Done(a, "next", [job[a] EXCEPT !.updated = TRUE])
      BY <1>1, <2>3, <3>2, DoneStep DEF Publishing, Labels
    <3> QED
      BY <1>5, <3>1, <3>2 DEF publish_pem_bundle_swap
  <2> QED
    BY <1>1, <1>5, <2>2, <2>4, Parts DEF publish_pem_bundle_swap, FilesOK, Fault
<1>6. CASE api_reload(a)
  <2>1. WorkOK'
    BY <1>1, <1>6, GotoStep DEF api_reload, Publishing, Labels
  <2> QED
    BY <1>1, <1>6, <2>1, LoadedType, Parts DEF api_reload, FilesOK
<1> QED
  BY <1>3, <1>4, <1>5, <1>6 DEF ApiStep

\* The exit of a script run.
LEMMA ExitStep ==
  ASSUME TypeOK, NEW s \in Scripts, NEW r \in {"ok", "failed"}, Exit(s, r)
  PROVE  WorkOK' /\ status' \in [Scripts -> {"none", "ok", "failed"}]
<1>1. WorkOK'
  BY Bundles, Parts, WorkStep DEF Exit, Labels, Publishing
<1>2. status' \in [Scripts -> {"none", "ok", "failed"}]
  BY DEF Exit, TypeOK
<1> QED
  BY <1>1, <1>2

LEMMA ScriptPublishTypes ==
  ASSUME TypeOK, NEW s \in Publishers,
         \/ cert_publish_next(s) \/ cert_publish_check(s) \/ cert_publish_swap(s)
  PROVE  TypeOK'
<1>1. WorkOK /\ FilesOK
  BY Parts
<1>2. job[s] \in Job /\ pc[s] \in Labels
  BY <1>1 DEF WorkOK
<1>3. CASE cert_publish_next(s)
  <2>1. FilesOK'
    BY <1>1, <1>3 DEF cert_publish_next, FilesOK
  <2>2. PICK d \in job[s].todo :
          \/ Done(s, "next", [job[s] EXCEPT !.todo = @ \ {d}])
          \/ /\ Goto(s, "cert")
             /\ job' = [job EXCEPT ![s].dom = d, ![s].todo = @ \ {d}, ![s].was = expired[d]]
    BY <1>3 DEF cert_publish_next
  <2>3. d \in Domains /\ expired[d] \in Material
    BY <1>1, <1>2 DEF Job, FilesOK
  <2>4. CASE Done(s, "next", [job[s] EXCEPT !.todo = @ \ {d}])
    BY <1>1, <2>1, <2>4, DropStep, Parts DEF Labels, Publishing
  <2>5. CASE /\ Goto(s, "cert")
             /\ job' = [job EXCEPT ![s].dom = d, ![s].todo = @ \ {d}, ![s].was = expired[d]]
    BY <1>1, <2>1, <2>3, <2>5, TakeStep, Parts DEF Publishing
  <2> QED
    BY <2>2, <2>4, <2>5
<1>4. CASE cert_publish_check(s)
  <2>1. WorkOK'
    <3>1. CASE Fail(s)
      BY <1>1, <3>1, FailStep
    <3>2. CASE Goto(s, "backup") /\ UNCHANGED job
      BY <1>1, <1>4, <3>2, GotoStep DEF cert_publish_check, Publishing, Labels
    <3> QED
      BY <1>4, <3>1, <3>2 DEF cert_publish_check
  <2> QED
    BY <1>1, <1>4, <2>1, Parts DEF cert_publish_check, FilesOK
<1>5. CASE cert_publish_swap(s)
  <2>1. job[s].dom \in Domains /\ job[s].staged \in Bundle
    BY <1>1, <1>2, <1>5 DEF cert_publish_swap, WorkOK, Publishing, Job
  <2>2. pem' \in [Domains -> Bundle]
    BY <1>1, <1>5, <2>1 DEF cert_publish_swap, FilesOK
  <2>3. [job[s] EXCEPT !.updated = TRUE] \in Job
    BY <1>2 DEF Job
  <2>4. WorkOK'
    <3>1. CASE Fail(s)
      BY <1>1, <3>1, FailStep
    <3>2. CASE Done(s, "next", [job[s] EXCEPT !.updated = TRUE])
      BY <1>1, <2>3, <3>2, DoneStep DEF Publishing, Labels
    <3> QED
      BY <1>5, <3>1, <3>2 DEF cert_publish_swap
  <2> QED
    BY <1>1, <1>5, <2>2, <2>4, Parts DEF cert_publish_swap, FilesOK, Fault
<1> QED
  BY <1>3, <1>4, <1>5

LEMMA ScriptRetireTypes ==
  ASSUME TypeOK, NEW s \in Publishers,
         \/ cert_retire_begin(s) \/ cert_retire_check(s) \/ cert_retire_count(s)
         \/ cert_retire_move(s)
  PROVE  TypeOK'
<1>1. WorkOK /\ FilesOK
  BY Parts
<1>2. job[s] \in Job /\ pc[s] \in Labels
  BY <1>1 DEF WorkOK
<1>3. CASE cert_retire_begin(s)
  <2> DEFINE j == [job[s] EXCEPT !.todo = Published(pem)]
  <2>1. j \in Job /\ j.dom = NoDomain
    BY <1>1, <1>2, <1>3 DEF cert_retire_begin, Job, Published, WorkOK, Publishing
  <2>2. job' = [job EXCEPT ![s] = j]
    BY <1>3 DEF cert_retire_begin
  <2> HIDE DEF j
  <2>3. WorkOK'
    BY <1>1, <1>3, <2>1, <2>2, WorkStep DEF cert_retire_begin, Labels, Publishing
  <2> QED
    BY <1>1, <1>3, <2>3, Parts DEF cert_retire_begin, FilesOK
<1>4. CASE cert_retire_check(s)
  <2>1. FilesOK'
    BY <1>1, <1>4 DEF cert_retire_check, FilesOK
  <2>2. PICK d \in job[s].todo :
          \/ Goto(s, "count") /\ job' = [job EXCEPT ![s].dom = d, ![s].todo = @ \ {d}]
          \/ Done(s, "retire", [job[s] EXCEPT !.todo = @ \ {d}])
    BY <1>4 DEF cert_retire_check
  <2>3. d \in Domains /\ 0 \in Material
    BY <1>1, <1>2, PublishAssumption DEF Job, Material
  <2>4. CASE Done(s, "retire", [job[s] EXCEPT !.todo = @ \ {d}])
    BY <1>1, <2>1, <2>4, DropStep, Parts DEF Labels, Publishing
  <2>5. CASE Goto(s, "count") /\ job' = [job EXCEPT ![s].dom = d, ![s].todo = @ \ {d}]
    BY <1>1, <2>1, <2>3, <2>5, TakeStep, Parts DEF Publishing
  <2> QED
    BY <2>2, <2>4, <2>5
<1>5. CASE cert_retire_count(s)
  <2>1. WorkOK'
    <3>1. CASE Done(s, "retire", job[s])
      BY <1>1, <1>2, <3>1, DoneStep DEF Publishing, Labels
    <3>2. CASE Goto(s, "move") /\ UNCHANGED job
      BY <1>1, <1>5, <3>2, GotoStep DEF cert_retire_count, Publishing, Labels
    <3> QED
      BY <1>5, <3>1, <3>2 DEF cert_retire_count
  <2> QED
    BY <1>1, <1>5, <2>1, Parts DEF cert_retire_count, FilesOK
<1>6. CASE cert_retire_move(s)
  <2>1. job[s].dom \in Domains
    BY <1>1, <1>2, <1>6 DEF cert_retire_move, WorkOK, Publishing, Job
  <2>2. pem' \in [Domains -> Bundle]
    BY <1>1, <1>6, <2>1, Bundles DEF cert_retire_move, FilesOK
  <2>3. [job[s] EXCEPT !.updated = TRUE] \in Job
    BY <1>2 DEF Job
  <2>4. WorkOK'
    <3>1. CASE Done(s, "retire", job[s])
      BY <1>1, <1>2, <3>1, DoneStep DEF Publishing, Labels
    <3>2. CASE Done(s, "retire", [job[s] EXCEPT !.updated = TRUE])
      BY <1>1, <2>3, <3>2, DoneStep DEF Publishing, Labels
    <3> QED
      BY <1>6, <3>1, <3>2 DEF cert_retire_move
  <2> QED
    BY <1>1, <1>6, <2>2, <2>4, Parts DEF cert_retire_move, FilesOK, Fault
<1> QED
  BY <1>3, <1>4, <1>5, <1>6

LEMMA ScriptEndTypes ==
  ASSUME TypeOK, NEW s \in Publishers,
         cert_retire_end(s) \/ haproxy_config_ok(s) \/ script_reload(s)
  PROVE  TypeOK'
<1>1. WorkOK /\ FilesOK /\ s \in Scripts
  BY Parts DEF cert_retire_end, haproxy_config_ok, script_reload
<1>2. CASE \E r \in {"ok", "failed"} : Exit(s, r)
  <2>1. PICK r \in {"ok", "failed"} : Exit(s, r)
    BY <1>2
  <2>2. WorkOK' /\ status' \in [Scripts -> {"none", "ok", "failed"}]
    BY <1>1, <2>1, ExitStep
  <2> QED
    BY <1>1, <2>2, LoadedType, Parts
       DEF cert_retire_end, haproxy_config_ok, script_reload, FilesOK, Fault
<1>3. CASE \E l \in {"gate", "signal"} : Goto(s, l) /\ UNCHANGED <<job, status>>
  <2>1. WorkOK'
    BY <1>1, <1>3, GotoStep
       DEF cert_retire_end, haproxy_config_ok, script_reload, Exit, Labels, Publishing
  <2> QED
    BY <1>1, <1>3, <2>1, LoadedType, Parts
       DEF cert_retire_end, haproxy_config_ok, script_reload, FilesOK, Fault
<1> QED
  BY <1>2, <1>3 DEF cert_retire_end, haproxy_config_ok, script_reload

LEMMA KilledTypes ==
  ASSUME TypeOK, NEW t \in Publishers, killed(t)
  PROVE  TypeOK'
<1>1. WorkOK /\ FilesOK
  BY Parts
<1>2. WorkOK'
  BY <1>1, Bundles, WorkStep DEF killed, Labels, Publishing
<1>3. bak' \in [Domains -> Bundle]
  BY <1>1, Bundles DEF killed, FilesOK
<1>4. status' \in [Scripts -> {"none", "ok", "failed"}]
  BY <1>1 DEF killed, FilesOK
<1> QED
  BY <1>1, <1>2, <1>3, <1>4, Parts DEF killed, FilesOK, Fault

LEMMA NextTypes == TypeOK /\ [Next]_vars => TypeOK'
<1> SUFFICES ASSUME TypeOK, [Next]_vars PROVE TypeOK'
  OBVIOUS
<1>1. CASE UNCHANGED vars
  BY <1>1 DEF vars, TypeOK
<1>2. CASE \E d \in Domains : certbot_renew(d) \/ certbot_finish(d) \/ expire(d)
  BY <1>2, CertbotTypes
<1>3. CASE \E t \in Publishers : script_start(t) \/ api_start(t)
  BY <1>3, StartTypes
<1>4. CASE \E t \in Publishers : ScriptStep(t)
  BY <1>4, ScriptPublishTypes, ScriptRetireTypes, ScriptEndTypes DEF ScriptStep
<1>5. CASE \E t \in Publishers : ApiStep(t)
  BY <1>5, ApiTypes
<1>6. CASE \E t \in Publishers : SharedStep(t)
  BY <1>6, SharedTypes
<1>7. CASE \E t \in Publishers : killed(t)
  BY <1>7, KilledTypes
<1>8. CASE other_reload
  BY <1>8, Parts, LoadedType DEF other_reload, TypeOK, FilesOK
<1> QED
  BY <1>1, <1>2, <1>3, <1>4, <1>5, <1>6, <1>7, <1>8 DEF Next, Step

\* Every variable keeps its type, and a publisher has a name exactly while it
\* publishes or retires one.
THEOREM PublishTypeCorrect == Spec => []TypeOK
  BY InitTypes, NextTypes, PTL DEF Spec

-----------------------------------------------------------------------------
(* What a step can change *)

\* A step of one publisher leaves the others where they are.
LEMMA OthersStay ==
  ASSUME TypeOK, NEW u \in Publishers, NEW t \in Publishers, t # u,
         script_start(u) \/ api_start(u) \/ Step(u) \/ killed(u)
  PROVE  pc'[t] = pc[t] /\ job'[t] = job[t]
<1>1. CASE script_start(u) \/ api_start(u) \/ killed(u)
  BY <1>1 DEF script_start, api_start, killed, Goto, TypeOK
<1>2. CASE SharedStep(u)
  BY <1>2 DEF SharedStep, read_cert, read_key, backup_existing_pem,
       backup_existing_pem_copy, Fail, Done, Goto, TypeOK
<1>3. CASE ApiStep(u)
  BY <1>3 DEF ApiStep, publish_pem_bundle_next, publish_pem_bundle_check,
       publish_pem_bundle_swap, api_reload, Fail, Done, Goto, TypeOK
<1>4. CASE cert_publish_next(u) \/ cert_publish_check(u) \/ cert_publish_swap(u)
  BY <1>4 DEF cert_publish_next, cert_publish_check, cert_publish_swap, Fail, Done,
       Goto, TypeOK
<1>5. CASE \/ cert_retire_begin(u) \/ cert_retire_check(u) \/ cert_retire_count(u)
           \/ cert_retire_move(u)
  BY <1>5 DEF cert_retire_begin, cert_retire_check, cert_retire_count,
       cert_retire_move, Done, Goto, TypeOK
<1>6. CASE cert_retire_end(u) \/ haproxy_config_ok(u) \/ script_reload(u)
  BY <1>6 DEF cert_retire_end, haproxy_config_ok, script_reload, Exit, Goto, TypeOK
<1> QED
  BY <1>1, <1>2, <1>3, <1>4, <1>5, <1>6 DEF Step, ScriptStep

\* The label a step of a publisher leads to, for the labels of a publication.
LEMMA Arrivals ==
  ASSUME TypeOK, NEW u \in Publishers,
         script_start(u) \/ api_start(u) \/ Step(u) \/ killed(u)
  PROVE  /\ pc'[u] = "backup" => /\ job'[u] = job[u]
                                 /\ cert_publish_check(u) \/ publish_pem_bundle_check(u)
         /\ pc'[u] = "copy" => job'[u] = job[u] /\ backup_existing_pem(u)
         /\ pc'[u] = "swap" =>
                 /\ job'[u] = job[u]
                 /\ backup_existing_pem(u) \/ backup_existing_pem_copy(u)
         /\ pc'[u] = "check" => read_key(u) /\ ~Fail(u)
         /\ pc'[u] = "key" => read_cert(u)
         /\ pc'[u] = "cert" => cert_publish_next(u) \/ publish_pem_bundle_next(u)
<1>1. CASE script_start(u) \/ api_start(u) \/ killed(u)
  BY <1>1 DEF script_start, api_start, killed, Goto, TypeOK
<1>2. CASE SharedStep(u)
  BY <1>2 DEF SharedStep, read_cert, read_key, backup_existing_pem,
       backup_existing_pem_copy, Fail, Done, Goto, TypeOK
<1>3. CASE ApiStep(u)
  BY <1>3 DEF ApiStep, publish_pem_bundle_next, publish_pem_bundle_check,
       publish_pem_bundle_swap, api_reload, Fail, Done, Goto, TypeOK
<1>4. CASE cert_publish_next(u) \/ cert_publish_check(u) \/ cert_publish_swap(u)
  BY <1>4 DEF cert_publish_next, cert_publish_check, cert_publish_swap, Fail, Done,
       Goto, TypeOK
<1>5. CASE \/ cert_retire_begin(u) \/ cert_retire_check(u) \/ cert_retire_count(u)
           \/ cert_retire_move(u)
  BY <1>5 DEF cert_retire_begin, cert_retire_check, cert_retire_count,
       cert_retire_move, Done, Goto, TypeOK
<1>6. CASE cert_retire_end(u) \/ haproxy_config_ok(u) \/ script_reload(u)
  BY <1>6 DEF cert_retire_end, haproxy_config_ok, script_reload, Exit, Goto, TypeOK
<1> QED
  BY <1>1, <1>2, <1>3, <1>4, <1>5, <1>6 DEF Step, ScriptStep

\* certbot, time and other reloads leave the publishers and the files they
\* write alone.
LEMMA EnvironmentStep ==
  ASSUME \/ \E d \in Domains : certbot_renew(d) \/ certbot_finish(d) \/ expire(d)
         \/ other_reload
         \/ UNCHANGED vars
  PROVE  UNCHANGED <<pem, bak, pc, job>>
  BY DEF certbot_renew, certbot_finish, expire, other_reload, vars

\* A file of the crt directory changes in three steps only.
LEMMA PemSteps ==
  ASSUME TypeOK, NEW u \in Publishers,
         script_start(u) \/ api_start(u) \/ Step(u) \/ killed(u)
  PROVE  \/ UNCHANGED pem
         \/ cert_publish_swap(u) \/ publish_pem_bundle_swap(u) \/ cert_retire_move(u)
  BY DEF script_start, api_start, killed, Step, SharedStep, ScriptStep, ApiStep,
     read_cert, read_key, backup_existing_pem, backup_existing_pem_copy,
     publish_pem_bundle_next, publish_pem_bundle_check, api_reload,
     cert_publish_next, cert_publish_check, cert_retire_begin, cert_retire_check,
     cert_retire_count, cert_retire_end, haproxy_config_ok, script_reload

LEMMA NextParts ==
  ASSUME [Next]_vars
  PROVE  \/ \E d \in Domains : certbot_renew(d) \/ certbot_finish(d) \/ expire(d)
         \/ other_reload
         \/ UNCHANGED vars
         \/ \E u \in Publishers : script_start(u) \/ api_start(u) \/ Step(u) \/ killed(u)
  BY DEF Next
-----------------------------------------------------------------------------
(* The live bundles and their backups *)

\* What is not cut short in the crt directory is a pair.
PemWhole == \A d \in Domains : validate_pem_structure(pem[d]) => cert_bundle_valid(pem[d])

\* A script's staging file has been judged before anything else is touched.
StagedChecked ==
    \A s \in Scripts :
        pc[s] \in {"backup", "copy", "swap"} => cert_bundle_valid(job[s].staged)

\* What is about to be copied to the backup is a pair, or has been moved away.
CopyWhole ==
    \A t \in Publishers : pc[t] = "copy" =>
        LET b == pem[job[t].dom] IN b = NoBundle \/ cert_bundle_valid(b)

PairInv == TypeOK /\ PemWhole /\ StagedChecked /\ CopyWhole

\* The step that makes LivePairs: a file that changes becomes a pair or vanishes.
LEMMA PemChange ==
  ASSUME TypeOK, StagedChecked, [Next]_vars, NEW d \in Domains, pem'[d] # pem[d]
  PROVE  pem'[d] = NoBundle \/ cert_bundle_valid(pem'[d])
<1>1. PICK u \in Publishers : script_start(u) \/ api_start(u) \/ Step(u) \/ killed(u)
  BY EnvironmentStep, NextParts
<1>2. \/ cert_publish_swap(u) \/ publish_pem_bundle_swap(u) \/ cert_retire_move(u)
  BY <1>1, PemSteps
<1>3. CASE cert_publish_swap(u)
  BY <1>3 DEF cert_publish_swap, StagedChecked, TypeOK
<1>4. CASE publish_pem_bundle_swap(u)
  BY <1>4 DEF publish_pem_bundle_swap, TypeOK
<1>5. CASE cert_retire_move(u)
  BY <1>5 DEF cert_retire_move, TypeOK
<1> QED
  BY <1>2, <1>3, <1>4, <1>5

LEMMA PairInit == Init => PairInv
<1> SUFFICES ASSUME Init PROVE PairInv
  OBVIOUS
<1>1. PemWhole
  <2>1. \A d \in Domains : pem[d] \in {NoBundle, Pair(1), Torn(Pair(1))}
    BY DEF Init
  <2> QED
    BY <2>1 DEF PemWhole, validate_pem_structure, cert_bundle_valid, NoBundle, Pair, Torn
<1>2. StagedChecked /\ CopyWhole
  BY DEF Init, StagedChecked, CopyWhole
<1> QED
  BY <1>1, <1>2, InitTypes DEF PairInv

LEMMA PairStep == PairInv /\ [Next]_vars => PairInv'
<1> SUFFICES ASSUME PairInv, [Next]_vars PROVE PairInv'
  OBVIOUS
<1>1. TypeOK /\ PemWhole /\ StagedChecked /\ CopyWhole /\ TypeOK'
  BY NextTypes DEF PairInv
<1>2. PemWhole'
  BY <1>1, PemChange DEF PemWhole, validate_pem_structure, NoBundle
<1>3. StagedChecked'
  <2> SUFFICES ASSUME NEW s \in Scripts, pc'[s] \in {"backup", "copy", "swap"}
               PROVE  cert_bundle_valid(job'[s].staged)
    BY DEF StagedChecked, cert_bundle_valid, validate_pem_structure
  <2>1. CASE UNCHANGED <<pc, job>>
    BY <1>1, <2>1 DEF StagedChecked
  <2>2. CASE \E u \in Publishers : script_start(u) \/ api_start(u) \/ Step(u) \/ killed(u)
    <3>1. PICK u \in Publishers : script_start(u) \/ api_start(u) \/ Step(u) \/ killed(u)
      BY <2>2
    <3>2. CASE u # s
      BY <1>1, <3>1, <3>2, OthersStay DEF StagedChecked
    <3>3. CASE u = s
      <4>1. /\ job'[s] = job[s]
            /\ \/ cert_publish_check(s) \/ publish_pem_bundle_check(s)
               \/ backup_existing_pem(s) \/ backup_existing_pem_copy(s)
        BY <1>1, <3>1, <3>3, Arrivals
      <4>2. CASE cert_publish_check(s)
        <5>1. ~Fail(s)
          BY <1>1, <4>2 DEF Fail, Done, Goto, TypeOK
        <5> QED
          BY <4>1, <4>2, <5>1 DEF cert_publish_check
      <4>3. CASE publish_pem_bundle_check(s)
        BY <4>3, PublishAssumption DEF publish_pem_bundle_check
      <4>4. CASE backup_existing_pem(s) \/ backup_existing_pem_copy(s)
        BY <1>1, <4>1, <4>4
           DEF backup_existing_pem, backup_existing_pem_copy, StagedChecked
      <4> QED
        BY <4>1, <4>2, <4>3, <4>4
    <3> QED
      BY <3>2, <3>3
  <2> QED
    BY <2>1, <2>2, EnvironmentStep, NextParts
<1>4. CopyWhole'
  <2> SUFFICES ASSUME NEW t \in Publishers, pc'[t] = "copy"
               PROVE  LET b == pem'[job'[t].dom] IN b = NoBundle \/ cert_bundle_valid(b)
    BY DEF CopyWhole, cert_bundle_valid, validate_pem_structure
  <2>1. job'[t].dom \in Domains
    BY <1>1 DEF TypeOK, Publishing, Job
  <2>2. CASE pc[t] = "copy" /\ job'[t] = job[t]
    BY <1>1, <2>1, <2>2, PemChange DEF CopyWhole
  <2>3. CASE backup_existing_pem(t)
    <3>1. validate_pem_structure(pem[job[t].dom])
      BY <1>1, <2>3 DEF backup_existing_pem, Goto, TypeOK, cert_bundle_valid
    <3> QED
      BY <1>1, <2>1, <2>3, <3>1 DEF backup_existing_pem, PemWhole
  <2>4. CASE UNCHANGED <<pc, job>>
    BY <2>2, <2>4
  <2>5. CASE \E u \in Publishers : script_start(u) \/ api_start(u) \/ Step(u) \/ killed(u)
    <3>1. PICK u \in Publishers : script_start(u) \/ api_start(u) \/ Step(u) \/ killed(u)
      BY <2>5
    <3>2. CASE u # t
      BY <1>1, <2>2, <3>1, <3>2, OthersStay
    <3>3. CASE u = t
      BY <1>1, <2>3, <3>1, <3>3, Arrivals
    <3> QED
      BY <3>2, <3>3
  <2> QED
    BY <2>4, <2>5, EnvironmentStep, NextParts
<1> QED
  BY <1>1, <1>2, <1>3, <1>4 DEF PairInv

\* Whatever certbot, expiry and any number of publishers do meanwhile, what
\* appears in the crt directory is a certificate with its own key.
THEOREM LivePairs == Spec => PublishesPairs
<1>1. PairInv /\ [Next]_vars =>
        [\A d \in Domains :
            pem'[d] # pem[d] => pem'[d] = NoBundle \/ cert_bundle_valid(pem'[d])]_vars
  BY PemChange DEF PairInv
<1> QED
  BY <1>1, PairInit, PairStep, PTL DEF Spec, PublishesPairs

\* What replaces a backup is a pair as well, although an API thread looks at the
\* structure only and although the file may change between its look and its copy.
THEOREM GoodBackups == Spec => BackupKept
<1>1. ASSUME PairInv, Next, NEW d \in Domains, bak'[d] # bak[d], faults' = faults
      PROVE  cert_bundle_valid(bak'[d])
  <2>1. TypeOK /\ CopyWhole
    BY <1>1 DEF PairInv
  <2>2. PICK u \in Publishers : script_start(u) \/ api_start(u) \/ Step(u) \/ killed(u)
    BY <1>1, EnvironmentStep, NextParts
  <2>3. ~Fault
    BY <1>1, <2>1 DEF Fault, TypeOK
  <2>4. backup_existing_pem_copy(u)
    BY <1>1, <2>2, <2>3
       DEF script_start, api_start, killed, Step, SharedStep, ScriptStep, ApiStep,
           read_cert, read_key, backup_existing_pem,
           publish_pem_bundle_next, publish_pem_bundle_check, publish_pem_bundle_swap,
           api_reload, cert_publish_next, cert_publish_check, cert_publish_swap,
           cert_retire_begin, cert_retire_check, cert_retire_count, cert_retire_move,
           cert_retire_end, haproxy_config_ok, script_reload
  <2> QED
    BY <1>1, <2>1, <2>3, <2>4 DEF backup_existing_pem_copy, CopyWhole, TypeOK
<1>2. PairInv /\ [Next]_vars =>
        [\A d \in Domains :
            bak'[d] # bak[d] /\ faults' = faults => cert_bundle_valid(bak'[d])]_vars
  BY <1>1
<1> QED
  BY <1>2, PairInit, PairStep, PTL DEF Spec, BackupKept

-----------------------------------------------------------------------------
(* Expiry *)

\* Only certificates that were issued expire.
ExpiredBound == \A d \in Domains : expired[d] <= lineage[d].cert

\* What a script is publishing had not expired when it began: it asked the file
\* first, and the file it reads afterwards can only be newer.
FreshScript ==
    \A s \in Scripts :
        LET d == job[s].dom
            c == job[s].staged.cert
        IN /\ pc[s] = "cert" => \/ lineage[d].cert > job[s].was
                                \/ lineage[d].cert = 0 /\ job[s].was = 0
           /\ pc[s] \in {"key", "check"} => c > job[s].was \/ c = 0
           /\ pc[s] \in {"backup", "copy", "swap"} => c > job[s].was

ExpiryInv == TypeOK /\ ExpiredBound /\ FreshScript

LEMMA LineageGrows ==
  ASSUME TypeOK, [Next]_vars, NEW d \in Domains
  PROVE  lineage'[d].cert \in Nat /\ lineage'[d].cert >= lineage[d].cert
<1>1. lineage[d].cert \in Nat /\ lineage[d].key \in Nat
  BY DEF TypeOK, Bundle, Material
<1>2. CASE \E e \in Domains : certbot_renew(e)
  <2>1. PICK e \in Domains, f \in {"cert", "key"} :
           lineage' = [lineage EXCEPT ![e][f] = lineage[e].cert + 1]
    BY <1>2 DEF certbot_renew
  <2> QED
    BY <1>1, <2>1 DEF TypeOK, Bundle
<1>3. CASE \E e \in Domains : certbot_finish(e)
  <2>1. PICK e \in Domains : certbot_finish(e)
    BY <1>3
  <2>2. e = d \/ lineage'[d] = lineage[d]
    BY <2>1 DEF certbot_finish
  <2>3. CASE e = d
    BY <1>1, <2>1, <2>3 DEF certbot_finish, TypeOK, Pair
  <2> QED
    BY <1>1, <2>2, <2>3
<1>4. CASE UNCHANGED lineage
  BY <1>1, <1>4
<1>5. CASE \E u \in Publishers : script_start(u) \/ api_start(u) \/ Step(u) \/ killed(u)
  BY <1>4, <1>5 DEF script_start, api_start, killed, Step, SharedStep, ScriptStep, ApiStep,
     read_cert, read_key, backup_existing_pem, backup_existing_pem_copy,
     publish_pem_bundle_next, publish_pem_bundle_check, publish_pem_bundle_swap,
     api_reload, cert_publish_next, cert_publish_check, cert_publish_swap,
     cert_retire_begin, cert_retire_check, cert_retire_count, cert_retire_move,
     cert_retire_end, haproxy_config_ok, script_reload
<1> QED
  BY <1>2, <1>3, <1>4, <1>5, NextParts DEF expire, other_reload, vars

LEMMA ExpiredGrows ==
  ASSUME TypeOK, [Next]_vars
  PROVE  \/ UNCHANGED expired
         \/ \E d \in Domains : expire(d)
<1>1. CASE \E u \in Publishers : script_start(u) \/ api_start(u) \/ Step(u) \/ killed(u)
  BY <1>1 DEF script_start, api_start, killed, Step, SharedStep, ScriptStep, ApiStep,
     read_cert, read_key, backup_existing_pem, backup_existing_pem_copy,
     publish_pem_bundle_next, publish_pem_bundle_check, publish_pem_bundle_swap,
     api_reload, cert_publish_next, cert_publish_check, cert_publish_swap,
     cert_retire_begin, cert_retire_check, cert_retire_count, cert_retire_move,
     cert_retire_end, haproxy_config_ok, script_reload
<1> QED
  BY <1>1, NextParts DEF certbot_renew, certbot_finish, other_reload, vars

LEMMA ExpiryInit == Init => ExpiryInv
<1> SUFFICES ASSUME Init PROVE ExpiryInv
  OBVIOUS
<1>1. ExpiredBound
  <2>1. \A d \in Domains : lineage[d].cert \in Nat
    BY InitTypes DEF TypeOK, Bundle, Material
  <2> QED
    BY <2>1 DEF Init, ExpiredBound, NoGoal
<1>2. FreshScript
  BY DEF Init, FreshScript
<1> QED
  BY <1>1, <1>2, InitTypes DEF ExpiryInv

LEMMA ExpiredBoundStep == TypeOK /\ ExpiredBound /\ [Next]_vars => ExpiredBound'
<1> SUFFICES ASSUME TypeOK, ExpiredBound, [Next]_vars, NEW d \in Domains
             PROVE  expired'[d] <= lineage'[d].cert
  BY DEF ExpiredBound
<1>1. /\ expired[d] \in Nat /\ lineage[d].cert \in Nat
      /\ lineage'[d].cert \in Nat /\ lineage'[d].cert >= lineage[d].cert
      /\ expired[d] <= lineage[d].cert
  BY LineageGrows DEF TypeOK, Bundle, Material, ExpiredBound
<1>2. CASE UNCHANGED expired
  BY <1>1, <1>2
<1>3. CASE \E e \in Domains : expire(e)
  BY <1>1, <1>3 DEF expire, TypeOK
<1> QED
  BY <1>2, <1>3, ExpiredGrows

\* The same for one script, so that its labels can be taken one by one.
Fresh(s) ==
    LET d == job[s].dom
        c == job[s].staged.cert
    IN /\ pc[s] = "cert" => \/ lineage[d].cert > job[s].was
                            \/ lineage[d].cert = 0 /\ job[s].was = 0
       /\ pc[s] \in {"key", "check"} => c > job[s].was \/ c = 0
       /\ pc[s] \in {"backup", "copy", "swap"} => c > job[s].was

\* A step that leaves a script where it is.
LEMMA FreshStays ==
  ASSUME TypeOK, TypeOK', FreshScript, [Next]_vars, NEW s \in Scripts,
         pc'[s] = pc[s], job'[s] = job[s]
  PROVE  Fresh(s)'
<1>1. job[s] \in Job /\ job[s].was \in Nat
  BY DEF TypeOK, Job, Material
<1>2. CASE pc[s] = "cert"
  <2>1. job[s].dom \in Domains
    BY <1>1, <1>2 DEF TypeOK, Publishing, Job
  <2>2. /\ lineage[job[s].dom].cert \in Nat
        /\ lineage'[job[s].dom].cert \in Nat
        /\ lineage'[job[s].dom].cert >= lineage[job[s].dom].cert
    BY <2>1, LineageGrows DEF TypeOK, Bundle, Material
  <2> QED
    BY <1>1, <1>2, <2>2 DEF Fresh, FreshScript
<1>3. CASE pc[s] # "cert"
  BY <1>3 DEF Fresh, FreshScript
<1> QED
  BY <1>2, <1>3

LEMMA FreshStep ==
  ASSUME TypeOK, TypeOK', ExpiredBound, FreshScript, NEW s \in Scripts, Next,
         script_start(s) \/ api_start(s) \/ Step(s) \/ killed(s)
  PROVE  Fresh(s)'
<1>1. /\ job[s] \in Job /\ job[s].was \in Nat /\ job[s].staged.cert \in Nat
      /\ pc[s] \in Labels
  BY DEF TypeOK, Job, Bundle, Material
<1>2. ASSUME pc'[s] = "cert" PROVE Fresh(s)'
  <2>1. cert_publish_next(s)
    BY <1>2, Arrivals, PublishAssumption DEF publish_pem_bundle_next
  <2>2. PICK d \in job[s].todo :
           /\ ~cert_is_expired(d, lineage[d].cert)
           /\ job' = [job EXCEPT ![s].dom = d, ![s].todo = @ \ {d}, ![s].was = expired[d]]
    BY <1>2, <2>1 DEF cert_publish_next, Done, Goto, TypeOK
  <2>3. d \in Domains
    BY <1>1 DEF Job
  <2>4. job'[s].dom = d /\ job'[s].was = expired[d]
    BY <1>1, <2>2 DEF TypeOK, Job
  <2>5. UNCHANGED lineage
    BY <2>1 DEF cert_publish_next
  <2>6. lineage[d].cert \in Nat /\ expired[d] \in Nat /\ expired[d] <= lineage[d].cert
    BY <2>3 DEF TypeOK, Bundle, Material, ExpiredBound
  <2>7. lineage[d].cert > expired[d] \/ (lineage[d].cert = 0 /\ expired[d] = 0)
    BY <2>2, <2>6 DEF cert_is_expired
  <2> QED
    BY <1>2, <2>4, <2>5, <2>7 DEF Fresh
<1>3. ASSUME pc'[s] = "key" PROVE Fresh(s)'
  <2>1. read_cert(s)
    BY <1>3, Arrivals
  <2>2. /\ job'[s].staged.cert = lineage[job[s].dom].cert
        /\ job'[s].was = job[s].was
    BY <1>1, <2>1 DEF read_cert, TypeOK, Job, Bundle
  <2> QED
    BY <1>3, <2>1, <2>2 DEF read_cert, Fresh, FreshScript
<1>4. ASSUME pc'[s] = "check" PROVE Fresh(s)'
  <2>1. read_key(s) /\ ~Fail(s)
    BY <1>4, Arrivals
  <2>2. /\ job'[s].staged.cert = job[s].staged.cert
        /\ job'[s].was = job[s].was
    BY <1>1, <2>1 DEF read_key, TypeOK, Job, Bundle
  <2> QED
    BY <1>4, <2>1, <2>2 DEF read_key, Fresh, FreshScript
<1>5. ASSUME pc'[s] = "backup" PROVE Fresh(s)'
  <2>1. cert_publish_check(s) /\ job'[s] = job[s]
    BY <1>5, Arrivals, PublishAssumption DEF publish_pem_bundle_check
  <2>2. cert_bundle_valid(job[s].staged)
    <3>1. ~Fail(s)
      BY <1>5 DEF Fail, Done, Goto, TypeOK
    <3> QED
      BY <2>1, <3>1 DEF cert_publish_check
  <2> QED
    BY <1>1, <1>5, <2>1, <2>2
       DEF cert_publish_check, cert_bundle_valid, validate_pem_structure, Fresh, FreshScript
<1>6. ASSUME pc'[s] \in {"copy", "swap"} PROVE Fresh(s)'
  <2>1. /\ job'[s] = job[s]
        /\ backup_existing_pem(s) \/ backup_existing_pem_copy(s)
    BY <1>6, Arrivals
  <2>2. pc[s] \in {"backup", "copy"}
    BY <2>1 DEF backup_existing_pem, backup_existing_pem_copy
  <2> QED
    BY <1>6, <2>1, <2>2 DEF Fresh, FreshScript
<1>7. ASSUME pc'[s] \notin {"cert", "key", "check", "backup", "copy", "swap"}
      PROVE  Fresh(s)'
  BY <1>7 DEF Fresh
<1> QED
  BY <1>2, <1>3, <1>4, <1>5, <1>6, <1>7

LEMMA ExpiryStep == ExpiryInv /\ [Next]_vars => ExpiryInv'
<1> SUFFICES ASSUME ExpiryInv, [Next]_vars PROVE ExpiryInv'
  OBVIOUS
<1>1. TypeOK /\ ExpiredBound /\ FreshScript /\ TypeOK' /\ ExpiredBound'
  BY NextTypes, ExpiredBoundStep DEF ExpiryInv
<1>2. ASSUME NEW s \in Scripts PROVE Fresh(s)'
  <2>1. CASE UNCHANGED <<pc, job>>
    BY <1>1, <2>1, FreshStays
  <2>2. CASE \E u \in Publishers : script_start(u) \/ api_start(u) \/ Step(u) \/ killed(u)
    <3>1. PICK u \in Publishers : script_start(u) \/ api_start(u) \/ Step(u) \/ killed(u)
      BY <2>2
    <3>2. Next
      BY <3>1 DEF Next
    <3>3. CASE u = s
      BY <1>1, <3>1, <3>2, <3>3, FreshStep
    <3>4. CASE u # s
      BY <1>1, <3>1, <3>4, OthersStay, FreshStays
    <3> QED
      BY <3>3, <3>4
  <2> QED
    BY <2>1, <2>2, EnvironmentStep, NextParts
<1>3. FreshScript'
  BY <1>2 DEF Fresh, FreshScript
<1> QED
  BY <1>1, <1>3 DEF ExpiryInv

\* Without API threads nothing that had expired before its publication began is
\* published, however many scripts run at once: cert_publish asks the file before
\* it reads it.
THEOREM ScriptsRefuseExpired ==
  ASSUME Api = {}
  PROVE  Spec => NoExpiredPublished
<1>1. ExpiryInv /\ [Next]_vars =>
        [\A t \in Publishers :
            LET d == job[t].dom IN
            pc[t] = "swap" /\ pem'[d] # pem[d] => job[t].staged.cert > job[t].was]_vars
  BY DEF ExpiryInv, FreshScript
<1> QED
  BY <1>1, ExpiryInit, ExpiryStep, PTL DEF Spec, NoExpiredPublished

-----------------------------------------------------------------------------
(* Retirement by a publisher that is alone *)

\* Between the check and the mv the bundle is the one that was judged.
RetireOK(s) ==
    pc[s] \in {"count", "move"} => cert_is_expired(job[s].dom, pem[job[s].dom].cert)

RetireInv == TypeOK /\ \A s \in Scripts : RetireOK(s)

\* The arrival at the labels of cert_retire_expired_pems.
LEMMA RetireArrivals ==
  ASSUME TypeOK, NEW u \in Publishers,
         script_start(u) \/ api_start(u) \/ Step(u) \/ killed(u)
  PROVE  /\ pc'[u] = "count" => cert_retire_check(u)
         /\ pc'[u] = "move" => cert_retire_count(u) /\ job'[u] = job[u]
<1>1. CASE script_start(u) \/ api_start(u) \/ killed(u)
  BY <1>1 DEF script_start, api_start, killed, Goto, TypeOK
<1>2. CASE SharedStep(u)
  BY <1>2 DEF SharedStep, read_cert, read_key, backup_existing_pem,
       backup_existing_pem_copy, Fail, Done, Goto, TypeOK
<1>3. CASE ApiStep(u)
  BY <1>3 DEF ApiStep, publish_pem_bundle_next, publish_pem_bundle_check,
       publish_pem_bundle_swap, api_reload, Fail, Done, Goto, TypeOK
<1>4. CASE cert_publish_next(u) \/ cert_publish_check(u) \/ cert_publish_swap(u)
  BY <1>4 DEF cert_publish_next, cert_publish_check, cert_publish_swap, Fail, Done,
       Goto, TypeOK
<1>5. CASE \/ cert_retire_begin(u) \/ cert_retire_check(u) \/ cert_retire_count(u)
           \/ cert_retire_move(u)
  BY <1>5 DEF cert_retire_begin, cert_retire_check, cert_retire_count,
       cert_retire_move, Done, Goto, TypeOK
<1>6. CASE cert_retire_end(u) \/ haproxy_config_ok(u) \/ script_reload(u)
  BY <1>6 DEF cert_retire_end, haproxy_config_ok, script_reload, Exit, Goto, TypeOK
<1> QED
  BY <1>1, <1>2, <1>3, <1>4, <1>5, <1>6 DEF Step, ScriptStep

LEMMA RetireStep ==
  ASSUME \A t, u \in Publishers : t = u
  PROVE  RetireInv /\ [Next]_vars => RetireInv'
<1> SUFFICES ASSUME RetireInv, [Next]_vars,
                    NEW s \in Scripts, pc'[s] \in {"count", "move"}
             PROVE  RetireOK(s)'
  BY NextTypes DEF RetireInv, RetireOK
<1>1. TypeOK /\ TypeOK'
  BY NextTypes DEF RetireInv
<1>2. CASE UNCHANGED <<pem, pc, job>>
  <2>1. job[s].dom \in Domains
    BY <1>1, <1>2 DEF TypeOK, Publishing, Job
  <2>2. cert_is_expired(job[s].dom, pem[job[s].dom].cert)
    BY <1>2 DEF RetireInv, RetireOK
  <2>3. expired'[job[s].dom] >= expired[job[s].dom]
    BY <1>1, <2>1, ExpiredGrows DEF expire, TypeOK, Material
  <2>4. /\ pem[job[s].dom].cert \in Nat
        /\ expired[job[s].dom] \in Nat /\ expired'[job[s].dom] \in Nat
    BY <1>1, <2>1 DEF TypeOK, Bundle, Material
  <2> QED
    BY <1>2, <2>2, <2>3, <2>4 DEF cert_is_expired, RetireOK
<1>3. CASE \E u \in Publishers : script_start(u) \/ api_start(u) \/ Step(u) \/ killed(u)
  <2>1. script_start(s) \/ api_start(s) \/ Step(s) \/ killed(s)
    BY <1>3
  <2>2. CASE pc'[s] = "count"
    <3>1. cert_retire_check(s)
      BY <1>1, <2>1, <2>2, RetireArrivals
    <3>2. PICK d \in job[s].todo :
             /\ cert_is_expired(d, pem[d].cert)
             /\ job' = [job EXCEPT ![s].dom = d, ![s].todo = @ \ {d}]
      BY <1>1, <2>2, <3>1 DEF cert_retire_check, Done, Goto, TypeOK
    <3>3. job'[s].dom = d
      BY <1>1, <3>2 DEF TypeOK, Job
    <3> QED
      BY <3>1, <3>2, <3>3 DEF cert_retire_check, cert_is_expired, RetireOK
  <2>3. CASE pc'[s] = "move"
    <3>1. cert_retire_count(s) /\ job'[s] = job[s]
      BY <1>1, <2>1, <2>3, RetireArrivals
    <3> QED
      BY <3>1 DEF cert_retire_count, cert_is_expired, RetireInv, RetireOK
  <2> QED
    BY <2>2, <2>3
<1> QED
  BY <1>2, <1>3, EnvironmentStep, NextParts

\* A publisher that is alone moves only expired bundles out of the crt
\* directory: nothing replaces the file between its check and its mv.
THEOREM RetirementSafe ==
  ASSUME \A t, u \in Publishers : t = u
  PROVE  Spec => RetiresOnlyExpired
<1>1. Init => RetireInv
  BY InitTypes DEF Init, RetireInv, RetireOK
<1>2. ASSUME RetireInv, PairInv, [Next]_vars, NEW d \in Domains,
             pem[d] # NoBundle, pem'[d] = NoBundle
      PROVE  cert_is_expired(d, pem[d].cert)
  <2>1. TypeOK
    BY <1>2 DEF RetireInv, RetireOK
  <2>2. PICK u \in Publishers : script_start(u) \/ api_start(u) \/ Step(u) \/ killed(u)
    BY <1>2, EnvironmentStep, NextParts
  <2>3. \/ cert_publish_swap(u) \/ publish_pem_bundle_swap(u) \/ cert_retire_move(u)
    BY <1>2, <2>1, <2>2, PemSteps
  <2>4. CASE cert_publish_swap(u) \/ publish_pem_bundle_swap(u)
    <3>1. CASE cert_publish_swap(u)
      <4>1. cert_bundle_valid(job[u].staged)
        BY <1>2, <3>1 DEF PairInv, StagedChecked, cert_publish_swap
      <4> QED
        BY <1>2, <2>1, <3>1, <4>1
           DEF cert_publish_swap, TypeOK, cert_bundle_valid, validate_pem_structure, NoBundle
    <3>2. CASE publish_pem_bundle_swap(u)
      BY <1>2, <2>1, <3>2
         DEF publish_pem_bundle_swap, TypeOK, cert_bundle_valid, validate_pem_structure,
             NoBundle
    <3> QED
      BY <2>4, <3>1, <3>2
  <2>5. CASE cert_retire_move(u)
    <3>1. d = job[u].dom
      BY <1>2, <2>1, <2>5 DEF cert_retire_move, TypeOK
    <3> QED
      BY <1>2, <2>5, <3>1 DEF cert_retire_move, RetireInv, RetireOK
  <2> QED
    BY <2>3, <2>4, <2>5
<1>3. RetireInv /\ PairInv /\ [Next]_vars =>
        [\A d \in Domains :
            pem[d] # NoBundle /\ pem'[d] = NoBundle => cert_is_expired(d, pem[d].cert)]_vars
  BY <1>2
<1> QED
  BY <1>1, <1>3, RetireStep, PairInit, PairStep, PTL DEF Spec, RetiresOnlyExpired
-----------------------------------------------------------------------------
(* The last bundle of the crt directory *)

LEMMA RemainingGrows ==
  ASSUME NEW a, NEW b, Published(a) \subseteq Published(b)
  PROVE  /\ Remaining(a) \in Nat /\ Remaining(b) \in Nat
         /\ Remaining(a) <= Remaining(b)
<1>1. IsFiniteSet(Published(a)) /\ IsFiniteSet(Published(b))
  BY PublishAssumption, FS_Subset DEF Published
<1>2. /\ Cardinality(Published(a)) \in Nat /\ Cardinality(Published(b)) \in Nat
      /\ Cardinality(Published(a)) <= Cardinality(Published(b))
  BY <1>1, FS_Subset, FS_CardinalityType
<1> QED
  BY <1>2 DEF Remaining

LEMMA RemainingSome ==
  ASSUME NEW a, Published(a) # {} \/ HasDefault
  PROVE  Remaining(a) > 0
<1>1. IsFiniteSet(Published(a))
  BY PublishAssumption, FS_Subset DEF Published
<1>2. Cardinality(Published(a)) \in Nat /\ (Published(a) # {} => Cardinality(Published(a)) # 0)
  BY <1>1, FS_EmptySet, FS_CardinalityType
<1> QED
  BY <1>2 DEF Remaining

\* Moving one bundle out leaves one fewer.
LEMMA RemainingAfterMove ==
  ASSUME NEW a, NEW b, NEW d, Remaining(a) > 1, Published(a) \ {d} \subseteq Published(b)
  PROVE  Remaining(b) > 0
<1> DEFINE m == Cardinality(Published(a))
           n == Cardinality(Published(a) \ {d})
           k == Cardinality(Published(b))
<1>1. IsFiniteSet(Published(a)) /\ IsFiniteSet(Published(b))
  BY PublishAssumption, FS_Subset DEF Published
<1>2. IsFiniteSet(Published(a) \ {d}) /\ n = IF d \in Published(a) THEN m - 1 ELSE m
  BY <1>1, FS_RemoveElement
<1>3. m \in Nat /\ n \in Nat /\ k \in Nat /\ n <= k
  BY <1>1, <1>2, FS_CardinalityType, FS_Subset
<1>4. Remaining(a) = m + (IF HasDefault THEN 1 ELSE 0)
  BY DEF Remaining
<1>5. Remaining(b) = k + (IF HasDefault THEN 1 ELSE 0)
  BY DEF Remaining
<1> HIDE DEF m, n, k
<1> QED
  BY <1>2, <1>3, <1>4, <1>5

\* Whatever replaces a bundle is one.
LEMMA SwapsPublish ==
  ASSUME PairInv, NEW u \in Publishers, cert_publish_swap(u) \/ publish_pem_bundle_swap(u)
  PROVE  Published(pem) \subseteq Published(pem')
<1>1. CASE UNCHANGED pem
  BY <1>1 DEF Published
<1>2. CASE pem' = [pem EXCEPT ![job[u].dom] = job[u].staged] /\ cert_bundle_valid(job[u].staged)
  BY <1>2 DEF Published, PairInv, TypeOK, cert_bundle_valid, validate_pem_structure, NoBundle
<1> QED
  BY <1>1, <1>2 DEF cert_publish_swap, publish_pem_bundle_swap, PairInv, StagedChecked

\* Between the count and the mv the other bundles stay.
MoveLeavesOne == \A s \in Scripts : pc[s] = "move" => Remaining(pem) > 1

LEMMA MoveLeavesOneStep ==
  ASSUME \A s, u \in Scripts : s = u, PairInv, MoveLeavesOne, [Next]_vars
  PROVE  MoveLeavesOne'
<1> SUFFICES ASSUME NEW s \in Scripts, pc'[s] = "move" PROVE Remaining(pem') > 1
  BY DEF MoveLeavesOne, Remaining, Published
<1>1. TypeOK
  BY DEF PairInv
<1>2. CASE UNCHANGED <<pem, pc>>
  BY <1>2 DEF MoveLeavesOne
<1>3. CASE \E u \in Publishers : script_start(u) \/ api_start(u) \/ Step(u) \/ killed(u)
  <2>1. PICK u \in Publishers : script_start(u) \/ api_start(u) \/ Step(u) \/ killed(u)
    BY <1>3
  <2>2. CASE u = s
    <3>1. cert_retire_count(s)
      BY <1>1, <2>1, <2>2, RetireArrivals
    <3>2. Remaining(pem) > 1 /\ UNCHANGED pem
      <4>1. ~(Remaining(pem) <= 1)
        BY <1>1, <3>1 DEF cert_retire_count, Done, Goto, TypeOK
      <4>2. Remaining(pem) \in Nat
        BY RemainingGrows
      <4> QED
        BY <3>1, <4>1, <4>2 DEF cert_retire_count
    <3> QED
      BY <3>2
  <2>3. CASE u # s
    <3>1. pc[s] = "move"
      BY <1>1, <2>1, <2>3, OthersStay
    <3>2. UNCHANGED pem \/ publish_pem_bundle_swap(u)
      BY <1>1, <2>1, <2>3, PemSteps DEF cert_publish_swap, cert_retire_move
    <3>3. Published(pem) \subseteq Published(pem')
      BY <3>2, SwapsPublish
    <3>4. Remaining(pem) <= Remaining(pem') /\ Remaining(pem) \in Nat /\ Remaining(pem') \in Nat
      BY <3>3, RemainingGrows
    <3> QED
      BY <3>1, <3>4 DEF MoveLeavesOne
  <2> QED
    BY <2>2, <2>3
<1> QED
  BY <1>2, <1>3, EnvironmentStep, NextParts

\* As long as the two scripts do not run at the same time, the crt directory never
\* loses its last certificate, whatever the API threads publish meanwhile: only
\* the scripts move bundles out.
THEOREM NeverEmptiedByOne ==
  ASSUME \A s, u \in Scripts : s = u
  PROVE  Spec => NeverEmptied
<1>1. Init => MoveLeavesOne
  BY DEF Init, MoveLeavesOne
<1>2. MoveLeavesOne /\ PairInv /\ [Next]_vars => MoveLeavesOne'
  BY MoveLeavesOneStep
<1>3. ASSUME MoveLeavesOne, PairInv, Next, Published(pem) # {} \/ HasDefault
      PROVE  Remaining(pem') > 0
  <2>1. TypeOK
    BY <1>3 DEF PairInv
  <2>2. CASE Published(pem) \subseteq Published(pem')
    BY <1>3, <2>2, RemainingSome
  <2>3. CASE UNCHANGED pem
    BY <2>2, <2>3
  <2>4. CASE \E u \in Publishers : script_start(u) \/ api_start(u) \/ Step(u) \/ killed(u)
    <3>1. PICK u \in Publishers : script_start(u) \/ api_start(u) \/ Step(u) \/ killed(u)
      BY <2>4
    <3>2. CASE cert_publish_swap(u) \/ publish_pem_bundle_swap(u)
      BY <1>3, <2>2, <3>2, SwapsPublish
    <3>3. CASE cert_retire_move(u)
      <4>1. Remaining(pem) > 1
        BY <1>3, <3>3 DEF cert_retire_move, MoveLeavesOne
      <4>2. Published(pem) \ {job[u].dom} \subseteq Published(pem')
        BY <2>1, <3>3 DEF cert_retire_move, Published, TypeOK
      <4> QED
        BY <4>1, <4>2, RemainingAfterMove
    <3> QED
      BY <2>1, <2>3, <3>1, <3>2, <3>3, PemSteps
  <2> QED
    BY <1>3, <2>3, <2>4, EnvironmentStep, NextParts
<1>4. MoveLeavesOne /\ PairInv /\ [Next]_vars =>
        [Published(pem) # {} \/ HasDefault => Remaining(pem') > 0]_vars
  BY <1>3
<1> QED
  BY <1>1, <1>2, <1>4, PairInit, PairStep, PTL DEF Spec, NeverEmptied

-----------------------------------------------------------------------------
(* A run of a script that is alone *)

Publication == {"cert", "key", "check", "backup", "copy", "swap"}

\* What the script found in live/ when it began can only have been replaced by
\* something newer.
GoalIssued(s) == pc[s] # "idle" => \A d \in Domains : job[s].goal[d] <= lineage[d].cert

\* A run without a failure owes HAProxy every pair that has not expired; the
\* publication of that name is still to come, or under way, or done.
Owed(s, d) == pc[s] # "idle" /\ ~job[s].failed /\ job[s].goal[d] > expired[d]

Pending(s, d) ==
    \/ d \in job[s].todo /\ pc[s] \in Publication \cup {"next"}
    \/ d = job[s].dom /\ pc[s] \in Publication

Kept(s, d) == pem[d].cert >= job[s].goal[d] /\ job[s].updated

Accounted(s) == \A d \in Domains : Owed(s, d) => Pending(s, d) \/ Kept(s, d)

\* What it publishes is no older than what it found.
StagedNew(s) ==
    pc[s] \in Publication \ {"cert"} => job[s].staged.cert >= job[s].goal[job[s].dom]

\* Between haproxy -c and the reload nothing changes the directory.
Judged(s) == pc[s] = "signal" => DirLoads

ServeOK(s) == GoalIssued(s) /\ Accounted(s) /\ StagedNew(s) /\ Judged(s)

\* The types of the numbers in these.
LEMMA JobNumbers ==
  ASSUME TypeOK, NEW s \in Publishers, NEW d \in Domains
  PROVE  /\ job[s].goal[d] \in Nat /\ job[s].staged.cert \in Nat
         /\ lineage[d].cert \in Nat /\ expired[d] \in Nat /\ pem[d].cert \in Nat
         /\ job[s].dom # NoDomain <=> pc[s] \in Publishing
         /\ d # NoDomain /\ job[s].todo \subseteq Domains
  BY PublishAssumption DEF TypeOK, Job, Bundle, Material

\* A step of the script that leaves what it owes and what it has done.
LEMMA SameAccount ==
  ASSUME TypeOK, NEW s \in Publishers, ServeOK(s), UNCHANGED <<lineage, expired, pem>>,
         job'[s].goal = job[s].goal, job'[s].failed = job[s].failed,
         job'[s].updated = job[s].updated,
         pc[s] # "idle", pc'[s] # "signal", StagedNew(s)',
         \A d \in Domains : Pending(s, d) => Pending(s, d)' \/ ~Owed(s, d)
  PROVE  ServeOK(s)'
<1>1. GoalIssued(s)'
  BY DEF ServeOK, GoalIssued
<1>2. Accounted(s)'
  BY DEF ServeOK, Accounted, Owed, Kept
<1> QED
  BY <1>1, <1>2 DEF ServeOK, Judged

LEMMA FailedAccount ==
  ASSUME TypeOK, NEW s \in Publishers, ServeOK(s), pc[s] # "idle", UNCHANGED lineage, Fail(s)
  PROVE  ServeOK(s)'
<1>1. pc'[s] = "next" /\ job'[s].failed /\ job'[s].goal = job[s].goal
  BY DEF Fail, Done, Goto, TypeOK, Job
<1> QED
  BY <1>1 DEF ServeOK, GoalIssued, Accounted, Owed, StagedNew, Publication, Judged

LEMMA IdleAccount ==
  ASSUME NEW s \in Publishers, pc'[s] = "idle"
  PROVE  ServeOK(s)'
  BY DEF ServeOK, GoalIssued, Accounted, Owed, StagedNew, Publication, Judged

LEMMA StartAccount ==
  ASSUME TypeOK, NEW s \in Publishers, script_start(s)
  PROVE  ServeOK(s)'
<1>1. /\ pc'[s] = "next" /\ UNCHANGED <<lineage, expired>>
      /\ job'[s].todo = {d \in Domains : lineage[d] # NoBundle}
      /\ job'[s].goal = [d \in Domains |->
                            IF cert_bundle_valid(lineage[d]) THEN lineage[d].cert ELSE 0]
  BY DEF script_start, Goto, TypeOK, NoJob
<1>2. GoalIssued(s)'
  <2> SUFFICES ASSUME NEW d \in Domains PROVE job'[s].goal[d] <= lineage[d].cert
    BY <1>1 DEF GoalIssued
  <2>1. lineage[d].cert \in Nat
    BY JobNumbers
  <2> QED
    BY <1>1, <2>1
<1>3. ASSUME NEW d \in Domains, Owed(s, d)' PROVE d \in job'[s].todo
  <2>1. expired[d] \in Nat /\ job'[s].goal[d] > expired[d]
    BY <1>1, <1>3, JobNumbers DEF Owed
  <2>2. cert_bundle_valid(lineage[d])
    BY <1>1, <2>1
  <2> QED
    BY <1>1, <2>2 DEF cert_bundle_valid, validate_pem_structure, NoBundle
<1> QED
  BY <1>1, <1>2, <1>3 DEF ServeOK, Accounted, Pending, StagedNew, Publication, Judged

LEMMA NextAccount ==
  ASSUME TypeOK, NEW s \in Publishers, ServeOK(s), cert_publish_next(s)
  PROVE  ServeOK(s)'
<1>0. pc[s] = "next" /\ UNCHANGED <<lineage, expired, pem>> /\ job[s] \in Job
  BY DEF cert_publish_next, TypeOK
<1>1. PICK e \in job[s].todo :
        \/ /\ cert_is_expired(e, lineage[e].cert)
           /\ Done(s, "next", [job[s] EXCEPT !.todo = @ \ {e}])
        \/ /\ Goto(s, "cert")
           /\ job' = [job EXCEPT ![s].dom = e, ![s].todo = @ \ {e}, ![s].was = expired[e]]
  BY DEF cert_publish_next
<1>2. e \in Domains
  BY <1>0 DEF Job
<1>3. /\ job'[s].goal = job[s].goal /\ job'[s].failed = job[s].failed
      /\ job'[s].updated = job[s].updated /\ job'[s].todo = job[s].todo \ {e}
  <2>1. CASE Done(s, "next", [job[s] EXCEPT !.todo = @ \ {e}])
    <3> DEFINE j == [job[s] EXCEPT !.todo = @ \ {e}]
    <3>1. /\ j.goal = job[s].goal /\ j.failed = job[s].failed /\ j.updated = job[s].updated
          /\ j.todo = job[s].todo \ {e} /\ j \in Job
      BY <1>0 DEF Job
    <3>2. job'[s] = [j EXCEPT !.dom = NoDomain, !.staged = NoBundle, !.was = 0]
      BY <2>1 DEF Done, TypeOK
    <3> HIDE DEF j
    <3> QED
      BY <3>1, <3>2 DEF Job
  <2>2. CASE job' = [job EXCEPT ![s].dom = e, ![s].todo = @ \ {e}, ![s].was = expired[e]]
    <3>1. job'[s] = [job[s] EXCEPT !.dom = e, !.todo = @ \ {e}, !.was = expired[e]]
      BY <2>2 DEF TypeOK
    <3> QED
      BY <1>0, <3>1 DEF Job
  <2> QED
    BY <1>1, <2>1, <2>2
<1>4. CASE /\ cert_is_expired(e, lineage[e].cert)
           /\ Done(s, "next", [job[s] EXCEPT !.todo = @ \ {e}])
  <2>1. pc'[s] = "next"
    BY <1>4 DEF Done, Goto, TypeOK
  <2>2. ~Owed(s, e)
    <3>1. /\ lineage[e].cert <= expired[e]
          /\ pc[s] # "idle" => job[s].goal[e] <= lineage[e].cert
      BY <1>2, <1>4 DEF cert_is_expired, ServeOK, GoalIssued
    <3> QED
      BY <1>2, <3>1, JobNumbers DEF Owed
  <2>3. \A d \in Domains : Pending(s, d) => Pending(s, d)' \/ ~Owed(s, d)
    BY <1>0, <1>3, <2>1, <2>2 DEF Pending, Publication
  <2> QED
    BY <1>0, <1>3, <2>1, <2>3, SameAccount DEF StagedNew, Publication
<1>5. CASE /\ Goto(s, "cert")
           /\ job' = [job EXCEPT ![s].dom = e, ![s].todo = @ \ {e}, ![s].was = expired[e]]
  <2>1. pc'[s] = "cert" /\ job'[s].dom = e
    BY <1>0, <1>5 DEF Goto, TypeOK, Job
  <2>2. \A d \in Domains : Pending(s, d) => Pending(s, d)' \/ ~Owed(s, d)
    BY <1>0, <1>3, <2>1 DEF Pending, Publication
  <2> QED
    BY <1>0, <1>3, <2>1, <2>2, SameAccount DEF StagedNew, Publication
<1> QED
  BY <1>1, <1>4, <1>5

LEMMA ReadAccount ==
  ASSUME TypeOK, NEW s \in Publishers, ServeOK(s), read_cert(s) \/ read_key(s)
  PROVE  ServeOK(s)'
<1>0. UNCHANGED <<lineage, expired, pem>> /\ job[s] \in Job /\ pc[s] \in {"cert", "key"}
  BY DEF read_cert, read_key, TypeOK
<1>1. job[s].dom \in Domains
  BY <1>0 DEF TypeOK, Publishing, Job
<1>2. CASE Fail(s)
  BY <1>0, <1>2, FailedAccount
<1>3. CASE ~Fail(s) /\ read_cert(s)
  <2>1. /\ pc[s] = "cert" /\ pc'[s] = "key"
        /\ job'[s] = [job[s] EXCEPT !.staged.cert = lineage[job[s].dom].cert]
    BY <1>0, <1>3 DEF read_cert, Goto, TypeOK
  <2>2. /\ job'[s].goal = job[s].goal /\ job'[s].failed = job[s].failed
        /\ job'[s].updated = job[s].updated /\ job'[s].todo = job[s].todo
        /\ job'[s].dom = job[s].dom
    BY <1>0, <2>1 DEF Job
  <2>3. job'[s].staged.cert >= job[s].goal[job[s].dom]
    <3>1. job'[s].staged.cert = lineage[job[s].dom].cert
      BY <1>0, <2>1 DEF Job, Bundle
    <3>2. job[s].goal[job[s].dom] <= lineage[job[s].dom].cert
      BY <1>1, <2>1 DEF ServeOK, GoalIssued
    <3> QED
      BY <1>1, <3>1, <3>2, JobNumbers
  <2>4. \A d \in Domains : Pending(s, d) => Pending(s, d)' \/ ~Owed(s, d)
    BY <2>1, <2>2 DEF Pending, Publication
  <2>5. StagedNew(s)'
    BY <2>2, <2>3 DEF StagedNew
  <2> QED
    BY <1>0, <2>1, <2>2, <2>4, <2>5, SameAccount
<1>4. CASE ~Fail(s) /\ read_key(s)
  <2>1. /\ pc[s] = "key" /\ pc'[s] = "check"
        /\ job'[s] = [job[s] EXCEPT !.staged.key = lineage[job[s].dom].key]
    BY <1>0, <1>4 DEF read_key, Goto, TypeOK
  <2>2. /\ job'[s].goal = job[s].goal /\ job'[s].failed = job[s].failed
        /\ job'[s].updated = job[s].updated /\ job'[s].todo = job[s].todo
        /\ job'[s].dom = job[s].dom
        /\ job'[s].staged.cert = job[s].staged.cert
    BY <1>0, <2>1 DEF Job, Bundle
  <2>3. \A d \in Domains : Pending(s, d) => Pending(s, d)' \/ ~Owed(s, d)
    BY <2>1, <2>2 DEF Pending, Publication
  <2>4. StagedNew(s)'
    BY <2>1, <2>2 DEF ServeOK, StagedNew, Publication
  <2> QED
    BY <1>0, <2>1, <2>2, <2>3, <2>4, SameAccount
<1> QED
  BY <1>2, <1>3, <1>4

\* The steps of a publication that only move on, and those of the end of the run.
LEMMA PassAccount ==
  ASSUME TypeOK, NEW s \in Publishers, ServeOK(s),
         \/ cert_publish_check(s) \/ backup_existing_pem(s) \/ backup_existing_pem_copy(s)
         \/ cert_retire_end(s) \/ haproxy_config_ok(s) \/ script_reload(s)
  PROVE  ServeOK(s)'
<1>0. UNCHANGED <<lineage, expired, pem>> /\ job[s] \in Job /\ pc[s] # "idle"
  BY DEF cert_publish_check, backup_existing_pem, backup_existing_pem_copy, cert_retire_end,
         haproxy_config_ok, script_reload, TypeOK
<1>1. CASE Fail(s)
  BY <1>0, <1>1, FailedAccount
<1>2. CASE \E r : Exit(s, r)
  <2>1. pc'[s] = "idle"
    BY <1>2 DEF Exit, Goto, TypeOK
  <2> QED
    BY <2>1, IdleAccount
<1>3. CASE /\ UNCHANGED job /\ pc[s] \in {"check", "backup", "copy"}
           /\ pc'[s] \in {"backup", "copy", "swap"}
  <2>1. \A d \in Domains : Pending(s, d) => Pending(s, d)' \/ ~Owed(s, d)
    BY <1>3 DEF Pending, Publication
  <2>2. StagedNew(s)'
    BY <1>3 DEF ServeOK, StagedNew, Publication
  <2> QED
    BY <1>0, <1>3, <2>1, <2>2, SameAccount
<1>4. CASE UNCHANGED job /\ pc[s] = "retire" /\ pc'[s] = "gate"
  <2>1. \A d \in Domains : Pending(s, d) => Pending(s, d)' \/ ~Owed(s, d)
    BY <1>4 DEF Pending, Publication
  <2> QED
    BY <1>0, <1>4, <2>1, SameAccount DEF StagedNew, Publication
<1>5. CASE UNCHANGED job /\ pc[s] = "gate" /\ pc'[s] = "signal" /\ DirLoads
  <2>1. GoalIssued(s)'
    BY <1>0, <1>5 DEF ServeOK, GoalIssued
  <2>2. Accounted(s)'
    BY <1>0, <1>5 DEF ServeOK, Accounted, Owed, Kept, Pending, Publication
  <2>3. DirLoads'
    BY <1>0, <1>5 DEF DirLoads, Remaining, Published
  <2> QED
    BY <1>5, <2>1, <2>2, <2>3 DEF ServeOK, StagedNew, Publication, Judged
<1>6. CASE cert_publish_check(s)
  BY <1>1, <1>3, <1>6 DEF cert_publish_check, Goto, TypeOK
<1>7. CASE backup_existing_pem(s) \/ backup_existing_pem_copy(s)
  BY <1>3, <1>7 DEF backup_existing_pem, backup_existing_pem_copy, Goto, TypeOK
<1>8. CASE cert_retire_end(s)
  BY <1>2, <1>4, <1>8 DEF cert_retire_end, Goto, TypeOK
<1>9. CASE haproxy_config_ok(s)
  BY <1>2, <1>5, <1>9 DEF haproxy_config_ok, Goto, TypeOK
<1>10. CASE script_reload(s)
  BY <1>2, <1>10 DEF script_reload
<1> QED
  BY <1>6, <1>7, <1>8, <1>9, <1>10

LEMMA SwapAccount ==
  ASSUME TypeOK, NEW s \in Publishers, ServeOK(s), cert_publish_swap(s)
  PROVE  ServeOK(s)'
<1>0. /\ UNCHANGED <<lineage, expired>> /\ job[s] \in Job /\ pc[s] = "swap"
      /\ job[s].dom \in Domains
  BY DEF cert_publish_swap, TypeOK, Publishing, Job
<1>1. CASE Fail(s)
  BY <1>0, <1>1, FailedAccount
<1>2. CASE /\ pem' = [pem EXCEPT ![job[s].dom] = job[s].staged]
           /\ Done(s, "next", [job[s] EXCEPT !.updated = TRUE])
  <2> DEFINE j == [job[s] EXCEPT !.updated = TRUE]
  <2>1. /\ j.goal = job[s].goal /\ j.failed = job[s].failed /\ j.updated
        /\ j.todo = job[s].todo /\ j \in Job
    BY <1>0 DEF Job
  <2>2. job'[s] = [j EXCEPT !.dom = NoDomain, !.staged = NoBundle, !.was = 0] /\ pc'[s] = "next"
    BY <1>2 DEF Done, Goto, TypeOK
  <2> HIDE DEF j
  <2>3. /\ job'[s].goal = job[s].goal /\ job'[s].failed = job[s].failed /\ job'[s].updated
        /\ job'[s].todo = job[s].todo
    BY <2>1, <2>2 DEF Job
  <2>4. GoalIssued(s)'
    BY <1>0, <2>3 DEF ServeOK, GoalIssued
  <2>5. ASSUME NEW d \in Domains, Owed(s, d)' PROVE Pending(s, d)' \/ Kept(s, d)'
    <3>1. Pending(s, d) \/ Kept(s, d)
      BY <1>0, <2>3, <2>5 DEF ServeOK, Accounted, Owed
    <3>2. CASE d = job[s].dom
      <4>1. pem'[d] = job[s].staged
        BY <1>0, <1>2, <3>2 DEF TypeOK
      <4>2. job[s].staged.cert >= job[s].goal[d]
        BY <1>0, <3>2 DEF ServeOK, StagedNew, Publication
      <4> QED
        BY <2>3, <4>1, <4>2 DEF Kept
    <3>3. CASE d # job[s].dom
      <4>1. pem'[d] = pem[d]
        BY <1>2, <3>3 DEF TypeOK
      <4> QED
        BY <1>0, <2>2, <2>3, <3>1, <3>3, <4>1 DEF Pending, Kept
    <3> QED
      BY <3>2, <3>3
  <2> QED
    BY <2>2, <2>4, <2>5 DEF ServeOK, Accounted, StagedNew, Publication, Judged
<1> QED
  BY <1>1, <1>2 DEF cert_publish_swap

\* Retirement drops a file that has expired, so nothing that is owed.
LEMMA RetireAccount ==
  ASSUME TypeOK, NEW s \in Publishers, ServeOK(s), RetireOK(s),
         \/ cert_retire_begin(s) \/ cert_retire_check(s) \/ cert_retire_count(s)
         \/ cert_retire_move(s)
  PROVE  ServeOK(s)'
<1>0. /\ UNCHANGED <<lineage, expired>> /\ job[s] \in Job
      /\ pc[s] \in {"next", "retire", "count", "move"} /\ (pc[s] = "next" => job[s].todo = {})
  BY DEF cert_retire_begin, cert_retire_check, cert_retire_count, cert_retire_move, TypeOK
<1>1. /\ pc'[s] \in {"retire", "count", "move"}
      /\ job'[s].goal = job[s].goal /\ job'[s].failed = job[s].failed
      /\ job[s].updated => job'[s].updated
  <2>1. CASE cert_retire_begin(s)
    BY <1>0, <2>1 DEF cert_retire_begin, Goto, TypeOK, Job
  <2>2. CASE \E k \in Job : /\ Done(s, "retire", k)
                            /\ k.goal = job[s].goal /\ k.failed = job[s].failed
                            /\ job[s].updated => k.updated
    <3>1. PICK k \in Job : /\ Done(s, "retire", k)
                           /\ k.goal = job[s].goal /\ k.failed = job[s].failed
                           /\ job[s].updated => k.updated
      BY <2>2
    <3>2. /\ job'[s] = [k EXCEPT !.dom = NoDomain, !.staged = NoBundle, !.was = 0]
          /\ pc'[s] = "retire"
      BY <3>1 DEF Done, Goto, TypeOK
    <3> QED
      BY <3>1, <3>2 DEF Job
  <2>3. CASE cert_retire_check(s)
    <3>1. PICK d \in job[s].todo :
            \/ Goto(s, "count") /\ job' = [job EXCEPT ![s].dom = d, ![s].todo = @ \ {d}]
            \/ Done(s, "retire", [job[s] EXCEPT !.todo = @ \ {d}])
      BY <2>3 DEF cert_retire_check
    <3>2. CASE Goto(s, "count") /\ job' = [job EXCEPT ![s].dom = d, ![s].todo = @ \ {d}]
      <4>1. /\ job'[s] = [job[s] EXCEPT !.dom = d, !.todo = @ \ {d}] /\ pc'[s] = "count"
        BY <3>2 DEF Goto, TypeOK
      <4> QED
        BY <1>0, <4>1 DEF Job
    <3>3. CASE Done(s, "retire", [job[s] EXCEPT !.todo = @ \ {d}])
      <4> DEFINE k == [job[s] EXCEPT !.todo = @ \ {d}]
      <4>1. /\ k \in Job /\ k.goal = job[s].goal /\ k.failed = job[s].failed
            /\ job[s].updated => k.updated
        BY <1>0 DEF Job
      <4> QED
        BY <2>2, <3>3, <4>1
    <3> QED
      BY <3>1, <3>2, <3>3
  <2>4. CASE cert_retire_count(s)
    <3>1. CASE Done(s, "retire", job[s])
      BY <1>0, <2>2, <3>1
    <3>2. CASE Goto(s, "move") /\ UNCHANGED job
      BY <3>2 DEF Goto, TypeOK
    <3> QED
      BY <2>4, <3>1, <3>2 DEF cert_retire_count
  <2>5. CASE cert_retire_move(s)
    <3>1. /\ [job[s] EXCEPT !.updated = TRUE] \in Job
          /\ [job[s] EXCEPT !.updated = TRUE].goal = job[s].goal
          /\ [job[s] EXCEPT !.updated = TRUE].failed = job[s].failed
          /\ [job[s] EXCEPT !.updated = TRUE].updated
      BY <1>0 DEF Job
    <3>2. CASE Done(s, "retire", [job[s] EXCEPT !.updated = TRUE])
      BY <2>2, <3>1, <3>2
    <3>3. CASE Done(s, "retire", job[s])
      BY <1>0, <2>2, <3>3
    <3> QED
      BY <2>5, <3>2, <3>3 DEF cert_retire_move
  <2> QED
    BY <2>1, <2>3, <2>4, <2>5
<1>2. ASSUME NEW d \in Domains, Owed(s, d) PROVE Kept(s, d) /\ pem'[d] = pem[d]
  <2>1. Kept(s, d)
    <3>1. Pending(s, d) \/ Kept(s, d)
      BY <1>2 DEF ServeOK, Accounted
    <3> QED
      BY <1>0, <3>1 DEF Pending, Publication
  <2>2. CASE UNCHANGED pem
    BY <2>1, <2>2
  <2>3. CASE cert_retire_move(s) /\ d # job[s].dom
    BY <2>1, <2>3 DEF cert_retire_move, TypeOK
  <2>4. ~(pc[s] = "move" /\ d = job[s].dom)
    <3>1. pc[s] = "move" /\ d = job[s].dom => pem[d].cert <= expired[d]
      BY DEF RetireOK, cert_is_expired
    <3>2. pem[d].cert > expired[d]
      BY <1>2, <2>1, JobNumbers DEF Owed, Kept
    <3> QED
      BY <3>1, <3>2, JobNumbers
  <2> QED
    BY <2>2, <2>3, <2>4
       DEF cert_retire_begin, cert_retire_check, cert_retire_count, cert_retire_move
<1>3. GoalIssued(s)'
  BY <1>0, <1>1 DEF ServeOK, GoalIssued
<1>4. Accounted(s)'
  BY <1>0, <1>1, <1>2 DEF Accounted, Owed, Kept
<1> QED
  BY <1>1, <1>3, <1>4 DEF ServeOK, StagedNew, Publication, Judged

\* certbot and time go on in one direction.
LEMMA EnvironmentAccount ==
  ASSUME TypeOK, TypeOK', [Next]_vars, NEW s \in Publishers, ServeOK(s),
         UNCHANGED <<pem, pc, job>>
  PROVE  ServeOK(s)'
<1>1. \A d \in Domains : /\ lineage'[d].cert \in Nat /\ lineage'[d].cert >= lineage[d].cert
                         /\ lineage[d].cert \in Nat /\ job[s].goal[d] \in Nat
  BY LineageGrows, JobNumbers
<1>2. GoalIssued(s)'
  BY <1>1 DEF ServeOK, GoalIssued
<1>3. \A d \in Domains : expired'[d] >= expired[d] /\ expired[d] \in Nat /\ expired'[d] \in Nat
  BY ExpiredGrows DEF expire, TypeOK, Material
<1>4. \A d \in Domains : Owed(s, d)' => Owed(s, d)
  BY <1>1, <1>3 DEF Owed
<1>5. Accounted(s)'
  BY <1>4 DEF ServeOK, Accounted, Pending, Kept
<1>6. StagedNew(s)'
  BY DEF ServeOK, StagedNew
<1>7. Judged(s)'
  BY DEF ServeOK, Judged, DirLoads, Remaining, Published
<1> QED
  BY <1>2, <1>5, <1>6, <1>7 DEF ServeOK

LEMMA ServeStep ==
  ASSUME Api = {}, TypeOK, TypeOK', [Next]_vars, NEW s \in Scripts,
         \A t \in Publishers : t = s, ServeOK(s), RetireOK(s)
  PROVE  ServeOK(s)'
<1>1. CASE UNCHANGED <<pem, pc, job>>
  BY <1>1, EnvironmentAccount
<1>2. CASE script_start(s)
  BY <1>2, StartAccount
<1>3. CASE killed(s)
  <2>1. pc'[s] = "idle"
    BY <1>3 DEF killed, Goto, TypeOK
  <2> QED
    BY <2>1, IdleAccount
<1>4. CASE SharedStep(s)
  BY <1>4, ReadAccount, PassAccount DEF SharedStep
<1>5. CASE ScriptStep(s)
  BY <1>5, NextAccount, SwapAccount, PassAccount, RetireAccount DEF ScriptStep
<1>6. ~api_start(s) /\ ~ApiStep(s)
  BY DEF api_start, ApiStep, publish_pem_bundle_next, publish_pem_bundle_check,
         publish_pem_bundle_swap, api_reload
<1> QED
  BY <1>1, <1>2, <1>3, <1>4, <1>5, <1>6, EnvironmentStep, NextParts DEF Step

\* A run ends with exit 0 without a reload, or with one.
LEMMA CleanEnd ==
  ASSUME TypeOK, [Next]_vars, NEW s \in Scripts, \A t \in Publishers : t = s,
         status'[s] = "ok", status[s] # "ok"
  PROVE  cert_retire_end(s) \/ script_reload(s)
<1>0. status \in [Scripts -> {"none", "ok", "failed"}] /\ status' # status
  BY DEF TypeOK
<1>1. PICK u \in Publishers : script_start(u) \/ api_start(u) \/ Step(u) \/ killed(u)
  BY <1>0, NextParts DEF certbot_renew, certbot_finish, expire, other_reload, vars
<1>2. u = s
  OBVIOUS
<1>3. ~script_start(s)
  BY <1>0 DEF script_start
<1>4. ~killed(s)
  BY <1>0 DEF killed
<1>5. ~api_start(s)
  BY <1>0 DEF api_start
<1>6. ~SharedStep(s)
  BY <1>0 DEF SharedStep, read_cert, read_key, backup_existing_pem, backup_existing_pem_copy
<1>7. ~ApiStep(s)
  BY <1>0 DEF ApiStep, publish_pem_bundle_next, publish_pem_bundle_check,
              publish_pem_bundle_swap, api_reload
<1>8. ~haproxy_config_ok(s)
  BY <1>0 DEF haproxy_config_ok, Exit
<1>9. ~cert_publish_next(s) /\ ~cert_publish_check(s) /\ ~cert_publish_swap(s)
  BY <1>0 DEF cert_publish_next, cert_publish_check, cert_publish_swap
<1>10. ~cert_retire_begin(s) /\ ~cert_retire_check(s) /\ ~cert_retire_count(s) /\ ~cert_retire_move(s)
  BY <1>0 DEF cert_retire_begin, cert_retire_check, cert_retire_count, cert_retire_move
<1> QED
  BY <1>1, <1>2, <1>3, <1>4, <1>5, <1>6, <1>7, <1>8, <1>9, <1>10 DEF Step, ScriptStep

\* After exit 0 of a script that ran alone every pair that was in live/ when it
\* began and has not expired is published, or a newer one is, and HAProxy serves
\* it unless the final reload was taken by the socket and did nothing - whatever
\* certbot renewed, whatever expired and whatever else reloaded HAProxy in between.
THEOREM CleanRunsServe ==
  ASSUME Api = {}, \A s, u \in Scripts : s = u
  PROVE  Spec => CleanRunServes
<1> DEFINE Serving == \A s \in Scripts : ServeOK(s)
<1>1. Init => Serving
  BY IdleAccount DEF Init, ServeOK, GoalIssued, Accounted, Owed, StagedNew, Publication, Judged
<1>2. Serving /\ RetireInv /\ [Next]_vars => Serving'
  <2> SUFFICES ASSUME Serving, RetireInv, [Next]_vars, NEW s \in Scripts PROVE ServeOK(s)'
    OBVIOUS
  <2>1. TypeOK /\ TypeOK' /\ RetireOK(s)
    BY NextTypes DEF RetireInv
  <2>2. \A t \in Publishers : t = s
    OBVIOUS
  <2> QED
    BY <2>1, <2>2, ServeStep
<1>3. ASSUME Serving, RetireInv, [Next]_vars, NEW s \in Scripts, status'[s] = "ok", status[s] # "ok",
             NEW d \in Domains, job[s].goal[d] > expired[d]
      PROVE  /\ pem'[d].cert >= job[s].goal[d]
             /\ faults' = faults => served'[d].cert >= job[s].goal[d]
  <2>1. TypeOK /\ ServeOK(s)
    BY <1>3 DEF RetireInv
  <2>2. cert_retire_end(s) \/ script_reload(s)
    BY <1>3, <2>1, CleanEnd
  <2>3. ~job[s].failed /\ pc[s] \in {"retire", "signal"} /\ (pc[s] = "retire" => ~job[s].updated)
    BY <1>3, <2>1, <2>2 DEF cert_retire_end, script_reload, Exit, TypeOK
  <2>4. Kept(s, d)
    <3>1. Owed(s, d)
      BY <1>3, <2>3 DEF Owed
    <3>2. Pending(s, d) \/ Kept(s, d)
      BY <2>1, <3>1 DEF ServeOK, Accounted
    <3> QED
      BY <2>3, <3>2 DEF Pending, Publication
  <2>5. script_reload(s) /\ DirLoads
    BY <2>1, <2>2, <2>3, <2>4 DEF Kept, cert_retire_end, ServeOK, Judged
  <2>6. pem' = pem /\ (faults' = faults => served' = pem)
    <3>1. faults \in Nat
      BY <2>1 DEF TypeOK
    <3>2. ~(status'[s] = "failed") /\ status \in [Scripts -> {"none", "ok", "failed"}]
      BY <1>3, <2>1 DEF TypeOK
    <3>3. ~Exit(s, "failed")
      BY <3>2 DEF Exit
    <3>4. pem' = pem /\ (served' = Loaded \/ Fault)
      BY <2>5, <3>3 DEF script_reload
    <3>5. Fault => faults' # faults
      BY <3>1 DEF Fault
    <3> QED
      BY <2>5, <3>4, <3>5 DEF Loaded
  <2> QED
    BY <2>4, <2>6 DEF Kept
<1>4. Serving /\ RetireInv /\ [Next]_vars =>
        [\A s \in Scripts : status'[s] = "ok" /\ status[s] # "ok" =>
            \A d \in Domains : job[s].goal[d] > expired[d]
                => /\ pem'[d].cert >= job[s].goal[d]
                   /\ faults' = faults => served'[d].cert >= job[s].goal[d]]_vars
  BY <1>3
<1>5. Init => RetireInv
  BY InitTypes DEF Init, RetireInv, RetireOK
<1>6. RetireInv /\ [Next]_vars => RetireInv'
  BY RetireStep
<1> HIDE DEF Serving
<1> QED
  BY <1>1, <1>2, <1>4, <1>5, <1>6, PTL DEF Spec, CleanRunServes
=============================================================================
