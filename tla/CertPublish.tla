----------------------------- MODULE CertPublish -----------------------------
(***************************************************************************)
(* How a renewed certificate gets from certbot's lineage into the crt      *)
(* directory HAProxy loads.                                                *)
(*                                                                         *)
(* Two programs publish: the scripts renew-certificates.sh and             *)
(* sync-certificates.sh (cert_publish of cert-publish-lib.sh) and the      *)
(* threads of the API (publish_pem_bundle of haproxy_manager.py).  Both    *)
(* read the certificate and the key of a lineage one after the other,      *)
(* assemble them outside the crt directory, judge the result and rename it *)
(* into place.  The scripts also move expired bundles out.  certbot        *)
(* replaces the two files of a lineage meanwhile, certificates expire, and *)
(* any reload of HAProxy loads the directory as it is at that moment.      *)
(*                                                                         *)
(* A certificate or key is its number in the lineage, 0 when it is missing *)
(* or unusable; a bundle cut short has lost its key.                       *)
(***************************************************************************)
EXTENDS Naturals, FiniteSets

CONSTANTS
    Domains,     \* names of lineages; lineage d is published as d.pem
    NoDomain,    \* no name
    Scripts,     \* runs of the two scripts (cron, host-renew-certificates.sh)
    Api,         \* API threads
    HasDefault,  \* default_self_signed_cert.pem is in the crt directory
    MaxSerial,   \* bound: certificates issued for one lineage
    MaxFaults    \* bound: failures injected in one behaviour

ASSUME PublishAssumption ==
    /\ IsFiniteSet(Domains) /\ NoDomain \notin Domains
    /\ Scripts \cap Api = {}
    /\ HasDefault \in BOOLEAN
    /\ MaxSerial \in Nat \ {0} /\ MaxFaults \in Nat

VARIABLES
    lineage,  \* /etc/letsencrypt/live/<d>: fullchain.pem and privkey.pem
    expired,  \* certificates 1..expired[d] of lineage d have expired
    pem,      \* the crt directory: the bundle published as <d>.pem
    bak,      \* cert-backups/<d>.pem
    served,   \* what HAProxy has loaded
    pc,       \* where each publisher is
    job,      \* what it is working on
    status,   \* how a script's last run exited
    faults    \* history: failures injected so far

vars == <<lineage, expired, pem, bak, served, pc, job, status, faults>>
env  == <<lineage, expired>>

Publishers == Scripts \cup Api
Material   == 0..MaxSerial
Bundle     == [cert: Material, key: Material]
NoBundle   == [cert |-> 0, key |-> 0]
Pair(n)    == [cert |-> n, key |-> n]
Torn(b)    == [b EXCEPT !.key = 0]

\* Each block is there and terminated.
validate_pem_structure(b) == b.cert # 0 /\ b.key # 0

\* Both layers: the structure, and the public key of the certificate is the key's.
cert_bundle_valid(b) == validate_pem_structure(b) /\ b.cert = b.key

\* openssl x509 -checkend 0: positively expired, so never for an unreadable file.
cert_is_expired(d, n) == n # 0 /\ n <= expired[d]

\* The certificates in the crt directory.
Published(dir) == {d \in Domains : dir[d] # NoBundle}
Remaining(dir) == Cardinality(Published(dir)) + (IF HasDefault THEN 1 ELSE 0)

\* HAProxy loads every file of the directory or refuses to bind; a reload onto
\* a directory it refuses leaves it with what it has.
DirLoads == Remaining(pem) > 0 /\ \A d \in Published(pem) : cert_bundle_valid(pem[d])
Loaded   == IF DirLoads THEN pem ELSE served

\* dom, staged: the publication under way; todo: the names left in this loop;
\* was: what had expired when the publication began, goal: the valid pairs
\* when the script began (both history).
Job == [dom: Domains \cup {NoDomain}, todo: SUBSET Domains, staged: Bundle,
        updated: BOOLEAN, failed: BOOLEAN,
        was: Material, goal: [Domains -> Material]]
NoGoal == [d \in Domains |-> 0]
NoJob  == [dom |-> NoDomain, todo |-> {}, staged |-> NoBundle,
           updated |-> FALSE, failed |-> FALSE, was |-> 0, goal |-> NoGoal]

Publishing == {"cert", "key", "check", "backup", "copy", "swap", "count", "move"}
Labels     == Publishing \cup {"idle", "next", "retire", "gate", "signal", "reload"}

TypeOK ==
    /\ lineage \in [Domains -> Bundle]
    /\ expired \in [Domains -> Material]
    /\ pem \in [Domains -> Bundle] /\ bak \in [Domains -> Bundle]
    /\ served \in [Domains -> Bundle]
    /\ pc \in [Publishers -> Labels]
    /\ job \in [Publishers -> Job]
    /\ \A t \in Publishers : pc[t] \in Publishing <=> job[t].dom # NoDomain
    /\ status \in [Scripts -> {"none", "ok", "failed"}]
    /\ faults \in Nat
-----------------------------------------------------------------------------
Fault == faults < MaxFaults /\ faults' = faults + 1

Goto(t, label) == pc' = [pc EXCEPT ![t] = label]

\* The publisher is done with one name and goes on with its loop.
Done(t, label, j) ==
    /\ Goto(t, label)
    /\ job' = [job EXCEPT ![t] = [j EXCEPT !.dom = NoDomain, !.staged = NoBundle, !.was = 0]]

\* Mutant: the loop goes on with the name of the publication that failed.
Fail_KeepsName(t) == Goto(t, "next") /\ job' = [job EXCEPT ![t].failed = TRUE]

\* Mutant: the counter of failures is lost with the subshell of a pipeline.
Fail_InSubshell(t) == Done(t, "next", job[t])

\* FAILED=$((FAILED + 1)), publish_failures.append(...): the live bundle is as it was.
Fail(t) == Done(t, "next", [job[t] EXCEPT !.failed = TRUE])

Exit(s, result) ==
    /\ Goto(s, "idle")
    /\ job' = [job EXCEPT ![s] = NoJob]
    /\ status' = [status EXCEPT ![s] = result]
-----------------------------------------------------------------------------
(* certbot and time *)

\* certbot has a new certificate and key and replaces the first of the two links.
certbot_renew(d) ==
    LET n == lineage[d].cert + 1 IN
    /\ lineage[d] = NoBundle \/ cert_bundle_valid(lineage[d])
    /\ n <= MaxSerial
    /\ \E f \in {"cert", "key"} : lineage' = [lineage EXCEPT ![d][f] = n]
    /\ UNCHANGED <<expired, pem, bak, served, pc, job, status, faults>>

\* It replaces the other one.
certbot_finish(d) ==
    LET l == lineage[d] IN
    /\ l.cert # l.key
    /\ lineage' = [lineage EXCEPT ![d] = Pair(IF l.cert > l.key THEN l.cert ELSE l.key)]
    /\ UNCHANGED <<expired, pem, bak, served, pc, job, status, faults>>

\* The oldest certificate of the lineage that is still valid expires.
expire(d) ==
    /\ expired[d] < lineage[d].cert
    /\ expired' = [expired EXCEPT ![d] = @ + 1]
    /\ UNCHANGED <<lineage, pem, bak, served, pc, job, status, faults>>
-----------------------------------------------------------------------------
(* The loops around a publication *)

\* The script lists live/ once; without lineages it ends at once.
script_start(s) ==
    LET present == {d \in Domains : lineage[d] # NoBundle} IN
    /\ s \in Scripts /\ pc[s] = "idle" /\ present # {}
    /\ Goto(s, "next")
    /\ job' = [job EXCEPT ![s] =
                [NoJob EXCEPT !.todo = present,
                              !.goal = [d \in Domains |->
                                  IF cert_bundle_valid(lineage[d]) THEN lineage[d].cert ELSE 0]]]
    /\ status' = [status EXCEPT ![s] = "none"]
    /\ UNCHANGED <<env, pem, bak, served, faults>>

\* Mutant: the script does not look at the expiry of the lineage.
cert_publish_next_NoExpiryCheck(s) ==
    /\ s \in Scripts /\ pc[s] = "next"
    /\ \E d \in job[s].todo :
        /\ Goto(s, "cert")
        /\ job' = [job EXCEPT ![s].dom = d, ![s].todo = @ \ {d}, ![s].was = expired[d]]
    /\ UNCHANGED <<env, pem, bak, served, status, faults>>

\* Mutant: a bundle that is published already is skipped.
cert_publish_next_SkipUnchanged(s) ==
    /\ s \in Scripts /\ pc[s] = "next"
    /\ \E d \in job[s].todo :
        IF cert_is_expired(d, lineage[d].cert) \/ pem[d] = lineage[d]
        THEN Done(s, "next", [job[s] EXCEPT !.todo = @ \ {d}])
        ELSE /\ Goto(s, "cert")
             /\ job' = [job EXCEPT ![s].dom = d, ![s].todo = @ \ {d}, ![s].was = expired[d]]
    /\ UNCHANGED <<env, pem, bak, served, status, faults>>

\* One turn of the script's loop and the guards of cert_publish: an expired
\* lineage is skipped, which is no failure.
cert_publish_next(s) ==
    /\ s \in Scripts /\ pc[s] = "next"
    /\ \E d \in job[s].todo :
        IF cert_is_expired(d, lineage[d].cert)
        THEN Done(s, "next", [job[s] EXCEPT !.todo = @ \ {d}])
        ELSE /\ Goto(s, "cert")
             /\ job' = [job EXCEPT ![s].dom = d, ![s].todo = @ \ {d}, ![s].was = expired[d]]
    /\ UNCHANGED <<env, pem, bak, served, status, faults>>

\* An API call has lineages to publish: one (request_ssl, request_ssl_bundle)
\* or several (request_certificates, renew_certificates).
api_start(a) ==
    /\ a \in Api /\ pc[a] = "idle"
    /\ \E S \in SUBSET {d \in Domains : lineage[d] # NoBundle} :
        /\ S # {}
        /\ job' = [job EXCEPT ![a] = [NoJob EXCEPT !.todo = S]]
    /\ Goto(a, "next")
    /\ UNCHANGED <<env, pem, bak, served, status, faults>>

\* publish_pem_bundle() of the next one; after the last, generate_config().  A
\* request for one certificate that was not published returns without it.
publish_pem_bundle_next(a) ==
    /\ a \in Api /\ pc[a] = "next"
    /\ \/ \E d \in job[a].todo :
            /\ Goto(a, "cert")
            /\ job' = [job EXCEPT ![a].dom = d, ![a].todo = @ \ {d}, ![a].was = expired[d]]
       \/ /\ job[a].todo = {}
          /\ \/ Goto(a, "reload")
             \/ ~job[a].updated /\ Goto(a, "idle")
          /\ job' = [job EXCEPT ![a] = NoJob]
    /\ UNCHANGED <<env, pem, bak, served, status, faults>>
-----------------------------------------------------------------------------
(* One publication: both programs read the sources in this order *)

read_cert(t) ==
    /\ pc[t] = "cert"
    /\ job' = [job EXCEPT ![t].staged.cert = lineage[job[t].dom].cert]
    /\ Goto(t, "key")
    /\ UNCHANGED <<env, pem, bak, served, status, faults>>

\* A staging file that cannot be written is removed.
read_key(t) ==
    /\ pc[t] = "key"
    /\ \/ /\ job' = [job EXCEPT ![t].staged.key = lineage[job[t].dom].key]
          /\ Goto(t, "check")
          /\ UNCHANGED faults
       \/ Fault /\ Fail(t)
    /\ UNCHANGED <<env, pem, bak, served, status>>

\* (d): the assembled file is judged before anything else is touched.
cert_publish_check(s) ==
    /\ s \in Scripts /\ pc[s] = "check"
    /\ IF cert_bundle_valid(job[s].staged)
       THEN Goto(s, "backup") /\ UNCHANGED job
       ELSE Fail(s)
    /\ UNCHANGED <<env, pem, bak, served, status, faults>>

\* The structure of what was read, and the expiry of the source as it is now.
publish_pem_bundle_check(a) ==
    LET d == job[a].dom IN
    /\ a \in Api /\ pc[a] = "check"
    /\ IF validate_pem_structure(job[a].staged) /\ ~cert_is_expired(d, lineage[d].cert)
       THEN Goto(a, "backup") /\ UNCHANGED job
       ELSE Fail(a)
    /\ UNCHANGED <<env, pem, bak, served, status, faults>>

\* Mutant: whatever is published is backed up.
backup_existing_pem_Unchecked(t) ==
    /\ pc[t] = "backup"
    /\ Goto(t, IF pem[job[t].dom] # NoBundle THEN "copy" ELSE "swap")
    /\ UNCHANGED <<env, pem, bak, served, job, status, faults>>

\* Only a bundle that is itself valid replaces the backup; the scripts check
\* the pair, the API the structure.
backup_existing_pem(t) ==
    LET b == pem[job[t].dom]
        ok == IF t \in Scripts THEN cert_bundle_valid(b) ELSE validate_pem_structure(b)
    IN
    /\ pc[t] = "backup"
    /\ Goto(t, IF ok THEN "copy" ELSE "swap")
    /\ UNCHANGED <<env, pem, bak, served, job, status, faults>>

\* cp of what is there by now; a failure is logged and the publication goes on.
backup_existing_pem_copy(t) ==
    LET d == job[t].dom IN
    /\ pc[t] = "copy"
    /\ \/ /\ bak' = IF pem[d] = NoBundle THEN bak ELSE [bak EXCEPT ![d] = pem[d]]
          /\ UNCHANGED faults
       \/ /\ Fault /\ pem[d] # NoBundle
          /\ bak' = [bak EXCEPT ![d] = Torn(pem[d])]
    /\ Goto(t, "swap")
    /\ UNCHANGED <<env, pem, served, job, status>>

\* (f): mv within one file system.
cert_publish_swap(s) ==
    /\ s \in Scripts /\ pc[s] = "swap"
    /\ \/ /\ pem' = [pem EXCEPT ![job[s].dom] = job[s].staged]
          /\ Done(s, "next", [job[s] EXCEPT !.updated = TRUE])
          /\ UNCHANGED faults
       \/ Fault /\ Fail(s) /\ UNCHANGED pem
    /\ UNCHANGED <<env, bak, served, status>>

\* Mutant: write_config_atomically() is called without its validate argument.
publish_pem_bundle_swap_NoValidate(a) ==
    /\ a \in Api /\ pc[a] = "swap"
    /\ pem' = [pem EXCEPT ![job[a].dom] = job[a].staged]
    /\ Done(a, "next", [job[a] EXCEPT !.updated = TRUE])
    /\ UNCHANGED <<env, bak, served, status, faults>>

\* write_config_atomically() judges the staged file, and then os.replace()s it.
publish_pem_bundle_swap(a) ==
    /\ a \in Api /\ pc[a] = "swap"
    /\ \/ /\ cert_bundle_valid(job[a].staged) /\ UNCHANGED faults
          /\ pem' = [pem EXCEPT ![job[a].dom] = job[a].staged]
          /\ Done(a, "next", [job[a] EXCEPT !.updated = TRUE])
       \/ /\ ~cert_bundle_valid(job[a].staged) /\ UNCHANGED faults
          /\ Fail(a) /\ UNCHANGED pem
       \/ Fault /\ Fail(a) /\ UNCHANGED pem
    /\ UNCHANGED <<env, bak, served, status>>
-----------------------------------------------------------------------------
(* cert_retire_expired_pems, after the last publication of a script *)

cert_retire_begin(s) ==
    /\ s \in Scripts /\ pc[s] = "next" /\ job[s].todo = {}
    /\ Goto(s, "retire")
    /\ job' = [job EXCEPT ![s].todo = Published(pem)]
    /\ UNCHANGED <<env, pem, bak, served, status, faults>>

\* Mutant: every bundle that is not the one of its lineage is moved out.
cert_retire_check_Superseded(s) ==
    /\ s \in Scripts /\ pc[s] = "retire"
    /\ \E d \in job[s].todo :
        IF pem[d] # lineage[d]
        THEN Goto(s, "count") /\ job' = [job EXCEPT ![s].dom = d, ![s].todo = @ \ {d}]
        ELSE Done(s, "retire", [job[s] EXCEPT !.todo = @ \ {d}])
    /\ UNCHANGED <<env, pem, bak, served, status, faults>>

\* cert_is_expired on the published bundle.
cert_retire_check(s) ==
    /\ s \in Scripts /\ pc[s] = "retire"
    /\ \E d \in job[s].todo :
        IF cert_is_expired(d, pem[d].cert)
        THEN Goto(s, "count") /\ job' = [job EXCEPT ![s].dom = d, ![s].todo = @ \ {d}]
        ELSE Done(s, "retire", [job[s] EXCEPT !.todo = @ \ {d}])
    /\ UNCHANGED <<env, pem, bak, served, status, faults>>

\* Mutant: off by one in the count of what is left.
cert_retire_count_OffByOne(s) ==
    /\ s \in Scripts /\ pc[s] = "count"
    /\ IF Remaining(pem) < 1 THEN Done(s, "retire", job[s])
       ELSE Goto(s, "move") /\ UNCHANGED job
    /\ UNCHANGED <<env, pem, bak, served, status, faults>>

\* "the LAST .pem in the directory" stays.
cert_retire_count(s) ==
    /\ s \in Scripts /\ pc[s] = "count"
    /\ IF Remaining(pem) <= 1 THEN Done(s, "retire", job[s])
       ELSE Goto(s, "move") /\ UNCHANGED job
    /\ UNCHANGED <<env, pem, bak, served, status, faults>>

\* mv of what is there by now.
cert_retire_move(s) ==
    LET d == job[s].dom IN
    /\ s \in Scripts /\ pc[s] = "move"
    /\ \/ /\ pem[d] # NoBundle /\ UNCHANGED faults
          /\ pem' = [pem EXCEPT ![d] = NoBundle]
          /\ Done(s, "retire", [job[s] EXCEPT !.updated = TRUE])
       \/ /\ pem[d] = NoBundle \/ Fault
          /\ pem[d] = NoBundle => UNCHANGED faults
          /\ UNCHANGED pem
          /\ Done(s, "retire", job[s])
    /\ UNCHANGED <<env, bak, served, status>>

\* After the last bundle: reload if anything has changed, and exit.
cert_retire_end(s) ==
    /\ s \in Scripts /\ pc[s] = "retire" /\ job[s].todo = {}
    /\ IF job[s].updated THEN Goto(s, "gate") /\ UNCHANGED <<job, status>>
       ELSE Exit(s, IF job[s].failed THEN "failed" ELSE "ok")
    /\ UNCHANGED <<env, pem, bak, served, faults>>

\* haproxy -c; it also fails for reasons of haproxy.cfg.
haproxy_config_ok(s) ==
    /\ s \in Scripts /\ pc[s] = "gate"
    /\ \/ DirLoads /\ Goto(s, "signal") /\ UNCHANGED <<job, status, faults>>
       \/ ~DirLoads /\ Exit(s, "failed") /\ UNCHANGED faults
       \/ Fault /\ Exit(s, "failed")
    /\ UNCHANGED <<env, pem, bak, served>>

\* echo reload | socat, and the exit status of the run.  Exit status 0 of socat
\* says that the socket took the command, not that the master has loaded anything.
script_reload(s) ==
    /\ s \in Scripts /\ pc[s] = "signal"
    /\ \/ /\ \/ served' = Loaded /\ UNCHANGED faults
             \/ Fault /\ UNCHANGED served
          /\ Exit(s, IF job[s].failed THEN "failed" ELSE "ok")
       \/ Fault /\ Exit(s, "failed") /\ UNCHANGED served
    /\ UNCHANGED <<env, pem, bak>>

\* generate_config() of the API call: ConfigReload has the ways in which it
\* ends without a reload.
api_reload(a) ==
    /\ a \in Api /\ pc[a] = "reload"
    /\ served' \in {served, Loaded}
    /\ Goto(a, "idle")
    /\ UNCHANGED <<env, pem, bak, job, status, faults>>

\* Any other API call reloads HAProxy, and a restart loads the directory too.
other_reload ==
    /\ served' = Loaded
    /\ UNCHANGED <<env, pem, bak, pc, job, status, faults>>

\* The process is killed; a backup it was copying may be cut short, and its
\* staging file is never looked at again.
killed(t) ==
    LET d == job[t].dom IN
    /\ pc[t] # "idle" /\ Fault
    /\ \/ UNCHANGED bak
       \/ pc[t] = "copy" /\ pem[d] # NoBundle /\ bak' = [bak EXCEPT ![d] = Torn(pem[d])]
    /\ Goto(t, "idle")
    /\ job' = [job EXCEPT ![t] = NoJob]
    /\ status' = IF t \in Scripts THEN [status EXCEPT ![t] = "failed"] ELSE status
    /\ UNCHANGED <<env, pem, served>>
-----------------------------------------------------------------------------
\* The bundles of an earlier run, one of them perhaps cut short by the direct
\* write the scripts used to do.
Init ==
    /\ lineage \in [Domains -> {NoBundle, Pair(1)}]
    /\ expired = NoGoal
    /\ pem \in [Domains -> {NoBundle, Pair(1), Torn(Pair(1))}]
    /\ \A d \in Domains : lineage[d] = NoBundle => pem[d] = NoBundle
    /\ bak = [d \in Domains |-> NoBundle]
    /\ served = [d \in Domains |-> NoBundle]
    /\ pc = [t \in Publishers |-> "idle"]
    /\ job = [t \in Publishers |-> NoJob]
    /\ status = [s \in Scripts |-> "none"]
    /\ faults = 0

ScriptStep(s) ==
    \/ cert_publish_next(s) \/ cert_publish_check(s) \/ cert_publish_swap(s)
    \/ cert_retire_begin(s) \/ cert_retire_check(s) \/ cert_retire_count(s)
    \/ cert_retire_move(s) \/ cert_retire_end(s)
    \/ haproxy_config_ok(s) \/ script_reload(s)

ApiStep(a) ==
    \/ publish_pem_bundle_next(a) \/ publish_pem_bundle_check(a)
    \/ publish_pem_bundle_swap(a) \/ api_reload(a)

SharedStep(t) ==
    \/ read_cert(t) \/ read_key(t)
    \/ backup_existing_pem(t) \/ backup_existing_pem_copy(t)

Step(t) == ScriptStep(t) \/ ApiStep(t) \/ SharedStep(t)

Next ==
    \/ \E d \in Domains : certbot_renew(d) \/ certbot_finish(d) \/ expire(d)
    \/ \E t \in Publishers : script_start(t) \/ api_start(t) \/ Step(t) \/ killed(t)
    \/ other_reload

Spec == Init /\ [][Next]_vars

(* cron starts the scripts for ever and a run, an API call and a run of      *)
(* certbot come to their end: none of them waits for another.                *)
FairSpec ==
    /\ Spec
    /\ \A t \in Publishers : WF_vars(Step(t))
    /\ \A s \in Scripts : WF_vars(script_start(s))
    /\ \A d \in Domains : WF_vars(certbot_finish(d))
-----------------------------------------------------------------------------
(* Properties *)

\* "the live pem is either the old bundle or the new one and never a half-written
\* one": whatever certbot and the other publishers do meanwhile, a file that
\* appears in the crt directory is a certificate with its own key.
PublishesPairs ==
    [][\A d \in Domains :
          pem'[d] # pem[d] => pem'[d] = NoBundle \/ cert_bundle_valid(pem'[d])]_vars

\* "Overwriting a good backup with garbage would turn 'restore the backup' into
\* 'restore a different broken file'": unless the copy itself fails, what takes
\* the place of a backup is a certificate with its own key - also when the API
\* takes it, which checks less than that, and when the file was replaced or
\* moved away between the check and the copy.
BackupKept ==
    [][\A d \in Domains :
          bak'[d] # bak[d] /\ faults' = faults => cert_bundle_valid(bak'[d])]_vars

\* "Never publish an expired certificate": what replaces a bundle had not
\* expired when its publication began.
NoExpiredPublished ==
    [][\A t \in Publishers :
          LET d == job[t].dom IN
          pc[t] = "swap" /\ pem'[d] # pem[d] => job[t].staged.cert > job[t].was]_vars

\* "the only-valid-cert safety rule cannot be violated by moving it": a bundle
\* that leaves the crt directory holds an expired certificate.
RetiresOnlyExpired ==
    [][\A d \in Domains :
          pem[d] # NoBundle /\ pem'[d] = NoBundle => cert_is_expired(d, pem[d].cert)]_vars

\* "an empty crt directory fails the :443 bind": a directory with a certificate
\* never loses its last one.
NeverEmptied == [][Published(pem) # {} \/ HasDefault => Remaining(pem') > 0]_vars

\* "a run in which every domain failed to publish must not look like a clean run
\* to its caller": after exit 0 every pair that was in live/ when the script
\* began, and has not expired, is published, or a newer one is; and it is what
\* HAProxy serves, unless the last command was taken by the socket and came to
\* nothing (the one failure an exit with 0 can hide).
CleanRunServes ==
    [][\A s \in Scripts : status'[s] = "ok" /\ status[s] # "ok" =>
          \A d \in Domains : job[s].goal[d] > expired[d]
              => /\ pem'[d].cert >= job[s].goal[d]
                 /\ faults' = faults => served'[d].cert >= job[s].goal[d]]_vars

\* A lineage that stays renewed is what HAProxy serves in the end, whatever went
\* wrong on the way: runs killed between the rename and the reload, publishers
\* that overwrote it with what they had read before, a bundle cut short.
RenewalServed ==
    \A d \in Domains :
        <>[](cert_bundle_valid(lineage[d]) /\ ~cert_is_expired(d, lineage[d].cert))
            => <>[](served[d] = lineage[d])
=============================================================================
