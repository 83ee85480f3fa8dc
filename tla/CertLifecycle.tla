---------------------------- MODULE CertLifecycle ----------------------------
(***************************************************************************)
(* The life of a certificate in the API: issued by certbot into a lineage, *)
(* published into the crt directory, referred to by the rows of the        *)
(* domains table, superseded by a bundle and retired, or removed with the  *)
(* last domain that refers to it.                                          *)
(*                                                                         *)
(* One bundle serves many names, HAProxy loads the whole directory, and    *)
(* certbot renews every lineage it finds; so a file, a row and a lineage   *)
(* that belong together are changed by different steps, and a wrong step   *)
(* takes HTTPS from a site nobody was working on.  How a bundle is written *)
(* is CertPublish; here a publication takes one step or fails.             *)
(*                                                                         *)
(* A certificate is its number of issue, 0 when there is none.  A lineage  *)
(* is <<d, 0>> for live/d and <<d, 1>> for live/d-0001; the file           *)
(* <lineage>.pem of the crt directory has the lineage's name.              *)
(***************************************************************************)
EXTENDS Naturals, Sequences, FiniteSets

CONSTANTS
    Domains,     \* host names
    Groups,      \* bound: the sets of names certificates are asked for
    Www,         \* the names that begin with "www."
    Numbered,    \* the names for which certbot may make a -0001 lineage
    NoRow,       \* the domains table has no row
    NoPath,      \* a row without certificate, no lineage
    Threads,     \* API threads
    Serialized,  \* assumption: operations do not overlap
    FaultKinds,  \* the failures that are injected
    MaxIssued,   \* bound: certificates issued in one behaviour
    MaxFaults    \* bound: failures injected in one behaviour

Own(d)    == <<d, 0>>
Lineages  == {Own(d) : d \in Domains} \cup {<<d, 1>> : d \in Numbered}
Family(d) == {l \in Lineages : l[1] = d}

ASSUME LifecycleAssumption ==
    /\ IsFiniteSet(Domains) /\ Groups \subseteq SUBSET Domains
    /\ Www \subseteq Domains /\ Numbered \subseteq Domains
    /\ NoRow # NoPath /\ {NoRow, NoPath} \cap Lineages = {}
    /\ Serialized \in BOOLEAN
    /\ FaultKinds \subseteq {"publish", "select", "move", "generate", "unlink", "delete", "exit"}
    /\ MaxIssued \in Nat \ {0} /\ MaxFaults \in Nat

VARIABLES
    rows,     \* domains.ssl_cert_path: the row of each name
    issued,   \* the names of each certificate, in the order of issue
    expired,  \* certificates 1..expired have expired
    lineage,  \* /etc/letsencrypt: the newest certificate and the directories
    pem,      \* the crt directory
    pc,       \* where each thread is
    job,      \* what it is working on
    broken,   \* history: lineages whose restore failed or whose mover was killed
    faults    \* history: failures injected so far

vars == <<rows, issued, expired, lineage, pem, pc, job, broken, faults>>

Certs   == 0..MaxIssued
Parts   == {"renewal", "live", "archive"}
Lineage == [cert: Certs, parts: SUBSET Parts]
Deleted == [cert |-> 0, parts |-> {}]

\* The symlinks of live/ lead into archive/.
Readable(l) == {"live", "archive"} \subseteq lineage[l].parts
Whole(l)    == lineage[l].parts = Parts

Names(n)   == IF n = 0 THEN {} ELSE issued[n]
Expired(n) == n # 0 /\ n <= expired
Valid(n)   == n # 0 /\ n > expired

\* _served_names: every hostname this edge has a route for.
_served_names == {d \in Domains : rows[d] # NoRow}

\* own: the file worked on; names, gone: the body of the request; served, seen:
\* the answers of _served_names() and of the last look into the crt directory;
\* paths: the rows as renewal read them; todo: the rest of a loop; new: the
\* certificate published; tree, had, moved: the lineage on its way out, its
\* directories and how many are done; was: what had expired when the old files
\* were judged; clean: no step of this operation has failed (both history).
Job == {j \in [op: {"none", "bundle", "ssl", "certs", "renew", "remove"},
               own: Lineages \cup {NoPath}, names: SUBSET Domains, gone: SUBSET Domains,
               served: SUBSET Domains, seen: [Lineages -> Certs],
               paths: [Domains -> Lineages \cup {NoRow, NoPath}],
               todo: SUBSET Lineages, new: Certs, tree: Lineages \cup {NoPath},
               had: SUBSET Parts, moved: 0..2, was: Certs, clean: BOOLEAN] :
          j.own = NoPath => j.op \in {"none", "renew"}}

NoJob == [op |-> "none", own |-> NoPath, names |-> {}, gone |-> {}, served |-> {},
          seen |-> [l \in Lineages |-> 0], paths |-> [d \in Domains |-> NoRow],
          todo |-> {}, new |-> 0, tree |-> NoPath,
          had |-> {}, moved |-> 0, was |-> 0, clean |-> TRUE]

Labels == {"idle", "publish", "record", "inventory", "quarantine", "collect",
           "lineages", "tree", "restore", "renew", "unlink", "delete"}

TypeOK ==
    /\ rows \in [Domains -> Lineages \cup {NoRow, NoPath}]
    /\ issued \in Seq(SUBSET Domains) /\ Len(issued) <= MaxIssued
    /\ expired \in 0..Len(issued)
    /\ lineage \in [Lineages -> Lineage]
    /\ \A l \in Lineages : /\ lineage[l].cert <= Len(issued)
                           /\ "archive" \in lineage[l].parts => lineage[l].cert # 0
    /\ pem \in [Lineages -> 0..Len(issued)]
    /\ pc \in [Threads -> Labels] /\ job \in [Threads -> Job]
    /\ broken \subseteq Lineages /\ faults \in Nat
-----------------------------------------------------------------------------
Quiet == \A t \in Threads : pc[t] = "idle"
Free  == Serialized => Quiet

Goto(t, label, j) == pc' = [pc EXCEPT ![t] = label] /\ job' = [job EXCEPT ![t] = j]
                     /\ UNCHANGED faults
Leave(t)          == Goto(t, "idle", NoJob)

\* A step fails; label and j say where that leads.
Fail(t, kind, label, j) ==
    /\ kind \in FaultKinds /\ faults < MaxFaults
    /\ faults' = faults + 1
    /\ pc' = [pc EXCEPT ![t] = label]
    /\ job' = [job EXCEPT ![t] = IF label = "idle" THEN NoJob ELSE [j EXCEPT !.clean = FALSE]]
-----------------------------------------------------------------------------
(* certbot, time, and the scripts of CertPublish, each in one step *)

Issue(l, names) ==
    /\ Len(issued) < MaxIssued
    /\ issued' = Append(issued, names)
    /\ lineage' = [lineage EXCEPT ![l] = [cert |-> Len(issued) + 1, parts |-> Parts]]

\* certonly for a lineage: what is not yet due is kept, anything else is issued;
\* a name of which only some of the directories are there cannot be issued.
certonly(l, names) ==
    \/ Whole(l) /\ Names(lineage[l].cert) = names /\ Valid(lineage[l].cert)
       /\ UNCHANGED <<issued, lineage>>
    \/ (Whole(l) \/ lineage[l].parts = {}) /\ Issue(l, names)

\* Without --cert-name certbot takes the lineage with the same names; it expands
\* one with fewer only when forced, and makes <d> or <d>-0001 otherwise.
Chosen(d, names, forced) ==
    LET has(l) == Names(lineage[l].cert)
        same   == {l \in Lineages : Whole(l) /\ has(l) = names}
        fewer  == {l \in Lineages : Whole(l) /\ has(l) \subseteq names}
        free   == {l \in Family(d) : "renewal" \notin lineage[l].parts}
    IN  IF same # {} THEN same
        ELSE IF fewer # {} THEN {l \in fewer : forced}
        ELSE {l \in free : \A m \in free : l[2] <= m[2]}

\* certbot renew, from cron.
certbot_renew(l) ==
    /\ Free /\ Whole(l)
    /\ Issue(l, Names(lineage[l].cert))
    /\ UNCHANGED <<rows, expired, pem, pc, job, broken, faults>>

\* Certificates live equally long, so the oldest one expires first.
expire ==
    /\ Free /\ expired < Len(issued)
    /\ expired' = expired + 1
    /\ UNCHANGED <<rows, issued, lineage, pem, pc, job, broken, faults>>

\* renew-certificates.sh, sync-certificates.sh: live/<l> becomes <l>.pem.
cert_publish(l) ==
    /\ Free /\ Readable(l) /\ Valid(lineage[l].cert)
    /\ pem' = [pem EXCEPT ![l] = lineage[l].cert]
    /\ UNCHANGED <<rows, issued, expired, lineage, pc, job, broken, faults>>

\* The default certificate keeps the directory from becoming empty.
cert_retire_expired_pems(l) ==
    /\ Free /\ Expired(pem[l])
    /\ pem' = [pem EXCEPT ![l] = 0]
    /\ UNCHANGED <<rows, issued, expired, lineage, pc, job, broken, faults>>
-----------------------------------------------------------------------------
(* Issuing and publishing *)

add_domain(d) ==
    /\ Free /\ rows[d] = NoRow
    /\ rows' = [rows EXCEPT ![d] = NoPath]
    /\ UNCHANGED <<issued, expired, lineage, pem, pc, job, broken, faults>>

request_ssl_bundle(t, d, names, gone) ==
    /\ d \in names /\ names \cap gone = {}
    /\ certonly(Own(d), names)
    /\ Goto(t, "publish", [NoJob EXCEPT !.op = "bundle", !.own = Own(d),
                                        !.names = names, !.gone = gone])
    /\ UNCHANGED <<rows, expired, pem, broken>>

\* The name alone, without --cert-name.
request_ssl(t, d) ==
    /\ \E l \in Chosen(d, {d}, FALSE) : certonly(l, {d})
    /\ Goto(t, "publish", [NoJob EXCEPT !.op = "ssl", !.own = Own(d), !.names = {d}])
    /\ UNCHANGED <<rows, expired, pem, broken>>

\* One domain after the other, each with its www name or without, forced or not.
request_certificates(t, d, names) ==
    /\ \/ names = {d}
       \/ d \notin Www /\ \E www \in Www : names = {d, www}
    /\ \E l \in Chosen(d, names, TRUE) : certonly(l, names)
    /\ Goto(t, "publish", [NoJob EXCEPT !.op = "certs", !.own = Own(d), !.names = {d}])
    /\ UNCHANGED <<rows, expired, pem, broken>>

\* The newest of <d> and <d>-NNNN.
find_certbot_live_dir(d) ==
    {l \in Family(d) : Readable(l) /\ \A m \in Family(d) :
                       Readable(m) => lineage[l].cert >= lineage[m].cert}

\* Mutant: a bundle is taken from the newest directory, not from its --cert-name.
Source_Newest(j) == find_certbot_live_dir(j.own[1])

\* live/<primary> for a bundle, which was issued under that --cert-name.
Source(j) == IF j.op = "bundle" THEN {l \in {j.own} : Readable(l)}
             ELSE find_certbot_live_dir(j.own[1])

\* publish_pem_bundle() publishes all of it or refuses.
publish_pem_bundle(t) ==
    LET j     == job[t]
        fresh == {l \in Source(j) : Valid(lineage[l].cert)} IN
    /\ pc[t] = "publish"
    /\ \/ \E l \in fresh :
            /\ pem' = [pem EXCEPT ![j.own] = lineage[l].cert]
            /\ Goto(t, "record", [j EXCEPT !.new = lineage[l].cert])
       \/ /\ IF fresh = {} THEN Leave(t) ELSE Fail(t, "publish", "idle", j)
          /\ UNCHANGED pem
    /\ UNCHANGED <<rows, issued, expired, lineage, broken>>

\* UPDATE domains SET ssl_cert_path: the rows of these names that exist.
Update(names, path) ==
    rows' = [d \in Domains |-> IF d \in names /\ rows[d] # NoRow THEN path ELSE rows[d]]

request_ssl_record(t) ==
    /\ pc[t] = "record" /\ job[t].op = "ssl"
    /\ Update(job[t].names, job[t].own)
    /\ Leave(t)
    /\ UNCHANGED <<issued, expired, lineage, pem, broken>>

\* "add domain if it doesn't exist"
request_certificates_record(t) ==
    /\ pc[t] = "record" /\ job[t].op = "certs"
    /\ rows' = [d \in Domains |-> IF d \in job[t].names THEN job[t].own ELSE rows[d]]
    /\ Leave(t)
    /\ UNCHANGED <<issued, expired, lineage, pem, broken>>

request_ssl_bundle_record(t) ==
    /\ pc[t] = "record" /\ job[t].op = "bundle"
    /\ Update(job[t].names, job[t].own)
    /\ Goto(t, "inventory", job[t])
    /\ UNCHANGED <<issued, expired, lineage, pem, broken>>
-----------------------------------------------------------------------------
(* Superseding: the files *)

\* A certificate for some of the bundle's names.
_overlaps_bundle(n, names) == Names(n) \cap names # {}

\* Mutant: an expired certificate counts as cover for a name.
retirement_blockers_AnyCover(n, others, j) ==
    IF Expired(n) THEN {}
    ELSE {d \in Names(n) \cap j.served :
            d \notin j.gone \cup j.names
            /\ ~\E o \in others : o # n /\ d \in Names(o)}

\* The served names that would lose their last valid certificate with n.
retirement_blockers(n, others, j) ==
    IF Expired(n) THEN {}
    ELSE {d \in Names(n) \cap j.served :
            d \notin j.gone \cup j.names
            /\ ~\E o \in others : o # n /\ Valid(o) /\ d \in Names(o)}

\* A SELECT that fails takes every name for served.
Ask(t, label, j) ==
    \/ Goto(t, label, [j EXCEPT !.served = _served_names])
    \/ Fail(t, "select", label, [j EXCEPT !.served = Domains])

\* _quarantine_superseded_certs(): one look at the directory, then file by file.
inventory(t) ==
    LET j == job[t] IN
    /\ pc[t] = "inventory"
    /\ Ask(t, "quarantine",
           [j EXCEPT !.seen = pem, !.was = expired,
                     !.todo = {f \in Lineages \ {j.own} : _overlaps_bundle(pem[f], j.names)}])
    /\ UNCHANGED <<rows, issued, expired, lineage, pem, broken>>

\* Mutant: the inventory is not updated when a file has been moved.
_quarantine_superseded_certs_Stale(t) ==
    LET j == job[t] IN
    /\ pc[t] = "quarantine"
    /\ \E f \in j.todo :
        /\ pem' = IF retirement_blockers(j.seen[f], {j.seen[g] : g \in Lineages \ {f}}, j) # {}
                  THEN pem ELSE [pem EXCEPT ![f] = 0]
        /\ Goto(t, "quarantine", [j EXCEPT !.todo = @ \ {f}])
    /\ UNCHANGED <<rows, issued, expired, lineage, broken>>

\* A candidate stays when it blocks; otherwise it is moved to cert-retired and
\* leaves the inventory, or the move fails.
_quarantine_superseded_certs(t) ==
    LET j == job[t] IN
    /\ pc[t] = "quarantine"
    /\ \E f \in j.todo :
         LET others == {j.seen[g] : g \in Lineages \ {f}}
             rest   == [j EXCEPT !.todo = @ \ {f}]
         IN  \/ /\ retirement_blockers(j.seen[f], others, j) # {}
                /\ Goto(t, "quarantine", rest) /\ UNCHANGED pem
             \/ /\ retirement_blockers(j.seen[f], others, j) = {} /\ pem[f] # 0
                /\ pem' = [pem EXCEPT ![f] = 0]
                /\ Goto(t, "quarantine", [rest EXCEPT !.seen[f] = 0])
             \/ /\ retirement_blockers(j.seen[f], others, j) = {} /\ UNCHANGED pem
                /\ IF pem[f] = 0 THEN Goto(t, "quarantine", rest)
                   ELSE Fail(t, "move", "quarantine", rest)
    /\ UNCHANGED <<rows, issued, expired, lineage, broken>>

\* The configuration that makes HAProxy load the bundle; when that fails the
\* lineages are left alone.
generate_config(t) ==
    /\ pc[t] = "quarantine" /\ job[t].todo = {}
    /\ \/ Goto(t, "collect", job[t])
       \/ Fail(t, "generate", "idle", NoJob)
    /\ UNCHANGED <<rows, issued, expired, lineage, pem, broken>>
-----------------------------------------------------------------------------
(* Superseding: the lineages *)

collect(t) ==
    LET j == job[t] IN
    /\ pc[t] = "collect"
    /\ Ask(t, "lineages",
           [j EXCEPT !.seen = pem,
                     !.todo = {l \in Lineages \ {j.own} :
                                 Readable(l) /\ _overlaps_bundle(lineage[l].cert, j.names)}])
    /\ UNCHANGED <<rows, issued, expired, lineage, pem, broken>>

\* Superseded by the bundle and, without its own file, nobody's last certificate.
Superseded(l, j) ==
    LET n == lineage[l].cert IN
    /\ Readable(l) /\ n # j.new /\ _overlaps_bundle(n, j.names)
    /\ retirement_blockers(n, {j.seen[g] : g \in Lineages \ {l}}, j) = {}

_retire_superseded_lineages(t) ==
    LET j == job[t] IN
    /\ pc[t] = "lineages"
    /\ \E l \in j.todo :
         LET rest == [j EXCEPT !.todo = @ \ {l}]
         IN  IF Superseded(l, j) THEN Goto(t, "tree", [rest EXCEPT !.tree = l, !.had = lineage[l].parts])
             ELSE Goto(t, "lineages", rest)
    /\ UNCHANGED <<rows, issued, expired, lineage, pem, broken>>

respond(t) ==
    /\ pc[t] = "lineages" /\ job[t].todo = {}
    /\ Leave(t)
    /\ UNCHANGED <<rows, issued, expired, lineage, pem, broken>>

Order     == <<"renewal", "live", "archive">>
Done(j)   == [j EXCEPT !.tree = NoPath, !.had = {}, !.moved = 0]

\* Mutant: the archive is left behind, as the first version did.
retire_lineage_tree_KeepsArchive(t) ==
    LET j == job[t] IN
    /\ pc[t] = "tree"
    /\ lineage' = [lineage EXCEPT ![j.tree].parts = @ \ {Order[j.moved + 1]}]
    /\ IF j.moved = 1 THEN Goto(t, "lineages", Done(j))
       ELSE Goto(t, "tree", [j EXCEPT !.moved = @ + 1])
    /\ UNCHANGED <<rows, issued, expired, pem, broken>>

\* Mutant: one part too many.
retire_lineage_tree_OffByOne(t) ==
    LET j == job[t] IN
    /\ pc[t] = "tree"
    /\ lineage' = [lineage EXCEPT ![j.tree].parts = @ \ {Order[j.moved + 1]}]
    /\ IF j.moved = 3 THEN Goto(t, "lineages", Done(j))
       ELSE Goto(t, "tree", [j EXCEPT !.moved = @ + 1])
    /\ UNCHANGED <<rows, issued, expired, pem, broken>>

\* renewal/<l>.conf, live/<l> and archive/<l> go one after the other; a part
\* that is not there is skipped, a failure turns back.
retire_lineage_tree(t) ==
    LET j    == job[t]
        part == Order[j.moved + 1] IN
    /\ pc[t] = "tree"
    /\ \/ /\ lineage' = [lineage EXCEPT ![j.tree].parts = @ \ {part}]
          /\ IF j.moved = 2 THEN Goto(t, "lineages", Done(j))
             ELSE Goto(t, "tree", [j EXCEPT !.moved = @ + 1])
       \/ part \in j.had /\ Fail(t, "move", "restore", j) /\ UNCHANGED lineage
    /\ UNCHANGED <<rows, issued, expired, pem, broken>>

\* What was moved goes back, the last first; what made the move fail may make
\* that fail as well.
retire_lineage_tree_restore(t) ==
    LET j == job[t]
        l == j.tree IN
    /\ pc[t] = "restore"
    /\ IF j.moved = 0
       THEN Goto(t, "lineages", Done(j)) /\ UNCHANGED <<lineage, broken>>
       ELSE LET rest == [j EXCEPT !.moved = @ - 1] IN
            \/ /\ lineage' = [lineage EXCEPT ![l].parts = @ \cup ({Order[j.moved]} \cap j.had)]
               /\ Goto(t, "restore", rest) /\ UNCHANGED broken
            \/ /\ Goto(t, "restore", rest)
               /\ broken' = broken \cup {l} /\ UNCHANGED lineage
    /\ UNCHANGED <<rows, issued, expired, pem>>
-----------------------------------------------------------------------------
(* Renewing and removing *)

\* renew_certificates() after certbot renew: the rows are read once.
renew_certificates(t) ==
    /\ \E d \in Domains : rows[d] \in Lineages
    /\ Goto(t, "renew", [NoJob EXCEPT !.op = "renew", !.paths = rows,
                           !.todo = {Own(d) : d \in {e \in Domains : rows[e] \in Lineages}}])
    /\ UNCHANGED <<rows, issued, expired, lineage, pem, broken>>

\* Row by row, the newest lineage of the row's own name goes onto the row's file.
renew_row(t) ==
    LET j == job[t] IN
    /\ pc[t] = "renew"
    /\ \E r \in j.todo :
         LET path  == j.paths[r[1]]
             rest  == [j EXCEPT !.todo = @ \ {r}]
             fresh == {l \in find_certbot_live_dir(r[1]) : pem[path] # 0 /\ Valid(lineage[l].cert)}
             label == IF rest.todo = {} THEN "idle" ELSE "renew"
             after == IF rest.todo = {} THEN NoJob ELSE rest
         IN  \/ /\ \E l \in fresh : pem' = [pem EXCEPT ![path] = lineage[l].cert]
                /\ Goto(t, label, after)
             \/ /\ IF fresh = {} THEN Goto(t, label, after)
                                  ELSE Fail(t, "publish", label, after)
                /\ UNCHANGED pem
    /\ UNCHANGED <<rows, issued, expired, lineage, broken>>

\* <l>.pem was published from the lineage l, whatever name the row has.
lineage_name_for_cert_path(path) == IF path \in Lineages THEN path ELSE NoPath

\* The rows that stay when d's goes, and that name this file, or this lineage by it.
domains_referencing_cert_path(d, path) == {e \in Domains \ {d} : rows[e] = path}
domains_referencing_lineage(d, l) ==
    {e \in Domains \ {d} : lineage_name_for_cert_path(rows[e]) = l}

\* The row goes, and who else needs its file and its lineage is asked in the same
\* transaction; a file and its lineage having one name, so have the answers.
remove_domain(t, d) ==
    LET path  == rows[d]
        users == domains_referencing_cert_path(d, path) \cup
                 domains_referencing_lineage(d, lineage_name_for_cert_path(path))
    IN
    /\ path # NoRow
    /\ rows' = [rows EXCEPT ![d] = NoRow]
    /\ IF path = NoPath \/ users # {}
       THEN Goto(t, "idle", NoJob)
       ELSE Goto(t, "unlink", [NoJob EXCEPT !.op = "remove", !.own = path])
    /\ UNCHANGED <<issued, expired, lineage, pem, broken>>

\* os.remove(); a failure is logged.
remove_file(t) ==
    LET j == job[t] IN
    /\ pc[t] = "unlink"
    /\ \/ pem' = [pem EXCEPT ![j.own] = 0] /\ Goto(t, "delete", j)
       \/ Fail(t, "unlink", "delete", j) /\ UNCHANGED pem
    /\ UNCHANGED <<rows, issued, expired, lineage, broken>>

\* certbot delete --cert-name; a failure is logged.
remove_lineage(t) ==
    /\ pc[t] = "delete"
    /\ \/ lineage' = [lineage EXCEPT ![job[t].own] = Deleted] /\ Leave(t)
       \/ Fail(t, "delete", "idle", NoJob) /\ UNCHANGED lineage
    /\ UNCHANGED <<rows, issued, expired, pem, broken>>

\* gunicorn recycles the worker.
process_exits(t) ==
    /\ pc[t] # "idle" /\ Fail(t, "exit", "idle", NoJob)
    /\ broken' = broken \cup ({job[t].tree} \ {NoPath})
    /\ UNCHANGED <<rows, issued, expired, lineage, pem>>
-----------------------------------------------------------------------------
\* A database with some domains, nothing issued yet.
Init ==
    /\ rows \in [Domains -> {NoRow, NoPath}]
    /\ issued = <<>> /\ expired = 0
    /\ lineage = [l \in Lineages |-> Deleted]
    /\ pem = [l \in Lineages |-> 0]
    /\ pc = [t \in Threads |-> "idle"]
    /\ job = [t \in Threads |-> NoJob]
    /\ broken = {} /\ faults = 0

Environment ==
    \/ expire
    \/ \E l \in Lineages : certbot_renew(l) \/ cert_publish(l) \/ cert_retire_expired_pems(l)

Request(t) ==
    /\ pc[t] = "idle" /\ Free
    /\ \/ \E d \in Domains, names \in Groups, gone \in SUBSET Domains : request_ssl_bundle(t, d, names, gone)
       \/ \E d \in Domains : {d} \in Groups /\ request_ssl(t, d)
       \/ \E d \in Domains, names \in Groups : request_certificates(t, d, names)
       \/ \E d \in Domains : remove_domain(t, d)
       \/ renew_certificates(t)

Step(t) ==
    \/ publish_pem_bundle(t)
    \/ request_ssl_record(t) \/ request_certificates_record(t) \/ request_ssl_bundle_record(t)
    \/ inventory(t) \/ _quarantine_superseded_certs(t) \/ generate_config(t)
    \/ collect(t) \/ _retire_superseded_lineages(t) \/ respond(t)
    \/ retire_lineage_tree(t) \/ retire_lineage_tree_restore(t)
    \/ renew_row(t) \/ remove_file(t) \/ remove_lineage(t)
    \/ process_exits(t)

Next ==
    \/ Environment
    \/ \E d \in Domains : add_domain(d)
    \/ \E t \in Threads : Request(t) \/ Step(t)

Spec == Init /\ [][Next]_vars
-----------------------------------------------------------------------------
(* Properties *)

\* Some certificate in the directory is valid for d.
Covered(d) == \E f \in Lineages : Valid(pem[f]) /\ d \in Names(pem[f])

\* _quarantine_superseded_certs(), "moved aside only if no name that this edge
\* still serves would lose its last valid certificate": moving the files a
\* bundle supersedes never takes the last valid certificate from a name with a
\* row, but for the names the caller called unreachable.
RetirementKeepsServed ==
    [][\A t \in Threads, d \in Domains :
         /\ pc[t] = "quarantine" /\ pem' # pem
         /\ rows[d] # NoRow /\ d \notin job[t].gone /\ Covered(d)
         => Covered(d)']_vars

\* retire_lineage_tree(), "live/<x>, archive/<x> and renewal/<x>.conf go
\* together": a lineage is half there only while it is moved, or when moving
\* it back failed as well, or its mover was killed.
TreeWhole ==
    \A l \in Lineages :
        \/ lineage[l].parts \in {{}, Parts} \/ l \in broken
        \/ \E t \in Threads : job[t].tree = l

\* request_ssl_bundle(): when it answers with success, and no step of it failed,
\* the bundle covers the names asked for and is still renewed by certbot, and no
\* certificate that had expired when the old files were judged is left in the
\* directory for any of its names.
Delivered ==
    \A t \in Threads :
        LET j == job[t] IN
        pc[t] = "lineages" /\ j.todo = {} /\ j.clean =>
            /\ pem[j.own] = j.new /\ j.names \subseteq Names(j.new)
            /\ Whole(j.own) /\ lineage[j.own].cert = j.new
            /\ \A f \in Lineages \ {j.own} : _overlaps_bundle(pem[f], j.names) => pem[f] > j.was

\* domains_referencing_cert_path(), "who else still needs this file": removing a
\* domain does not take the last valid certificate from a domain that stays.
RemovalKeepsServed ==
    [][\A t \in Threads, d \in Domains :
         pc[t] = "unlink" /\ rows[d] \in Lineages /\ Covered(d) /\ pem' # pem => Covered(d)']_vars
=============================================================================
