# haproxy-manager-base: a verification project

TLA+ models of the program in this repository, the TLC runs that check them on
small instances, and TLAPS proofs of what holds for every instance. The source
is the reference: every definition translates code of `src/` (`PROJECT.json`,
"map", names the lines), and the comments of the modules use the code's names.

## 1. The system

One container runs HAProxy, a Flask API under gunicorn that configures it, cron
and a supervisor loop. The API keeps the sites in an SQLite database, renders
them into `haproxy.cfg` and two auxiliary files, obtains certificates with
certbot, publishes them into the directory HAProxy loads (`ssl crt <dir>`), and
blocks addresses through a map file. Nothing in the program takes a lock across
these operations: API threads (2 workers x 4 threads by default), cron scripts
and the supervisor meet only in the database and the files.

| Component | State it keeps | Operations | Interacts through |
|---|---|---|---|
| Configuration generation, backup, rollback (`haproxy_manager.py` 3065-3751) | `haproxy.cfg`, `blocked_ips.map`, `coraza-spoe.cfg` and their `.backup` copies | `generate_config`, `create_backup`, `promote_current_config_to_backup`, `restore_backup`, `reload_haproxy_safely` | files, master socket, `haproxy -c` |
| HAProxy process and its supervisor (`start_haproxy`, `do_initial_setup`, `scripts/start-up.sh`, `init.py`, `ensure_haproxy.py`) | the process table | start, restart, reload | the same files |
| Blocked addresses (2198-2413, 2719-2820, 3753-3890) | table `blocked_ips`, the map file, HAProxy's runtime map | block, unblock, sync, temporary block, expiry | database, map file and its backup, runtime socket |
| Publication of certificate bundles (`publish_pem_bundle`, `cert-publish-lib.sh`, `renew-certificates.sh`, `sync-certificates.sh`) | crt directory, `cert-staging`, `cert-backups`, `cert-retired` | publish, back up, retire what has expired, reload | certbot's `live/`, HAProxy |
| Certificate lifecycle (983-2180) | `domains.ssl_*` rows, lineages, bundles shared by several names | issue, bundle, renew, supersede, retire a lineage, remove a domain | all of the above |
| DNS-01 challenge (2822-2990, the two hook scripts) | token and proceed files in `/tmp` | request, verify, authenticate, clean up | certbot, the client's DNS |
| Cluster secret (2992-3063) | `/etc/haproxy/cluster-secret` | read, create, heal | every rendering |
| Routing (`add_domain`, `remove_domain`, `generate_config`, the ACL and backend templates) | tables `domains`, `backends`, `backend_servers` | add, change, remove, render | HAProxy |
| Validation of PEM bundles (386-720) | none | check structure and pair, assemble | openssl |
| Stick-table statistics (2504-2717) | none; HAProxy's table | query, parse, report | CLI sockets |
| certbot locks (286-325) | certbot's lock files | probe, unlink | certbot |
| gunicorn worker (`haproxy_gunicorn_worker.py`) | connections, deadlines, thread slots | accept, read, keep alive, time out, recycle | the arbiter |
| Pages, downloads, status routes; monitoring and test scripts | none | read and print | - |

**What is hard here.** The write path of a change has a dozen steps (commit,
read, back up three files, write three files, validate, reload, promote three
files) and every one can fail, time out, or be the last one of a process that
gunicorn recycles; the rollback itself is three copies that can be cut short.
Two threads can be inside it at once. The map file is also written, and
promoted, by routes outside that path. The supervisor and `/api/reload` read the
files while others write them. Certificates are read file by file while certbot
replaces them, judged at one moment and moved at another, by two programs in two
languages. The blocked addresses are kept three times over, and commands to HAProxy
can fail without saying so. The DNS challenge is a conversation of four parties
over two files, each with a clock of its own. `PROJECT.json`, "hazards", lists each of these at its line.

**What makes the parts correct.** Configuration: the rollback target is a set of
files HAProxy accepts; no sequence of failures leaves HAProxy without one; a
reported rollback is one; a dead HAProxy comes back by itself. Publication: the
live file is always a certificate with its own key; nothing expired is published
and nothing valid is retired; exit 0 means the renewals are served; a renewal is
served in the end. Lifecycle: no served name loses its last valid certificate;
a lineage is there as a whole or not at all; a bundle request that succeeds leaves
what it says; removing a domain leaves the others alone. Worker: no client can hold a slot
for ever; a busy worker is not recycled and a stuck one is. Blocked addresses:
table, file and runtime map agree when the operations are over, and an answer says
what is so. DNS challenge: nobody acts on the answer of an earlier attempt. Cluster
secret: it is made once. Routing: a host reaches the servers last asked for it.
Bundles: only a whole pair is published. Statistics: no number is invented.

## 2. Modules

| Module | Models | Theorems |
|---|---|---|
| `ConfigReload` | configuration generation, backup and rollback; the blocked-address routes as far as the map file is concerned; HAProxy's start, reload, death; container start | |
| `ConfigReloadProofs` | | `TypeCorrect`, `BackupLoads`, `GoodCfgSurvives`, `OneFailureStrandsNobody`, `RollbackIsHonest` |
| `CertPublish` | publication and retirement of bundles by scripts and API threads | |
| `MCCertPublish` | symmetry of the lineages for TLC | |
| `CertPublishProofs` | | `PublishTypeCorrect`, `LivePairs`, `GoodBackups`, `ScriptsRefuseExpired`, `RetirementSafe`, `NeverEmptiedByOne`, `CleanRunsServe` |
| `CertLifecycle` | certificates from issue to removal: rows, lineages, bundle files, and who still needs them | |
| `MCCertLifecycle` | symmetry of host names for TLC | |
| `CertLifecycleProofs` | | `LifecycleTypes`, `TreesWhole`, `BundleDelivered`, `RetirementCovers` |
| `BlockedIPs` | table, map file and runtime map of the blocked addresses | |
| `BlockedIPsProofs` | | `BlockedTypes`, `CopiesAgree`, `AnswersTrue`, `OnlyExpiredDeleted` |
| `StableSecret` | the abstract promise of the cluster secret: a register that is set once | |
| `ClusterSecret` | the file, its exclusive creation and its healing under a lock | |
| `DnsChallenge` | the DNS-01 challenge: routes, hooks, certbot, client | |
| `DnsChallengeProofs` | | `DnsTypes`, `HooksGoOnForTheirToken`, `WildcardsOnly` |
| `Routing` | rows, rendering and the servers a host reaches | |
| `RoutingProofs` | | `RoutingTypes`, `AsksAreAnswered` |
| `PemBundle` | what `publish_pem_bundle()` lets through, line by line | |
| `StickTables` | `/api/security/stats` against what HAProxy may answer | |
| `Manager` | the parts of `haproxy_manager.py` that share no state, side by side | |
| `MCManager` | their instance for TLC, with its symmetries | |
| `ManagerProofs` | | `SecretTypes`, `SecretStable`, `SecretRefinement`; `StatsTypes`, `AnswersAreTheTable`; `BundleTypes`, `PairsPublished`; `PartsRunAlone`, `ManagerTypes`, `ManagerPromises` |
| `GunicornWorker` | connection slots, deadlines, pool threads and watchdog of the API's worker | |
| `MCGunicornWorker` | symmetry of connections and threads for TLC | |
| `GunicornWorkerProofs` | | `WorkerTypeCorrect`, `SlotsAccounted`, `QueuedServed`, `WatchdogHonest` |

### ConfigReload

*State.* `db` is what the database asks for: the rendering of the domains table
(`db.cfg`, one of `Cfgs`; HAProxy refuses `BadCfgs`) and the blocked rows
(`db.map`, one of `Maps`; `BadMaps` hold an address HAProxy cannot parse).
`live` and `backup` are the three files and their copies, each with a content,
`Absent`, or `Torn` when a copy stopped in the middle (`shutil.copy2` truncates
its destination; the rendered files are written by rename and are never torn).
`masters` lists the HAProxy masters that run, with the set each has loaded.
`pc`, `at`, `snap`, `outcome` are a thread's place in the code, the pair of
`_config_backup_pairs()` it copies next, what it has read, how its
`generate_config()` ended. `phase` is the part of `init.py` that runs: the
`generate_config()` that follows the creation of the self-signed certificate
(`cert`), the one of every start (`boot`), `start_haproxy()` (`bootstart`), then
requests (`run`); `ended` is a container that is down.

*Actions.* One per step that touches shared state, named after the function it
belongs to: the SELECTs, the decision of `create_backup()`, one copy per file,
each write, the verdict of `haproxy -c`, the reload or start, one copy per file
of a promotion or a restore, the second reload. `Loads` is the verdict on the
three files as a set. Failures are disjuncts of the step they happen in and are
counted by `faults`, bounded by `MaxFaults`: `copy`, `write`, `validator` (cannot
run, or times out), `socket`, `timeout` (the effect may or may not have taken
place), `silent` (socat exits 0 but nothing was loaded), `start`, `malformed` (an
address nobody parsed), `exit` (gunicorn recycles the worker), `crash` (the
container). `Serialized` is an assumption the code does not make, that the
operations of different threads do not overlap; it separates what failures can
do from what concurrency can do.

*First start.* `FirstCfgs` are the renderings of the rows a fresh container can find
in its database. The first `generate_config()` (750) is called unguarded: when it
fails, `init.py` ends, and so does `start-up.sh`, which runs under `set -eo pipefail`
(18, 61), before it has started the supervisor's loop and gunicorn
(`container_ends`, which takes along a HAProxy that was started). `container_starts`
is Docker's restart policy or an operator; the certificate then exists, and start-up
comes to the guarded `generate_config()` (4106) at once.

*Abstractions.* The text of the files; the domains, backends and certificates
behind a rendering; the runtime map (the file is what HAProxy enforces after a
reload); failures of the SELECTs, which end `generate_config()` before any file
is touched; the status strings that only select log lines. The blocked-address
routes reload in one step. A timeout kind stands for
`DEFAULT_SUBPROCESS_TIMEOUT`.

### CertPublish

*State.* `lineage[d]` is the pair of files certbot keeps for a lineage, `pem[d]`
the bundle in the crt directory, `bak[d]` its backup, `served[d]` what HAProxy
has loaded. A certificate or key is its number in the lineage (0: missing or
unusable); a bundle cut short has lost its key. `expired[d]` is how many
certificates of the lineage have expired. `job` is what a publisher works on:
the names left in its loop, the one in hand, the staged bundle, its counters.

*Actions.* The two programs share the order of reads (`read_cert`, `read_key`)
and differ in what they judge and when: `cert_publish` asks for the expiry before
it reads, validates the pair in the staging directory, and backs up a live
bundle only if it is a pair; `publish_pem_bundle` checks the structure of what it
has read, asks the source for its expiry afterwards, backs up on the structure,
and validates the pair on the staged file before the rename.
`cert_retire_expired_pems` is check, count, move per file. `certbot_renew` and
`certbot_finish` replace the two files of a lineage in either order (external,
from how the code reads them). `other_reload` is any other API call: whatever is
in the directory can be loaded at any moment. A live bundle may be cut short at
the start, as the direct write of the earlier scripts could leave it.

*Abstractions.* File modes, directories on different file systems, missing
openssl: each refuses a publication before the live file is touched, as a failed
write does. A lineage is published under its own name (the `-NNNN` suffixes and
the bundles of several names belong to the lifecycle). A backup is copied in one
step, so that two copies into the same backup do not mix. The API's
`generate_config()` either reloads or does not; `ConfigReload` has the ways. The
script's own reload is three-way, as there: socat fails, HAProxy loads the directory,
or socat exits 0 and HAProxy has loaded nothing, which the script cannot tell from a
success.

### CertLifecycle

*State.* `issued` lists the certificates in the order of issue, each with the set
of names it covers; a certificate is its number, and because they live equally
long `expired` is one number too. `lineage[l]` is what certbot keeps under a
name: the newest certificate and which of `renewal/`, `live/`, `archive/` are
there; `<<d, 1>>` is `<d>-0001`. `pem[l]` is the certificate in `<l>.pem` of the
crt directory, `rows[d]` the row of the domains table: none, without a
certificate, or with the file it refers to. `job` holds what an operation has
read and not used yet: the served names, its inventory of the directory, the
rest of its loop, the lineage it is moving.

*Actions.* A request starts with certbot (`certonly` under `--cert-name` for a
bundle, `Chosen` otherwise; `request_certificates` may add the `www.` name of a domain
that is not in `Www`, the names beginning with `www.`), then `publish_pem_bundle` and `record`. A bundle
request goes on: `inventory`, `_quarantine_superseded_certs` file by file,
`generate_config`, `collect`, `_retire_superseded_lineages` lineage by lineage,
`retire_lineage_tree` part by part with its way back. `renew_certificates` goes
through the rows it has read; `remove_domain` is the transaction, `remove_file`
and `remove_lineage` what follows. certbot's renewals, expiry and the two scripts
are the environment. The inventory is looked through in any order (the code sorts
by name, and names are interchangeable here); a request for several domains is
one operation per domain.

*Abstractions.* A publication takes one step or fails (`CertPublish` has the
steps); `generate_config()` succeeds or raises (`ConfigReload`). Under
`Serialized` nothing happens inside an operation, expiry included: certbot keeps
no certificate that is due within a month, and an operation takes minutes.
certbot is external, modelled from how the code reads its results: it keeps,
renews or extends a lineage, refuses to extend one without `--cert-name` unless
forced, and cannot issue under a name of which only some of the directories are
there. Not modelled: wildcard names, the DNS-01 route, certificates that openssl
cannot read, the rule that the directory is never emptied (`NeverEmptied` of
`CertPublish`).

### BlockedIPs

*State.* `blocked_ips` is the table (no row, for ever, until a time, past it), `file`
is `blocked_ips.map`, `runtime` the map in the HAProxy worker, `writer` the
connection that holds SQLite's write lock. `task` is what a thread has read: the
address it is about, the `snap` of its SELECT, the rest of a loop, what it has deleted
and not committed. `reply` is the answer of the last step. History: `alone`, the
operations under way that nothing has overlapped, and `clean`, nothing has disturbed
the copies since they were last rebuilt.

*Actions.* Each route commits its row in its first step; then
`update_blocked_ips_map` reads and writes, in two steps; then the command, and its
read-back when it is verified; then the reload of those that reload. The expiry keeps
a transaction open over one command per address, commits, and rewrites the file. The
sync rewrites the file, clears, fills, and reads back. Every command, the clear
included, is executed, refused, silently ignored, or times out having done it or not;
`cleared` in the sync's task is history, whether HAProxy did empty its map. `generate_config_map` is any
route that regenerates, `other_reload` any reload of somebody else, `manage_file` and
`manage_runtime` the shell tool, which knows nothing of the table.

*Abstractions.* 409, 404 and 400 change nothing and are left out; the order of
addresses; the copy of the map to the backup (`ConfigReload`); the runtime half of
`generate_config()` is its reload.

### ClusterSecret and StableSecret

`ClusterSecret` has one label per system call of `get_or_create_cluster_secret()`:
look, create with `O_EXCL`, write, read back after a lost race, and the healing of a
blank file under `flock`. Every step may be the last of its process, and every read
or write may fail, which is answered with the empty secret. `StableSecret` is what
`haproxy.cfg` relies on: something kept once and for all, and each render given that
or nothing. The refinement mapping reads the file (`kept <- Usable(secret)`).
`overtaken` marks the one case outside the promise: a healer decides that a file is
the leftover of a dead creator when the creator is alive between its open and its
write.

### DnsChallenge

*State.* The two files, where each run of certbot, each request and each verifying
call is, what the client was told and what it has put into DNS, and of certbot's
lineages whether the wildcard has one and whose certificate the youngest of the base
domain is. *Actions.* One per step of `dns_challenge_request` (which removes the
files of an earlier attempt one by one, and fails when the cleanup hook was faster),
of the certbot thread, of `dns-challenge-auth-hook.sh` and
`dns-challenge-cleanup-hook.sh`, of `dns_challenge_verify`, and of the client. All
clocks (30 s, 120 s, 300 s, the client's own) are free: whoever waits may give up at
any time. `falls_due` lets weeks pass once no call is under way: the lineage is due,
and the next run of certbot may be a renewal (`certbot_renew`, by the script or by
`/api/certificates/renew`), which runs the stored hooks with nobody asking for it and
nothing cleaned before them. `renew_certificates` then publishes the youngest lineage,
however old. *Assumptions about the client:* it sets the TXT record to the token before
it asks for verification, forgets the token when it asks again, and does not give up
on a request that has not begun to poll. A certbot that is killed and leaves its hook
running is not modelled; the row of the base domain, which gets the same file, is
not either.

### Routing

*State.* The rows (`domains`: those of the table, each with the name and id of its
backend), the `servers` of each backend id, `live`, the rows and servers of the
configuration that is loaded, and `asked`, what each domain was last given. *Actions.* `add_domain`
with its uniqueness checks, reuse of a backend and replacement of servers,
`remove_domain`, regeneration; `generate_config()` reads the domains, then the
servers backend by backend in the order of the rules, and installs. `Sections`, `Targets` and `Matches` are
what the templates say: two sections per backend or one, by template; two rules per
exact domain and one per wildcard; exact domains first. `Loads` is what
HAProxy refuses (a section twice, a backend that is not there, a server with the
option `None`), `Reaches` the first rule that matches.

### PemBundle

Certificate and key files are sequences of lines (a marker or the data of one object),
cut off after any line or in the middle of one. `_pem_labels`,
`validate_pem_structure` and the assembly with its newline guard are the code's;
`Opens` says where openssl takes a block to begin, with the two ways a BEGIN line
inside an open block can be read (`resyncs`), and `Contained` what it finds there. One
step publishes or refuses. `BundleAssumption` is what certbot writes: a chain ends with
an END line, and the leaf is its first certificate and no other.

### StickTables

One step answers `/api/security/stats`: `haproxy_cli` with and without the prefix of
the master's socket, the parser, the check against the field contract, the sort and
the limit; against any socket HAProxy may have there, any store clause that lost a
field, any counters. Sources with the same rates come in any order, as the dump's own
order decides. The numbers of the header (`total_tracked_ips`, `table_size`) are passed
on as HAProxy gives them and left out.

### Manager

`Manager` puts the six parts side by side: blocked addresses, cluster secret, DNS
challenge, routing, bundles and statistics. `part` says which of them a behaviour
exercises, the others rest in an initial state, and `ManagerNext` is a step of that part
that leaves the variables of the others alone. A step of one part stutters in all the
others, so that what a part promises by itself it promises here (`PartsRunAlone`).

### GunicornWorker

*State.* `phase[c]` is where a connection is: in the kernel's backlog, registered
with the poller (`pending` before its first request, `keep` between two), in the
queue of the pool, with a thread (`headers`, `body`, `request`), or on its way
back through the callback of the future (`done`, `reuse`). `_pending` and `_keep`
are the connections of these phases: both deques are in the order of their
deadlines. `sent[c]` is what the client has sent that nobody has read, `left[c]`
the ticks to the deadline the connection is under; `serves`, `busy`, `armed`,
`stuck` describe the threads, `late` what the monitor has collected and not shut
yet. `buffered` and `quiet` are history.

*Actions.* One per override of the worker and per step of gunicorn's `run()` and
`finish_request()` it relies on (external: gunicorn 23.0.0, as the comments of the
worker describe it). A pass of the main loop is `run_select`, one step per event,
`murder_keepalived` until nothing is expired. The sweep collects under the lock
and shuts afterwards, connection by connection. The counter `nr_conns` is changed
in one step: CPython switches threads only at calls and jumps back. `Tick` is the
second of the monitor; it waits for the parsers (`Prompt`), which is the
assumption the grace of one second is built on ("parses in milliseconds").

*Abstractions.* `WATCHDOG_INTERVAL` (the check follows each sweep), the timeout of
a single `recv()` while the headers are read (the header deadline is shorter), the
recycling by `--max-requests`, the contents of `_allowed_nets` (a peer is refused
or not), pipelined requests. A connection that is closed and opened again is a
new object; the model only reuses its name.

## 3. Runs

| Run | Instance | Question, and what it shows |
|---|---|---|
| `config_faults` | 1 thread and the supervisor, 2 good and 1 bad rendering, 2 good maps and 1 malformed, Coraza on, three faults of any kind, serialized | `WholeBackupLoads`, `NeverStranded`, `GoodCfgKept`, `RollbackHonest`, `EventuallyServing`: after failures at any steps the rollback target loads, a loadable `haproxy.cfg` is never lost, after a single one HAProxy can be started from the files or from their backups, a reported rollback is one, and a dead HAProxy comes back |
| `config_race` | 2 threads, a first rendering that loads, no faults, not serialized | violation of `WholeBackupLoads` (finding) |
| `config_two_masters` | 1 thread and the supervisor, one malformed address, one recycled worker, serialized | violation of `OneMaster` (finding) |
| `cert_script` | 1 script, 2 lineages of 2 certificates, no default certificate, one fault | `NoExpiredPublished`, `RetiresOnlyExpired`, `NeverEmptied`, `CleanRunServes`: what a script that is alone promises; after exit 0 what was in `live/` is published, and served unless the reload was taken by the socket and came to nothing |
| `cert_concurrent` | 1 script and 1 API thread on 1 lineage of 2 certificates, one fault | `PublishesPairs`, `BackupKept`, `RenewalServed`: what holds in spite of the other publisher |
| `cert_expired_race` | 1 API thread, certbot | violation of `NoExpiredPublished` (finding) |
| `cert_retire_race` | 1 script, 1 API thread | violation of `RetiresOnlyExpired` (finding) |
| `worker_pool` | 2 threads, 3 connections, 3 slots, header deadline 2, other timeouts 1 | `Accounted`, `QueuedNotCut`, `RecyclesOnlyStuck`: no slot is lost, a complete request is not cut, only a worker in which nothing moves is recycled |
| `worker_clients` | 1 thread, 2 connections, 2 slots | `ClientsCannotHold`, `KeepsPolling`: with all slots taken, clients that send nothing or dribble, and an application that may never return |
| `lifecycle` | 1 thread, 3 names, certificates for one of them or for all, 1 name that may get a `-0001` lineage, 3 issues, one failure of any kind, serialized | `TreeWhole`, `Delivered`, `RetirementKeepsServed`: superseding never takes the last valid certificate from a served name, whatever fails; lineages go as a whole; what a successful bundle request leaves is what it says |
| `manager` | one part per behaviour: *blocked* 2 threads, 2 addresses, one mishap of any kind; *secret* 3 renders, one failure; *dns* 3 runs, each a request or a renewal; *routing* 2 threads, 7 bodies of requests, 3 requests; *bundle* every cut of every source; *stats* 2 sources | `Agree`, `RepliesHonest`, `OnlyExpiredCleared`: drift does not survive a rebuild, answers are true, only expired blocks go. `OneSecret`, `ImplementsRegister`. `ProceedAnswersDns`, `WildcardPublished`. `HostsReachTheirServers`. `PublishedPairs`. `StatsAreTheTable` |
| `lifecycle_removal` | 1 thread, 3 names, of which one is another's `www.` name, and their bundle, no failures | violation of `RemovalKeepsServed` (finding) |

*Why the bounds are enough.* A property of ConfigReload relates the live set, the
backup and at most two renderings (one that loads and one that does not, or an
old and a new one); a wrong promotion or rollback needs one bad rendering after a
good one. Two threads exhibit every race of two steps. One fault reaches every
failure branch of the code; three reach every chain snapshot - write - restore
with a failure in each. `MaxMasters` only stops the list of masters from growing.
For publication two certificates per lineage are an old and a new one; two
lineages let one succeed while the other fails, and let the directory become
empty; interference between publishers is per name. For the worker three
connections on two threads let one wait in the queue, and three slots let all be
taken; a timeout of one tick is in time or late, the header deadline of two makes
it differ from the grace. The liveness run has one thread because the wedge is
then one stuck call, and two slots because they are full with one more. For the
lifecycle three issues give two old certificates with a name in common, which are
each other's cover, and the bundle that supersedes both; with one of them expired
the other has none. The parts of `manager` share no state, so that a step of one
stutters in the others and nothing is lost when each behaviour exercises one of them;
the sum of their state spaces takes the place of their product. Two threads mix any
two operations on the blocked addresses, two addresses let one be right when the
other is wrong; three renders are a creator, a healer and a witness; three runs of the
challenge are an earlier, the present and a later one; three requests in Routing are
two that set up a collision and one that meets it. A third group of names multiplies the states by six and adds
only other routes to the same directories.

*Violations.* `config_race`: nothing serialises `generate_config()`. HAProxy serves a
configuration; one thread regenerates it, and between its reload and its promotion
another writes one that HAProxy refuses. The promotion copies that, and the refused
change is "rolled back" to itself. `config_two_masters`: HAProxy serves; a malformed
address is blocked, so that the map on disk no longer loads, and unblocked by a worker
that is recycled after its commit. HAProxy dies. `start_haproxy()` finds files that do
not load and regenerates them, which starts HAProxy, and then starts it again. `cert_expired_race`: the expiry question is asked of the
source file after the content was read. `cert_retire_race`: a bundle published
between `cert_is_expired` and `mv` is moved out although it is valid.
`lifecycle_removal`: a name is served by every file that covers it, the retirement
of old files relies on that, and the reference count of `remove_domain()` does
not: it counts rows. In the trace `b` is `www.c` with a row of its own, `b.pem` has
expired, `c.pem` covers `b` and `c` and is recorded for `c` only; removing `c` takes
HTTPS from `b`.

*Known limits of the code that are no findings.* `NeverStranded` is a promise for a single failure (a worker exits between its write
and its rollback, and a later promotion of the map is cut short: nothing is left that
loads); `GoodCfgKept` is what survives more of them.
An address HAProxy cannot parse, stored by `add_blocked_ip`, invalidates each new
map until the row is deleted. After a timeout of a reload HAProxy may serve a set
that is no longer on disk. The comment at 735-738 wants no failure of the default
certificate to take the container down, and the `generate_config()` at 750 is as
unguarded as the call it speaks of; on a first start a configuration that is refused,
or a HAProxy that cannot be started, ends the container, and the next start gets past it. A certificate
script whose `reload` was taken by the master socket and loaded nothing exits with 0
(`renew-certificates.sh:117`), with the files new and HAProxy on the old ones until
the next reload. Of two publishers of one name the one that read first
can put the older certificate back; `RenewalServed` shows that the next script
run heals it. Nothing in the repository says otherwise of these.
While all slots of a worker are taken it does not poll, so that a connection whose
request has arrived can be reaped with the silent ones; and a sweep can shut a
connection whose headers arrived while it ran.
`renew_certificates()` publishes the lineage of each row's own name onto the
row's file; a name in a bundle that kept a lineage of its own so replaces the
bundle by a certificate for fewer names. It publishes only if certbot's
output says that something was renewed, and it runs certbot with `--quiet`; the
model leaves open what certbot prints. A lineage whose restore failed, or whose
mover was killed, stays in parts (`broken`), and certbot cannot issue under its
name until somebody moves it by hand.

*Blocked addresses.* Operations that overlap may leave the older SELECT in the file,
and a reload between the runtime removals of an expiry and the rewriting of the file
brings the expired blocks back, until the next rebuild. `temporary_block`,
`clear_expired_blocks` and the sync do not reload, although `runtime_map_lookup`'s
callers are said to (3883-3885). A sync whose `clear map` was answered with nothing and did
nothing says `success` although the map still holds addresses the table lacks: an
empty answer counts as done (2356), and the read-back looks only for missing addresses
(2380-2393). `Agree` and `RepliesHonest` therefore promise an exact map only after a
clear that HAProxy executed; the others go with the next reload. The expiry does not look at whether the file was
written. A temporary block replaces a permanent one. A block that is renewed between
the SELECT of the expired and its DELETE is deleted. Nothing in the repository calls
the expiry route. A sync of an empty table is answered with 500, since the bare
form of `show map` is tried after the prefixed one has said nothing. The write
transaction of the expiry stays open over its commands, each of which may take
`DEFAULT_SUBPROCESS_TIMEOUT`. *DNS challenge.* A certificate of the base domain itself that is younger
than 300 s when `verify` looks, or the youngest when a renewal publishes, is published
as the wildcard's. A renewal of the wildcard runs the authentication hook with
whatever proceed file is there: one that a late or repeated `verify` left, or writes
while the hook waits, makes it go on at once with the old TXT record, and that
challenge fails; without one the hook waits its 300 s and fails, unless a request at
that moment hands its token to a client. certbot's next run tries again. Nothing in the repository promises
that a wildcard renews by itself, and `ProceedAnswersDns` is about requests. *Bundles.* `_pem_labels()` skips a
block that has no END line. A chain whose second certificate was cut off, followed
by the key, passes the check of the structure, and openssl reads over the gap as well;
HAProxy, which reads the whole chain, refuses the file. The comment of
`validate_pem_structure()` (435-437) counts "a block cut off mid-write" among what it
catches; `PublishedPairs` promises the leaf and the key only. *Cluster secret.*
A healer that meets a live creator; one of them is then rendered with a secret that is
not kept. *Routing.* A backend called `x-sse` beside a backend `x` whose template has one
section: server-sent events of `x` go to the other's servers. A backend called `default`
without servers: its host gets the default page. When two regenerations
overlap and the id of a removed backend is given out again in between, a domain can be
rendered with the servers of another one. A row that cannot be rendered (a template
with one section for an exact domain, no servers, a server without options) makes
every later generation fail until it is changed. *Statistics.* A dump that is cut short is
shown as the whole table.

## 4. Fairness

`ConfigReload!FairSpec`: weak fairness of each thread's steps - a thread inside an
operation waits for nobody, its subprocesses are bounded by
`DEFAULT_SUBPROCESS_TIMEOUT` - and strong fairness of `ensure_haproxy`, the loop
of `start-up.sh` whose only condition is its sleep: under `Serialized` the model
enables it only between requests, and strong fairness keeps requests from
shutting it out for ever; and weak fairness of `container_ends`, a script on its way
out. Requests, deaths and faults are never forced, and neither is the start of a
container that has ended. `EventuallyServing` assumes that malformed rows are not added
again and again, and asks for HAProxy only while the container is up and there is
something to start from (`Startable`).

`CertPublish!FairSpec`: weak fairness of a publisher's steps, of the start of a
script (cron, every twelve hours) and of the second half of a certbot
renewal. Faults are bounded, so a run in the end completes.

`GunicornWorker!FairSpec`: weak fairness of the main loop, of the monitor and of
each pool thread, and strong fairness of `Tick`, for time goes on whenever the
parsers have caught up. Clients and the application owe nothing.

`BlockedIPs`, `DnsChallenge`, `Routing`, `ClusterSecret` and `CertLifecycle` state no
fairness: what the code promises there is about what a step does and about what is so
when operations are over; whoever waits may give up at any time.

## 5. Refinement

`ClusterSecret!ImplementsRegister` is `Register!Spec`, where `Register` is `StableSecret`
with `kept <- Usable(secret)`, `given <- ` what each call returned (blank: nothing) and
`lost <- overtaken`. TLC checks it in `manager`; `SecretRefinement` (`ManagerProofs`)
proves it.

## 6. Proofs

`ConfigReloadProofs`, for all sets of threads, renderings, maps and faults:

* `TypeCorrect`: `Spec => []TypeOK`.
* `BackupLoads`: if `Serialized`, `Spec => []WholeBackupLoads`. The property is
  not inductive: it says nothing of a backup that is being taken. `BackupInv`
  adds that at most one thread is inside an operation, and per thread: a copy
  loop starts at the first pair; past the gate, and while the snapshot is taken
  with haproxy's consent, the live set loads; the pairs already copied are equal
  in both sets; a map that the route promotes is well formed; a snapshot
  taken blindly is marked. An interrupted copy leaves a torn file, hence a
  backup that is not whole, and the next change of the map cannot make it whole
  again with a set that was never accepted (`BackupClean`).
* `GoodCfgSurvives`: if `Serialized` and no malformed rows are stored,
  `Spec => []GoodCfgKept`. `CfgInv` adds to `BackupInv` that a torn file has a good
  one beside it, and that whoever is about to overwrite one of the two copies of
  `haproxy.cfg` may rely on the other.
* `OneFailureStrandsNobody` and `RollbackIsHonest`: if `Serialized`,
  `Spec => []NeverStranded` and `Spec => RollbackHonest`. `GoodCfgSurvives` is about one
  file and any number of failures, these are about the three files as a set and one
  failure. `SetInv` adds to `BackupInv` by what has failed so far. As long as nothing has
  but a malformed address, the backup loads unless a thread is filling it from a set that
  loads (`SoundBackup`). Before the first failure of any kind the live files load
  unless a thread is rewriting them (`LiveServes`). The first failure so finds either
  the one or the other whole: past the gate a thread has a whole backup to go back to
  (`ReliedSet`), and while it goes back, what it has copied is equal to it
  (`RestoredSoFar`).

`CertPublishProofs`, for all sets of lineages, scripts and API threads:

* `PublishTypeCorrect`: `Spec => []TypeOK`.
* `LivePairs` and `GoodBackups`: `Spec => PublishesPairs` and `Spec => BackupKept`,
  from `PairInv`: what is whole in the crt directory is a pair, a script that is
  past its check has staged a pair, and what is about to be copied to the
  backup is a pair or has gone. `GoodBackups` needs all three, since an API thread
  checks less than a pair and the file can change under it.
* `ScriptsRefuseExpired`: without API threads `Spec => NoExpiredPublished`, from
  `ExpiryInv`: what a script reads after its question is at least as new as what
  it asked about.
* `RetirementSafe`: if there is one publisher, `Spec => RetiresOnlyExpired`.
* `NeverEmptiedByOne`: if there is at most one script, `Spec => NeverEmptied`. Only scripts
  move bundles out, and what one has counted can only have become more by the time it
  moves (`MoveLeavesOne`); API threads may publish meanwhile.
* `CleanRunsServe`: if there is one script and no API thread, `Spec => CleanRunServes`.
  `ServeOK` keeps account of what a run owes, which is every pair it found that has not
  expired. As long as no publication has failed a pair owed is still to be published, is
  under way, or is in the directory, and what was staged is no older than what was found;
  retirement takes only what has expired, hence nothing owed; the gate has judged the
  directory that the reload loads, and a run that published nothing and retired nothing
  has none that is owed, since a publication sets `updated`. So all that is owed is
  published at exit 0. It is served too if the last step was not a failure: a reload that
  the socket took and that loaded nothing is one, and the script exits 0 after it. Other operations may reload
  HAProxy at any time.

`GunicornWorkerProofs`, for all connections, threads and timeouts, without further
assumptions:

* `WorkerTypeCorrect` and `SlotsAccounted`, from `SlotInv`: the count is the
  cardinality of the held connections, each connection is in one pair of hands
  (`Owners`: a queue without repetitions, threads with different connections), and
  what `select()` returned still holds when it is handled (`EventsFresh`), without
  which the callback could queue a connection that was reaped.
* `QueuedServed`: `Unhurried` adds that a connection whose headers were complete
  at the pickup has a deadline that has not passed. The grace gives it a tick, and
  no tick passes before it is parsed.
* `WatchdogHonest`: `YoungestKnown` adds that when all threads are busy, one of
  them took its connection after the last one was finished.

`CertLifecycleProofs`, for all sets of names, groups, threads, faults and bounds:

* `LifecycleTypes`, with or without overlap: `Spec => []TypeOK`, with the lemma that the
  mover of a lineage knows which one it moves (`Mover`).
* `TreesWhole`, `BundleDelivered`, `RetirementCovers`: if `Serialized`,
  `Spec => []TreeWhole`, `Spec => []Delivered`, `Spec => RetirementKeepsServed`. None of
  the three is inductive: what holds when a request answers, or when a file is moved,
  rests on what earlier steps of the request established. `LifecycleInv` says that at
  most one thread is in an operation, and of that thread, by label: the lineage it
  moves is the whole one without the directories it has counted (`TreeInv`);
  certbot's lineage has the names asked for (`Ordered`); from the publication on the
  bundle is the file, the newest certificate and valid (`Published`); while the files are
  judged the inventory is the directory, and whoever has a row counts as served
  (`Inventoried`), which is why a file that was moved leaves the inventory; the bundle's
  own file is never judged (`Candidates`); what was judged and stayed had not expired
  (`Cleared`). There is one lemma per operation (`PublishKeeps` to `EndKeeps`).
  `QuarantineCovers` is the argument about one file: who loses it is covered by the bundle,
  or by the certificate that the judgement counted, which is another file's.

`BlockedIPsProofs`, for any number of threads, addresses and failures, without further
assumptions (the overlaps are excluded by the properties, through `alone` and `clean`):

* `BlockedTypes`: `BlockedSpec => []BlockedTypeOK`, with `OpAt`: which operations come to
  which place. It includes that SQLite's write lock is held exactly by the thread that has
  deleted rows it has not committed.
* `CopiesAgree`, `AnswersTrue`, `OnlyExpiredDeleted`: `BlockedSpec => []Agree`,
  `=> RepliesHonest`, `=> OnlyExpiredCleared`, from one invariant, `BlockedInv`. `Serial`
  and `Watched` say that an operation that nothing overlapped is the only one under way,
  and that nothing undisturbed is overlapped. Of that operation `Known` follows what its
  answer will claim: the row it asked for is there or gone, and what it deletes has
  expired (`RowsKnown`); its last SELECT is still the table (`SnapshotHolds`); it goes on
  only with the file rewritten (`FileKnown`); as long as no command has failed, no address
  is left (`RuntimeKnown`; of a sync, if HAProxy has executed its clear), while that none
  is missing is what its read-back sees. These hold after any drift. `CopiesKnown` holds only
  when nothing has disturbed the copies, and says by place how far apart the operation has
  brought them. `KeepInv` reduces each step to what it owes for the thread that is alone;
  there is one lemma per step (`ReadKnown` to `ExitKnown`).

`DnsChallengeProofs`, for any number of runs of certbot; `Distinguished` says only that
the values of the constants differ, and TLC evaluates it in `manager`:

* `DnsTypes`: `DnsSpec => []DnsTypeOK`, with the fact that certbot's lock is held by exactly the
  run that is between its hooks.
* `HooksGoOnForTheirToken`: `DnsSpec => ProceedAnswersDns`. No process has the two files to
  itself, and every route and hook can give up between any two steps. The thread of the
  argument is the client, who waits for one call at a time: a request that has not started
  certbot is the one it waits for, and has made it forget its token (`Waited`); when that
  request starts certbot no earlier call has left its proceed file (`Cleaned`), and none can
  write one until the new token is known. While certbot runs the token on disk and the token
  the client has are that run's (`TokenOfRun`, `GivenOfRun`), and so is the TXT record
  once the proceed file is there (`ProceedOfRun`). The last two say nothing of a renewal:
  its hook meets whatever files there are. That does no harm to a request, which removes
  them before it starts certbot, and cannot start it while a renewal holds the lock
  (`RenewalKeeps`, `RenewalStays`).
* `WildcardsOnly`: `DnsSpec => []WildcardPublished`: a lineage that is young is the
  wildcard's, and so is the youngest once something has been published, unless the base
  domain was issued a certificate (`YoungIsWildcard`).

`RoutingProofs`, for all threads, requests and hosts, where `RequestsFit` says that a
request has a name (others are refused with 400), that `-sse` keeps names apart, and
that no name with it is that of a section which is always there; TLC evaluates it in
`manager`:

* `RoutingTypes`: `RoutingSpec => []RoutingTypeOK`, which includes that no two domains share an id, a
  backend or a backend's name. `Numbered` bounds the ids by the requests so far; that ids
  are new needs that a bounded set of numbers has a greatest one (`GreatestNumber`), which
  the library's well-founded induction gives by way of a least upper bound.
* `AsksAreAnswered`: `RoutingSpec => HostsReachTheirServers`. `Stored`: under the id of a backend
  are the servers its domain was last given, and under an id nobody has there are none, so
  that a number that is given out again brings no servers along. `Copied`: what an
  operation that nothing has overlapped has read, and has still to read, are the rows, in
  spite of the steps in between. From there it is about one configuration that is a copy
  of the tables (`FullCopy`): `SectionsApart` (a section belongs to one backend),
  `WellFormedLoads`, `FirstExists` and `FirstRule` (the first rule that matches is of the
  host itself, or of a wildcard if the host has no row), `OwnBackend` (the section it
  names is its own backend's) and `LoadedReaches`.

`ManagerProofs`, on the cluster secret, for any number of renders and failures:

* `SecretTypes`: `SecretSpec => []SecretTypeOK`.
* `SecretStable`: `SecretSpec => []OneSecret`. `SecretInv` says who may be where while
  the promise holds: a creator in `write` is alone with a blank file, a healer
  past its second read holds the lock over a blank file, and what was returned is what is
  kept.
* `SecretRefinement`: `SecretSpec => ImplementsRegister`. The initial states map to
  initial states; every step keeps or sets the register and answers at most one render.
  As soon as `overtaken` holds a step is a `Lose`, with the types as its only duty.

`ManagerProofs`, on the statistics, for all sources, counters, limits and rates:

* `StatsTypes` and `AnswersAreTheTable`: `StatsSpec => []StatsTypeOK` and
  `=> []StatsAreTheTable`. A row is a set of pairs with one pair per name, so that the
  parser finds in it what the table holds (`EntryIs`, `CliReads`, `TableReads`). Rows of
  different sources differ, hence counting rows is counting sources (`AsManyRows`). A list
  without a busier row below another shows, up to any limit, the busiest: what is left
  out has a place behind the limit (`HeadOfRows`). `StatsAssumption` says that counters
  are numbers or the one value that is none, and that a limit is not 0, as the route sees to.

`ManagerProofs`, on the bundles, for all chains that satisfy `BundleAssumption`:

* `BundleTypes` and `PairsPublished`: `BundleSpec => []BundleTypeOK` and
  `=> []PublishedPairs`. `BundleInv` adds what the sources can be. Of a chain that was cut off
  every line is the chain's or junk (`ChainLinesKept`), of a key's file too, and only its
  first line can begin a block (`KeyLinesKept`). With the newline guard the content is
  the one after the other (`Assembled`). What openssl finds has its three lines
  (`FirstFound`), so that a key that it finds is the whole file of the key, and a
  certificate lies in the chain; the two have one public key only if they are the leaf and
  its key (`FoundPair`); and a key that the structure accepts is not encrypted
  (`PlainKey`). The other way round, in a whole chain the leaf is the first block, and
  after its last END line the key is found in either way of reading (`WholePair`).

`ManagerProofs`, on the parts side by side:

* `PartsRunAlone`: `ManagerSpec` implies the specification of each part.
* `ManagerTypes` and `ManagerPromises`: `ManagerSpec => []ManagerTypeOK`, and every other
  property of the run `manager`, from `PartsRunAlone` and the theorems about the parts.

The assumptions `Serialized`, `BadMaps = {}`, `Api = {}` and the single publisher
are those whose absence the violation runs and the limits above are about.

Only model-checked: liveness (`EventuallyServing`, `RenewalServed`, `ClientsCannotHold`,
`KeepsPolling`), which is out of the prover's reach. Every invariant and every action
property of the passing runs is stated by a theorem, some under the assumptions above.
`OneMaster` and `RemovalKeepsServed` are violated.

## 7. Not modelled

* `clear_stale_certbot_locks()`: what can go wrong there (a certbot takes the lock
  between the probe and the unlink) is between two certbot processes, whose own
  locking is not in this repository.
* The routes that read one thing and answer: pages, downloads, certificate status,
  health, the lists of domains and addresses; API keys and logging.
* The text of the templates beyond the rules and sections `Routing` reads from them
  (`hap_listener`, `hap_header`, `hap_security_tables`, the WAF and rate-limit
  parts): HAProxy's meaning of it is outside; the models use its verdict.
* `remove_domain()` counts the rows of a file, commits and unlinks the file in steps of
  its own; what an overlapping bundle request does in between is left out by
  `Serialized` in the lifecycle.
* Monitoring scripts, `clear-ip.sh`, the test scripts, the Coraza sidecar, the image
  build and CI: they display, send one command, or are not part of the running system.

## 8. Possible extensions

`LastKnownGood`, the abstract promise of the
configuration store, implemented by `ConfigReload` under `Serialized`.
