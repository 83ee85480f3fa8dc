---------------------------- MODULE DnsChallenge ----------------------------
(***************************************************************************)
(* The DNS-01 challenge for the wildcard of one base domain.               *)
(*                                                                         *)
(* Two routes and certbot talk through two files in /tmp.  request starts  *)
(* certbot in a thread; certbot's auth hook writes the token, which        *)
(* request returns, and waits for the proceed file, which verify writes    *)
(* once the client has set the TXT record.  verify then looks for the      *)
(* certificate among the lineages of the base domain, where certbot's next *)
(* answer and a certificate /api/ssl got for the base domain look alike.   *)
(*                                                                         *)
(* When the wildcard falls due, certbot renew - the script's or that of    *)
(* /api/certificates/renew - runs the same hooks with nobody asking for    *)
(* it: no route has removed the files of an earlier challenge.             *)
(*                                                                         *)
(* Everybody gives up on a clock of his own: request after 30 s, the hook  *)
(* after 300 s, verify after 120 s, and the client when it likes.  Those   *)
(* clocks are free here.                                                   *)
(***************************************************************************)
CONSTANTS
    Runs,       \* runs of certbot, each started by the request of its name or a renewal
    NoRun,
    Plain       \* a certificate of the base domain itself

\* NoRun is no run and no call, and Plain is neither.
ASSUME Distinguished ==
    /\ NoRun \notin Runs \cup {"request", "verify"} \X Runs
    /\ Plain \notin Runs \cup {NoRun}

VARIABLES
    token,      \* the run whose token is in dns-challenge-<base>.token
    proceed,    \* dns-challenge-<base>.proceed exists
    lock,       \* the run that holds certbot's lock
    certbot,    \* where each run is
    request,    \* where the request that starts it is, or that it is a renewal
    verify,     \* where the verify call for its token is
    awaited,    \* the call whose answer the client waits for
    given,      \* the token it was given last
    dns,        \* the TXT record
    wildcard,   \* certbot's lineage of the wildcard: none, valid, or due for renewal
    newest,     \* what the youngest lineage of the base domain holds
    fresh,      \* it is less than 300 s old
    published,  \* what _wildcard_.<base>.pem holds
    shadowed    \* history: the base domain got a certificate of its own meanwhile

dns_vars == <<token, proceed, lock, certbot, request, verify, awaited, given, dns,
              wildcard, newest, fresh, published, shadowed>>
files    == <<token, proceed>>
client   == <<awaited, given, dns>>
lineages == <<wildcard, newest, fresh, shadowed>>

DnsTypeOK ==
    /\ {token, lock, given, dns} \subseteq Runs \cup {NoRun}
    /\ {proceed, fresh, shadowed} \subseteq BOOLEAN
    /\ wildcard \in {"none", "valid", "due"}
    /\ awaited \in ({"request", "verify"} \X Runs) \cup {NoRun}
    /\ certbot \in [Runs -> {"none", "hook", "waiting", "validate", "cleanup",
                             "cleanup_failed", "save", "done"}]
    /\ request \in [Runs -> {"none", "clean_token", "clean_proceed", "start", "poll", "done",
                             "renewal"}]
    /\ verify \in [Runs -> {"none", "poll", "done"}]
    /\ {newest, published} \subseteq Runs \cup {NoRun, Plain}
    /\ \A r \in Runs : certbot[r] \notin {"none", "done"} <=> lock = r
-----------------------------------------------------------------------------
RequestAt(r, label) == request' = [request EXCEPT ![r] = label]
CertbotAt(r, label) == certbot' = [certbot EXCEPT ![r] = label]
VerifyAt(r, label)  == verify' = [verify EXCEPT ![r] = label]

\* Nobody reads the answer to a call the client has given up.
Answered(call) == awaited' = IF awaited = call THEN NoRun ELSE awaited

(* POST /api/ssl/dns-challenge/request *)

\* A client that asks again forgets the token it had.
dns_challenge_request(r) ==
    /\ awaited = NoRun /\ request[r] = "none"
    /\ awaited' = <<"request", r>> /\ given' = NoRun
    /\ RequestAt(r, "clean_token")
    /\ UNCHANGED <<files, lock, certbot, verify, dns, lineages, published>>

clean_token(r) ==
    /\ request[r] = "clean_token"
    /\ token' = NoRun
    /\ RequestAt(r, "clean_proceed")
    /\ UNCHANGED <<proceed, lock, certbot, verify, client, lineages, published>>

\* Mutant: the proceed file of the previous challenge is left alone.
clean_proceed_Kept(r) ==
    /\ request[r] = "clean_proceed"
    /\ RequestAt(r, "start")
    /\ UNCHANGED <<files, lock, certbot, verify, client, lineages, published>>

clean_proceed(r) ==
    /\ request[r] = "clean_proceed"
    /\ proceed' = FALSE
    /\ RequestAt(r, "start")
    /\ UNCHANGED <<token, lock, certbot, verify, client, lineages, published>>

\* run_certbot(): certbot refuses to run beside another certbot, and does nothing
\* when the certificate it has is not due.
run_certbot(r) ==
    /\ request[r] = "start"
    /\ RequestAt(r, "poll")
    /\ IF lock = NoRun /\ wildcard # "valid"
       THEN lock' = r /\ CertbotAt(r, "hook")
       ELSE CertbotAt(r, "done") /\ UNCHANGED lock
    /\ UNCHANGED <<files, verify, client, lineages, published>>

\* "Poll for the auth hook to write the challenge token", whichever hook it is;
\* the client may have given up.
request_answers(r) ==
    /\ request[r] = "poll"
    /\ RequestAt(r, "done")
    /\ Answered(<<"request", r>>)
    /\ \/ token # NoRun /\ given' = (IF awaited = <<"request", r>> THEN token ELSE given)
       \/ UNCHANGED given
    /\ UNCHANGED <<files, lock, certbot, verify, dns, lineages, published>>
-----------------------------------------------------------------------------
(* certbot and its hooks *)

\* certbot renew: the hooks stored with the lineage, and no file cleaned before them.
certbot_renew(r) ==
    /\ request[r] = "none" /\ lock = NoRun /\ wildcard = "due"
    /\ RequestAt(r, "renewal")
    /\ lock' = r /\ CertbotAt(r, "hook")
    /\ UNCHANGED <<files, verify, client, lineages, published>>

\* dns-challenge-auth-hook.sh
hook_writes_token(r) ==
    /\ certbot[r] = "hook"
    /\ token' = r
    /\ CertbotAt(r, "waiting")
    /\ UNCHANGED <<proceed, lock, request, verify, client, lineages, published>>

hook_sees_proceed(r) ==
    /\ certbot[r] = "waiting" /\ proceed
    /\ CertbotAt(r, "validate")
    /\ UNCHANGED <<files, lock, request, verify, client, lineages, published>>

\* "Timed out waiting for proceed signal"
hook_times_out(r) ==
    /\ certbot[r] = "waiting"
    /\ CertbotAt(r, "cleanup_failed")
    /\ UNCHANGED <<files, lock, request, verify, client, lineages, published>>

\* The CA looks the TXT record up.
ca_validates(r) ==
    /\ certbot[r] = "validate"
    /\ CertbotAt(r, IF dns = r THEN "cleanup" ELSE "cleanup_failed")
    /\ UNCHANGED <<files, lock, request, verify, client, lineages, published>>

\* The request has seen the file and is about to remove it.
Removes(q) == \/ request[q] = "clean_token" /\ token # NoRun
              \/ request[q] = "clean_proceed" /\ proceed

\* dns-challenge-cleanup-hook.sh, before the certificate is there.  A request that
\* finds its file gone is a 500.
cleanup_hook(r) ==
    /\ certbot[r] \in {"cleanup", "cleanup_failed"}
    /\ token' = NoRun /\ proceed' = FALSE
    /\ IF certbot[r] = "cleanup"
       THEN CertbotAt(r, "save") /\ UNCHANGED lock
       ELSE CertbotAt(r, "done") /\ lock' = NoRun
    /\ \/ UNCHANGED <<request, awaited>>
       \/ \E q \in Runs :
            Removes(q) /\ RequestAt(q, "done") /\ Answered(<<"request", q>>)
    /\ UNCHANGED <<verify, given, dns, lineages, published>>

certbot_saves(r) ==
    /\ certbot[r] = "save"
    /\ wildcard' = "valid" /\ newest' = r /\ fresh' = TRUE
    /\ CertbotAt(r, "done") /\ lock' = NoRun
    /\ UNCHANGED <<files, request, verify, client, published, shadowed>>

\* /api/ssl gets or renews a certificate of the base domain itself.
other_issue ==
    /\ lock = NoRun
    /\ newest' = Plain /\ fresh' = TRUE /\ shadowed' = TRUE
    /\ UNCHANGED <<files, lock, certbot, request, verify, client, wildcard, published>>

\* 300 s pass.
age ==
    /\ fresh /\ fresh' = FALSE
    /\ UNCHANGED <<files, lock, certbot, request, verify, client, wildcard, newest, published, shadowed>>

\* Weeks pass: every call and every clock is over.
falls_due ==
    /\ wildcard = "valid" /\ wildcard' = "due"
    /\ lock = NoRun /\ awaited = NoRun /\ ~fresh
    /\ \A r \in Runs : request[r] \in {"none", "done", "renewal"} /\ verify[r] # "poll"
    /\ UNCHANGED <<files, lock, certbot, request, verify, client, newest, fresh, shadowed, published>>
-----------------------------------------------------------------------------
(* The client, and POST /api/ssl/dns-challenge/verify *)

set_dns ==
    /\ awaited = NoRun /\ given # NoRun
    /\ dns' = given
    /\ UNCHANGED <<files, lock, certbot, request, verify, awaited, given, lineages, published>>

\* The proceed file is written, whether or not a hook waits for it.
dns_challenge_verify(r) ==
    /\ awaited = NoRun /\ given = r /\ dns = r /\ verify[r] # "poll"
    /\ proceed' = TRUE
    /\ awaited' = <<"verify", r>>
    /\ VerifyAt(r, "poll")
    /\ UNCHANGED <<token, lock, certbot, request, given, dns, lineages, published>>

\* Mutant: the age of the lineage is not looked at.
Found_Old == newest # NoRun

\* find_certbot_live_dir(): the youngest lineage of the base domain, if it is young.
Found == fresh /\ newest # NoRun

\* What is found is published as the wildcard and given to the rows of both
\* names, unless publish_pem_bundle() refuses it; or 120 s are over.
verify_answers(r) ==
    /\ verify[r] = "poll"
    /\ \/ Found /\ published' = newest
       \/ UNCHANGED published
    /\ VerifyAt(r, "done")
    /\ Answered(<<"verify", r>>)
    /\ UNCHANGED <<files, lock, certbot, request, given, dns, lineages>>

\* POST /api/certificates/renew, once certbot has renewed something: the bundle of a
\* row is there and gets the youngest lineage, however old.
renew_certificates ==
    /\ published # NoRun /\ newest # NoRun
    /\ published' = newest
    /\ UNCHANGED <<files, lock, certbot, request, verify, client, lineages>>

\* The client gives up waiting; its handler does not know.
client_gives_up ==
    /\ awaited # NoRun
    /\ \A r \in Runs : request[r] \in {"none", "poll", "done", "renewal"}
    /\ awaited' = NoRun
    /\ UNCHANGED <<files, lock, certbot, request, verify, given, dns, lineages, published>>
-----------------------------------------------------------------------------
\* /tmp may hold the files of a challenge an earlier process was killed in, and
\* certbot an old certificate of the base domain.
DnsInit ==
    /\ token = NoRun /\ proceed \in BOOLEAN
    /\ lock = NoRun
    /\ certbot = [r \in Runs |-> "none"]
    /\ request = [r \in Runs |-> "none"]
    /\ verify = [r \in Runs |-> "none"]
    /\ awaited = NoRun /\ given = NoRun /\ dns = NoRun
    /\ wildcard = "none" /\ newest \in {NoRun, Plain} /\ fresh = FALSE
    /\ published = NoRun /\ shadowed = FALSE

DnsStep(r) ==
    \/ dns_challenge_request(r) \/ clean_token(r) \/ clean_proceed(r)
    \/ run_certbot(r) \/ request_answers(r) \/ certbot_renew(r)
    \/ hook_writes_token(r) \/ hook_sees_proceed(r) \/ hook_times_out(r)
    \/ ca_validates(r) \/ cleanup_hook(r) \/ certbot_saves(r)
    \/ dns_challenge_verify(r) \/ verify_answers(r)

DnsNext ==
    \/ \E r \in Runs : DnsStep(r)
    \/ set_dns \/ client_gives_up \/ other_issue \/ age \/ falls_due \/ renew_certificates

DnsSpec == DnsInit /\ [][DnsNext]_dns_vars
-----------------------------------------------------------------------------
(* Properties *)

\* "Clean up any previous challenge files": the hook of a run that a request started
\* goes on for a TXT record that holds its own token, so that no challenge is spent on
\* the record of an earlier one - although renewals run the same hooks in between, and
\* a request may be answered with a renewal's token.  (The hook of a renewal finds the
\* proceed file of a verify that was late or repeated, or gets one from such a verify
\* while it waits, and goes on with the old record: it is not in this property.)
GoesOnForItsToken ==
    \A r \in Runs :
        certbot[r] = "waiting" /\ certbot'[r] = "validate" => dns = r \/ request[r] = "renewal"

ProceedAnswersDns == [][GoesOnForItsToken]_dns_vars

\* "Wildcard certificate obtained and HAProxy updated": what verify, or a renewal after
\* it, publishes as the wildcard's bundle is a certificate of the wildcard, although
\* the lineage of the base domain itself is looked at too and may be the only one there
\* - however the routes, the hooks and their clocks mix, as long as the base domain is
\* not issued a certificate of its own meanwhile.  (One that is less than 300 s old when
\* verify looks, or the youngest at a renewal, is published as the wildcard's.)
WildcardPublished == ~shadowed => published # Plain
=============================================================================
