-------------------------- MODULE DnsChallengeProofs --------------------------
(***************************************************************************)
(* That no hook of a requested run goes on for another run's TXT record,   *)
(* and that what is published as the wildcard is one, for any number of    *)
(* requests and renewals and whatever the routes, the hooks, the client    *)
(* and their clocks do.                                                    *)
(*                                                                         *)
(* The client is the thread of the argument: it waits for one call at a    *)
(* time, and a new request forgets the token of the last one before its    *)
(* certbot can take the lock.  A renewal takes it from under a client that *)
(* still holds an old token; then nothing is said of the run that has it.  *)
(***************************************************************************)
EXTENDS DnsChallenge, TLAPS

\* A request that has not started certbot is the one the client waits for, ...
Cleaning == {"clean_token", "clean_proceed", "start"}

Waited == \A r \in Runs : request[r] \in Cleaning => awaited = <<"request", r>> /\ given = NoRun

\* ... and when it starts certbot, no earlier call has left its proceed file.
Cleaned == \A r \in Runs : request[r] = "start" => ~ proceed

\* While certbot runs, the token on disk is that run's, and so is the token the client
\* has unless it is a renewal, ...
TokenOfRun == token # NoRun => token = lock
TokenGone  == \A r \in Runs : certbot[r] = "save" => token = NoRun
GivenOfRun == given # NoRun /\ lock # NoRun => given = lock \/ request[lock] = "renewal"

\* ... and so is the TXT record once the proceed file is there.
ProceedOfRun == proceed /\ lock # NoRun => dns = lock \/ request[lock] = "renewal"

\* A young lineage is the wildcard's, and so is the youngest once a bundle is published,
\* unless the base domain got a certificate.
YoungIsWildcard ==
    ~ shadowed => /\ ~ (fresh /\ newest = Plain)
                  /\ published # Plain /\ (published # NoRun => newest # Plain)

\* certbot has not begun before the request has started it.
NotBegun == \A r \in Runs : request[r] \in {"none"} \cup Cleaning => certbot[r] = "none"

RequestStages == {"none", "clean_token", "clean_proceed", "start", "poll", "done", "renewal"}
CertbotStages == {"none", "hook", "waiting", "validate", "cleanup", "cleanup_failed", "save", "done"}

\* DnsTypeOK, one variable after the other.
Types ==
    /\ token \in Runs \cup {NoRun} /\ lock \in Runs \cup {NoRun}
    /\ given \in Runs \cup {NoRun} /\ dns \in Runs \cup {NoRun}
    /\ proceed \in BOOLEAN /\ fresh \in BOOLEAN /\ shadowed \in BOOLEAN
    /\ wildcard \in {"none", "valid", "due"}
    /\ awaited \in ({"request", "verify"} \X Runs) \cup {NoRun}
    /\ certbot \in [Runs -> CertbotStages]
    /\ request \in [Runs -> RequestStages]
    /\ verify \in [Runs -> {"none", "poll", "done"}]
    /\ newest \in Runs \cup {NoRun, Plain} /\ published \in Runs \cup {NoRun, Plain}
    /\ \A r \in Runs : certbot[r] \notin {"none", "done"} <=> lock = r

DnsTypeInv == Types /\ NotBegun

DnsInv ==
    /\ DnsTypeInv /\ Waited /\ Cleaned /\ TokenOfRun /\ TokenGone /\ GivenOfRun
    /\ ProceedOfRun /\ YoungIsWildcard
-----------------------------------------------------------------------------
(* Types *)

LEMMA TypeParts == DnsTypeOK <=> Types
  BY DEF DnsTypeOK, Types, RequestStages, CertbotStages

\* A run moves: it takes the lock, keeps it, gives it back, or goes without.
LEMMA CertbotMoves ==
    ASSUME Types, NEW r \in Runs, NEW label \in CertbotStages, CertbotAt(r, label),
           \/ lock \in {NoRun, r} /\ lock' = r /\ label \notin {"none", "done"}
           \/ lock = r /\ lock' = NoRun /\ label = "done"
           \/ lock # r /\ lock' = lock /\ label = "done"
    PROVE  /\ certbot' \in [Runs -> CertbotStages] /\ lock' \in Runs \cup {NoRun}
           /\ \A s \in Runs : certbot'[s] \notin {"none", "done"} <=> lock' = s
           /\ certbot'[r] = label /\ \A s \in Runs \ {r} : certbot'[s] = certbot[s]
  <1>1. /\ certbot \in [Runs -> CertbotStages] /\ lock \in Runs \cup {NoRun} /\ NoRun \notin Runs
        /\ \A s \in Runs : certbot[s] \notin {"none", "done"} <=> lock = s
    BY Distinguished DEF Types
  <1>2. certbot'[r] = label /\ \A s \in Runs \ {r} : certbot'[s] = certbot[s]
    BY <1>1 DEF CertbotAt
  <1> QED BY <1>1, <1>2 DEF CertbotAt

\* A request moves on, perhaps past the last thing it does.
LEMMA RequestMoves ==
    ASSUME Types, NEW r \in Runs, NEW label \in RequestStages, RequestAt(r, label)
    PROVE  /\ request' \in [Runs -> RequestStages]
           /\ request'[r] = label /\ \A s \in Runs \ {r} : request'[s] = request[s]
  BY DEF Types, RequestAt

\* What runs without a request goes on without one.
LEMMA RenewalStays ==
    ASSUME Types, NEW r \in Runs, NEW label, RequestAt(r, label), request[r] # "renewal"
    PROVE  \A s \in Runs : request[s] = "renewal" => request'[s] = "renewal"
  BY DEF Types, RequestAt

LEMMA StageNames ==
    /\ {"none", "clean_token", "clean_proceed", "start", "poll", "done", "renewal"} = RequestStages
    /\ {"none", "hook", "waiting", "validate", "cleanup", "cleanup_failed", "save", "done"} = CertbotStages
    /\ {"clean_token", "clean_proceed", "start"} = Cleaning
  BY DEF RequestStages, CertbotStages, Cleaning

LEMMA AnsweredType ==
    ASSUME Types, NEW call, Answered(call)
    PROVE  awaited' \in {awaited, NoRun} /\ awaited' \in ({"request", "verify"} \X Runs) \cup {NoRun}
  BY DEF Types, Answered

\* The routes: nothing but the start touches certbot.
LEMMA RouteTypes ==
    ASSUME DnsTypeInv, NEW r \in Runs,
           \/ dns_challenge_request(r) \/ clean_token(r) \/ clean_proceed(r)
           \/ run_certbot(r) \/ request_answers(r)
           \/ dns_challenge_verify(r) \/ verify_answers(r)
    PROVE  DnsTypeInv'
  <1> USE DEF DnsTypeInv
  <1>1. CASE dns_challenge_request(r) \/ clean_token(r) \/ clean_proceed(r)
    <2>1. PICK label \in Cleaning : RequestAt(r, label) /\ request[r] \in {"none"} \cup Cleaning
      BY <1>1, StageNames DEF dns_challenge_request, clean_token, clean_proceed
    <2>2. awaited' \in ({"request", "verify"} \X Runs) \cup {NoRun}
          /\ token' \in Runs \cup {NoRun} /\ given' \in Runs \cup {NoRun} /\ proceed' \in BOOLEAN
      <3>1. CASE dns_challenge_request(r)
        BY <3>1 DEF Types, dns_challenge_request, files
      <3>2. CASE clean_token(r) \/ clean_proceed(r)
        <4>1. UNCHANGED <<awaited, given>> /\ token' \in {token, NoRun} /\ proceed' \in {proceed, FALSE}
          BY <3>2 DEF clean_token, clean_proceed, client
        <4> QED BY <4>1 DEF Types
      <3> QED BY <1>1, <3>1, <3>2
    <2>3. UNCHANGED <<lock, certbot, verify, dns, lineages, published>>
      BY <1>1 DEF dns_challenge_request, clean_token, clean_proceed, client, lineages
    <2>4. /\ request' \in [Runs -> RequestStages]
          /\ request'[r] = label /\ \A s \in Runs \ {r} : request'[s] = request[s]
      BY <2>1, StageNames, RequestMoves
    <2> QED BY <2>1, <2>2, <2>3, <2>4 DEF Types, NotBegun, lineages
  <1>2. CASE request_answers(r)
    <2>1. RequestAt(r, "done") /\ UNCHANGED <<files, lock, certbot, verify, dns, lineages, published>>
          /\ given' \in {given, token} /\ Answered(<<"request", r>>)
      BY <1>2 DEF request_answers
    <2>2. /\ request' \in [Runs -> RequestStages]
          /\ request'[r] = "done" /\ \A s \in Runs \ {r} : request'[s] = request[s]
      BY <2>1, StageNames, RequestMoves
    <2> QED BY <2>1, <2>2, StageNames, AnsweredType DEF Types, NotBegun, lineages, files
  <1>3. CASE dns_challenge_verify(r) \/ verify_answers(r)
    <2>1. /\ UNCHANGED <<token, lock, certbot, request, given, dns, lineages>>
          /\ proceed' \in {proceed, TRUE} /\ published' \in {published, newest}
          /\ verify' \in [Runs -> {"none", "poll", "done"}]
      BY <1>3 DEF dns_challenge_verify, verify_answers, VerifyAt, files, Types
    <2>2. awaited' \in ({"request", "verify"} \X Runs) \cup {NoRun}
      BY <1>3, AnsweredType DEF dns_challenge_verify, verify_answers
    <2> QED BY <2>1, <2>2 DEF Types, NotBegun, lineages
  <1>4. CASE run_certbot(r)
    <2>1. UNCHANGED <<files, verify, client, lineages, published>> /\ RequestAt(r, "poll")
          /\ request[r] = "start"
      BY <1>4 DEF run_certbot
    <2>2. PICK label \in {"hook", "done"} :
            /\ CertbotAt(r, label)
            /\ \/ lock = NoRun /\ lock' = r /\ label = "hook"
               \/ lock' = lock /\ label = "done"
      BY <1>4 DEF run_certbot
    <2>3. lock # r
      BY <2>1, StageNames DEF Types, NotBegun
    <2>4. /\ certbot' \in [Runs -> CertbotStages] /\ lock' \in Runs \cup {NoRun}
          /\ \A s \in Runs : certbot'[s] \notin {"none", "done"} <=> lock' = s
          /\ certbot'[r] = label /\ \A s \in Runs \ {r} : certbot'[s] = certbot[s]
      BY <2>2, <2>3, StageNames, CertbotMoves
    <2>5. /\ request' \in [Runs -> RequestStages]
          /\ request'[r] = "poll" /\ \A s \in Runs \ {r} : request'[s] = request[s]
      BY <2>1, StageNames, RequestMoves
    <2> QED BY <2>1, <2>4, <2>5, StageNames DEF Types, NotBegun, files, client, lineages
  <1> QED BY <1>1, <1>2, <1>3, <1>4

\* certbot and its hooks: only the run that holds the lock is in one.
LEMMA HookTypes ==
    ASSUME DnsTypeInv, NEW r \in Runs,
           \/ hook_writes_token(r) \/ hook_sees_proceed(r) \/ hook_times_out(r)
           \/ ca_validates(r) \/ cleanup_hook(r) \/ certbot_saves(r)
    PROVE  DnsTypeInv' /\ lock = r
  <1> USE DEF DnsTypeInv
  <1>1. certbot[r] \notin {"none", "done"} /\ lock = r
    BY DEF Types, hook_writes_token, hook_sees_proceed, hook_times_out, ca_validates, cleanup_hook,
       certbot_saves
  <1>2. request[r] \notin {"none"} \cup Cleaning
    BY <1>1 DEF NotBegun
  <1>3. PICK label \in CertbotStages \ {"none"} :
          /\ CertbotAt(r, label)
          /\ \/ lock' = lock /\ label # "done"
             \/ lock' = NoRun /\ label = "done"
    BY StageNames DEF hook_writes_token, hook_sees_proceed, hook_times_out, ca_validates, cleanup_hook,
       certbot_saves
  <1>4. /\ certbot' \in [Runs -> CertbotStages] /\ lock' \in Runs \cup {NoRun}
        /\ \A s \in Runs : certbot'[s] \notin {"none", "done"} <=> lock' = s
        /\ certbot'[r] = label /\ \A s \in Runs \ {r} : certbot'[s] = certbot[s]
    BY <1>1, <1>3, CertbotMoves
  <1>5. /\ token' \in Runs \cup {NoRun} /\ proceed' \in BOOLEAN
        /\ wildcard' \in {"none", "valid", "due"} /\ fresh' \in BOOLEAN /\ newest' \in Runs \cup {NoRun, Plain}
        /\ UNCHANGED <<verify, given, dns, published, shadowed>>
    BY DEF Types, files, client, lineages, hook_writes_token, hook_sees_proceed, hook_times_out,
       ca_validates, cleanup_hook, certbot_saves
  <1>6. /\ awaited' \in ({"request", "verify"} \X Runs) \cup {NoRun}
        /\ \/ UNCHANGED request
           \/ \E q \in Runs : RequestAt(q, "done")
    <2>1. CASE UNCHANGED <<request, awaited>>
      BY <2>1 DEF Types
    <2>2. CASE \E q \in Runs : RequestAt(q, "done") /\ Answered(<<"request", q>>)
      BY <2>2, AnsweredType
    <2> QED BY <2>1, <2>2 DEF client, hook_writes_token, hook_sees_proceed, hook_times_out, ca_validates,
            cleanup_hook, certbot_saves
  <1>7. request' \in [Runs -> RequestStages] /\ \A s \in Runs : request'[s] \in {request[s], "done"}
    <2>1. CASE UNCHANGED request
      BY <2>1 DEF Types
    <2>2. CASE \E q \in Runs : RequestAt(q, "done")
      BY <2>2, StageNames, RequestMoves
    <2> QED BY <1>6, <2>1, <2>2
  <1>8. NotBegun'
    BY <1>2, <1>4, <1>7, StageNames DEF NotBegun
  <1> QED BY <1>1, <1>4, <1>5, <1>6, <1>7, <1>8 DEF Types

\* A renewal takes the lock as a request's run does.
LEMMA RenewalTypes ==
    ASSUME DnsTypeInv, NEW r \in Runs, certbot_renew(r)
    PROVE  /\ DnsTypeInv' /\ lock' = r /\ certbot'[r] = "hook" /\ request'[r] = "renewal"
           /\ \A s \in Runs \ {r} : certbot'[s] = certbot[s] /\ request'[s] = request[s]
  <1> USE DEF DnsTypeInv
  <1>1. /\ UNCHANGED <<files, verify, client, lineages, published>>
        /\ RequestAt(r, "renewal") /\ CertbotAt(r, "hook") /\ lock = NoRun /\ lock' = r
    BY DEF certbot_renew
  <1>2. /\ certbot' \in [Runs -> CertbotStages] /\ lock' \in Runs \cup {NoRun}
        /\ \A s \in Runs : certbot'[s] \notin {"none", "done"} <=> lock' = s
        /\ certbot'[r] = "hook" /\ \A s \in Runs \ {r} : certbot'[s] = certbot[s]
    BY <1>1, StageNames, CertbotMoves
  <1>3. /\ request' \in [Runs -> RequestStages]
        /\ request'[r] = "renewal" /\ \A s \in Runs \ {r} : request'[s] = request[s]
    BY <1>1, StageNames, RequestMoves
  <1> QED BY <1>1, <1>2, <1>3, StageNames DEF Types, NotBegun, files, client, lineages

LEMMA DnsWorldTypes ==
    ASSUME DnsTypeInv,
           \/ set_dns \/ client_gives_up \/ other_issue \/ age \/ falls_due \/ renew_certificates
           \/ UNCHANGED dns_vars
    PROVE  DnsTypeInv'
  BY DEF DnsTypeInv, Types, NotBegun, set_dns, client_gives_up, other_issue, age, falls_due,
     renew_certificates, dns_vars, files, client, lineages

LEMMA DnsTypeStep ==
    ASSUME DnsTypeInv, [DnsNext]_dns_vars
    PROVE  DnsTypeInv'
  BY RouteTypes, HookTypes, RenewalTypes, DnsWorldTypes DEF DnsNext, DnsStep

LEMMA DnsTypeInit == ASSUME DnsInit PROVE DnsTypeInv
  <1>1. /\ certbot \in [Runs -> CertbotStages] /\ request \in [Runs -> RequestStages]
        /\ \A r \in Runs : certbot[r] = "none"
    BY StageNames DEF DnsInit
  <1> QED BY <1>1, Distinguished DEF DnsInit, DnsTypeInv, Types, NotBegun

\* Every variable keeps its type, and exactly the run that holds certbot's lock is
\* between its hooks.
THEOREM DnsTypes == DnsSpec => []DnsTypeOK
  <1>1. DnsInit => DnsTypeInv
    BY DnsTypeInit
  <1>2. DnsTypeInv /\ [DnsNext]_dns_vars => DnsTypeInv'
    BY DnsTypeStep
  <1>3. DnsTypeInv => DnsTypeOK
    BY TypeParts DEF DnsTypeInv
  <1> QED BY <1>1, <1>2, <1>3, PTL DEF DnsSpec
-----------------------------------------------------------------------------
(* Whose the token, the proceed file and the TXT record are *)

\* A call of the client is not NoRun, and a call of one route is not one of the other.
LEMMA Calls ==
    ASSUME NEW r \in Runs
    PROVE  /\ NoRun \notin Runs /\ <<"request", r>> # NoRun /\ <<"verify", r>> # NoRun
           /\ \A s : <<"request", s>> # <<"verify", r>>
           /\ \A s : <<"request", s>> = <<"request", r>> => s = r
  BY Distinguished

\* Only the client's own request is between its start and certbot's.
LEMMA RouteKeeps ==
    ASSUME DnsInv, DnsTypeInv', NEW r \in Runs,
           \/ dns_challenge_request(r) \/ clean_token(r) \/ clean_proceed(r)
           \/ run_certbot(r) \/ request_answers(r)
    PROVE  DnsInv'
  <1>0. Types /\ Types' /\ NoRun \notin Runs
    BY Calls DEF DnsInv, DnsTypeInv
  <1>1. UNCHANGED <<lineages, published, dns>> /\ YoungIsWildcard'
    BY DEF dns_challenge_request, clean_token, clean_proceed, run_certbot, request_answers, client,
       lineages, DnsInv, YoungIsWildcard
  <1>2. ASSUME dns_challenge_request(r) PROVE DnsInv'
    <2>1. /\ \A s \in Runs : request[s] \notin Cleaning
          /\ request'[r] = "clean_token" /\ \A s \in Runs \ {r} : request'[s] = request[s]
          /\ awaited' = <<"request", r>> /\ given' = NoRun /\ UNCHANGED <<token, proceed, lock, certbot, dns>>
      BY <1>0, <1>2, Calls, StageNames, RequestMoves DEF dns_challenge_request, DnsInv, Waited, files
    <2>2. \A s \in Runs : request[s] = "renewal" => request'[s] = "renewal"
      BY <1>0, <1>2, RenewalStays DEF dns_challenge_request
    <2>3. TokenOfRun' /\ TokenGone' /\ GivenOfRun' /\ ProceedOfRun'
      BY <1>0, <2>1, <2>2 DEF DnsInv, TokenOfRun, TokenGone, GivenOfRun, ProceedOfRun, Types
    <2> QED BY <1>0, <1>1, <2>1, <2>3, StageNames
          DEF DnsInv, Waited, Cleaned
  <1>3. ASSUME clean_token(r) \/ clean_proceed(r) PROVE DnsInv'
    <2>1. /\ request[r] \in Cleaning /\ request'[r] \in Cleaning
          /\ \A s \in Runs \ {r} : request'[s] = request[s]
          /\ UNCHANGED <<awaited, given, lock, certbot, dns>>
          /\ token' \in {token, NoRun}
          /\ proceed' => proceed
          /\ request'[r] = "start" => ~ proceed'
      <3>1. CASE clean_token(r)
        BY <1>0, <3>1, StageNames, RequestMoves DEF clean_token, client
      <3>2. CASE clean_proceed(r)
        BY <1>0, <3>2, StageNames, RequestMoves DEF clean_proceed, client
      <3> QED BY <1>3, <3>1, <3>2
    <2>2. \A s \in Runs : request[s] = "renewal" => request'[s] = "renewal"
      BY <1>0, <1>3, RenewalStays DEF clean_token, clean_proceed
    <2>3. TokenOfRun' /\ TokenGone' /\ GivenOfRun' /\ ProceedOfRun'
      BY <1>0, <2>1, <2>2 DEF DnsInv, TokenOfRun, TokenGone, GivenOfRun, ProceedOfRun, Types
    <2> QED BY <1>0, <1>1, <2>1, <2>3 DEF DnsInv, Waited, Cleaned
  <1>4. ASSUME run_certbot(r) PROVE DnsInv'
    <2>1. /\ request[r] = "start" /\ request'[r] = "poll" /\ \A s \in Runs \ {r} : request'[s] = request[s]
          /\ UNCHANGED <<token, proceed, awaited, given, dns>>
      BY <1>0, <1>4, StageNames, RequestMoves DEF run_certbot, files, client
    <2>2. /\ lock' = lock \/ lock = NoRun
          /\ \A s \in Runs : certbot'[s] = "save" => certbot[s] = "save"
      BY <1>0, <1>4 DEF run_certbot, CertbotAt, Types
    <2>3. given = NoRun /\ ~ proceed /\ (lock = NoRun => token = NoRun)
      BY <2>1, StageNames DEF DnsInv, Waited, Cleaned, TokenOfRun
    <2>4. Waited' /\ Cleaned'
      BY <2>1, StageNames DEF DnsInv, Waited, Cleaned
    <2>5. TokenOfRun' /\ TokenGone' /\ GivenOfRun' /\ ProceedOfRun'
      BY <1>0, <2>1, <2>2, <2>3 DEF DnsInv, TokenOfRun, TokenGone, GivenOfRun, ProceedOfRun
    <2> QED BY <1>1, <2>4, <2>5 DEF DnsInv
  <1>5. ASSUME request_answers(r) PROVE DnsInv'
    <2>1. /\ request[r] = "poll" /\ request'[r] = "done" /\ \A s \in Runs \ {r} : request'[s] = request[s]
          /\ UNCHANGED <<token, proceed, lock, certbot, dns>>
          /\ awaited' = IF awaited = <<"request", r>> THEN NoRun ELSE awaited
          /\ given' = given \/ (awaited = <<"request", r>> /\ token # NoRun /\ given' = token)
      BY <1>0, <1>5, StageNames, RequestMoves DEF request_answers, files, Answered
    <2>2. \A s \in Runs : request'[s] \in Cleaning => awaited # <<"request", r>> /\ request[s] \in Cleaning
      BY <2>1, Calls, StageNames DEF DnsInv, Waited
    <2>3. Waited' /\ Cleaned'
      BY <2>1, <2>2, StageNames DEF DnsInv, Waited, Cleaned
    <2>4. \A s \in Runs : request[s] = "renewal" => request'[s] = "renewal"
      BY <1>0, <1>5, RenewalStays DEF request_answers
    <2>5. TokenOfRun' /\ TokenGone' /\ GivenOfRun' /\ ProceedOfRun'
      BY <1>0, <2>1, <2>4 DEF DnsInv, TokenOfRun, TokenGone, GivenOfRun, ProceedOfRun, Types
    <2> QED BY <1>1, <2>3, <2>5 DEF DnsInv
  <1> QED BY <1>2, <1>3, <1>4, <1>5

\* The client calls verify only with no request in its way, for the token it was given.
LEMMA VerifyKeeps ==
    ASSUME DnsInv, DnsTypeInv', NEW r \in Runs,
           dns_challenge_verify(r) \/ verify_answers(r)
    PROVE  DnsInv'
  <1>0. Types /\ NoRun \notin Runs
    BY Calls DEF DnsInv, DnsTypeInv
  <1>1. ASSUME dns_challenge_verify(r) PROVE DnsInv'
    <2>1. /\ \A s \in Runs : request[s] \notin Cleaning
          /\ UNCHANGED <<token, lock, certbot, request, given, dns, lineages, published>>
          /\ given = r /\ dns = r
      BY <1>0, <1>1, Calls DEF dns_challenge_verify, DnsInv, Waited
    <2>2. ProceedOfRun'
      BY <1>0, <2>1 DEF DnsInv, GivenOfRun, ProceedOfRun
    <2> QED BY <2>1, <2>2, StageNames
          DEF DnsInv, Waited, Cleaned, TokenOfRun, TokenGone, GivenOfRun, YoungIsWildcard, lineages
  <1>2. ASSUME verify_answers(r) PROVE DnsInv'
    <2>1. /\ UNCHANGED <<token, proceed, lock, certbot, request, given, dns, lineages>>
          /\ awaited' = IF awaited = <<"verify", r>> THEN NoRun ELSE awaited
          /\ published' = published \/ (fresh /\ published' = newest)
      BY <1>2 DEF verify_answers, files, Found, Answered
    <2>2. Waited'
      BY <2>1, Calls DEF DnsInv, Waited
    <2>3. YoungIsWildcard'
      BY <2>1 DEF DnsInv, YoungIsWildcard, lineages
    <2> QED BY <2>1, <2>2, <2>3 DEF DnsInv, Cleaned, TokenOfRun, TokenGone, GivenOfRun, ProceedOfRun
  <1> QED BY <1>1, <1>2

LEMMA HookKeeps ==
    ASSUME DnsInv, DnsTypeInv', NEW r \in Runs,
           \/ hook_writes_token(r) \/ hook_sees_proceed(r) \/ hook_times_out(r)
           \/ ca_validates(r) \/ cleanup_hook(r) \/ certbot_saves(r)
    PROVE  DnsInv'
  <1>0. Types /\ Types' /\ lock = r /\ NoRun \notin Runs /\ r # Plain /\ r # NoRun
    BY Calls, HookTypes, Distinguished DEF DnsInv, DnsTypeInv
  <1>1. ASSUME hook_writes_token(r) \/ hook_sees_proceed(r) \/ hook_times_out(r) \/ ca_validates(r)
        PROVE  DnsInv'
    <2>1. /\ UNCHANGED <<proceed, lock, request, awaited, given, dns, lineages, published>>
          /\ token' \in {token, r}
          /\ certbot'[r] # "save" /\ \A s \in Runs \ {r} : certbot'[s] = certbot[s]
      BY <1>0, <1>1 DEF hook_writes_token, hook_sees_proceed, hook_times_out, ca_validates, CertbotAt,
         Types, files, client
    <2>2. \A s \in Runs \ {r} : certbot[s] # "save"
      BY <1>0 DEF Types
    <2> QED BY <1>0, <2>1, <2>2 DEF DnsInv, Waited, Cleaned, TokenOfRun, TokenGone, GivenOfRun,
          ProceedOfRun, YoungIsWildcard, lineages
  <1>2. ASSUME cleanup_hook(r) PROVE DnsInv'
    <2>1. /\ token' = NoRun /\ proceed' = FALSE /\ UNCHANGED <<given, dns, lineages, published>>
          /\ lock' \in {lock, NoRun}
      BY <1>2 DEF cleanup_hook
    <2>2. \/ UNCHANGED <<request, awaited>>
          \/ \E q \in Runs : /\ RequestAt(q, "done") /\ request[q] # "renewal"
                            /\ awaited' = (IF awaited = <<"request", q>> THEN NoRun ELSE awaited)
      BY <1>2 DEF cleanup_hook, Answered, Removes
    <2>3. Waited'
      <3>1. CASE UNCHANGED <<request, awaited>>
        BY <2>1, <3>1 DEF DnsInv, Waited
      <3>2. ASSUME NEW q \in Runs, RequestAt(q, "done"),
                   awaited' = IF awaited = <<"request", q>> THEN NoRun ELSE awaited
            PROVE  Waited'
        <4>1. request'[q] = "done" /\ \A s \in Runs \ {q} : request'[s] = request[s]
          BY <1>0, <3>2, StageNames, RequestMoves
        <4> QED BY <2>1, <3>2, <4>1, Calls, StageNames DEF DnsInv, Waited
      <3> QED BY <2>2, <3>1, <3>2
    <2>4. Cleaned' /\ TokenOfRun' /\ TokenGone' /\ ProceedOfRun'
      BY <2>1 DEF Cleaned, TokenOfRun, TokenGone, ProceedOfRun
    <2>5. \A s \in Runs : request[s] = "renewal" => request'[s] = "renewal"
      BY <1>0, <2>2, RenewalStays
    <2>6. GivenOfRun'
      BY <1>0, <2>1, <2>5 DEF DnsInv, GivenOfRun
    <2> QED BY <2>1, <2>3, <2>4, <2>6 DEF DnsInv, YoungIsWildcard, lineages
  <1>3. ASSUME certbot_saves(r) PROVE DnsInv'
    <2>1. /\ UNCHANGED <<token, proceed, request, awaited, given, dns, published, shadowed>>
          /\ newest' = r /\ lock' = NoRun /\ certbot[r] = "save"
      BY <1>3 DEF certbot_saves, files, client
    <2>2. token = NoRun
      BY <2>1 DEF DnsInv, TokenGone
    <2> QED BY <1>0, <2>1, <2>2 DEF DnsInv, Waited, Cleaned, TokenOfRun, TokenGone, GivenOfRun,
          ProceedOfRun, YoungIsWildcard
  <1> QED BY <1>1, <1>2, <1>3

\* A renewal finds no token: the run before it has cleaned up.
LEMMA RenewalKeeps ==
    ASSUME DnsInv, DnsTypeInv', NEW r \in Runs, certbot_renew(r)
    PROVE  DnsInv'
  <1>1. /\ lock' = r /\ certbot'[r] = "hook" /\ request'[r] = "renewal"
        /\ \A s \in Runs \ {r} : certbot'[s] = certbot[s] /\ request'[s] = request[s]
    BY RenewalTypes DEF DnsInv
  <1>2. /\ UNCHANGED <<token, proceed, awaited, given, dns, newest, fresh, shadowed, published>>
        /\ lock = NoRun
    BY DEF certbot_renew, files, client, lineages
  <1>3. Waited' /\ Cleaned' /\ TokenGone'
    BY <1>1, <1>2, StageNames DEF DnsInv, Waited, Cleaned, TokenGone
  <1>4. TokenOfRun' /\ GivenOfRun' /\ ProceedOfRun' /\ YoungIsWildcard'
    BY <1>1, <1>2 DEF DnsInv, TokenOfRun, GivenOfRun, ProceedOfRun, YoungIsWildcard
  <1> QED BY <1>3, <1>4 DEF DnsInv

LEMMA DnsWorldKeeps ==
    ASSUME DnsInv, DnsTypeInv',
           \/ set_dns \/ client_gives_up \/ other_issue \/ age \/ falls_due \/ renew_certificates
           \/ UNCHANGED dns_vars
    PROVE  DnsInv'
  <1>1. ASSUME set_dns PROVE DnsInv'
    <2>1. UNCHANGED <<token, proceed, lock, certbot, request, awaited, given, lineages, published>>
          /\ given # NoRun /\ dns' = given
      BY <1>1 DEF set_dns, files
    <2> QED BY <2>1 DEF DnsInv, Waited, Cleaned, TokenOfRun, TokenGone, GivenOfRun, ProceedOfRun,
          YoungIsWildcard, lineages
  <1>2. ASSUME client_gives_up PROVE DnsInv'
    <2>1. UNCHANGED <<token, proceed, lock, certbot, request, given, dns, lineages, published>>
          /\ \A r \in Runs : request[r] \notin Cleaning
      BY <1>2, StageNames DEF client_gives_up, files
    <2> QED BY <2>1 DEF DnsInv, Waited, Cleaned, TokenOfRun, TokenGone, GivenOfRun, ProceedOfRun,
          YoungIsWildcard, lineages
  <1>3. ASSUME other_issue PROVE DnsInv'
    <2>1. UNCHANGED <<token, proceed, lock, certbot, request, awaited, given, dns, published>> /\ shadowed'
      BY <1>3 DEF other_issue, files, client
    <2> QED BY <2>1 DEF DnsInv, Waited, Cleaned, TokenOfRun, TokenGone, GivenOfRun, ProceedOfRun,
          YoungIsWildcard
  <1>4. ASSUME age PROVE DnsInv'
    <2>1. UNCHANGED <<token, proceed, lock, certbot, request, awaited, given, dns, newest, published, shadowed>>
          /\ ~ fresh'
      BY <1>4 DEF age, files, client
    <2> QED BY <2>1 DEF DnsInv, Waited, Cleaned, TokenOfRun, TokenGone, GivenOfRun, ProceedOfRun,
          YoungIsWildcard
  <1>5. ASSUME UNCHANGED dns_vars PROVE DnsInv'
    BY <1>5 DEF dns_vars, files, client, lineages, DnsInv, Waited, Cleaned, TokenOfRun, TokenGone, GivenOfRun,
       ProceedOfRun, YoungIsWildcard
  <1>6. ASSUME falls_due PROVE DnsInv'
    BY <1>6 DEF falls_due, files, client, DnsInv, Waited, Cleaned, TokenOfRun, TokenGone, GivenOfRun,
       ProceedOfRun, YoungIsWildcard
  <1>7. ASSUME renew_certificates PROVE DnsInv'
    <2>1. /\ UNCHANGED <<token, proceed, lock, certbot, request, awaited, given, dns, lineages>>
          /\ published # NoRun /\ published' = newest
      BY <1>7 DEF renew_certificates, files, client
    <2> QED BY <2>1 DEF DnsInv, Waited, Cleaned, TokenOfRun, TokenGone, GivenOfRun, ProceedOfRun,
          YoungIsWildcard, lineages
  <1> QED BY <1>1, <1>2, <1>3, <1>4, <1>5, <1>6, <1>7

LEMMA DnsInvariant == DnsSpec => []DnsInv
  <1>1. DnsInit => DnsInv
    <2> SUFFICES ASSUME DnsInit PROVE DnsInv
      OBVIOUS
    <2>1. DnsTypeInv /\ token = NoRun /\ given = NoRun /\ lock = NoRun /\ ~ fresh /\ published = NoRun
          /\ \A r \in Runs : request[r] = "none" /\ certbot[r] = "none"
      BY DnsTypeInit DEF DnsInit
    <2> QED BY <2>1, StageNames, Distinguished DEF DnsInv, Waited, Cleaned, TokenOfRun,
          TokenGone, GivenOfRun, ProceedOfRun, YoungIsWildcard
  <1>2. DnsInv /\ [DnsNext]_dns_vars => DnsInv'
    <2> SUFFICES ASSUME DnsInv, [DnsNext]_dns_vars PROVE DnsInv'
      OBVIOUS
    <2>1. DnsTypeInv'
      BY DnsTypeStep DEF DnsInv
    <2> QED BY <2>1, RouteKeeps, VerifyKeeps, HookKeeps, RenewalKeeps, DnsWorldKeeps DEF DnsNext, DnsStep
  <1> QED BY <1>1, <1>2, PTL DEF DnsSpec

\* No run of certbot that a request started goes on to the CA with the TXT record of
\* another run, whatever files were left, whoever gave up, whichever call answered late,
\* and whatever renewals ran before it or while its request waited.
THEOREM HooksGoOnForTheirToken == DnsSpec => ProceedAnswersDns
  <1>1. DnsInv /\ [DnsNext]_dns_vars => [GoesOnForItsToken]_dns_vars
    <2> SUFFICES ASSUME DnsInv, DnsNext, NEW r \in Runs, certbot[r] = "waiting", certbot'[r] = "validate"
                 PROVE  dns = r \/ request[r] = "renewal"
      BY DEF GoesOnForItsToken
    <2>1. Types /\ lock = r
      BY DEF DnsInv, DnsTypeInv, Types
    <2>2. proceed
      <3>1. ASSUME NEW s \in Runs, NEW label, CertbotAt(s, label), label # "validate" PROVE FALSE
        BY <2>1, <3>1 DEF CertbotAt, Types
      <3>2. certbot' # certbot
        OBVIOUS
      <3> QED BY <3>1, <3>2 DEF DnsNext, DnsStep, dns_challenge_request, clean_token, clean_proceed, run_certbot,
            request_answers, hook_writes_token, hook_sees_proceed, hook_times_out, ca_validates,
            cleanup_hook, certbot_saves, dns_challenge_verify, verify_answers, set_dns, client_gives_up,
            other_issue, age, certbot_renew, falls_due, renew_certificates
    <2>3. lock # NoRun
      BY <2>1, Distinguished DEF Types
    <2> QED BY <2>1, <2>2, <2>3 DEF DnsInv, ProceedOfRun
  <1> QED BY <1>1, DnsInvariant, PTL DEF DnsSpec, ProceedAnswersDns

\* What is published as the wildcard's bundle is the wildcard's, as long as the base
\* domain is issued no certificate of its own.
THEOREM WildcardsOnly == DnsSpec => []WildcardPublished
  <1>1. DnsInv => WildcardPublished
    BY DEF DnsInv, YoungIsWildcard, WildcardPublished
  <1> QED BY <1>1, DnsInvariant, PTL
=============================================================================
