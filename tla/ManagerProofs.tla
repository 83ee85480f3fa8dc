---------------------------- MODULE ManagerProofs ----------------------------
(***************************************************************************)
(* The parts that share no state, and that each of them keeps, among the   *)
(* others, what it promises by itself.  The proofs about BlockedIPs,       *)
(* DnsChallenge and Routing have modules of their own; those about         *)
(* ClusterSecret, StickTables and PemBundle come first.                    *)
(*                                                                         *)
(* ClusterSecret: the secret stays the one that was rendered, for any      *)
(* number of renders, failures and deaths.  The invariant says who may     *)
(* still write: at most one call, and only while the file is blank.        *)
(*                                                                         *)
(* StickTables: an answer shows the table, for any sources, any counters   *)
(* and any limit.  The parser finds in a row what the table holds, rows of *)
(* different sources differ, and a list that never has a busier row below  *)
(* another shows, up to any limit, the busiest.                            *)
(*                                                                         *)
(* PemBundle: only pairs are published, for any chains cut off anywhere.   *)
(* A key that openssl finds can only be in the last block, which is whole  *)
(* then; a certificate only in the chain; and only the leaf has the key of *)
(* the leaf.                                                               *)
(***************************************************************************)
EXTENDS Manager, BlockedIPsProofs, DnsChallengeProofs, RoutingProofs, FiniteSetTheorems, TLAPS
-----------------------------------------------------------------------------
(* The cluster secret *)

\* A call that is about to write finds the file blank, and nobody else is about
\* to write another secret.
OneWriter ==
    \A t \in Renders :
        stage[t] \in {"write", "truncate", "heal"} =>
            /\ secret = Blank
            /\ \A u \in Renders \ {t} : stage[u] \notin {"write", "truncate", "heal"}

RenderedIsKept == \A t \in Renders : rendered[t] \in Secrets => rendered[t] = secret

\* A file that a call has seen is never unlinked.
FileStays ==
    \A t \in Renders : stage[t] \notin {"idle", "create"} => secret # Absent

SecretInv ==
    /\ SecretTypeOK
    /\ FileStays
    /\ ~overtaken => OneWriter /\ RenderedIsKept

LEMMA FailureType == ASSUME SecretTypeOK, Failure PROVE failures' \in Nat
  BY DEF SecretTypeOK, Failure

\* Where a call goes and what it returns have their types.
LEMMA MoveType ==
  ASSUME SecretTypeOK, NEW t \in Renders, NEW label \in SecretSteps, NEW v \in Secrets \cup {Absent, Blank}
  PROVE  /\ At(t, label) => stage' \in [Renders -> SecretSteps]
         /\ Return(t, v) => stage' \in [Renders -> SecretSteps]
                            /\ rendered' \in [Renders -> Secrets \cup {Absent, Blank}]
  BY DEF SecretTypeOK, At, Return, SecretSteps

\* The lock is held exactly by the call that is between flock() and close().
Held == \A t \in Renders : flock = t <=> stage[t] \in {"locked", "truncate", "heal"}

LEMMA SecretType == SecretTypeOK /\ [SecretNext]_secret_vars => SecretTypeOK'
<1> USE SecretAssumption
<1> SUFFICES ASSUME SecretTypeOK, [SecretNext]_secret_vars PROVE SecretTypeOK'
  OBVIOUS
<1>0. "idle" \in SecretSteps /\ "create" \in SecretSteps /\ "write" \in SecretSteps /\ "reread" \in SecretSteps
      /\ "lock" \in SecretSteps /\ "locked" \in SecretSteps /\ "truncate" \in SecretSteps /\ "heal" \in SecretSteps
  BY DEF SecretSteps
<1>1. ASSUME NEW t \in Renders, look(t) PROVE SecretTypeOK'
  <2>1. stage' \in [Renders -> SecretSteps] /\ rendered' \in [Renders -> Secrets \cup {Absent, Blank}]
    BY <1>0, <1>1 DEF look, SecretTypeOK, At, Return
  <2>2. failures' \in Nat
    BY <1>1, FailureType DEF look, SecretTypeOK
  <2>3. Held'
    BY <1>1 DEF look, At, Return, SecretTypeOK, Held
  <2> QED BY <1>1, <2>1, <2>2, <2>3 DEF look, SecretTypeOK, Held
<1>2. ASSUME NEW t \in Renders, create(t) PROVE SecretTypeOK'
  <2>1. stage' \in [Renders -> SecretSteps]
    BY <1>0, <1>2 DEF create, SecretTypeOK, At
  <2>2. Held'
    BY <1>2 DEF create, At, SecretTypeOK, Held
  <2> QED BY <1>2, <2>1, <2>2 DEF create, SecretTypeOK, Held
<1>3. ASSUME NEW t \in Renders, write(t) PROVE SecretTypeOK'
  <2>1. stage' \in [Renders -> SecretSteps] /\ rendered' \in [Renders -> Secrets \cup {Absent, Blank}]
    BY <1>0, <1>3 DEF write, SecretTypeOK, Return, At, Secrets
  <2>2. failures' \in Nat
    BY <1>3, FailureType DEF write, SecretTypeOK
  <2>3. Held'
    BY <1>3 DEF write, At, Return, SecretTypeOK, Held
  <2> QED BY <1>3, <2>1, <2>2, <2>3 DEF write, SecretTypeOK, Held, Secrets
<1>4. ASSUME NEW t \in Renders, reread(t) PROVE SecretTypeOK'
  <2>1. stage' \in [Renders -> SecretSteps] /\ rendered' \in [Renders -> Secrets \cup {Absent, Blank}]
    BY <1>0, <1>4 DEF reread, SecretTypeOK, Return, At
  <2>2. failures' \in Nat
    BY <1>4, FailureType DEF reread, SecretTypeOK
  <2>3. Held'
    BY <1>4 DEF reread, At, Return, SecretTypeOK, Held
  <2> QED BY <1>4, <2>1, <2>2, <2>3 DEF reread, SecretTypeOK, Held
<1>5. ASSUME NEW t \in Renders, heal_lock(t) PROVE SecretTypeOK'
  <2>1. stage' \in [Renders -> SecretSteps]
    BY <1>0, <1>5 DEF heal_lock, SecretTypeOK, At
  <2>2. Held'
    BY <1>5 DEF heal_lock, At, SecretTypeOK, Held, Secrets
  <2> QED BY <1>5, <2>1, <2>2 DEF heal_lock, SecretTypeOK, Held
<1>6. ASSUME NEW t \in Renders, heal_read(t) PROVE SecretTypeOK'
  <2>1. stage' \in [Renders -> SecretSteps] /\ rendered' \in [Renders -> Secrets \cup {Absent, Blank}]
    BY <1>0, <1>6 DEF heal_read, SecretTypeOK, Return, At
  <2>2. Held' /\ flock' \in Renders \cup {Nobody}
    BY <1>6 DEF heal_read, At, Return, Unlock, SecretTypeOK, Held, Secrets
  <2>3. overtaken' \in BOOLEAN
    BY <1>6 DEF heal_read, SecretTypeOK
  <2> QED BY <1>6, <2>1, <2>2, <2>3 DEF heal_read, SecretTypeOK, Held
<1>7. ASSUME NEW t \in Renders, heal_truncate(t) PROVE SecretTypeOK'
  <2>1. stage' \in [Renders -> SecretSteps]
    BY <1>0, <1>7 DEF heal_truncate, SecretTypeOK, At
  <2>2. Held'
    BY <1>7 DEF heal_truncate, At, SecretTypeOK, Held
  <2> QED BY <1>7, <2>1, <2>2 DEF heal_truncate, SecretTypeOK, Held
<1>8. ASSUME NEW t \in Renders, heal_write(t) PROVE SecretTypeOK'
  <2>1. stage' \in [Renders -> SecretSteps] /\ rendered' \in [Renders -> Secrets \cup {Absent, Blank}]
    BY <1>0, <1>8 DEF heal_write, SecretTypeOK, Return, At, Secrets
  <2>2. failures' \in Nat
    BY <1>8, FailureType DEF heal_write, SecretTypeOK
  <2>3. Held' /\ flock' \in Renders \cup {Nobody}
    BY <1>8 DEF heal_write, At, Return, Unlock, SecretTypeOK, Held, Secrets
  <2>4. secret' \in Secrets \cup {Absent, Blank}
    BY <1>8 DEF heal_write, SecretTypeOK, Secrets
  <2> QED BY <1>8, <2>1, <2>2, <2>3, <2>4 DEF heal_write, SecretTypeOK, Held
<1>9. ASSUME NEW t \in Renders, render_dies(t) PROVE SecretTypeOK'
  <2>1. stage' \in [Renders -> SecretSteps]
    BY <1>0, <1>9 DEF render_dies, SecretTypeOK, At
  <2>2. failures' \in Nat
    BY <1>9, FailureType DEF render_dies, SecretTypeOK
  <2>3. Held' /\ flock' \in Renders \cup {Nobody}
    BY <1>9 DEF render_dies, At, Unlock, SecretTypeOK, Held, Secrets
  <2> QED BY <1>9, <2>1, <2>2, <2>3 DEF render_dies, SecretTypeOK, Held
<1>10. CASE UNCHANGED secret_vars
  BY <1>10 DEF secret_vars, SecretTypeOK
<1> QED
  BY <1>1, <1>2, <1>3, <1>4, <1>5, <1>6, <1>7, <1>8, <1>9, <1>10 DEF SecretNext, SecretStep

LEMMA FileStep == SecretTypeOK /\ FileStays /\ [SecretNext]_secret_vars => FileStays'
<1> USE SecretAssumption
<1> SUFFICES ASSUME SecretTypeOK, FileStays, [SecretNext]_secret_vars PROVE FileStays'
  OBVIOUS
<1>1. ASSUME NEW t \in Renders, look(t) \/ create(t) PROVE FileStays'
  BY <1>1 DEF look, create, At, Return, SecretTypeOK, FileStays, Secrets
<1>2. ASSUME NEW t \in Renders,
             \/ write(t) \/ reread(t) \/ heal_lock(t) \/ heal_read(t)
             \/ heal_truncate(t) \/ heal_write(t) \/ render_dies(t)
      PROVE  FileStays'
  <2>1. secret' = secret \/ secret' = t \/ secret' = Blank
    BY <1>2 DEF write, reread, heal_lock, heal_read, heal_truncate, heal_write, render_dies
  <2>2. stage[t] # "idle" /\ (stage[t] = "create" => stage'[t] = "idle")
    BY <1>2 DEF write, reread, heal_lock, heal_read, heal_truncate, heal_write,
                render_dies, At, SecretTypeOK
  <2>3. \A u \in Renders \ {t} : stage'[u] = stage[u]
    BY <1>2 DEF write, reread, heal_lock, heal_read, heal_truncate, heal_write,
                render_dies, At, Return, SecretTypeOK
  <2> QED BY <2>1, <2>2, <2>3 DEF FileStays, Secrets
<1>3. CASE UNCHANGED secret_vars
  BY <1>3 DEF secret_vars, FileStays
<1> QED BY <1>1, <1>2, <1>3 DEF SecretNext, SecretStep

LEMMA SecretInvStep == SecretInv /\ [SecretNext]_secret_vars => SecretInv'
<1> USE SecretAssumption
<1> SUFFICES ASSUME SecretInv, [SecretNext]_secret_vars, ~overtaken'
             PROVE  (OneWriter /\ RenderedIsKept)'
  BY SecretType, FileStep DEF SecretInv
<1>0. ~overtaken
  BY DEF SecretNext, SecretStep, look, create, write, reread, heal_lock, heal_read, heal_truncate,
         heal_write, render_dies, secret_vars, SecretInv, SecretTypeOK
<1>a. SecretTypeOK /\ FileStays /\ OneWriter /\ RenderedIsKept
  BY <1>0 DEF SecretInv
<1>1. ASSUME NEW t \in Renders, look(t) PROVE (OneWriter /\ RenderedIsKept)'
  BY <1>a, <1>1 DEF look, At, Return, SecretTypeOK, OneWriter, RenderedIsKept
<1>2. ASSUME NEW t \in Renders, create(t) PROVE (OneWriter /\ RenderedIsKept)'
  BY <1>a, <1>2 DEF create, At, SecretTypeOK, OneWriter, RenderedIsKept
<1>3. ASSUME NEW t \in Renders, write(t) PROVE (OneWriter /\ RenderedIsKept)'
  BY <1>a, <1>3 DEF write, At, Return, SecretTypeOK, OneWriter, RenderedIsKept, Secrets
<1>4. ASSUME NEW t \in Renders, reread(t) PROVE (OneWriter /\ RenderedIsKept)'
  BY <1>a, <1>4 DEF reread, At, Return, SecretTypeOK, OneWriter, RenderedIsKept
<1>5. ASSUME NEW t \in Renders, heal_lock(t) PROVE (OneWriter /\ RenderedIsKept)'
  BY <1>a, <1>5 DEF heal_lock, At, SecretTypeOK, OneWriter, RenderedIsKept
<1>6. ASSUME NEW t \in Renders, heal_read(t) PROVE (OneWriter /\ RenderedIsKept)'
  <2>1. CASE secret \in Secrets
    BY <1>a, <1>6, <2>1 DEF heal_read, At, Return, SecretTypeOK, OneWriter, RenderedIsKept
  <2>2. CASE secret \notin Secrets
    <3>1. \A u \in Renders : stage[u] # "write" /\ stage' = [stage EXCEPT ![t] = "truncate"]
      BY <1>6, <2>2 DEF heal_read, At
    <3>2. \A u \in Renders \ {t} : stage[u] \notin {"truncate", "heal"}
      BY <1>a, <1>6 DEF heal_read, SecretTypeOK
    <3>3. \A u \in Renders : rendered[u] \notin Secrets
      BY <1>a, <2>2 DEF RenderedIsKept
    <3>4. secret # Absent
      BY <1>a, <1>6 DEF heal_read, FileStays
    <3> QED BY <1>a, <1>6, <2>2, <3>1, <3>2, <3>3, <3>4
            DEF heal_read, SecretTypeOK, OneWriter, RenderedIsKept
  <2> QED BY <2>1, <2>2
<1>7. ASSUME NEW t \in Renders, heal_truncate(t) PROVE (OneWriter /\ RenderedIsKept)'
  BY <1>a, <1>7 DEF heal_truncate, At, SecretTypeOK, OneWriter, RenderedIsKept
<1>8. ASSUME NEW t \in Renders, heal_write(t) PROVE (OneWriter /\ RenderedIsKept)'
  BY <1>a, <1>8 DEF heal_write, At, Return, SecretTypeOK, OneWriter, RenderedIsKept, Secrets
<1>9. ASSUME NEW t \in Renders, render_dies(t) PROVE (OneWriter /\ RenderedIsKept)'
  BY <1>a, <1>9 DEF render_dies, At, SecretTypeOK, OneWriter, RenderedIsKept
<1>10. CASE UNCHANGED secret_vars
  BY <1>a, <1>10 DEF secret_vars, OneWriter, RenderedIsKept
<1> QED
  BY <1>1, <1>2, <1>3, <1>4, <1>5, <1>6, <1>7, <1>8, <1>9, <1>10 DEF SecretNext, SecretStep

LEMMA SecretInvariant == SecretSpec => []SecretInv
<1>1. SecretInit => SecretInv
  <2> SUFFICES ASSUME SecretInit PROVE SecretInv
    OBVIOUS
  <2>1. SecretTypeOK
    BY SecretAssumption DEF SecretInit, SecretTypeOK, SecretSteps, Secrets
  <2>2. FileStays /\ OneWriter
    BY DEF SecretInit, FileStays, OneWriter
  <2>3. RenderedIsKept
    BY SecretAssumption DEF SecretInit, RenderedIsKept
  <2> QED BY <2>1, <2>2, <2>3 DEF SecretInv
<1>2. SecretInv /\ [SecretNext]_secret_vars => SecretInv'
  BY SecretInvStep
<1> QED BY <1>1, <1>2, PTL DEF SecretSpec

\* The lock has at most one holder, which is the call that is healing the file.
THEOREM SecretTypes == SecretSpec => []SecretTypeOK
<1>1. SecretInv => SecretTypeOK
  BY DEF SecretInv
<1> QED BY <1>1, SecretInvariant, PTL

\* "Return a stable secret": however many calls of get_or_create_cluster_secret()
\* overlap and whatever of them fail or die, every configuration that has been
\* rendered with a secret has the one on disk, unless a healer has met a creator
\* between its open and its write.
THEOREM SecretStable == SecretSpec => []OneSecret
<1>1. SecretInv => OneSecret
  BY DEF SecretInv, OneSecret, RenderedIsKept
<1> QED BY <1>1, SecretInvariant, PTL
-----------------------------------------------------------------------------
(* The refinement *)

\* Whatever a step does, it answers at most one call, with the secret it leaves on
\* disk or with none, and a secret on disk stays.
LEMMA AnswerStep ==
  ASSUME SecretTypeOK, FileStays, OneWriter, [SecretNext]_secret_vars
  PROVE  /\ secret \in Secrets => secret' = secret
         /\ \/ rendered' = rendered
            \/ \E t \in Renders, v \in {secret', Blank} : rendered' = [rendered EXCEPT ![t] = v]
<1> USE SecretAssumption
<1>0. Blank \notin Secrets /\ Absent \notin Secrets
  OBVIOUS
<1>1. ASSUME NEW t \in Renders, look(t) \/ create(t) \/ write(t)
      PROVE  /\ secret \in Secrets => secret' = secret
             /\ \/ rendered' = rendered
                \/ \E v \in {secret', Blank} : rendered' = [rendered EXCEPT ![t] = v]
  BY <1>0, <1>1 DEF look, create, write, At, Return, OneWriter
<1>2. ASSUME NEW t \in Renders,
             reread(t) \/ heal_lock(t) \/ heal_read(t) \/ heal_truncate(t) \/ heal_write(t)
      PROVE  /\ secret \in Secrets => secret' = secret
             /\ \/ rendered' = rendered
                \/ \E v \in {secret', Blank} : rendered' = [rendered EXCEPT ![t] = v]
  BY <1>0, <1>2 DEF reread, heal_lock, heal_read, heal_truncate, heal_write, At, Return, OneWriter
<1>3. ASSUME NEW t \in Renders, render_dies(t)
      PROVE  secret' = secret /\ rendered' = rendered
  BY <1>3 DEF render_dies
<1>4. CASE UNCHANGED secret_vars
  BY <1>4 DEF secret_vars
<1> QED BY <1>1, <1>2, <1>3, <1>4 DEF SecretNext, SecretStep

LEMMA RegisterStep ==
  ASSUME SecretInv, SecretInv', [SecretNext]_secret_vars
  PROVE  Register!Next
<1> USE SecretAssumption
<1>1. /\ Usable(secret)' \in Secrets \cup {Absent}
      /\ [t \in Renders |-> Usable(rendered[t])]' \in [Renders -> Secrets \cup {Absent}]
  BY DEF Usable
<1>2. CASE overtaken'
  BY <1>1, <1>2 DEF Register!Next, Register!Lose
<1>3. CASE ~overtaken'
  <2>1. ~overtaken /\ UNCHANGED overtaken
    BY <1>3 DEF SecretNext, SecretStep, look, create, write, reread, heal_lock, heal_read,
           heal_truncate, heal_write, render_dies, secret_vars, SecretInv, SecretTypeOK
  <2>2. SecretTypeOK /\ FileStays /\ OneWriter /\ rendered' \in [Renders -> Secrets \cup {Absent, Blank}]
    BY <2>1 DEF SecretInv, SecretTypeOK
  <2>3. /\ secret \in Secrets => secret' = secret
        /\ \/ rendered' = rendered
           \/ \E t \in Renders, v \in {secret', Blank} : rendered' = [rendered EXCEPT ![t] = v]
    BY <2>2, AnswerStep
  <2>4. Register!Keep
    BY <1>1, <2>3 DEF Register!Keep, Usable
  <2>5. ASSUME rendered' = rendered
        PROVE  Register!Give
    BY <2>5 DEF Register!Give, Usable
  <2>6. ASSUME NEW t \in Renders, NEW v \in {secret', Blank}, rendered' = [rendered EXCEPT ![t] = v]
        PROVE  Register!Give
    <3>1. Usable(v) \in {Usable(secret)', Absent}
      BY DEF Usable
    <3>2. [u \in Renders |-> Usable(rendered[u])]'
            = [[u \in Renders |-> Usable(rendered[u])] EXCEPT ![t] = Usable(v)]
      BY <2>2, <2>6 DEF SecretTypeOK, Usable
    <3> QED BY <3>1, <3>2 DEF Register!Give
  <2> QED BY <2>1, <2>3, <2>4, <2>5, <2>6 DEF Register!Next
<1> QED BY <1>2, <1>3

\* get_or_create_cluster_secret() implements the register that is set once.
THEOREM SecretRefinement == SecretSpec => ImplementsRegister
<1>1. SecretInit => Register!Init
  BY SecretAssumption DEF SecretInit, Register!Init, Usable, Secrets
<1>2. SecretInv /\ SecretInv' /\ [SecretNext]_secret_vars
        => [Register!Next]_<<Usable(secret), [t \in Renders |-> Usable(rendered[t])], overtaken>>
  BY RegisterStep
<1> QED BY <1>1, <1>2, SecretInvariant, PTL DEF SecretSpec, ImplementsRegister, Register!Spec
-----------------------------------------------------------------------------
(* The stick-table statistics *)

\* What the parser makes of the row of a source.
Entry(ip) == parse_stick_table_entry(EntryLine(ip))

\* The rows: the parser finds the fields of a row by their names.
LEMMA OnlyOne == ASSUME NEW x PROVE (CHOOSE p \in {x} : TRUE) = x
  OBVIOUS

LEMMA Pairs == ASSUME NEW a, NEW b PROVE <<a, b>>[1] = a /\ <<a, b>>[2] = b
  OBVIOUS

\* The parser finds in a row the fields that the table stores, with their values.
LEMMA EntryIs ==
  ASSUME NEW ip, stored \subseteq Contract
  PROVE  /\ DOMAIN Entry(ip) = {"key", "use", "exp"} \cup stored
         /\ Entry(ip)["key"] = ip
         /\ \A f \in stored : Entry(ip)[f] = table[ip][f]
<1> DEFINE line   == EntryLine(ip)
           names  == {"key", "use", "exp"} \cup stored
           val(f) == (CHOOSE p \in Named(line, f) : TRUE)[2]
<1>1. "key" \notin stored /\ "" \notin stored /\ "use" \notin stored /\ "exp" \notin stored
  BY DEF Contract
<1>2. ASSUME NEW p \in line
      PROVE  \/ p[1] \in {"", "use", "exp"}
             \/ p[1] = "key" /\ p = <<"key", ip>>
             \/ \E f \in stored : p[1] = f /\ p = <<f, table[ip][f]>>
  <2>1. CASE p = <<"", "0x...">>
    BY <2>1, Pairs, Zenon
  <2>2. CASE p = <<"use", 0>>
    BY <2>2, Pairs, Zenon
  <2>3. CASE p = <<"exp", 0>>
    BY <2>3, Pairs, Zenon
  <2>4. CASE p = <<"key", ip>>
    BY <2>4, Pairs, Zenon
  <2>5. CASE \E f \in stored : p = <<f, table[ip][f]>>
    <3>1. PICK f \in stored : p = <<f, table[ip][f]>>
      BY <2>5
    <3>2. p[1] = f
      BY <3>1, Pairs
    <3> QED BY <3>1, <3>2, Zenon
  <2> QED BY <2>1, <2>2, <2>3, <2>4, <2>5, Zenon DEF EntryLine
<1>3. /\ <<"key", ip>> \in line /\ <<"use", 0>> \in line /\ <<"exp", 0>> \in line
      /\ \A f \in stored : <<f, table[ip][f]>> \in line
  BY DEF EntryLine
<1>4. {p[1] : p \in line} \ {""} = names
  <2> HIDE DEF line
  <2>1. ASSUME NEW f \in {p[1] : p \in line} \ {""} PROVE f \in names
    BY <1>2
  <2>2. ASSUME NEW f \in names PROVE f \in {p[1] : p \in line} \ {""}
    <3>1. \E p \in line : p[1] = f
      <4>1. CASE f \in stored
        BY <1>3, <4>1
      <4>2. CASE f = "key"
        BY <1>3, <4>2
      <4>3. CASE f \in {"use", "exp"}
        BY <1>3, <4>3
      <4> QED BY <4>1, <4>2, <4>3
    <3> QED BY <1>1, <3>1
  <2> QED BY <2>1, <2>2
<1>5. Entry(ip) = [f \in names |-> val(f)]
  BY <1>4 DEF Entry, parse_stick_table_entry
<1>6. val("key") = ip
  <2> HIDE DEF line
  <2>1. Named(line, "key") = {<<"key", ip>>}
    BY <1>1, <1>2, <1>3 DEF Named
  <2>2. val("key") = <<"key", ip>>[2]
    BY <2>1, OnlyOne, Zenon
  <2> QED BY <2>2, Pairs
<1>7. ASSUME NEW f \in stored PROVE val(f) = table[ip][f]
  <2> HIDE DEF line
  <2>1. Named(line, f) = {<<f, table[ip][f]>>}
    BY <1>1, <1>2, <1>3 DEF Named
  <2>2. val(f) = <<f, table[ip][f]>>[2]
    BY <2>1, OnlyOne, Zenon
  <2> QED BY <2>2, Pairs
<1> HIDE DEF names, val
<1>8. DOMAIN Entry(ip) = names /\ \A f \in names : Entry(ip)[f] = val(f)
  BY <1>5
<1> QED BY <1>6, <1>7, <1>8 DEF names

\* HAProxy's table comes back from a socket with a worker behind it, whichever form
\* of the command that socket wants.
LEMMA CliReads ==
  ASSUME socket \in Sockets
  PROVE  /\ haproxy_cli.kind = "dump" <=> socket \in {"master", "worker"}
         /\ socket \in {"master", "worker"} => haproxy_cli = Dump
<1>1. Dump.kind = "dump" /\ Refusal.kind = "error marker" /\ Silence.kind = "empty"
  BY DEF Dump, Refusal, Silence
<1>2. ASSUME socket = "master" PROVE haproxy_cli = Dump
  BY <1>1, <1>2 DEF haproxy_cli, Response
<1>3. ASSUME socket = "worker" PROVE haproxy_cli = Dump
  BY <1>1, <1>3 DEF haproxy_cli, Response
<1>4. ASSUME socket \notin {"master", "worker"} PROVE haproxy_cli = Refusal
  <2>1. \A p \in BOOLEAN : Response(p).kind # "dump"
    BY <1>1, <1>4 DEF Response
  <2> QED BY <2>1 DEF haproxy_cli
<1> QED BY <1>1, <1>2, <1>3, <1>4

\* The table can be read, and has every field of the contract.
Read == socket \in {"master", "worker"} /\ (DOMAIN table = {} \/ stored = Contract)

\* The rows are the sources, and are refused when a field of the contract is missing.
LEMMA TableReads ==
  ASSUME socket \in Sockets, stored \subseteq Contract
  PROVE  /\ read_stick_table.ok <=> Read
         /\ Read => read_stick_table.entries = {Entry(ip) : ip \in DOMAIN table}
<1> DEFINE entries == {parse_stick_table_entry(line) : line \in haproxy_cli.lines}
<1>1. haproxy_cli.kind = "dump" <=> socket \in {"master", "worker"}
  BY CliReads
<1>2. ASSUME socket \in {"master", "worker"}
      PROVE  /\ entries = {Entry(ip) : ip \in DOMAIN table}
             /\ (\A e \in entries : Contract \cup {"key"} \subseteq DOMAIN e)
                  <=> (DOMAIN table = {} \/ stored = Contract)
  <2>1. haproxy_cli.lines = {EntryLine(ip) : ip \in DOMAIN table}
    BY <1>2, CliReads DEF Dump
  <2>2. entries = {Entry(ip) : ip \in DOMAIN table}
    BY <2>1 DEF Entry
  <2>3. ASSUME NEW ip \in DOMAIN table
        PROVE  Contract \cup {"key"} \subseteq DOMAIN Entry(ip) <=> stored = Contract
    <3>1. DOMAIN Entry(ip) = {"key", "use", "exp"} \cup stored
      BY EntryIs
    <3>2. "use" \notin Contract /\ "exp" \notin Contract /\ "key" \notin Contract
      BY DEF Contract
    <3> QED BY <3>1, <3>2
  <2> HIDE DEF entries
  <2>4. (\A e \in entries : Contract \cup {"key"} \subseteq DOMAIN e)
          <=> \A ip \in DOMAIN table : Contract \cup {"key"} \subseteq DOMAIN Entry(ip)
    BY <2>2
  <2> QED BY <2>2, <2>3, <2>4
<1>3. read_stick_table = IF haproxy_cli.kind = "dump" /\ \A e \in entries : Contract \cup {"key"} \subseteq DOMAIN e
                         THEN [ok |-> TRUE, entries |-> entries] ELSE [ok |-> FALSE, entries |-> {}]
  BY DEF read_stick_table
<1> HIDE DEF entries
<1> QED BY <1>1, <1>2, <1>3 DEF Read

-----------------------------------------------------------------------------
(* The rows as a set of functions, and the order they are shown in *)

\* What the table holds of a source.
LEMMA CounterTypes ==
  ASSUME StatsTypeOK, NEW ip \in DOMAIN table
  PROVE  ip \in Sources /\ table[ip] \in [Contract -> Nat \cup {Garbled}]
<1>1. ip \in Sources
  BY DEF StatsTypeOK
<1>2. table[ip] \in Counters
  BY Zenon DEF StatsTypeOK
<1> QED BY <1>1, <1>2, StatsAssumption

\* Sources have rows of their own: there are as many rows as sources.
LEMMA AsManyRows ==
  ASSUME StatsTypeOK, NEW T, T \subseteq DOMAIN table
  PROVE  /\ IsFiniteSet(T)
         /\ IsFiniteSet({Entry(ip) : ip \in T})
         /\ Cardinality({Entry(ip) : ip \in T}) = Cardinality(T)
<1> DEFINE R == {Entry(ip) : ip \in T}
           b == [ip \in T |-> Entry(ip)]
<1>1. IsFiniteSet(T)
  BY StatsAssumption, FS_Subset DEF StatsTypeOK
<1>2. \A ip \in T : Entry(ip)["key"] = ip
  BY EntryIs DEF StatsTypeOK
<1>3. b \in [T -> R] /\ \A ip \in T : b[ip] = Entry(ip)
  OBVIOUS
<1>4. \A r \in R : \E ip \in T : b[ip] = r
  OBVIOUS
<1> HIDE DEF b, R
<1>5. \A x, y \in T : b[x] = b[y] => x = y
  BY <1>2, <1>3
<1>6. b \in Bijection(T, R)
  BY <1>3, <1>4, <1>5, Zenon DEF Bijection, Injection, Surjection, IsInjective
<1>7. IsFiniteSet(R) /\ Cardinality(R) = Cardinality(T)
  BY <1>1, <1>6, FS_Bijection DEF ExistsBijection
<1> QED BY <1>1, <1>7 DEF R

\* The smaller of two numbers.
LEMMA MinOfTwo ==
  ASSUME NEW a \in Nat, NEW b \in Nat
  PROVE  /\ Min({a, b}) \in {a, b} /\ Min({a, b}) <= a /\ Min({a, b}) <= b
<1>1. PICK m \in {a, b} : \A y \in {a, b} : m =< y
  <2>1. a <= b \/ b <= a
    OBVIOUS
  <2> QED BY <2>1
<1> QED BY <1>1 DEF Min

\* What comes first in the list has no fewer requests.
LEMMA BusiestFirst ==
  ASSUME NEW r, NEW s, ~Above(s, r), r["http_req_rate"] \in Nat, s["http_req_rate"] \in Nat
  PROVE  s["http_req_rate"] <= r["http_req_rate"]
<1>1. 1 \in 1..4 /\ \A j \in 1..(1 - 1) : FALSE
  OBVIOUS
<1>2. ASSUME s["http_req_rate"] > r["http_req_rate"] PROVE FALSE
  BY <1>1, <1>2 DEF Above
<1> QED BY <1>2

\* The rows that are sorted are all there, each once.
LEMMA SortedRows ==
  ASSUME NEW R, IsFiniteSet(R), NEW s \in Sorted(R)
  PROVE  LET n == Cardinality(R) IN
         /\ n \in Nat /\ s \in Seq(R) /\ Len(s) = n
         /\ \A i, j \in 1..n : i # j => s[i] # s[j]
         /\ \A i, j \in 1..n : i < j => ~Above(s[j], s[i])
         /\ \A r \in R : \E i \in 1..n : s[i] = r
<1> DEFINE n == Cardinality(R)
<1>1. n \in Nat
  BY FS_CardinalityType
<1>2. /\ s \in [1..n -> R]
      /\ \A i, j \in 1..n : i # j => s[i] # s[j]
      /\ \A i, j \in 1..n : i < j => ~Above(s[j], s[i])
  BY DEF Sorted, SetToSeqs
<1> HIDE DEF n
<1>3. s \in Seq(R) /\ Len(s) = n
  BY <1>1, <1>2
<1>4. IsFiniteSet(1..n) /\ Cardinality(1..n) = n
  BY <1>1, FS_Interval
<1>5. s \in Injection(1..n, R)
  BY <1>2, Zenon DEF Injection, IsInjective
<1>6. s \in Surjection(1..n, R)
  BY <1>4, <1>5, FS_Injection DEF n
<1>7. \A r \in R : \E i \in 1..n : s[i] = r
  BY <1>6, Zenon DEF Surjection
<1> QED BY <1>1, <1>2, <1>3, <1>7 DEF n

-----------------------------------------------------------------------------
(* An answer shows the table *)

Sought   == {ip \in DOMAIN table : table[ip]["http_req_rate"] >= query.min_req_rate}
Active   == {ip \in DOMAIN table : \E f \in Contract : table[ip][f] > 0}
Numbers  == \A ip \in DOMAIN table, f \in Contract : table[ip][f] # Garbled

\* Of a table that can be read, the row of a source has its counters.
LEMMA EntryCounts ==
  ASSUME StatsTypeOK, Read, NEW ip \in DOMAIN table
  PROVE  /\ Entry(ip)["key"] = ip
         /\ \A f \in Contract : Entry(ip)[f] = table[ip][f]
  BY EntryIs DEF StatsTypeOK, Read

\* What the handler picks from the rows it has read, in terms of the table.
LEMMA RowsRead ==
  ASSUME StatsTypeOK, Read
  PROVE  LET entries == read_stick_table.entries IN
         /\ (\E e \in entries, f \in Contract : e[f] = Garbled) <=> ~Numbers
         /\ {e \in entries : e["http_req_rate"] >= query.min_req_rate} =
                {Entry(ip) : ip \in Sought}
         /\ {e \in entries : \E f \in Contract : e[f] > 0} = {Entry(ip) : ip \in Active}
<1> DEFINE entries == read_stick_table.entries
<1>1. entries = {Entry(ip) : ip \in DOMAIN table}
  BY TableReads DEF StatsTypeOK
<1>2. \A ip \in DOMAIN table, f \in Contract : Entry(ip)[f] = table[ip][f]
  BY EntryCounts
<1>3. "http_req_rate" \in Contract
  BY DEF Contract
<1> HIDE DEF entries
<1>4. (\E e \in entries, f \in Contract : e[f] = Garbled) <=> ~Numbers
  BY <1>1, <1>2 DEF Numbers
<1>5. {e \in entries : e["http_req_rate"] >= query.min_req_rate} = {Entry(ip) : ip \in Sought}
  BY <1>1, <1>2, <1>3 DEF Sought
<1>6. {e \in entries : \E f \in Contract : e[f] > 0} = {Entry(ip) : ip \in Active}
  BY <1>1, <1>2 DEF Active
<1> QED BY <1>4, <1>5, <1>6 DEF entries

\* A slice from the first row on.
LEMMA Prefix ==
  ASSUME NEW R, NEW s \in Seq(R), NEW m \in Nat, m <= Len(s)
  PROVE  /\ Len(SubSeq(s, 1, m)) = m /\ DOMAIN SubSeq(s, 1, m) = 1..m
         /\ \A i \in 1..m : SubSeq(s, 1, m)[i] = s[i]
  OBVIOUS

\* `shown' shows sources of `wanted', the busiest, each once and with its own counters.
ShowRows(shown, counters, wanted) ==
    \A i \in DOMAIN shown :
        /\ shown[i]["key"] \in wanted
        /\ \A f \in Contract : shown[i][f] = counters[shown[i]["key"]][f]
        /\ \A j \in DOMAIN shown : i # j => shown[i]["key"] # shown[j]["key"]
        /\ \A ip \in wanted \ {shown[j]["key"] : j \in DOMAIN shown} :
                counters[ip]["http_req_rate"] <= shown[i]["http_req_rate"]

\* What the rows at the head of the sorted list show.
LEMMA HeadOfRows ==
  ASSUME StatsTypeOK, Read, Numbers,
         NEW s \in Sorted({Entry(ip) : ip \in Sought}),
         NEW m \in Nat, m <= Cardinality(Sought),
         NEW shown, DOMAIN shown = 1..m, \A i \in 1..m : shown[i] = s[i]
  PROVE  ShowRows(shown, table, Sought)
<1> DEFINE R     == {Entry(ip) : ip \in Sought}
           n     == Cardinality(Sought)
<1>1. Sought \subseteq DOMAIN table /\ "http_req_rate" \in Contract
  BY DEF Sought, Contract
<1>2. IsFiniteSet(R) /\ Cardinality(R) = n
  BY <1>1, AsManyRows
<1>3. \A ip \in Sought :
        /\ Entry(ip)["key"] = ip
        /\ \A f \in Contract : Entry(ip)[f] = table[ip][f]
        /\ table[ip]["http_req_rate"] \in Nat
  <2> SUFFICES ASSUME NEW ip \in Sought
               PROVE  /\ Entry(ip)["key"] = ip
                      /\ \A f \in Contract : Entry(ip)[f] = table[ip][f]
                      /\ table[ip]["http_req_rate"] \in Nat
    OBVIOUS
  <2>1. table[ip]["http_req_rate"] \in Nat \cup {Garbled}
    BY <1>1, CounterTypes
  <2>2. table[ip]["http_req_rate"] # Garbled
    BY <1>1 DEF Numbers
  <2> QED BY <1>1, <2>1, <2>2, EntryCounts
<1>4. \A r \in R : \E ip \in Sought : r = Entry(ip)
  OBVIOUS
<1>5. s \in Sorted(R)
  OBVIOUS
<1> HIDE DEF R
<1>6. /\ n \in Nat /\ s \in Seq(R) /\ Len(s) = n
      /\ \A i, j \in 1..n : i # j => s[i] # s[j]
      /\ \A i, j \in 1..n : i < j => ~Above(s[j], s[i])
      /\ \A r \in R : \E i \in 1..n : s[i] = r
  BY <1>2, <1>5, SortedRows
<1>7. m <= n
  OBVIOUS
<1> HIDE DEF n
<1>8. /\ DOMAIN shown = 1..m
      /\ \A i \in 1..m : shown[i] = s[i] /\ i \in 1..n /\ s[i] \in R
  BY <1>6, <1>7
<1>9. ASSUME NEW i \in DOMAIN shown
      PROVE  /\ shown[i]["key"] \in Sought
             /\ shown[i] = Entry(shown[i]["key"])
  <2>1. PICK ip \in Sought : shown[i] = Entry(ip)
    BY <1>4, <1>8
  <2> QED BY <1>3, <2>1
<1>10. ASSUME NEW i \in DOMAIN shown, NEW j \in DOMAIN shown, i # j
       PROVE  shown[i]["key"] # shown[j]["key"]
  <2>1. shown[i] # shown[j]
    BY <1>6, <1>8, <1>10
  <2> QED BY <1>9, <2>1
<1>11. ASSUME NEW i \in DOMAIN shown, NEW ip \in Sought \ {shown[j]["key"] : j \in DOMAIN shown}
       PROVE  table[ip]["http_req_rate"] <= shown[i]["http_req_rate"]
  <2>1. PICK k \in 1..n : s[k] = Entry(ip)
    <3>1. Entry(ip) \in R
      BY DEF R
    <3> QED BY <1>6, <3>1
  <2>2. ~(k <= m)
    <3> SUFFICES ASSUME k <= m PROVE FALSE
      OBVIOUS
    <3>1. k \in DOMAIN shown /\ shown[k] = Entry(ip)
      BY <1>7, <1>8, <2>1
    <3>2. shown[k]["key"] = ip
      BY <1>3, <3>1
    <3> QED BY <3>1, <3>2
  <2>3. i \in 1..n /\ i < k /\ shown[i] = s[i]
    BY <1>6, <1>7, <1>8, <2>2
  <2>4. ~Above(Entry(ip), shown[i])
    BY <1>6, <2>1, <2>3
  <2>5. shown[i]["http_req_rate"] \in Nat
    BY <1>1, <1>3, <1>9
  <2>6. Entry(ip)["http_req_rate"] = table[ip]["http_req_rate"] /\ table[ip]["http_req_rate"] \in Nat
    BY <1>1, <1>3
  <2>7. Entry(ip)["http_req_rate"] <= shown[i]["http_req_rate"]
    BY <2>4, <2>5, <2>6, BusiestFirst
  <2> QED BY <2>6, <2>7
<1>12. \A i \in DOMAIN shown : \A f \in Contract : shown[i][f] = table[shown[i]["key"]][f]
  BY <1>3, <1>9
<1> QED BY <1>9, <1>10, <1>11, <1>12 DEF ShowRows

\* What an answer `a' must be: the body of StatsAreTheTable.
Shows(a) ==
    /\ a.status = "success" <=> Read /\ Numbers
    /\ Read /\ Numbers =>
        /\ a.active = Cardinality(Active)
        /\ Len(a.sources) = Min({query.limit, Cardinality(Sought)})
        /\ ShowRows(a.sources, table, Sought)

\* An answer of the handler is one that the property allows.
LEMMA AnswerShows ==
  ASSUME StatsTypeOK, get_security_stats
  PROVE  /\ answer'.status \in {"success", "502"}
         /\ answer'.active \in Nat
         /\ Shows(answer')
<1>1. read_stick_table.ok <=> Read
  BY TableReads DEF StatsTypeOK
<1>2. CASE ~(Read /\ Numbers)
  <2>1. answer' = Error
    BY <1>1, <1>2, RowsRead DEF get_security_stats
  <2>2. answer'.status = "502" /\ answer'.active = 0
    BY <2>1 DEF Error
  <2> QED BY <1>2, <2>2 DEF Shows
<1>3. CASE Read /\ Numbers
  <2> DEFINE rows(s) == SubSeq(s, 1, Min({query.limit, Len(s)}))
  <2>1. PICK s \in Sorted({Entry(ip) : ip \in Sought}) :
          answer' = [status  |-> "success", sources |-> rows(s),
                     active  |-> Cardinality({Entry(ip) : ip \in Active})]
    BY <1>1, <1>3, RowsRead DEF get_security_stats
  <2>2. /\ Active \subseteq DOMAIN table /\ Sought \subseteq DOMAIN table
    BY DEF Active, Sought
  <2>3. /\ Cardinality({Entry(ip) : ip \in Active}) = Cardinality(Active)
        /\ Cardinality(Active) \in Nat
    BY <2>2, AsManyRows, FS_CardinalityType
  <2> DEFINE R == {Entry(ip) : ip \in Sought}
             n == Cardinality(Sought)
             m == Min({query.limit, n})
  <2>4. IsFiniteSet(R) /\ Cardinality(R) = n /\ s \in Sorted(R)
    BY <2>2, AsManyRows
  <2> HIDE DEF R
  <2>5. n \in Nat /\ s \in Seq(R) /\ Len(s) = n
    BY <2>4, SortedRows
  <2>6. query.limit \in Nat
    BY StatsAssumption DEF StatsTypeOK
  <2>7. rows(s) = SubSeq(s, 1, m)
    BY <2>5
  <2> HIDE DEF n
  <2>8. m \in Nat /\ m <= n
    BY <2>5, <2>6, MinOfTwo
  <2> HIDE DEF m, rows
  <2>9. Len(rows(s)) = m /\ DOMAIN rows(s) = 1..m /\ \A i \in 1..m : rows(s)[i] = s[i]
    BY <2>5, <2>7, <2>8, Prefix
  <2>10. ShowRows(rows(s), table, Sought)
    BY <1>3, <2>8, <2>9, HeadOfRows DEF n
  <2>11. /\ answer'.status = "success" /\ answer'.active = Cardinality(Active)
         /\ answer'.sources = rows(s)
    BY <2>1, <2>3
  <2>12. Len(answer'.sources) = Min({query.limit, Cardinality(Sought)})
    BY <2>9, <2>11 DEF m, n
  <2>13. ShowRows(answer'.sources, table, Sought)
    BY <2>10, <2>11
  <2> QED BY <1>3, <2>3, <2>11, <2>12, <2>13 DEF Shows
<1> QED BY <1>2, <1>3

\* The property, with its parts named.
LEMMA PropertyIsShows == StatsAreTheTable <=> (answer # NoAnswer => Shows(answer))
  BY Zenon DEF StatsAreTheTable, Shows, ShowRows, Read, Numbers, Active, Sought

\* The variables of the statistics keep their types: what an answer counts is a number.
THEOREM StatsTypes == StatsSpec => []StatsTypeOK
<1>1. ASSUME StatsInit PROVE StatsTypeOK
  <2>1. answer.status = "none" /\ answer.active \in Nat
    BY <1>1 DEF StatsInit, NoAnswer
  <2>2. PICK tracked \in SUBSET Sources : table \in [tracked -> Counters]
    BY <1>1 DEF StatsInit
  <2>3. DOMAIN table \subseteq Sources /\ table \in [DOMAIN table -> Counters]
    BY <2>2
  <2>4. socket \in Sockets /\ stored \subseteq Contract /\ query \in Queries
    BY <1>1 DEF StatsInit
  <2> QED BY <2>1, <2>3, <2>4 DEF StatsTypeOK
<1>2. ASSUME StatsTypeOK, [StatsNext]_stats_vars PROVE StatsTypeOK'
  <2>1. CASE get_security_stats
    <3>1. answer'.status \in {"success", "502"} /\ answer'.active \in Nat
      BY <1>2, <2>1, AnswerShows
    <3>2. UNCHANGED <<socket, stored, table, query>>
      BY <2>1 DEF get_security_stats
    <3> QED BY <1>2, <3>1, <3>2 DEF StatsTypeOK
  <2>2. CASE UNCHANGED stats_vars
    BY <1>2, <2>2 DEF StatsTypeOK, stats_vars
  <2> QED BY <1>2, <2>1, <2>2 DEF StatsNext
<1> QED BY <1>1, <1>2, PTL DEF StatsSpec

\* Whatever HAProxy answers, and whatever the template stores, an answer of
\* get_security_stats() shows what the table holds, up to the limit of the request,
\* and is an error exactly when that cannot be known.
THEOREM AnswersAreTheTable == StatsSpec => []StatsAreTheTable
<1>1. ASSUME StatsInit PROVE StatsAreTheTable
  BY <1>1, Zenon DEF StatsInit, StatsAreTheTable
<1>2. ASSUME StatsTypeOK, StatsAreTheTable, [StatsNext]_stats_vars PROVE StatsAreTheTable'
  <2>1. (StatsAreTheTable <=> (answer # NoAnswer => Shows(answer)))'
    BY Zenon DEF StatsAreTheTable, Shows, ShowRows, Read, Numbers, Active, Sought
  <2>2. UNCHANGED <<socket, stored, table, query>>
    BY <1>2 DEF StatsNext, get_security_stats, stats_vars
  <2>3. Shows(answer)' <=> Shows(answer')
    BY <2>2 DEF Shows, Read, Numbers, Active, Sought
  <2>4. CASE get_security_stats
    BY <1>2, <2>1, <2>3, <2>4, AnswerShows
  <2>5. CASE UNCHANGED stats_vars
    <3>1. answer' = answer
      BY <2>5 DEF stats_vars
    <3> QED BY <1>2, <2>1, <2>3, <3>1, PropertyIsShows
  <2> QED BY <1>2, <2>4, <2>5 DEF StatsNext
<1> QED BY <1>1, <1>2, StatsTypes, PTL DEF StatsSpec

-----------------------------------------------------------------------------
(* The PEM bundle *)

\* The kinds of lines differ, and a line is of the kind it was made.
LEMMA LineKinds ==
  ASSUME NEW a
  PROVE  /\ BeginLine(a)[1] = "begin" /\ BeginLine(a)[2] = a
         /\ EndLine(a)[1] = "end" /\ EndLine(a)[2] = a
         /\ Base64(a)[1] = "data" /\ Base64(a)[2] = a
  BY DEF BeginLine, EndLine, Base64

\* What is left of a file that was cut off.
LEMMA CutOff ==
  ASSUME NEW S, NEW whole \in Seq(S), NEW x \in Truncated(whole)
  PROVE  /\ x.lines \in Seq(S \cup {Junk})
         /\ Len(x.lines) <= Len(whole)
         /\ \A i \in DOMAIN x.lines : x.lines[i] = whole[i] \/ x.lines[i] = Junk
<1> DEFINE Part(lines) == /\ lines \in Seq(S \cup {Junk})
                          /\ Len(lines) <= Len(whole)
                          /\ \A i \in DOMAIN lines : lines[i] = whole[i] \/ lines[i] = Junk
<1>1. ASSUME NEW n \in 0..Len(whole) PROVE Part(SubSeq(whole, 1, n))
  OBVIOUS
<1>2. ASSUME NEW n \in 0..(Len(whole) - 1) PROVE Part(Append(SubSeq(whole, 1, n), Junk))
  <2> DEFINE head == SubSeq(whole, 1, n)
  <2>1. head \in Seq(S \cup {Junk}) /\ Len(head) = n /\ \A i \in 1..n : head[i] = whole[i]
    OBVIOUS
  <2> HIDE DEF head
  <2>2. /\ Append(head, Junk) \in Seq(S \cup {Junk}) /\ Len(Append(head, Junk)) = n + 1
        /\ DOMAIN Append(head, Junk) = 1..(n + 1)
        /\ \A i \in 1..n : Append(head, Junk)[i] = head[i]
        /\ Append(head, Junk)[n + 1] = Junk
    BY <2>1
  <2>3. n + 1 <= Len(whole) /\ \A i \in 1..(n + 1) : i \in 1..n \/ i = n + 1
    OBVIOUS
  <2> QED BY <2>1, <2>2, <2>3 DEF head
<1>3. Part(whole)
  OBVIOUS
<1>4. \/ \E n \in 0..Len(whole) : x.lines = SubSeq(whole, 1, n)
      \/ \E n \in 0..(Len(whole) - 1) : x.lines = Append(SubSeq(whole, 1, n), Junk)
      \/ x.lines = whole
  BY DEF Truncated
<1> HIDE DEF Part
<1>5. Part(x.lines)
  BY <1>1, <1>2, <1>3, <1>4
<1> QED BY <1>5 DEF Part

\* The content is the one text after the other.
LEMMA Assembled ==
  ASSUME fullchain \in CertSources
  PROVE  Assemble(fullchain, privkey) = fullchain.lines \o privkey.lines
<1>1. PICK whole \in Fullchains : fullchain \in Truncated(whole)
  BY DEF CertSources
<1>2. \E lines, newline : fullchain = [lines |-> lines, newline |-> newline]
  BY <1>1 DEF Truncated
<1>3. [fullchain EXCEPT !.newline = TRUE].newline = TRUE
      /\ [fullchain EXCEPT !.newline = TRUE].lines = fullchain.lines
  BY <1>2
<1> QED BY <1>3 DEF Assemble, Joined

\* The lines of a source of certificates, cut off or not.
ChainPart(F) ==
    /\ F \in Seq(ChainLines \cup {Junk})
    /\ \A i \in 1..Len(F) :
         /\ F[i][1] \in {"begin", "end"} => F[i][2] = Certificate
         /\ F[i][1] = "data" /\ F[i] # Junk => F[i][2] \in Issuers \cup {"leaf"}
         /\ F[i][1] = "data" /\ F[i][2] = "leaf" => i = 2

LEMMA ChainLinesKept ==
  ASSUME fullchain \in CertSources
  PROVE  ChainPart(fullchain.lines)
<1> DEFINE F == fullchain.lines
<1>1. PICK whole \in Fullchains : fullchain \in Truncated(whole)
  BY DEF CertSources
<1>2. whole \in Seq(ChainLines) /\ \A i \in DOMAIN whole : whole[i] = Base64("leaf") => i = 2
  BY BundleAssumption
<1>3. F \in Seq(ChainLines \cup {Junk}) /\ Len(F) <= Len(whole)
      /\ \A i \in DOMAIN F : F[i] = whole[i] \/ F[i] = Junk
  BY <1>1, <1>2, CutOff
<1> HIDE DEF F
<1>4. ASSUME NEW i \in 1..Len(F)
      PROVE  /\ F[i][1] \in {"begin", "end"} => F[i][2] = Certificate
             /\ F[i][1] = "data" /\ F[i] # Junk => F[i][2] \in Issuers \cup {"leaf"}
             /\ F[i][1] = "data" /\ F[i][2] = "leaf" => i = 2
  <2>1. CASE F[i] = BeginLine(Certificate) \/ F[i] = EndLine(Certificate)
    BY <2>1, LineKinds
  <2>2. CASE \E c \in Issuers \cup {"leaf"} : F[i] = Base64(c)
    <3>1. PICK c \in Issuers \cup {"leaf"} : F[i] = Base64(c)
      BY <2>2
    <3>2. F[i][1] = "data" /\ F[i][2] = c
      BY <3>1, LineKinds
    <3>3. c = "leaf" => i = 2
      <4> SUFFICES ASSUME c = "leaf" PROVE i = 2
        OBVIOUS
      <4>1. F[i] = Base64("leaf")
        BY <3>1
      <4>2. F[i] # Junk
        <5>1. Junk[2] = "junk"
          BY LineKinds DEF Junk
        <5> QED BY <3>2, <5>1
      <4> QED BY <1>2, <1>3, <4>1, <4>2
    <3> QED BY <3>2, <3>3
  <2>3. CASE F[i] = Junk
    <3>1. F[i][1] = "data" /\ F[i][2] = "junk"
      BY <2>3, LineKinds DEF Junk
    <3> QED BY <2>3, <3>1
  <2> QED
    <3>1. F[i] \in ChainLines \cup {Junk}
      BY <1>3
    <3> QED BY <2>1, <2>2, <2>3, <3>1 DEF ChainLines
<1> QED BY <1>3, <1>4 DEF F, ChainPart

\* What is left of a file of one block, with base64 in it or not.
OneBlock(whole, b, d, e) == whole = <<b, d, e>> \/ whole = <<b, e>>

LEMMA TwoOrThreeLines ==
  ASSUME NEW S, NEW b \in S, NEW d \in S, NEW e \in S, NEW whole, OneBlock(whole, b, d, e)
  PROVE  /\ whole \in Seq(S) /\ Len(whole) <= 3 /\ whole[1] = b
         /\ \A i \in 2..Len(whole) : whole[i] = d \/ whole[i] = e
         /\ Len(whole) = 3 => whole[2] = d /\ whole[3] = e
<1>1. CASE whole = <<b, d, e>>
  BY <1>1
<1>2. CASE whole = <<b, e>>
  BY <1>2
<1> QED BY <1>1, <1>2 DEF OneBlock

LEMMA ThreeLines ==
  ASSUME NEW S, NEW K \in Seq(S), NEW b, NEW d, NEW e, Len(K) = 3, K[1] = b, K[2] = d, K[3] = e
  PROVE  K = <<b, d, e>>
  OBVIOUS

OneBlockLeft(K, S, label, b, d, e) ==
    /\ K \in Seq(S \cup {Junk}) /\ Len(K) <= 3
    /\ \A i \in 1..Len(K) : /\ K[i][1] = "begin" => i = 1
                            /\ K[i][1] \in {"begin", "end"} => K[i][2] = label
    /\ Len(K) = 3 /\ K[3][1] = "end" /\ K[1][1] = "begin" /\ K[2][1] = "data" /\ K[2] # Junk
        => K = <<b, d, e>>

LEMMA OneBlockCutOff ==
  ASSUME NEW S, NEW b \in S, NEW d \in S, NEW e \in S, NEW label,
         b[1] = "begin", b[2] = label, d[1] = "data", e[1] = "end", e[2] = label,
         NEW whole, OneBlock(whole, b, d, e), NEW x \in Truncated(whole)
  PROVE  OneBlockLeft(x.lines, S, label, b, d, e)
<1> DEFINE K == x.lines
<1>1. /\ whole \in Seq(S) /\ Len(whole) <= 3 /\ whole[1] = b
      /\ \A i \in 2..Len(whole) : whole[i] = d \/ whole[i] = e
      /\ Len(whole) = 3 => whole[2] = d /\ whole[3] = e
  BY TwoOrThreeLines
<1>2. /\ K \in Seq(S \cup {Junk}) /\ Len(K) <= Len(whole)
      /\ \A i \in DOMAIN K : K[i] = whole[i] \/ K[i] = Junk
  BY <1>1, CutOff
<1> HIDE DEF K
<1>3. Len(K) <= 3 /\ DOMAIN K = 1..Len(K)
  BY <1>1, <1>2
<1>4. Junk[1] = "data"
  BY LineKinds DEF Junk
<1>5. ASSUME NEW i \in 1..Len(K)
      PROVE  /\ K[i][1] = "begin" => i = 1
             /\ K[i][1] \in {"begin", "end"} => K[i][2] = label
  <2>1. K[i] = Junk \/ (i = 1 /\ K[i] = b) \/ K[i] = d \/ K[i] = e
    <3>1. i = 1 \/ i \in 2..Len(whole)
      BY <1>1, <1>2
    <3> QED BY <1>1, <1>2, <1>3, <3>1
  <2> QED BY <1>4, <2>1
<1>6. ASSUME Len(K) = 3, K[3][1] = "end", K[1][1] = "begin", K[2][1] = "data", K[2] # Junk
      PROVE  K = <<b, d, e>>
  <2>1. Len(whole) = 3
    BY <1>1, <1>2, <1>6
  <2>2. K[1] = b /\ K[2] = d /\ K[3] = e
    BY <1>1, <1>2, <1>3, <1>4, <1>6, <2>1
  <2> QED BY <1>2, <1>6, <2>2, ThreeLines
<1> QED BY <1>2, <1>3, <1>5, <1>6 DEF K, OneBlockLeft

\* The lines of a source of keys, which is one block, cut off or not.
KeyLabels == _PEM_KEY_LABELS \cup {Encrypted}
KeyLines  == {BeginLine(label) : label \in KeyLabels} \cup {EndLine(label) : label \in KeyLabels}
                \cup {Base64("leaf_key"), Base64("other_key")}

KeyPart(K, label, key) ==
    /\ K \in Seq(KeyLines \cup {Junk}) /\ Len(K) <= 3
    /\ \A i \in 1..Len(K) : /\ K[i][1] = "begin" => i = 1
                            /\ K[i][1] \in {"begin", "end"} => K[i][2] = label
    /\ Len(K) = 3 /\ K[3][1] = "end" /\ K[1][1] = "begin" /\ K[2][1] = "data" /\ K[2] # Junk
        => K = PemBlock(label, key)

LEMMA KeyLinesKept ==
  ASSUME privkey \in KeySources
  PROVE  \E label \in KeyLabels, key \in {"leaf_key", "other_key"} :
            KeyPart(privkey.lines, label, key)
<1>1. PICK whole \in Privkeys : privkey \in Truncated(whole)
  BY DEF KeySources
<1>2. PICK label \in KeyLabels, key \in {"leaf_key", "other_key"} :
        whole = PemBlock(label, key) \/ whole = EmptyPemBlock(label)
  <2>1. CASE \E l \in KeyLabels : whole = PemBlock(l, "leaf_key")
    BY <2>1, Zenon
  <2>2. CASE \E l \in KeyLabels : whole = PemBlock(l, "other_key")
    BY <2>2, Zenon
  <2>3. CASE \E l \in KeyLabels : whole = EmptyPemBlock(l)
    BY <2>3, Zenon
  <2> QED
    BY <1>1, <2>1, <2>2, <2>3 DEF Privkeys, KeyLabels
<1> DEFINE K == privkey.lines
           b == BeginLine(label)
           d == Base64(key)
           e == EndLine(label)
<1>3. OneBlock(whole, b, d, e)
  BY <1>2, Zenon DEF PemBlock, EmptyPemBlock, OneBlock
<1>4. /\ b[1] = "begin" /\ b[2] = label /\ e[1] = "end" /\ e[2] = label /\ d[1] = "data"
  BY LineKinds
<1>5. b \in KeyLines /\ d \in KeyLines /\ e \in KeyLines
  BY DEF KeyLines
<1>6. PemBlock(label, key) = <<b, d, e>>
  BY DEF PemBlock
<1> HIDE DEF b, d, e
<1>7. OneBlockLeft(K, KeyLines, label, b, d, e)
  <2>1. privkey \in Truncated(whole)
    BY <1>1
  <2> QED BY <2>1, <1>3, <1>4, <1>5, OneBlockCutOff
<1> HIDE DEF K
<1> QED BY <1>6, <1>7 DEF K, KeyPart, OneBlockLeft

\* What openssl finds is a whole block with one of the labels.
LEMMA FirstFound ==
  ASSUME NEW text, NEW labels, NEW T, text \in Seq(T), OpensslFirst(text, labels) # "bad"
  PROVE  \E i \in 1..(Len(text) - 2) :
            /\ text[i][1] = "begin" /\ text[i][2] \in labels
            /\ text[i + 1][1] = "data" /\ text[i + 1] # Junk
            /\ text[i + 2] = EndLine(text[i][2])
            /\ OpensslFirst(text, labels) = PublicKey(text[i + 1][2])
<1> DEFINE found == {i \in DOMAIN text : Opens(text, i) /\ text[i][2] \in labels}
           i == Min(found)
<1>1. found # {} /\ OpensslFirst(text, labels) = PublicKey(Contained(text, i))
  BY DEF OpensslFirst
<1>2. found \in SUBSET Nat
  OBVIOUS
<1> HIDE DEF found
<1>3. i \in found
  <2>1. \E x \in found : \A y \in found : x =< y
    BY <1>1, <1>2, LeastNumber
  <2> QED BY <2>1 DEF Min
<1> HIDE DEF i
<1>4. i \in 1..Len(text) /\ Opens(text, i) /\ text[i][2] \in labels
  BY <1>3 DEF found
<1>5. Contained(text, i) # "bad"
  BY <1>1 DEF PublicKey
<1>6. /\ i + 2 <= Len(text) /\ text[i + 2] = EndLine(text[i][2])
      /\ text[i + 1][1] = "data" /\ text[i + 1] # Junk
      /\ Contained(text, i) = text[i + 1][2]
  BY <1>5 DEF Contained
<1>7. text[i][1] = "begin"
  BY <1>4 DEF Opens
<1> QED BY <1>1, <1>4, <1>6, <1>7

\* The first three lines of a file.
LEMMA FirstThree ==
  ASSUME NEW S, NEW F \in Seq(S), Len(F) >= 3
  PROVE  SubSeq(F, 1, 3) = <<F[1], F[2], F[3]>>
<1> DEFINE head == SubSeq(F, 1, 3)
<1>1. head \in Seq(S) /\ Len(head) = 3 /\ head[1] = F[1] /\ head[2] = F[2] /\ head[3] = F[3]
  OBVIOUS
<1> HIDE DEF head
<1>2. head = <<F[1], F[2], F[3]>>
  BY <1>1, ThreeLines
<1> QED BY <1>2 DEF head

\* Where the lines of the two sources are in the content.
Content(text, F, K) ==
    /\ \E S : text \in Seq(S)
    /\ Len(text) = Len(F) + Len(K) /\ Len(F) \in Nat /\ Len(K) \in Nat
    /\ \A k \in 1..Len(F) : text[k] = F[k]
    /\ \A k \in 1..Len(K) : text[Len(F) + k] = K[k]

LEMMA ContentLines ==
  ASSUME NEW S, NEW T, NEW F \in Seq(S), NEW K \in Seq(T)
  PROVE  Content(F \o K, F, K)
<1>1. /\ F \o K \in Seq(S \cup T) /\ Len(F \o K) = Len(F) + Len(K)
      /\ Len(F) \in Nat /\ Len(K) \in Nat
      /\ \A i \in 1..Len(F) : (F \o K)[i] = F[i]
      /\ \A i \in 1..Len(K) : (F \o K)[Len(F) + i] = K[i]
  OBVIOUS
<1> QED BY <1>1, Zenon DEF Content

\* A found certificate is one of the chain, and a found key is the last block.
LEMMA FoundPair ==
  ASSUME NEW F, NEW K, NEW text, ChainPart(F), Content(text, F, K), SamePublicKey(text),
         NEW label \in KeyLabels, NEW key \in {"leaf_key", "other_key"}, KeyPart(K, label, key)
  PROVE  Len(F) >= 3 /\ SubSeq(F, 1, 3) = PemBlock(Certificate, "leaf") /\ K = PemBlock(label, "leaf_key")
<1> DEFINE N == Len(F)
           M == Len(K)
           L == Len(text)
<1>1. /\ F \in Seq(ChainLines \cup {Junk})
      /\ K \in Seq(KeyLines \cup {Junk})
  BY DEF ChainPart, KeyPart
<1>2. \A k \in 1..N :
         /\ F[k][1] \in {"begin", "end"} => F[k][2] = Certificate
         /\ F[k][1] = "data" /\ F[k] # Junk => F[k][2] \in Issuers \cup {"leaf"}
         /\ F[k][1] = "data" /\ F[k][2] = "leaf" => k = 2
  BY DEF ChainPart
<1>3. /\ \A k \in 1..M : /\ K[k][1] = "begin" => k = 1
                         /\ K[k][1] \in {"begin", "end"} => K[k][2] = label
      /\ M = 3 /\ K[3][1] = "end" /\ K[1][1] = "begin" /\ K[2][1] = "data" /\ K[2] # Junk
          => K = PemBlock(label, key)
  BY DEF KeyPart
<1>4. /\ L = N + M /\ N \in Nat /\ M \in Nat /\ M <= 3
      /\ \A k \in 1..N : text[k] = F[k]
      /\ \A k \in 1..M : text[N + k] = K[k]
  BY DEF Content, KeyPart
<1>5. PICK T : text \in Seq(T)
  BY DEF Content
<1> HIDE DEF N, M, L
<1>7. /\ OpensslFirst(text, {Certificate}) # "bad"
      /\ OpensslFirst(text, KeyLabels) # "bad"
      /\ OpensslFirst(text, {Certificate}) = OpensslFirst(text, KeyLabels)
  BY DEF SamePublicKey, KeyLabels
<1>8. Certificate \notin KeyLabels
  BY DEF Certificate, KeyLabels, _PEM_KEY_LABELS, Encrypted
<1>9. PICK i \in 1..(L - 2) :
            /\ text[i][1] = "begin" /\ text[i][2] \in {Certificate}
            /\ text[i + 1][1] = "data" /\ text[i + 1] # Junk
            /\ text[i + 2] = EndLine(text[i][2])
            /\ OpensslFirst(text, {Certificate}) = PublicKey(text[i + 1][2])
  BY <1>5, <1>7, FirstFound DEF L
<1>10. PICK j \in 1..(L - 2) :
            /\ text[j][1] = "begin" /\ text[j][2] \in KeyLabels
            /\ text[j + 1][1] = "data" /\ text[j + 1] # Junk
            /\ text[j + 2] = EndLine(text[j][2])
            /\ OpensslFirst(text, KeyLabels) = PublicKey(text[j + 1][2])
  BY <1>5, <1>7, FirstFound DEF L
<1>11. \A k \in 1..L : k \in 1..N \/ \E m \in 1..M : k = N + m /\ text[k] = K[m]
  <2>1. \A k \in 1..L : k \in 1..N \/ (k - N \in 1..M /\ k = N + (k - N))
    BY <1>4
  <2> QED BY <1>4, <2>1
<1>12. j = N + 1 /\ M = 3
  <2>1. j \in 1..L /\ j + 2 <= L
    BY <1>4
  <2>2. j \notin 1..N
    BY <1>2, <1>4, <1>8, <1>10
  <2>3. PICK m \in 1..M : j = N + m /\ text[j] = K[m]
    BY <1>11, <2>1, <2>2
  <2>4. m = 1
    BY <1>3, <1>10, <2>3
  <2> QED BY <1>4, <2>1, <2>3, <2>4
<1>13. K = PemBlock(label, key) /\ text[j + 1][2] = key
  <2>1. text[j] = K[1] /\ text[j + 1] = K[2] /\ text[j + 2] = K[3]
    <3>1. 1 \in 1..M /\ 2 \in 1..M /\ 3 \in 1..M
      BY <1>12
    <3>2. j = N + 1 /\ j + 1 = N + 2 /\ j + 2 = N + 3
      BY <1>4, <1>12
    <3> QED BY <1>4, <3>1, <3>2
  <2>2. K[3][1] = "end"
    BY <1>10, <2>1, LineKinds
  <2>3. K = PemBlock(label, key)
    BY <1>3, <1>10, <1>12, <2>1, <2>2
  <2>4. K[2] = Base64(key)
    BY <2>3 DEF PemBlock
  <2> QED BY <2>1, <2>3, <2>4, LineKinds
<1>14. i + 2 \in 1..N
  <2>1. text[i + 2][1] = "end" /\ text[i + 2][2] = Certificate
    BY <1>9, LineKinds
  <2>2. i + 2 \in 1..L
    BY <1>4
  <2>3. ASSUME i + 2 \notin 1..N PROVE FALSE
    <3>1. PICK m \in 1..M : text[i + 2] = K[m]
      BY <1>11, <2>2, <2>3
    <3>2. label = Certificate
      BY <1>3, <2>1, <3>1
    <3> QED BY <1>8, <3>2
  <2> QED BY <2>3
<1>15. /\ i \in 1..N /\ i + 1 \in 1..N /\ i + 2 \in 1..N
       /\ text[i] = F[i] /\ text[i + 1] = F[i + 1] /\ text[i + 2] = F[i + 2]
  BY <1>4, <1>14
<1>16. text[i + 1][2] \in Issuers \cup {"leaf"}
  BY <1>2, <1>9, <1>15
<1>17. text[i + 1][2] = "leaf" /\ key = "leaf_key"
  BY <1>7, <1>9, <1>10, <1>13, <1>16, BundleAssumption DEF PublicKey
<1>18. i = 1
  BY <1>2, <1>9, <1>15, <1>17
<1>19. F[1] = BeginLine(Certificate) /\ F[2] = Base64("leaf") /\ F[3] = EndLine(Certificate)
  <2>1. /\ 1 \in 1..N /\ 2 \in 1..N /\ F[1] = text[1] /\ F[2] = text[2] /\ F[3] = text[3]
        /\ text[1][1] = "begin" /\ text[1][2] = Certificate
        /\ text[2][1] = "data" /\ text[2] # Junk /\ text[2][2] = "leaf"
        /\ text[3] = EndLine(Certificate)
    BY <1>9, <1>15, <1>17, <1>18
  <2>2. F[1] \in ChainLines \cup {Junk} /\ F[2] \in ChainLines \cup {Junk}
    BY <1>1, <2>1 DEF N
  <2>3. Junk[1] = "data"
    BY LineKinds DEF Junk
  <2>4. F[1] \in ChainLines /\ F[2] \in ChainLines
    BY <2>1, <2>2, <2>3
  <2>5. F[1] = BeginLine(Certificate)
    BY <2>1, <2>4, LineKinds DEF ChainLines
  <2>6. F[2] = Base64("leaf")
    <3>1. PICK c \in Issuers \cup {"leaf"} : F[2] = Base64(c)
      BY <2>1, <2>4, LineKinds DEF ChainLines
    <3> QED BY <2>1, <3>1, LineKinds
  <2> QED BY <2>1, <2>5, <2>6
<1>20. N >= 3
  BY <1>4, <1>14, <1>18
<1>21. SubSeq(F, 1, 3) = <<F[1], F[2], F[3]>>
  BY <1>1, <1>20, FirstThree DEF N
<1>22. SubSeq(F, 1, 3) = PemBlock(Certificate, "leaf")
  BY <1>19, <1>21 DEF PemBlock
<1> QED BY <1>13, <1>17, <1>20, <1>22 DEF N

\* A key that validate_pem_structure() accepts is not encrypted.
LEMMA PlainKey ==
  ASSUME NEW F, NEW K, NEW text, ChainPart(F), Content(text, F, K), validate_pem_structure(text),
         NEW label \in KeyLabels, NEW key, KeyPart(K, label, key)
  PROVE  label \in _PEM_KEY_LABELS
<1> DEFINE N == Len(F)
           M == Len(K)
           L == Len(text)
<1>1. /\ \A k \in 1..N : F[k][1] \in {"begin", "end"} => F[k][2] = Certificate
      /\ \A k \in 1..M : K[k][1] \in {"begin", "end"} => K[k][2] = label
  BY DEF ChainPart, KeyPart
<1>2. /\ L = N + M /\ N \in Nat /\ M \in Nat /\ DOMAIN text = 1..L
      /\ \A k \in 1..N : text[k] = F[k]
      /\ \A k \in 1..M : text[N + k] = K[k]
  <2>1. PICK S : text \in Seq(S)
    BY DEF Content
  <2>2. DOMAIN text = 1..L
    BY <2>1
  <2> QED BY <2>2, Zenon DEF Content
<1>3. PICK j \in DOMAIN text : text[j][1] = "end" /\ text[j][2] \in _PEM_KEY_LABELS
  BY DEF validate_pem_structure, _pem_labels
<1> HIDE DEF N, M, L
<1>4. Certificate \notin _PEM_KEY_LABELS
  BY DEF Certificate, _PEM_KEY_LABELS
<1>5. j \notin 1..N
  BY <1>1, <1>2, <1>3, <1>4
<1>6. j - N \in 1..M /\ j = N + (j - N)
  BY <1>2, <1>3, <1>5
<1>7. PICK m \in 1..M : text[j] = K[m]
  BY <1>2, <1>6
<1> QED BY <1>1, <1>3, <1>7

\* The content, when the key is whole.
LEMMA BeforeThreeLines ==
  ASSUME NEW F, NEW K, NEW text, Content(text, F, K), Len(K) = 3, Len(F) >= 3
  PROVE  /\ Len(text) = Len(F) + 3 /\ Len(F) \in Nat /\ Len(F) >= 3 /\ DOMAIN text = 1..Len(text)
         /\ \A k \in 1..Len(F) : text[k] = F[k]
         /\ \A k \in 1..3 : text[Len(F) + k] = K[k]
  BY DEF Content

\* A whole chain and a whole key are found.
LEMMA WholePair ==
  ASSUME NEW F \in Fullchains, Len(F) >= 3, SubSeq(F, 1, 3) = PemBlock(Certificate, "leaf"),
         NEW label \in _PEM_KEY_LABELS, NEW K, K = PemBlock(label, "leaf_key"),
         NEW text, Content(text, F, K)
  PROVE  validate_pem_structure(text) /\ SamePublicKey(text)
<1> DEFINE N == Len(F)
           L == Len(text)
<1>1. F \in Seq(ChainLines) /\ F[N] = EndLine(Certificate)
  BY BundleAssumption
<1>2. \A k \in 1..N : F[k][1] \in {"begin", "end"} => F[k][2] = Certificate
  <2>1. ASSUME NEW k \in 1..N PROVE F[k] \in ChainLines
    BY <1>1
  <2> QED BY <2>1, LineKinds DEF ChainLines
<1>3. F[1] = BeginLine(Certificate) /\ F[2] = Base64("leaf") /\ F[3] = EndLine(Certificate)
  BY <1>1, FirstThree DEF PemBlock
<1>4. /\ Len(K) = 3
      /\ K[1] = BeginLine(label) /\ K[2] = Base64("leaf_key") /\ K[3] = EndLine(label)
  BY DEF PemBlock
<1>5. /\ L = N + 3 /\ N \in Nat /\ N >= 3 /\ DOMAIN text = 1..L
      /\ \A k \in 1..N : text[k] = F[k]
      /\ \A k \in 1..3 : text[N + k] = K[k]
  BY <1>4, BeforeThreeLines
<1> HIDE DEF N, L
<1>6. /\ text[1] = BeginLine(Certificate) /\ text[2] = Base64("leaf") /\ text[3] = EndLine(Certificate)
      /\ text[N] = EndLine(Certificate)
      /\ text[N + 1] = BeginLine(label) /\ text[N + 2] = Base64("leaf_key")
      /\ text[N + 3] = EndLine(label)
  <2>1. 1 \in 1..N /\ 2 \in 1..N /\ 3 \in 1..N /\ N \in 1..N /\ 1 \in 1..3 /\ 2 \in 1..3 /\ 3 \in 1..3
    BY <1>5
  <2> QED BY <1>1, <1>3, <1>4, <1>5, <2>1 DEF N
<1>7. Certificate \notin KeyLabels /\ label \in KeyLabels
  BY DEF Certificate, KeyLabels, _PEM_KEY_LABELS, Encrypted
<1>8. validate_pem_structure(text)
  <2>1. ASSUME NEW j \in 3..L, NEW x, text[j] = EndLine(x), text[j - 2] = BeginLine(x),
               text[j - 1][1] = "data"
        PROVE  x \in _pem_labels(text)
    <3>1. j \in DOMAIN text /\ text[j][1] = "end" /\ text[j][2] = x
      BY <1>5, <2>1, LineKinds
    <3>2. j - 2 \in 1..(j - 1) /\ \A k \in ((j - 2) + 1)..(j - 1) : k = j - 1
      BY <1>5
    <3> QED BY <2>1, <3>1, <3>2 DEF _pem_labels
  <2>2. Certificate \in _pem_labels(text)
    <3>1. 3 \in 3..L /\ 3 - 2 = 1 /\ 3 - 1 = 2
      BY <1>5
    <3> QED BY <1>6, <2>1, <3>1, LineKinds
  <2>3. label \in _pem_labels(text)
    <3>1. N + 3 \in 3..L /\ (N + 3) - 2 = N + 1 /\ (N + 3) - 1 = N + 2
      BY <1>5
    <3> QED BY <1>6, <2>1, <3>1, LineKinds
  <2> QED BY <2>2, <2>3 DEF validate_pem_structure
<1>9. Junk[2] = "junk"
  BY LineKinds DEF Junk
<1>10. OpensslFirst(text, {Certificate}) = "leaf"
  <2> DEFINE found == {i \in DOMAIN text : Opens(text, i) /\ text[i][2] \in {Certificate}}
  <2>1. 1 \in found
    BY <1>5, <1>6, LineKinds DEF Opens
  <2>2. \A i \in found : i \in 1..L
    BY <1>5
  <2> HIDE DEF found
  <2>3. Min(found) = 1
    <3>1. Min(found) \in found /\ \A y \in found : Min(found) <= y
      BY <2>1, <2>2 DEF Min
    <3> QED BY <1>5, <2>1, <2>2, <3>1
  <2>4. Contained(text, 1) = "leaf"
    <3>1. text[1 + 1] # Junk /\ text[1 + 1][1] = "data" /\ text[1 + 1][2] = "leaf"
      BY <1>6, <1>9, LineKinds
    <3>2. 1 + 2 <= L /\ text[1 + 2] = EndLine(text[1][2])
      BY <1>5, <1>6, LineKinds
    <3> QED BY <3>1, <3>2 DEF Contained, L
  <2> QED BY <2>1, <2>3, <2>4 DEF OpensslFirst, PublicKey, found
<1>11. OpensslFirst(text, KeyLabels) = "leaf"
  <2> DEFINE found == {i \in DOMAIN text : Opens(text, i) /\ text[i][2] \in KeyLabels}
  <2>1. N + 1 \in found
    <3>1. N + 1 \in DOMAIN text /\ text[N + 1][1] = "begin" /\ text[N + 1][2] \in KeyLabels
      BY <1>5, <1>6, <1>7, LineKinds
    <3>2. \A b \in 1..((N + 1) - 1) : N \in b..((N + 1) - 1)
      BY <1>5
    <3>3. text[N][1] = "end"
      BY <1>6, LineKinds
    <3> QED BY <3>1, <3>2, <3>3 DEF Opens
  <2>2. \A i \in found : i = N + 1
    <3> SUFFICES ASSUME NEW i \in found PROVE i = N + 1
      OBVIOUS
    <3>1. i \in 1..L /\ text[i][1] = "begin" /\ text[i][2] \in KeyLabels
      BY <1>5 DEF Opens
    <3>2. i \notin 1..N
      BY <1>2, <1>5, <1>7, <3>1
    <3>3. i # N + 2 /\ i # N + 3
      BY <1>6, <3>1, LineKinds
    <3> QED BY <1>5, <3>1, <3>2, <3>3
  <2> HIDE DEF found
  <2>3. Min(found) = N + 1
    <3>1. found = {N + 1}
      BY <2>1, <2>2
    <3> QED BY <1>5, <3>1 DEF Min
  <2>4. Contained(text, N + 1) = "leaf_key"
    <3>1. (N + 1) + 1 = N + 2 /\ (N + 1) + 2 = N + 3
      BY <1>5
    <3>2. text[(N + 1) + 1] # Junk /\ text[(N + 1) + 1][1] = "data" /\ text[(N + 1) + 1][2] = "leaf_key"
      BY <1>6, <1>9, <3>1, LineKinds
    <3>3. (N + 1) + 2 <= L /\ text[(N + 1) + 2] = EndLine(text[N + 1][2])
      BY <1>5, <1>6, <3>1, LineKinds
    <3> QED BY <3>2, <3>3 DEF Contained, L
  <2> QED BY <2>1, <2>3, <2>4 DEF OpensslFirst, PublicKey, found
<1> QED BY <1>8, <1>10, <1>11 DEF SamePublicKey, KeyLabels

\* PublishedPairs needs to know what the sources are.
BundleInv ==
    /\ BundleTypeOK /\ PublishedPairs
    /\ fullchain \in CertSources /\ privkey \in KeySources

LEMMA BundleInitInv == ASSUME BundleInit PROVE BundleInv
<1>1. PICK chain : fullchain \in Truncated(chain)
  BY DEF BundleInit, CertSources
<1>2. PICK key : privkey \in Truncated(key)
  BY DEF BundleInit, KeySources
<1>3. ASSUME NEW whole, NEW x \in Truncated(whole) PROVE x.newline \in BOOLEAN
  <2>1. \/ \E n \in 0..Len(whole) : x = [lines |-> SubSeq(whole, 1, n), newline |-> TRUE]
        \/ \E n \in 0..(Len(whole) - 1) :
              x = [lines |-> Append(SubSeq(whole, 1, n), Junk), newline |-> FALSE]
        \/ x = [lines |-> whole, newline |-> FALSE]
    BY DEF Truncated
  <2>2. \E lines, newline : newline \in BOOLEAN /\ x = [lines |-> lines, newline |-> newline]
    BY <2>1, Zenon
  <2> QED BY <2>2
<1>4. fullchain.newline \in BOOLEAN /\ privkey.newline \in BOOLEAN
  BY <1>1, <1>2, <1>3
<1> QED BY <1>4 DEF BundleInit, BundleInv, BundleTypeOK, PublishedPairs

LEMMA BundleStepInv == ASSUME BundleInv, [BundleNext]_bundle_vars PROVE BundleInv'
<1>1. CASE UNCHANGED bundle_vars
  BY <1>1 DEF bundle_vars, BundleInv, BundleTypeOK, PublishedPairs, WholeLeaf, WholeKey, WholeChain
<1>2. CASE publish_pem_bundle
  <2> DEFINE F == fullchain.lines
             K == privkey.lines
             text == F \o K
  <2>1. Assemble(fullchain, privkey) = text
    BY Assembled DEF BundleInv
  <2>2. PICK label \in KeyLabels, key \in {"leaf_key", "other_key"} : KeyPart(K, label, key)
    BY KeyLinesKept DEF BundleInv
  <2>3. ChainPart(F)
    BY ChainLinesKept DEF BundleInv
  <2>4. Content(text, F, K)
    BY <2>2, <2>3, ContentLines DEF ChainPart, KeyPart
  <2>5. UNCHANGED <<fullchain, privkey, openssl, resyncs, leaf_expired>>
    BY <1>2 DEF publish_pem_bundle
  <2>6. verdict' = IF /\ F # <<>> /\ K # <<>>
                      /\ validate_pem_structure(text)
                      /\ ~(leaf_expired /\ openssl = "present")
                      /\ openssl = "present" /\ SamePublicKey(text)
                   THEN "published" ELSE "refused"
    BY <1>2, <2>1 DEF publish_pem_bundle, validate_pem_bundle, _openssl_pairing_status
  <2>7. ASSUME verdict' = "published"
        PROVE  openssl = "present" /\ ~leaf_expired /\ WholeLeaf /\ WholeKey
    <3>1. /\ validate_pem_structure(text) /\ SamePublicKey(text)
          /\ openssl = "present" /\ ~leaf_expired
      BY <2>6, <2>7
    <3> HIDE DEF F, K, text
    <3>2. Len(F) >= 3 /\ SubSeq(F, 1, 3) = PemBlock(Certificate, "leaf") /\ K = PemBlock(label, "leaf_key")
      BY <2>2, <2>3, <2>4, <3>1, FoundPair
    <3>3. label \in _PEM_KEY_LABELS
      BY <2>2, <2>3, <2>4, <3>1, PlainKey
    <3> QED BY <3>1, <3>2, <3>3 DEF F, K, WholeLeaf, WholeKey
  <2>8. ASSUME verdict' = "refused", openssl = "present", ~leaf_expired, WholeLeaf, WholeChain, WholeKey
        PROVE  FALSE
    <3>1. PICK l \in _PEM_KEY_LABELS : K = PemBlock(l, "leaf_key")
      BY <2>8 DEF WholeKey
    <3>2. F \in Fullchains /\ Len(F) >= 3 /\ SubSeq(F, 1, 3) = PemBlock(Certificate, "leaf")
      BY <2>8 DEF WholeLeaf, WholeChain
    <3>3. K # <<>>
      BY <3>1 DEF PemBlock
    <3>4. F # <<>>
      BY <3>2
    <3> HIDE DEF F, K, text
    <3>5. validate_pem_structure(text) /\ SamePublicKey(text)
      BY <2>4, <3>1, <3>2, WholePair
    <3> QED BY <2>6, <2>8, <3>3, <3>4, <3>5
  <2>9. verdict' \in {"published", "refused"}
    BY <2>6
  <2>10. BundleTypeOK'
    BY <2>5, <2>9 DEF BundleInv, BundleTypeOK
  <2>11. PublishedPairs'
    BY <2>5, <2>7, <2>8 DEF BundleInv, BundleTypeOK, PublishedPairs, WholeLeaf, WholeKey, WholeChain
  <2> QED BY <2>5, <2>10, <2>11 DEF BundleInv
<1> QED BY <1>1, <1>2 DEF BundleNext

\* The variables of publish_pem_bundle() keep their types.
THEOREM BundleTypes == BundleSpec => []BundleTypeOK
<1>1. BundleInv => BundleTypeOK
  BY DEF BundleInv
<1> QED BY <1>1, BundleInitInv, BundleStepInv, PTL DEF BundleSpec

\* For any chain, whatever part of it and of its key has been written and whatever
\* openssl makes of the rest: publish_pem_bundle() publishes only a whole leaf and the
\* leaf's whole key, and refuses neither when openssl is there and the leaf is valid.
THEOREM PairsPublished == BundleSpec => []PublishedPairs
<1>1. BundleInv => PublishedPairs
  BY DEF BundleInv
<1> QED BY <1>1, BundleInitInv, BundleStepInv, PTL DEF BundleSpec

-----------------------------------------------------------------------------
(* The parts side by side *)

\* A step of the manager is a step of one part and leaves the others alone: what holds
\* of a part by itself holds of it in the manager.
THEOREM PartsRunAlone ==
  ManagerSpec => BlockedSpec /\ SecretSpec /\ DnsSpec /\ RoutingSpec /\ BundleSpec /\ StatsSpec
<1>1. ManagerInit => BlockedInit /\ SecretInit /\ DnsInit /\ RoutingInit /\ BundleInit /\ StatsInit
  BY Zenon DEF ManagerInit
<1>2. [ManagerNext]_manager_vars => [BlockedNext]_blocked_vars
  BY Zenon DEF ManagerNext, manager_vars
<1>3. [ManagerNext]_manager_vars => [SecretNext]_secret_vars
  BY Zenon DEF ManagerNext, manager_vars
<1>4. [ManagerNext]_manager_vars => [DnsNext]_dns_vars
  BY Zenon DEF ManagerNext, manager_vars
<1>5. [ManagerNext]_manager_vars => [RoutingNext]_routing_vars
  BY Zenon DEF ManagerNext, manager_vars
<1>6. [ManagerNext]_manager_vars => [BundleNext]_bundle_vars
  BY Zenon DEF ManagerNext, manager_vars
<1>7. [ManagerNext]_manager_vars => [StatsNext]_stats_vars
  BY Zenon DEF ManagerNext, manager_vars
<1> QED
  BY <1>1, <1>2, <1>3, <1>4, <1>5, <1>6, <1>7, PTL
  DEF ManagerSpec, BlockedSpec, SecretSpec, DnsSpec, RoutingSpec, BundleSpec, StatsSpec

\* No step of any part leaves a variable of the manager without its type.
THEOREM ManagerTypes == ManagerSpec => []ManagerTypeOK
<1>1. BlockedTypeOK /\ SecretTypeOK /\ DnsTypeOK /\ RoutingTypeOK /\ BundleTypeOK /\ StatsTypeOK
        => ManagerTypeOK
  BY Zenon DEF ManagerTypeOK
<1> QED
  BY <1>1, PartsRunAlone, BlockedTypes, SecretTypes, DnsTypes, RoutingTypes, BundleTypes, StatsTypes,
     PTL

\* What each part promises, it promises among the others: what MCManager.cfg checks of
\* a small instance holds of every one.
THEOREM ManagerPromises ==
  ManagerSpec => /\ [](Agree /\ OneSecret /\ WildcardPublished /\ PublishedPairs /\ StatsAreTheTable)
                 /\ RepliesHonest /\ OnlyExpiredCleared /\ ProceedAnswersDns
                 /\ HostsReachTheirServers /\ ImplementsRegister
  BY PartsRunAlone, CopiesAgree, SecretStable, WildcardsOnly, PairsPublished, AnswersAreTheTable,
     AnswersTrue, OnlyExpiredDeleted, HooksGoOnForTheirToken, AsksAreAnswered,
     SecretRefinement, PTL
=============================================================================
