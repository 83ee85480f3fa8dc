---------------------------- MODULE ClusterSecret ----------------------------
(***************************************************************************)
(* get_or_create_cluster_secret(): the QUIC secret every rendering of      *)
(* haproxy.cfg embeds, generated once and kept in /etc/haproxy.            *)
(*                                                                         *)
(* Threads of several processes call it.  A file that is missing is made   *)
(* with O_EXCL, and is blank until the write that follows; a file that is  *)
(* blank is filled in place under flock.  The two do not exclude each      *)
(* other: overtaken is the history that tells a healer has mistaken the    *)
(* file of a live creator for the one of a dead one.                       *)
(***************************************************************************)
EXTENDS Naturals

CONSTANTS
    Renders,            \* the calls of generate_config() that ask for the secret
    Kept,               \* the secret an earlier container left
    Absent, Blank,      \* no such file; a file without a secret
    Nobody,
    MaxSecretFaults     \* bound: failures injected in one behaviour

\* A secret is named after the call that generates it.
Secrets == Renders \cup {Kept}

ASSUME SecretAssumption ==
    /\ Absent # Blank /\ {Absent, Blank} \cap Secrets = {}
    /\ Nobody \notin Secrets /\ Kept \notin Renders
    /\ MaxSecretFaults \in Nat

VARIABLES
    secret,     \* /etc/haproxy/cluster-secret
    flock,      \* the call that holds its lock
    stage,       \* where each call is
    rendered,   \* what its last call returned; Blank: '', Absent: not called
    overtaken,  \* history: a creator was healed before it had written
    failures    \* history: failures injected so far

secret_vars == <<secret, flock, stage, rendered, overtaken, failures>>

SecretSteps == {"idle", "create", "write", "reread", "lock", "locked", "truncate", "heal"}

SecretTypeOK ==
    /\ secret \in Secrets \cup {Absent, Blank}
    /\ flock \in Renders \cup {Nobody}
    /\ stage \in [Renders -> SecretSteps]
    /\ rendered \in [Renders -> Secrets \cup {Absent, Blank}]
    /\ overtaken \in BOOLEAN /\ failures \in Nat
    /\ \A t \in Renders : flock = t <=> stage[t] \in {"locked", "truncate", "heal"}
-----------------------------------------------------------------------------
At(t, label) == stage' = [stage EXCEPT ![t] = label]

Return(t, value) == At(t, "idle") /\ rendered' = [rendered EXCEPT ![t] = value]

Failure == failures < MaxSecretFaults /\ failures' = failures + 1

Unlock(t) == flock' = IF flock = t THEN Nobody ELSE flock

\* os.path.exists() and the first read; a read that fails is a secret of ''.
look(t) ==
    /\ stage[t] = "idle"
    /\ \/ /\ UNCHANGED failures
          /\ CASE secret = Absent -> At(t, "create") /\ UNCHANGED rendered
               [] secret = Blank  -> At(t, "lock") /\ UNCHANGED rendered
               [] OTHER           -> Return(t, secret)
       \/ secret # Absent /\ Failure /\ Return(t, Blank)
    /\ UNCHANGED <<secret, flock, overtaken>>

\* Mutant: the file is created without O_EXCL.
create_NotExclusive(t) ==
    /\ stage[t] = "create"
    /\ secret' = Blank /\ At(t, "write")
    /\ UNCHANGED <<flock, rendered, overtaken, failures>>

\* os.open(O_CREAT | O_EXCL)
create(t) ==
    /\ stage[t] = "create"
    /\ IF secret = Absent
       THEN secret' = Blank /\ At(t, "write")
       ELSE At(t, "reread") /\ UNCHANGED secret
    /\ UNCHANGED <<flock, rendered, overtaken, failures>>

\* os.write() of the creator; when it fails the file stays blank.
write(t) ==
    /\ stage[t] = "write"
    /\ \/ secret' = t /\ Return(t, t) /\ UNCHANGED failures
       \/ Failure /\ Return(t, Blank) /\ UNCHANGED secret
    /\ UNCHANGED <<flock, overtaken>>

\* "Lost the create race": the file is read back, written or not.
reread(t) ==
    /\ stage[t] = "reread"
    /\ \/ Return(t, secret) /\ UNCHANGED failures
       \/ Failure /\ Return(t, Blank)
    /\ UNCHANGED <<secret, flock, overtaken>>

\* flock(LOCK_EX) waits.
heal_lock(t) ==
    /\ stage[t] = "lock" /\ flock = Nobody
    /\ flock' = t /\ At(t, "locked")
    /\ UNCHANGED <<secret, rendered, overtaken, failures>>

\* Mutant: the file is not read again under the lock.
heal_read_Skipped(t) ==
    /\ stage[t] = "locked"
    /\ At(t, "truncate")
    /\ overtaken' = (overtaken \/ \E u \in Renders : stage[u] = "write")
    /\ UNCHANGED <<secret, flock, rendered, failures>>

\* "Re-read under the lock: another worker may have healed it"
heal_read(t) ==
    /\ stage[t] = "locked"
    /\ IF secret \in Secrets
       THEN Return(t, secret) /\ Unlock(t) /\ UNCHANGED overtaken
       ELSE /\ At(t, "truncate") /\ UNCHANGED <<flock, rendered>>
            /\ overtaken' = (overtaken \/ \E u \in Renders : stage[u] = "write")
    /\ UNCHANGED <<secret, failures>>

heal_truncate(t) ==
    /\ stage[t] = "truncate"
    /\ secret' = Blank /\ At(t, "heal")
    /\ UNCHANGED <<flock, rendered, overtaken, failures>>

\* The write, and the chmod whose failure hides a secret that has been written.
heal_write(t) ==
    /\ stage[t] = "heal"
    /\ \/ secret' = t /\ Return(t, t) /\ UNCHANGED failures
       \/ Failure /\ secret' \in {t, secret} /\ Return(t, Blank)
    /\ Unlock(t)
    /\ UNCHANGED overtaken

\* The process dies; the kernel releases its lock.
render_dies(t) ==
    /\ stage[t] # "idle" /\ Failure
    /\ At(t, "idle") /\ Unlock(t)
    /\ UNCHANGED <<secret, rendered, overtaken>>
-----------------------------------------------------------------------------
\* A new volume, one "restored empty", or the one of an earlier container.
SecretInit ==
    /\ secret \in {Absent, Blank, Kept}
    /\ flock = Nobody
    /\ stage = [t \in Renders |-> "idle"]
    /\ rendered = [t \in Renders |-> Absent]
    /\ overtaken = FALSE /\ failures = 0

SecretStep(t) ==
    \/ look(t) \/ create(t) \/ write(t) \/ reread(t)
    \/ heal_lock(t) \/ heal_read(t) \/ heal_truncate(t) \/ heal_write(t)

SecretNext == \E t \in Renders : SecretStep(t) \/ render_dies(t)

SecretSpec == SecretInit /\ [][SecretNext]_secret_vars
-----------------------------------------------------------------------------
(* Properties *)

\* "Return a stable secret": every configuration that has been rendered with a
\* secret has the one that is on disk, so that the tokens of one HAProxy process
\* are good for the next, however many renders run at once and whatever of them
\* dies - as long as no healer meets a creator between its open and its write.
OneSecret ==
    ~overtaken => \A t \in Renders : rendered[t] \in Secrets => rendered[t] = secret

Usable(content) == IF content \in Secrets THEN content ELSE Absent

\* The register that is set once, seen through the file.
Register ==
    INSTANCE StableSecret WITH
        None <- Absent, lost <- overtaken,
        kept <- Usable(secret), given <- [t \in Renders |-> Usable(rendered[t])]

\* "Reads it if present, generates and persists it on first call": the file, its
\* exclusive creation and its locked healing implement the register, whatever dies
\* in between: what was once kept is neither replaced nor lost, and no render is
\* given anything else.
ImplementsRegister == Register!Spec
=============================================================================
