---------------------------- MODULE StableSecret ----------------------------
(***************************************************************************)
(* What get_or_create_cluster_secret() promises to haproxy.cfg, without    *)
(* the file, its lock and the steps of its callers: a register that is set *)
(* once.  A render is given what is kept, or nothing; what is kept is made *)
(* by one of the renders, and stays.                                       *)
(*                                                                         *)
(* lost is the one situation the promise does not cover, a healer that     *)
(* takes the file of a live creator for that of a dead one.                *)
(***************************************************************************)
CONSTANTS Renders, Secrets, None

VARIABLES
    kept,   \* the secret on disk, None as long as there is none
    given,  \* what each render got last: a secret, or None
    lost    \* history: the promise no longer holds

Init == kept \in Secrets \cup {None} /\ given = [t \in Renders |-> None] /\ lost = FALSE

\* Once there is a secret it is the one that is kept.
Keep == kept' = kept \/ (kept = None /\ kept' \in Secrets)

\* At most one render is answered in a step.
Give ==
    \/ UNCHANGED given
    \/ \E t \in Renders : given' = [given EXCEPT ![t] = kept'] \/ given' = [given EXCEPT ![t] = None]

Lose == lost' /\ kept' \in Secrets \cup {None} /\ given' \in [Renders -> Secrets \cup {None}]

Next == Lose \/ (Keep /\ Give /\ UNCHANGED lost)

Spec == Init /\ [][Next]_<<kept, given, lost>>
=============================================================================
