--------------------------- MODULE MCCertLifecycle ---------------------------
(* Symmetry for TLC: host names that occur alike in Groups and Www are alike. *)
EXTENDS CertLifecycle, TLC

AlikeDomains == {p \in Permutations(Domains) :
                    /\ \A g \in Groups : {p[d] : d \in g} \in Groups
                    /\ {p[d] : d \in Www} = Www}
=============================================================================
