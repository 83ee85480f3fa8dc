------------------------------- MODULE Manager -------------------------------
(***************************************************************************)
(* Components of haproxy_manager.py that share no state, side by side:     *)
(* each behaviour exercises one part, and the others stay in an initial    *)
(* state.  A step of one part stutters in all the others, so that a        *)
(* property of a part is a property of the whole.                          *)
(***************************************************************************)
EXTENDS BlockedIPs, ClusterSecret, DnsChallenge, Routing, PemBundle, StickTables

VARIABLE part       \* the part this behaviour exercises

manager_vars == <<part, blocked_vars, secret_vars, dns_vars, routing_vars,
                  bundle_vars, stats_vars>>

Exercised == {"blocked", "secret", "dns", "routing", "bundle", "stats"}

\* A part that is not exercised rests in one of its initial states.
ManagerInit ==
    /\ part \in Exercised
    /\ BlockedInit /\ (part # "blocked" => Blocked = {})
    /\ SecretInit /\ (part # "secret" => secret = Absent)
    /\ DnsInit /\ (part # "dns" => newest = NoRun /\ ~proceed)
    /\ RoutingInit /\ (part # "routing" => domains = {})
    /\ StatsInit /\ (part # "stats" => /\ socket = "nobody" /\ stored = Contract
                                      /\ DOMAIN table = {} /\ query = CHOOSE q \in Queries : TRUE)
    /\ (part # "bundle" => /\ fullchain = CHOOSE source \in CertSources : TRUE
                           /\ privkey = CHOOSE source \in KeySources : TRUE
                           /\ openssl = "absent" /\ resyncs = FALSE /\ leaf_expired = FALSE)
    /\ BundleInit

ManagerNext ==
    /\ UNCHANGED part
    /\ \/ /\ part = "blocked" /\ BlockedNext
          /\ UNCHANGED <<secret_vars, dns_vars, routing_vars, bundle_vars, stats_vars>>
       \/ /\ part = "secret" /\ SecretNext
          /\ UNCHANGED <<blocked_vars, dns_vars, routing_vars, bundle_vars, stats_vars>>
       \/ /\ part = "dns" /\ DnsNext
          /\ UNCHANGED <<blocked_vars, secret_vars, routing_vars, bundle_vars, stats_vars>>
       \/ /\ part = "routing" /\ RoutingNext
          /\ UNCHANGED <<blocked_vars, secret_vars, dns_vars, bundle_vars, stats_vars>>
       \/ /\ part = "bundle" /\ BundleNext
          /\ UNCHANGED <<blocked_vars, secret_vars, dns_vars, routing_vars, stats_vars>>
       \/ /\ part = "stats" /\ StatsNext
          /\ UNCHANGED <<blocked_vars, secret_vars, dns_vars, routing_vars, bundle_vars>>

ManagerSpec == ManagerInit /\ [][ManagerNext]_manager_vars
-----------------------------------------------------------------------------
(* Properties *)

\* Every part keeps the types of its variables.
ManagerTypeOK ==
    /\ BlockedTypeOK /\ SecretTypeOK /\ DnsTypeOK
    /\ RoutingTypeOK /\ BundleTypeOK /\ StatsTypeOK
=============================================================================
