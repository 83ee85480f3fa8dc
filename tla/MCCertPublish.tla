---------------------------- MODULE MCCertPublish ----------------------------
\* CertPublish with the lineages interchangeable, for runs without liveness.
EXTENDS CertPublish, TLC

AnyLineage == Permutations(Domains)
=============================================================================
