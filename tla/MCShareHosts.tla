----------------------------- MODULE MCShareHosts -----------------------------
EXTENDS ShareHosts, TLC

\* Ids are compared for equality only.
Symmetry == Permutations(Domains) \cup Permutations(Certs) \cup Permutations(Owners)
=============================================================================
