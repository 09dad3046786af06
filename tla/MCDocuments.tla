----------------------------- MODULE MCDocuments -----------------------------
EXTENDS Documents, TLC

\* Every request may be of any kind, so requests are interchangeable.
Symmetric == Permutations(Ops) \cup Permutations(Files)

=============================================================================
