------------------------------- MODULE MCLinks -------------------------------
EXTENDS Links, TLC

\* An account's document has its name, so accounts and calls are interchangeable.
Symmetric == Permutations(Owners) \cup Permutations(Calls)

=============================================================================
