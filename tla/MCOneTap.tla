------------------------------- MODULE MCOneTap -------------------------------
EXTENDS OneTap, TLC

\* Ids, tokens and deliveries are compared for equality only.
Symmetry == Permutations(Drafts) \cup Permutations(Threads) \cup Permutations(Nonces)
              \cup Permutations(Messages) \cup Permutations(Handlers)
=============================================================================
