----------------------------- MODULE MCTurnCache -----------------------------
(* Small instances of TurnCache: every nonempty set of keys is a scope.    *)
EXTENDS TurnCacheProofs, TLC
AllScopes == (SUBSET Keys) \ {{}}
Symmetric == Permutations(Keys) \cup Permutations(Callers)
=============================================================================
