---------------------------- MODULE MCPersistence ----------------------------
(* Persistence for TLC. *)
EXTENDS Persistence

\* Tokens are drawn at random and accounts are all alike: nothing tells one from another.
Symmetry == Permutations(Token) \cup Permutations(User)
==============================================================================
