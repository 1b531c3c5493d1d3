----------------------------- MODULE MCSignaling -----------------------------
EXTENDS Signaling, TLC
Symmetry == Permutations(Conn) \cup Permutations(Room) \cup Permutations(User)
==============================================================================
