----------------------------- MODULE DurableStore -----------------------------
(***************************************************************************)
(* What the server promises about a stored row, whatever the database does *)
(* with the writes behind it: a key is used once, a row that is gone stays *)
(* gone, and a restart brings back, for every key, a row that it had since *)
(* it was last settled, never an older or a foreign one.                   *)
(* Module Persistence is the implementation.                               *)
(***************************************************************************)
EXTENDS Naturals

CONSTANTS Key,    \* session tokens, device tokens and room ids
          Row,    \* what is stored under a key
          NoRow   \* a key that is absent

VARIABLES kept,    \* kept[k]: the row that requests see
          recent,  \* recent[k]: the rows a restart may bring back
          used,    \* the keys that have been given out
          boots    \* restarts so far

vars == <<kept, recent, used, boots>>

Init ==
  /\ kept \in [Key -> Row \cup {NoRow}]
  /\ recent = [k \in Key |-> {kept[k]}]
  /\ used = {k \in Key : kept[k] # NoRow}
  /\ boots = 0

Remember == recent' = [k \in Key |-> recent[k] \cup {kept'[k]}]

Add(k, row) ==
  /\ k \notin used
  /\ used' = used \cup {k}
  /\ kept' = [kept EXCEPT ![k] = row]
  /\ Remember
  /\ UNCHANGED boots

Change(k, row) ==
  /\ kept[k] # NoRow
  /\ kept' = [kept EXCEPT ![k] = row]
  /\ Remember
  /\ UNCHANGED <<used, boots>>

Remove(S) ==
  /\ kept' = [k \in Key |-> IF k \in S THEN NoRow ELSE kept[k]]
  /\ Remember
  /\ UNCHANGED <<used, boots>>

\* The database has caught up with k.
Settle(k) ==
  /\ recent' = [recent EXCEPT ![k] = {kept[k]}]
  /\ UNCHANGED <<kept, used, boots>>

Restart ==
  /\ \A k \in Key : kept'[k] \in recent[k]
  /\ kept' = [k \in Key |-> kept'[k]]
  /\ recent' = [k \in Key |-> {kept'[k]}]
  /\ boots' = boots + 1
  /\ UNCHANGED used

Next ==
  \/ \E k \in Key : Settle(k) \/ (\E row \in Row : Add(k, row) \/ Change(k, row))
  \/ \E S \in SUBSET Key : Remove(S)
  \/ Restart

Spec == Init /\ [][Next]_vars
==============================================================================
