----------------------------- MODULE RoomHosting -----------------------------
(***************************************************************************)
(* What room signaling promises, without its registries, frames or roles:  *)
(* each room has one seat for a host and an audience of viewers, a         *)
(* connection is in at most one place, nobody takes an occupied seat, and  *)
(* the host of a room always knows exactly the audience of that room.      *)
(* Module Signaling is the implementation.                                 *)
(***************************************************************************)
CONSTANTS Conn,      \* connections
          Room,      \* room ids
          NoConn     \* an empty seat, no connection

VARIABLES seat,      \* seat[r]: the connection that hosts r, or NoConn
          audience,  \* audience[r]: the connections that watch r
          hostView   \* hostView[r]: the viewers the host of r knows of

vars == <<seat, audience, hostView>>

Init ==
  /\ seat = [r \in Room |-> NoConn]
  /\ audience = [r \in Room |-> {}]
  /\ hostView = [r \in Room |-> {}]

\* Where everybody else is once c has left the place it had.
SeatWithout(c) == [r \in Room |-> IF seat[r] = c THEN NoConn ELSE seat[r]]
AudienceWithout(c) == [r \in Room |-> audience[r] \ {c}]

\* The host of each room is told of every change before anything else happens.
HostInformed ==
  hostView' = [r \in Room |-> IF seat'[r] = NoConn THEN {} ELSE audience'[r]]

\* c takes the free seat of r, giving up the place it had.
TakeSeat(c, r) ==
  /\ seat[r] = NoConn
  /\ seat' = [SeatWithout(c) EXCEPT ![r] = c]
  /\ audience' = AudienceWithout(c)
  /\ HostInformed

\* c joins the audience of r, giving up the place it had.
Watch(c, r) ==
  /\ seat' = SeatWithout(c)
  /\ audience' = [AudienceWithout(c) EXCEPT ![r] = @ \cup {c}]
  /\ HostInformed

\* c gives up the place it had.
Depart(c) ==
  /\ seat' = SeatWithout(c)
  /\ audience' = AudienceWithout(c)
  /\ HostInformed

Next ==
  \E c \in Conn :
    \/ \E r \in Room : TakeSeat(c, r) \/ Watch(c, r)
    \/ Depart(c)

Spec == Init /\ [][Next]_vars
==============================================================================
