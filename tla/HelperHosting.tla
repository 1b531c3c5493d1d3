---------------------------- MODULE HelperHosting ----------------------------
(***************************************************************************)
(* The whole signaling server: browsers on /ws and native helpers on       *)
(* /ws/helper meet in the same room registry.  A helper is a room's host   *)
(* through its control channel (server/src/helperSignaling.ts, and the     *)
(* attach-room, detach-room, room-sdp and room-ice handlers of             *)
(* server/src/index.ts).  Module Signaling gives the registry and the /ws  *)
(* endpoint, module HelperRegistry the presence of helpers.                *)
(*                                                                         *)
(* translateServerSignal renames frames one to one (joined is attach-ack,  *)
(* sdp is room-sdp), so wire holds a helper's frames under the registry's  *)
(* names; role and from, which the renaming drops, are read by nobody.     *)
(***************************************************************************)
EXTENDS Naturals, Sequences

CONSTANTS Browser, Agent,          \* connections to /ws and to /ws/helper
          Room, User, Guest, NoMember, NoTarget, NoRoom,
          Command, NoHelper, NoAck, NoResult,
          PingInterval, StaleAfter, HelloTimeout, MaxCommands

Conn == Browser \cup Agent

ASSUME HostingAssumption ==
  /\ Browser \cap Agent = {}
  /\ NoRoom \notin Room

VARIABLES
  rooms, conn, userOf, byId, byRoom, wire, roster,            \* module Signaling
  helperConn, helperUser, registered, pending, helpers, phase,
  pendingAcks, results, sent,                                 \* module HelperRegistry
  attachedRooms                                               \* index.ts `attachedRooms`

Sig == INSTANCE Signaling
Reg == INSTANCE HelperRegistry WITH conn <- helperConn, userOf <- helperUser

ASSUME PartsAssumption == Sig!SignalingAssumption /\ Reg!HelperAssumption

signaling == <<rooms, conn, userOf, byId, byRoom, wire, roster>>
registry == <<helperConn, helperUser, registered, pending, helpers, phase,
              pendingAcks, results, sent>>
vars == <<signaling, registry, attachedRooms>>

\* Frames of a greeted helper refresh its staleness clock and change nothing else in its registry.
Frame(c) ==
  /\ Reg!Status(c)
  /\ UNCHANGED <<conn, userOf>>

\* attach-room, when joinSignaling accepts the helper as host of r.
AttachRoom(c, r) ==
  /\ Frame(c)
  /\ Sig!Admissible(r, "host", helperUser[c])
  /\ Sig!enterRoom(c, r, "host", helperUser[c])
  /\ Sig!getRoom(r)
  /\ attachedRooms' = [attachedRooms EXCEPT ![c] = r]

\* attach-room, refused: the helper is told why, stays open, and keeps the room it had.
AttachRefused(c, r) ==
  /\ Frame(c)
  /\ \E code \in Sig!ErrorCode :
       /\ Sig!RefusedBecause(r, "host", helperUser[c], code)
       /\ wire' = Sig!SendTo({c}, [type |-> "error", code |-> code])
  /\ Sig!getRoom(r)
  /\ UNCHANGED <<byId, byRoom, roster, attachedRooms>>

\* Mutant: detach-room leaves the room and keeps the connection in attachedRooms.
DetachRoomHalf(c) ==
  /\ Frame(c)
  /\ Sig!leaveSignaling(c)
  /\ UNCHANGED <<rooms, attachedRooms>>

DetachRoom(c) ==
  /\ Frame(c)
  /\ Sig!leaveSignaling(c)
  /\ attachedRooms' = [attachedRooms EXCEPT ![c] = NoRoom]
  /\ UNCHANGED rooms

\* room-sdp and room-ice, to the peer the frame names, which need not be a viewer of the room;
\* a frame that names none goes to everybody else in the room.
RoomSignal(c, type, target) ==
  /\ Frame(c)
  /\ attachedRooms[c] # NoRoom
  /\ Sig!relay(c, type, target)
  /\ UNCHANGED <<rooms, attachedRooms>>

\* attach-room without a room id, or room-sdp and room-ice of a helper that is in no room.
HelperError(c) ==
  /\ Frame(c)
  /\ \E code \in {"bad_request", "not_attached"} :
       /\ code = "not_attached" => attachedRooms[c] = NoRoom
       /\ wire' = Sig!SendTo({c}, [type |-> "error", code |-> code])
  /\ UNCHANGED <<rooms, byId, byRoom, roster, attachedRooms>>

\* Mutant: onClose leaves the room and forgets the presence of the helper.
HelperCloseNoUnregister(c) ==
  /\ helperConn[c] \in {"open", "closing"}
  /\ helperConn' = [helperConn EXCEPT ![c] = "closed"]
  /\ Sig!leaveSignaling(c)
  /\ attachedRooms' = [attachedRooms EXCEPT ![c] = NoRoom]
  /\ UNCHANGED <<rooms, conn, userOf, helperUser, registered, pending, helpers, phase,
                 pendingAcks, results, sent>>

\* Mutant: onClose ends the presence of the helper and forgets its room.
HelperCloseNoLeave(c) ==
  /\ Reg!Close(c)
  /\ wire' = Sig!Silence
  /\ UNCHANGED <<rooms, conn, userOf, byId, byRoom, roster, attachedRooms>>

\* onClose of /ws/helper.
HelperClose(c) ==
  /\ Reg!Close(c)
  /\ IF registered[c]
     THEN /\ Sig!leaveSignaling(c)
          /\ attachedRooms' = [attachedRooms EXCEPT ![c] = NoRoom]
     ELSE wire' = Sig!Silence /\ UNCHANGED <<byId, byRoom, roster, attachedRooms>>
  /\ UNCHANGED <<rooms, conn, userOf>>

\* Everything else a helper connection, a timer or a command does leaves the rooms alone.
RoomsAlone ==
  /\ wire' = Sig!Silence
  /\ UNCHANGED <<rooms, conn, userOf, byId, byRoom, roster, attachedRooms>>

PresenceStep ==
  /\ (\E c \in Agent : Reg!AgentNext(c)) \/ Reg!TimerNext \/ Reg!CommandNext
  /\ RoomsAlone

SignalingStep ==
  /\ Sig!StoreNext \/ \E c \in Browser : Sig!BrowserNext(c)
  /\ UNCHANGED <<registry, attachedRooms>>

Init ==
  /\ Sig!Init
  /\ Reg!Init
  /\ attachedRooms = [c \in Agent |-> NoRoom]

HelperNext(c) ==
  \/ \E r \in Room : AttachRoom(c, r) \/ AttachRefused(c, r)
  \/ DetachRoom(c)
  \/ \E type \in {"sdp", "ice"}, target \in Conn \cup {NoTarget} : RoomSignal(c, type, target)
  \/ HelperError(c)
  \/ HelperClose(c)

Next ==
  \/ SignalingStep
  \/ PresenceStep
  \/ \E c \in Agent : HelperNext(c)

Spec == Init /\ [][Next]_vars

\* Time passes and timers fire; a helper socket the server has closed reports its close.
FairSpec ==
  /\ Spec
  /\ WF_vars(Reg!Tick /\ RoomsAlone)
  /\ WF_vars(Reg!Heartbeat /\ RoomsAlone)
  /\ \A c \in Agent : /\ WF_vars(Reg!HelloTimer(c) /\ RoomsAlone)
                      /\ WF_vars(helperConn[c] = "closing" /\ HelperClose(c))

-------------------------------------------------------------------------------
(* Properties.                                                                *)

\* Every variable has the shape the code gives it.
TypeOK ==
  /\ Sig!TypeOK
  /\ Reg!TypeOK
  /\ attachedRooms \in [Agent -> Room \cup {NoRoom}]

\* The endpoint's own map of attached helpers agrees with the room registry, which other
\* handlers change: room-sdp is accepted exactly from the helpers that host a room, and the map
\* names that room.
AttachedAgrees ==
  \A c \in Agent :
    /\ attachedRooms[c] = NoRoom <=> byId[c] = NoMember
    /\ byId[c] # NoMember => byId[c].role = "host" /\ byId[c].roomId = attachedRooms[c]
                             /\ byId[c].userId = helperUser[c]

\* A helper that holds a room's seat is the helper its account is known to have, unless its
\* socket is already closing: a superseded or stale helper cannot go on hosting.
HostingHelperIsCurrent ==
  \A c \in Agent : byId[c] # NoMember =>
    /\ helperConn[c] \in {"open", "closing"}
    /\ helperConn[c] = "open" => Reg!Registered(helperUser[c], c)

\* sdp and ice frames pass only between host and viewer of one room, whichever endpoints these
\* use, and a helper never hears from a viewer it was not told of.
SignalsStayInPair == Sig!SignalsStayInPair

\* The rooms keep the promise of RoomHosting with hosts on either endpoint: a helper cannot
\* take the seat of a browser host, nor the other way round.
KeepsHostingPromise == Sig!KeepsHostingPromise

\* Hosting rooms does not disturb presence: the server implements HelperRegistry, so all that
\* is checked and proved of it holds of helpers that attach, detach and signal.
PresenceUndisturbed == Reg!Spec

\* A helper that falls silent while it hosts a room loses the seat, through the heartbeat sweep,
\* the close of its socket and the onClose handler, unless it speaks again.
SilentHostLosesSeat ==
  \A c \in Agent :
    (byId[c] # NoMember /\ (Reg!Registered(helperUser[c], c) => helpers[helperUser[c]].age > 0))
      ~> (byId[c] = NoMember
          \/ (Reg!Registered(helperUser[c], c) /\ helpers[helperUser[c]].age = 0))
==============================================================================
