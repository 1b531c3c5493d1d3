------------------------------ MODULE Signaling ------------------------------
(***************************************************************************)
(* Room signaling: the registry of who is in which room                    *)
(* (server/src/signaling.ts), the rooms it consults (server/src/store.ts), *)
(* and the browser endpoint /ws that drives it (server/src/index.ts).      *)
(*                                                                         *)
(* The server is one JavaScript thread and none of these handlers awaits,  *)
(* so a handler is one step.  Connections interleave in any order.  A      *)
(* connection's peerId is the UUID its page draws (web/src/pages/watch.ts, *)
(* web/src/host-session.ts) or its connection id, so peer ids are          *)
(* identified with connections.  The room id alphabet gives 2^50 ids:      *)
(* createRoom never draws an id again after its room was deleted.          *)
(***************************************************************************)
EXTENDS Naturals, Sequences

CONSTANTS Conn,      \* connections, each opened once
          Room,      \* room ids
          User,      \* accounts
          Guest,     \* the user of a connection without a session
          NoMember,  \* no entry in byId
          NoTarget   \* a relay frame without a target

Role == {"host", "viewer"}
Account == User \cup {Guest}
Member == [id : Conn, userId : Account, role : Role, roomId : Room]

ASSUME SignalingAssumption ==
  /\ Guest \notin User
  /\ NoMember \notin Member \cup Conn
  /\ NoTarget \notin Conn

VARIABLES
  rooms,    \* store.ts `rooms`, with the owner remembered after deletion
  conn,     \* the state of each connection
  userOf,   \* the user of each connection, fixed when it is opened
  byId,     \* signaling.ts `byId`
  byRoom,   \* signaling.ts `byRoom`
  wire,     \* wire[d]: the frames the last step sent to d, in order
  roster    \* roster[d]: the peers those frames have told member d of

registry == <<byId, byRoom, roster>>
vars == <<rooms, conn, userOf, byId, byRoom, wire, roster>>

RoomStatus == {"unused", "live", "expired", "deleted"}
ConnStatus == {"idle", "open", "closing", "closed"}
ErrorCode == {"bad_request", "room_not_found", "not_room_host", "host_already_connected",
              "not_attached"}

\* Frames carry what the receivers act on; the payload of sdp and ice does not matter.
RoomFrame == [type : {"joined", "peer-joined", "peer-left", "sdp", "ice"},
              roomId : Room, role : Role, peer : Conn, viewers : SUBSET Conn]
ErrorFrame == [type : {"error"}, code : ErrorCode]
Frame == RoomFrame \cup ErrorFrame

RoomFrameOf(type, m, viewers) ==
  [type |-> type, roomId |-> m.roomId, role |-> m.role, peer |-> m.id, viewers |-> viewers]

Silence == [d \in Conn |-> <<>>]
SendTo(S, frame) == [d \in Conn |-> IF d \in S THEN <<frame>> ELSE <<>>]

-------------------------------------------------------------------------------
(* The store.  A room is live until its TTL has passed ("expired"), and is     *)
(* deleted by the first read after that or by the sweep.                       *)

\* createRoom: POST /api/rooms by a signed-in user.
createRoom(r, u) ==
  /\ rooms[r].status = "unused"
  /\ rooms' = [rooms EXCEPT ![r] = [status |-> "live", hostId |-> u]]
  /\ wire' = Silence
  /\ UNCHANGED <<conn, userOf, registry>>

\* The clock passes expiresAt of r.
RoomExpires(r) ==
  /\ rooms[r].status = "live"
  /\ rooms' = [rooms EXCEPT ![r].status = "expired"]
  /\ wire' = Silence
  /\ UNCHANGED <<conn, userOf, registry>>

sweepExpiredRooms ==
  /\ \E r \in Room : rooms[r].status = "expired"
  /\ rooms' = [r \in Room |-> IF rooms[r].status = "expired"
                               THEN [rooms[r] EXCEPT !.status = "deleted"] ELSE rooms[r]]
  /\ wire' = Silence
  /\ UNCHANGED <<conn, userOf, registry>>

\* getRoom finds live rooms only, and deletes the room when it has expired.
Found(r) == rooms[r].status = "live"
getRoom(r) ==
  rooms' = [rooms EXCEPT ![r].status = IF @ = "expired" THEN "deleted" ELSE @]

\* GET /api/rooms/:id, and the other routes that read a room.
ReadRoom(r) ==
  /\ rooms[r].status = "expired"
  /\ getRoom(r)
  /\ wire' = Silence
  /\ UNCHANGED <<conn, userOf, registry>>

-------------------------------------------------------------------------------
(* The registry.  Operators with a parameter br read that value of byRoom, so  *)
(* that a handler can consult the registry between two of its own updates.     *)

\* Mutant: the viewers of `joined` without the map to their peer ids.
viewersAsMembers(br, r) == {n \in br[r] : n.role = "viewer"}

hostOf(br, r) == {m.id : m \in {n \in br[r] : n.role = "host"}}
viewersOf(br, r) == {m.id : m \in {n \in br[r] : n.role = "viewer"}}
membersOf(br, r) == {m.id : m \in br[r]}

\* Who hears of m coming or going: a host announces itself to its room, a viewer to the host.
Hearers(br, m) == IF m.role = "host" THEN membersOf(br, m.roomId) \ {m.id}
                                     ELSE hostOf(br, m.roomId)

\* Mutant: leaveSignaling deletes the byId entry only.
WithoutById(c) == byRoom

\* Mutant: only a host that leaves is announced.
LeaveFramesOfHost(c) ==
  IF byId[c] = NoMember \/ byId[c].role = "viewer" THEN Silence
  ELSE SendTo(membersOf(byRoom, byId[c].roomId) \ {c}, RoomFrameOf("peer-left", byId[c], {}))

\* byRoom and the peer-left frames after leaveSignaling(c).
Without(c) == IF byId[c] = NoMember THEN byRoom
              ELSE [byRoom EXCEPT ![byId[c].roomId] = {m \in @ : m.id # c}]
LeaveFrames(c) == IF byId[c] = NoMember THEN Silence
                  ELSE SendTo(Hearers(Without(c), byId[c]),
                              RoomFrameOf("peer-left", byId[c], {}))

\* Mutant: `joined` does not list the viewers that were there before the host.
JoinFramesNoList(br, m) ==
  [SendTo(Hearers(br, m), RoomFrameOf("peer-joined", m, {}))
     EXCEPT ![m.id] = <<RoomFrameOf("joined", m, {})>>]

\* The frames that announce member m, once it is in registry br.
JoinFrames(br, m) ==
  LET joined == RoomFrameOf("joined", m,
                            IF m.role = "host" THEN viewersOf(br, m.roomId) ELSE {})
  IN [SendTo(Hearers(br, m), RoomFrameOf("peer-joined", m, {})) EXCEPT ![m.id] = <<joined>>]

\* What a receiver that knew of `known` knows after at most one more frame.
Hear(known, frames) ==
  IF frames = <<>> THEN known
  ELSE LET f == frames[1] IN
       CASE f.type = "joined"      -> f.viewers
         [] f.type = "peer-joined" -> known \cup {f.peer}
         [] f.type = "peer-left"   -> known \ {f.peer}
         [] OTHER                  -> known

leaveSignaling(c) ==
  /\ byId' = [byId EXCEPT ![c] = NoMember]
  /\ byRoom' = Without(c)
  /\ wire' = LeaveFrames(c)
  /\ roster' = [d \in Conn |-> IF d = c THEN {} ELSE Hear(roster[d], LeaveFrames(c)[d])]

\* The checks of joinSignaling, in the order the code makes them.
RefusedBecause(r, role, u, code) ==
  \/ /\ code = "room_not_found"
     /\ ~Found(r)
  \/ /\ code = "not_room_host"
     /\ Found(r)
     /\ role = "host" /\ rooms[r].hostId # u
  \/ /\ code = "host_already_connected"
     /\ Found(r)
     /\ role = "host" /\ rooms[r].hostId = u /\ hostOf(byRoom, r) # {}

\* Mutant: no check for a host that is connected already.
AdmissibleTwice(r, role, u) == Found(r) /\ (role = "host" => rooms[r].hostId = u)

\* Mutant: no check that the host owns the room.
AdmissibleAnyone(r, role, u) == Found(r) /\ (role = "host" => hostOf(byRoom, r) = {})

Admissible(r, role, u) ==
  /\ Found(r)
  /\ role = "host" => rooms[r].hostId = u /\ hostOf(byRoom, r) = {}

\* joinSignaling when every check passes: leave the previous room, enter this one.
enterRoom(c, r, role, u) ==
  LET m == [id |-> c, userId |-> u, role |-> role, roomId |-> r]
      br == [Without(c) EXCEPT ![r] = @ \cup {m}]
      before == LeaveFrames(c)
      after == JoinFrames(br, m)
  IN /\ byId' = [byId EXCEPT ![c] = m]
     /\ byRoom' = br
     /\ wire' = [d \in Conn |-> before[d] \o after[d]]
     /\ roster' = [d \in Conn |-> Hear(Hear(roster[d], before[d]), after[d])]

\* Mutant: the target is not looked up in the sender's room.
relayAnywhere(c, type, target) ==
  LET m == byId[c]
      receivers == IF m.role = "host" /\ target # NoTarget THEN {target} ELSE Hearers(byRoom, m)
  IN /\ m # NoMember
     /\ wire' = SendTo(receivers, RoomFrameOf(type, m, {}))
     /\ UNCHANGED registry

\* relaySdp and relayIce: the host reaches one viewer or its whole room, a viewer the host.
relay(c, type, target) ==
  LET m == byId[c]
      receivers == IF m.role = "host" /\ target # NoTarget
                   THEN viewersOf(byRoom, m.roomId) \cap {target}
                   ELSE Hearers(byRoom, m)
  IN /\ m # NoMember
     /\ wire' = SendTo(receivers, RoomFrameOf(type, m, {}))
     /\ UNCHANGED registry

-------------------------------------------------------------------------------
(* The /ws endpoint.  fail() sends an error frame and closes the socket; from  *)
(* then on no frame of it is handled, and onClose runs as a later step.        *)

Open(c) == conn[c] = "open"

\* The upgrade: the user is read from the session cookie once, here.
Connect(c, u) ==
  /\ conn[c] = "idle"
  /\ conn' = [conn EXCEPT ![c] = "open"]
  /\ userOf' = [userOf EXCEPT ![c] = u]
  /\ wire' = Silence
  /\ UNCHANGED <<rooms, registry>>

fail(c, code) ==
  /\ conn' = [conn EXCEPT ![c] = "closing"]
  /\ wire' = SendTo({c}, [type |-> "error", code |-> code])
  /\ UNCHANGED registry

\* A join without room id or role.
BadJoin(c) ==
  /\ Open(c)
  /\ fail(c, "bad_request")
  /\ UNCHANGED <<rooms, userOf>>

JoinRefused(c, r, role) ==
  /\ Open(c)
  /\ \E code \in ErrorCode : RefusedBecause(r, role, userOf[c], code) /\ fail(c, code)
  /\ getRoom(r)
  /\ UNCHANGED userOf

Join(c, r, role) ==
  /\ Open(c)
  /\ Admissible(r, role, userOf[c])
  /\ enterRoom(c, r, role, userOf[c])
  /\ getRoom(r)
  /\ UNCHANGED <<conn, userOf>>

\* An sdp or ice frame; handleSignal ignores those of a connection in no room.
Signal(c, type, target) ==
  /\ Open(c)
  /\ relay(c, type, target)
  /\ UNCHANGED <<rooms, conn, userOf>>

\* A leave frame; the socket stays open.
Leave(c) ==
  /\ Open(c)
  /\ byId[c] # NoMember
  /\ leaveSignaling(c)
  /\ UNCHANGED <<rooms, conn, userOf>>

\* Mutant: onClose does not leave the room when the server itself closed the socket.
CloseForgets(c) ==
  /\ conn[c] \in {"open", "closing"}
  /\ conn' = [conn EXCEPT ![c] = "closed"]
  /\ IF conn[c] = "open" THEN leaveSignaling(c) ELSE wire' = Silence /\ UNCHANGED registry
  /\ UNCHANGED <<rooms, userOf>>

\* onClose: the peer went away, or the server closed the socket.
Close(c) ==
  /\ conn[c] \in {"open", "closing"}
  /\ conn' = [conn EXCEPT ![c] = "closed"]
  /\ leaveSignaling(c)
  /\ UNCHANGED <<rooms, userOf>>

-------------------------------------------------------------------------------
Init ==
  /\ rooms = [r \in Room |-> [status |-> "unused", hostId |-> Guest]]
  /\ conn = [c \in Conn |-> "idle"]
  /\ userOf = [c \in Conn |-> Guest]
  /\ byId = [c \in Conn |-> NoMember]
  /\ byRoom = [r \in Room |-> {}]
  /\ wire = Silence
  /\ roster = [c \in Conn |-> {}]

StoreNext ==
  \/ \E r \in Room : RoomExpires(r) \/ ReadRoom(r) \/ \E u \in User : createRoom(r, u)
  \/ sweepExpiredRooms

BrowserNext(c) ==
  \/ \E u \in Account : Connect(c, u)
  \/ BadJoin(c)
  \/ \E r \in Room, role \in Role : Join(c, r, role) \/ JoinRefused(c, r, role)
  \/ \E type \in {"sdp", "ice"}, target \in Conn \cup {NoTarget} : Signal(c, type, target)
  \/ Leave(c)
  \/ Close(c)

Next == StoreNext \/ \E c \in Conn : BrowserNext(c)

Spec == Init /\ [][Next]_vars
-------------------------------------------------------------------------------
(* Properties.                                                                *)

\* Every variable has the shape the code gives it; no step sends a connection more than two frames.
TypeOK ==
  /\ rooms \in [Room -> [status : RoomStatus, hostId : Account]]
  /\ conn \in [Conn -> ConnStatus]
  /\ userOf \in [Conn -> Account]
  /\ byId \in [Conn -> Member \cup {NoMember}]
  /\ byRoom \in [Room -> SUBSET Member]
  /\ wire \in [Conn -> Seq(Frame)]
  /\ \A d \in Conn : Len(wire[d]) <= 2
  /\ roster \in [Conn -> SUBSET Conn]

\* The two maps of signaling.ts never disagree: a connection is in the member set of a room
\* exactly when byId says so, whatever it joined, left and joined again before.
RegistriesAgree ==
  \A r \in Room :
    byRoom[r] = {byId[c] : c \in {d \in Conn : byId[d] # NoMember /\ byId[d].roomId = r}}

\* The two maps hold members of live sockets only: a refused or closed connection cannot stay
\* behind as a member that nothing will ever remove (onClose has run, or is still to run).
NoDeadMembers ==
  \A c \in Conn : byId[c] # NoMember => conn[c] \in {"open", "closing"} /\ byId[c].id = c

\* "A host is already connected to this room": a room never has two hosts.
OneHost ==
  \A r \in Room : \A c, d \in hostOf(byRoom, r) : c = d

\* "Sign in as the room owner to connect as host": whoever hosts a room is its owner, also
\* after the room has expired or was deleted under the host's feet.
HostIsOwner ==
  \A c \in Conn : byId[c] # NoMember /\ byId[c].role = "host" =>
    /\ rooms[byId[c].roomId].hostId = byId[c].userId
    /\ byId[c].userId # Guest

\* The frames a host was sent add up to exactly the viewers of its room, whoever came and went
\* in whatever order; a viewer that was told of a host is in a room that has that host.
RosterExact ==
  \A c \in Conn : byId[c] # NoMember =>
    IF byId[c].role = "host" THEN roster[c] = viewersOf(byRoom, byId[c].roomId)
                             ELSE roster[c] \subseteq hostOf(byRoom, byId[c].roomId)

\* sdp and ice frames pass only between the host and a viewer of one room, under the sender's
\* own id and role, and a host never hears from a viewer it was not told of.
SignalsStayInPair ==
  \A d \in Conn : \A i \in DOMAIN wire[d] :
    LET f == wire[d][i] IN
    f.type \in {"sdp", "ice"} =>
      /\ byId[d] # NoMember /\ byId[f.peer] # NoMember
      /\ byId[d].roomId = f.roomId /\ byId[f.peer].roomId = f.roomId
      /\ byId[f.peer].role = f.role /\ byId[d].role # f.role
      /\ f.role = "viewer" => f.peer \in roster[d]

\* The watch link stops working when the room expires: nobody enters a room that is not live,
\* although those inside may stay and go on signaling.
EntersLiveRoomsOnly ==
  [][\A c \in Conn :
       byId'[c] # byId[c] /\ byId'[c] # NoMember
         => rooms[byId'[c].roomId].status = "live"]_vars

\* The registry keeps the promise of RoomHosting: seats are never taken over, a connection is
\* in one place, and the host's knowledge of its audience is never out of date.
Hosting == INSTANCE RoomHosting WITH
  NoConn <- NoMember,
  seat <- [r \in Room |-> IF hostOf(byRoom, r) = {} THEN NoMember
                          ELSE CHOOSE c \in Conn : c \in hostOf(byRoom, r)],
  audience <- [r \in Room |-> viewersOf(byRoom, r)],
  hostView <- [r \in Room |-> UNION {roster[c] : c \in hostOf(byRoom, r)}]

KeepsHostingPromise == Hosting!Spec
==============================================================================
