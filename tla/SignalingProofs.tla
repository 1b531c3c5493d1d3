--------------------------- MODULE SignalingProofs ---------------------------
(***************************************************************************)
(* Proofs about module Signaling for every set of connections, rooms and   *)
(* users: its type invariant, and that the registry keeps its two maps in  *)
(* agreement, seats one host per room, and seats only the owner.           *)
(***************************************************************************)
EXTENDS Signaling, SequenceTheorems, TLAPS

-------------------------------------------------------------------------------
(* Typing                                                                      *)

\* Handlers send in instalments of at most one frame to each connection.
Instalment == [Conn -> {<<>>} \cup {<<f>> : f \in Frame}]

LEMMA RoomFrameType ==
  ASSUME NEW m \in Member, NEW V \in SUBSET Conn,
         NEW t \in {"joined", "peer-joined", "peer-left", "sdp", "ice"}
  PROVE  RoomFrameOf(t, m, V) \in Frame
BY DEF RoomFrameOf, Frame, RoomFrame, Member

LEMMA SendToType ==
  ASSUME NEW f \in Frame, NEW S
  PROVE  SendTo(S, f) \in Instalment
BY DEF SendTo, Instalment

LEMMA SilenceType == Silence \in Instalment
BY DEF Silence, Instalment

\* The frames of one instalment to one connection.
LEMMA InstalmentSeq ==
  ASSUME NEW w \in Instalment, NEW d \in Conn
  PROVE  w[d] \in Seq(Frame) /\ Len(w[d]) \in 0..1
<1>1. w[d] = <<>> \/ \E f \in Frame : w[d] = <<f>>
  BY DEF Instalment
<1>2. CASE w[d] = <<>>
  BY <1>2, EmptySeq
<1>3. ASSUME NEW f \in Frame, w[d] = <<f>>
      PROVE  w[d] \in Seq(Frame) /\ Len(w[d]) \in 0..1
  BY <1>3
<1> QED BY <1>1, <1>2, <1>3

Wire == {w \in [Conn -> Seq(Frame)] : \A d \in Conn : Len(w[d]) <= 2}

LEMMA WireType ==
  ASSUME NEW w \in Instalment
  PROVE  w \in Wire
<1>1. w = [d \in Conn |-> w[d]]
  BY DEF Instalment
<1>2. w \in [Conn -> Seq(Frame)]
  BY <1>1, InstalmentSeq
<1>3. ASSUME NEW d \in Conn PROVE Len(w[d]) <= 2
  <2>1. Len(w[d]) \in 0..1
    BY InstalmentSeq
  <2> QED BY <2>1
<1> QED BY <1>2, <1>3 DEF Wire

LEMMA WirePairType ==
  ASSUME NEW v \in Instalment, NEW w \in Instalment
  PROVE  [d \in Conn |-> v[d] \o w[d]] \in Wire
<1>1. ASSUME NEW d \in Conn
      PROVE  v[d] \o w[d] \in Seq(Frame) /\ Len(v[d] \o w[d]) <= 2
  <2>1. v[d] \in Seq(Frame) /\ Len(v[d]) \in 0..1
    BY InstalmentSeq
  <2>2. w[d] \in Seq(Frame) /\ Len(w[d]) \in 0..1
    BY InstalmentSeq
  <2>3. /\ v[d] \o w[d] \in Seq(Frame)
        /\ Len(v[d] \o w[d]) = Len(v[d]) + Len(w[d])
    BY <2>1, <2>2, ConcatProperties
  <2>4. \A i, j \in 0..1 : i + j <= 2
    OBVIOUS
  <2>5. Len(v[d]) + Len(w[d]) <= 2
    BY <2>1, <2>2, <2>4
  <2> QED BY <2>3, <2>5
<1> QED BY <1>1 DEF Wire

\* Hearing a frame keeps a roster a set of connections.
LEMMA HearType ==
  ASSUME NEW K \in SUBSET Conn, NEW w \in Instalment, NEW d \in Conn
  PROVE  Hear(K, w[d]) \in SUBSET Conn
<1>1. CASE w[d] = <<>>
  BY <1>1 DEF Hear
<1>2. ASSUME NEW f \in Frame, w[d] = <<f>>
      PROVE  Hear(K, w[d]) \in SUBSET Conn
  <2>1. f.type \in {"joined", "peer-joined", "peer-left"} =>
          f.viewers \in SUBSET Conn /\ f.peer \in Conn
    BY DEF Frame, RoomFrame, ErrorFrame
  <2>2. w[d] # <<>> /\ w[d][1] = f
    BY <1>2
  <2> QED BY <2>1, <2>2 DEF Hear
<1> QED BY <1>1, <1>2 DEF Instalment

LEMMA LeaveType ==
  ASSUME TypeOK, NEW c \in Conn
  PROVE  /\ Without(c) \in [Room -> SUBSET Member]
         /\ LeaveFrames(c) \in Instalment
<1>1. Without(c) \in [Room -> SUBSET Member]
  BY DEF TypeOK, Without
<1>2. LeaveFrames(c) \in Instalment
  <2>1. CASE byId[c] = NoMember
    BY <2>1, SilenceType DEF LeaveFrames
  <2>2. CASE byId[c] # NoMember
    <3>1. RoomFrameOf("peer-left", byId[c], {}) \in Frame
      BY <2>2, RoomFrameType DEF TypeOK
    <3> QED BY <2>2, <3>1, SendToType DEF LeaveFrames
  <2> QED BY <2>1, <2>2
<1> QED BY <1>1, <1>2

LEMMA JoinType ==
  ASSUME NEW br \in [Room -> SUBSET Member], NEW m \in Member
  PROVE  JoinFrames(br, m) \in Instalment
<1> DEFINE V == IF m.role = "host" THEN viewersOf(br, m.roomId) ELSE {}
<1>1. V \in SUBSET Conn
  BY DEF viewersOf, Member
<1>2. RoomFrameOf("joined", m, V) \in Frame
  BY <1>1, RoomFrameType
<1>3. SendTo(Hearers(br, m), RoomFrameOf("peer-joined", m, {})) \in Instalment
  BY RoomFrameType, SendToType
<1> HIDE DEF V
<1>4. JoinFrames(br, m) = [SendTo(Hearers(br, m), RoomFrameOf("peer-joined", m, {}))
                             EXCEPT ![m.id] = <<RoomFrameOf("joined", m, V)>>]
  BY DEF JoinFrames, V
<1> QED BY <1>2, <1>3, <1>4 DEF Instalment

\* The two handlers that change the registry keep its types.
LEMMA leaveSignalingType ==
  ASSUME TypeOK, NEW c \in Conn, leaveSignaling(c)
  PROVE  /\ byId' \in [Conn -> Member \cup {NoMember}]
         /\ byRoom' \in [Room -> SUBSET Member]
         /\ wire' \in Wire
         /\ roster' \in [Conn -> SUBSET Conn]
<1>1. LeaveFrames(c) \in Instalment
  BY LeaveType
<1>2. wire' \in Wire
  BY <1>1, WireType DEF leaveSignaling
<1>3. \A d \in Conn : Hear(roster[d], LeaveFrames(c)[d]) \in SUBSET Conn
  BY <1>1, HearType DEF TypeOK
<1>4. roster' \in [Conn -> SUBSET Conn]
  BY <1>3 DEF leaveSignaling
<1>5. byRoom' \in [Room -> SUBSET Member] /\ byId' \in [Conn -> Member \cup {NoMember}]
  BY LeaveType DEF leaveSignaling, TypeOK
<1> QED BY <1>2, <1>4, <1>5

LEMMA enterRoomType ==
  ASSUME TypeOK, NEW c \in Conn, NEW r \in Room, NEW role \in Role, NEW u \in Account,
         enterRoom(c, r, role, u)
  PROVE  /\ byId' \in [Conn -> Member \cup {NoMember}]
         /\ byRoom' \in [Room -> SUBSET Member]
         /\ wire' \in Wire
         /\ roster' \in [Conn -> SUBSET Conn]
<1> DEFINE m == [id |-> c, userId |-> u, role |-> role, roomId |-> r]
           br == [Without(c) EXCEPT ![r] = @ \cup {m}]
           after == JoinFrames(br, m)
<1>1. m \in Member
  BY DEF Member
<1>2. br \in [Room -> SUBSET Member]
  BY <1>1, LeaveType
<1>3. after \in Instalment /\ LeaveFrames(c) \in Instalment
  BY <1>1, <1>2, JoinType, LeaveType
<1>4. /\ byId' = [byId EXCEPT ![c] = m]
      /\ byRoom' = br
      /\ wire' = [d \in Conn |-> LeaveFrames(c)[d] \o after[d]]
      /\ roster' = [d \in Conn |-> Hear(Hear(roster[d], LeaveFrames(c)[d]), after[d])]
  BY DEF enterRoom
<1> HIDE DEF m, br, after
<1>5. wire' \in Wire
  BY <1>3, <1>4, WirePairType
<1>6. \A d \in Conn : Hear(Hear(roster[d], LeaveFrames(c)[d]), after[d]) \in SUBSET Conn
  BY <1>3, HearType DEF TypeOK
<1>7. roster' \in [Conn -> SUBSET Conn]
  BY <1>4, <1>6
<1> QED BY <1>1, <1>2, <1>4, <1>5, <1>7 DEF TypeOK

LEMMA SilentType == ASSUME wire' = Silence PROVE wire' \in Wire
BY SilenceType, WireType

\* relay sends one frame of its sender to some connections.
LEMMA relayType ==
  ASSUME TypeOK, NEW c \in Conn, NEW type \in {"sdp", "ice"}, NEW target, relay(c, type, target)
  PROVE  wire' \in Wire
<1>1. byId[c] \in Member
  BY DEF relay, TypeOK
<1>2. RoomFrameOf(type, byId[c], {}) \in Frame
  BY <1>1, RoomFrameType
<1>3. \A S : SendTo(S, RoomFrameOf(type, byId[c], {})) \in Instalment
  BY <1>2, SendToType
<1> QED BY <1>3, WireType DEF relay

LEMMA failType ==
  ASSUME TypeOK, NEW c \in Conn, NEW code \in ErrorCode, fail(c, code)
  PROVE  wire' \in Wire /\ conn' \in [Conn -> ConnStatus]
<1>1. [type |-> "error", code |-> code] \in Frame
  BY DEF Frame, ErrorFrame
<1>2. SendTo({c}, [type |-> "error", code |-> code]) \in Instalment
  BY <1>1, SendToType
<1> QED BY <1>2, WireType DEF fail, TypeOK, ConnStatus

LEMMA TypeInit == Init => TypeOK
<1> SUFFICES ASSUME Init PROVE TypeOK
  OBVIOUS
<1>1. wire \in Wire
  BY SilenceType, WireType DEF Init
<1> QED BY <1>1 DEF Init, TypeOK, Wire, RoomStatus, ConnStatus, Account

LEMMA TypeStep == TypeOK /\ [Next]_vars => TypeOK'
<1> SUFFICES ASSUME TypeOK, [Next]_vars PROVE TypeOK'
  OBVIOUS
<1> USE DEF registry
<1>1. ASSUME NEW r \in Room, RoomExpires(r) \/ ReadRoom(r) PROVE TypeOK'
  <2>1. /\ wire' \in Wire /\ UNCHANGED <<conn, userOf, byId, byRoom, roster>>
    BY <1>1, SilentType DEF RoomExpires, ReadRoom
  <2>2. rooms' \in [Room -> [status : RoomStatus, hostId : Account]]
    <3> DEFINE Record == [status : RoomStatus, hostId : Account]
    <3>1. PICK s \in RoomStatus : rooms' = [rooms EXCEPT ![r].status = s]
      <4>1. CASE rooms' = [rooms EXCEPT ![r].status = "expired"]
        BY <4>1 DEF RoomStatus
      <4>2. CASE rooms' = [rooms EXCEPT ![r].status = "deleted"]
        BY <4>2 DEF RoomStatus
      <4> QED BY <1>1, <4>1, <4>2 DEF RoomExpires, ReadRoom, getRoom
    <3>2. rooms \in [Room -> Record] /\ [rooms[r] EXCEPT !.status = s] \in Record
      BY DEF TypeOK
    <3>3. rooms' = [rooms EXCEPT ![r] = [rooms[r] EXCEPT !.status = s]]
      BY <3>1
    <3> HIDE DEF Record
    <3>4. rooms' \in [Room -> Record]
      BY <3>2, <3>3
    <3> QED BY <3>4 DEF Record
  <2> QED BY <2>1, <2>2 DEF TypeOK, Wire
<1>2. ASSUME NEW r \in Room, NEW u \in User, createRoom(r, u) PROVE TypeOK'
  BY <1>2, SilentType DEF createRoom, TypeOK, Wire, RoomStatus, Account
<1>3. CASE sweepExpiredRooms
  BY <1>3, SilentType DEF sweepExpiredRooms, TypeOK, Wire, RoomStatus
<1>4. ASSUME NEW c \in Conn, NEW u \in Account, Connect(c, u) PROVE TypeOK'
  BY <1>4, SilentType DEF Connect, TypeOK, Wire, ConnStatus
<1>5. ASSUME NEW c \in Conn, BadJoin(c) PROVE TypeOK'
  <2>1. wire' \in Wire /\ conn' \in [Conn -> ConnStatus]
    BY <1>5, failType DEF BadJoin, ErrorCode
  <2> QED BY <1>5, <2>1 DEF BadJoin, fail, TypeOK, Wire
<1>6. ASSUME NEW c \in Conn, NEW r \in Room, NEW role \in Role, JoinRefused(c, r, role)
      PROVE  TypeOK'
  <2>1. wire' \in Wire /\ conn' \in [Conn -> ConnStatus] /\ UNCHANGED registry
    BY <1>6, failType DEF JoinRefused, fail
  <2> QED BY <1>6, <2>1 DEF JoinRefused, getRoom, TypeOK, Wire, RoomStatus
<1>7. ASSUME NEW c \in Conn, NEW r \in Room, NEW role \in Role, Join(c, r, role)
      PROVE  TypeOK'
  <2>1. userOf[c] \in Account
    BY DEF TypeOK
  <2>2. /\ byId' \in [Conn -> Member \cup {NoMember}]
        /\ byRoom' \in [Room -> SUBSET Member]
        /\ wire' \in Wire
        /\ roster' \in [Conn -> SUBSET Conn]
    BY <1>7, <2>1, enterRoomType DEF Join
  <2> QED BY <1>7, <2>2 DEF Join, getRoom, TypeOK, Wire, RoomStatus
<1>8. ASSUME NEW c \in Conn, NEW type \in {"sdp", "ice"}, NEW target \in Conn \cup {NoTarget},
             Signal(c, type, target)
      PROVE  TypeOK'
  <2>1. wire' \in Wire
    BY <1>8, relayType DEF Signal
  <2> QED BY <1>8, <2>1 DEF Signal, relay, TypeOK, Wire
<1>9. ASSUME NEW c \in Conn, Leave(c) \/ Close(c) PROVE TypeOK'
  <2>1. /\ byId' \in [Conn -> Member \cup {NoMember}]
        /\ byRoom' \in [Room -> SUBSET Member]
        /\ wire' \in Wire
        /\ roster' \in [Conn -> SUBSET Conn]
    BY <1>9, leaveSignalingType DEF Leave, Close
  <2> QED BY <1>9, <2>1 DEF Leave, Close, TypeOK, Wire, ConnStatus
<1>10. CASE UNCHANGED vars
  BY <1>10 DEF vars, TypeOK
<1> QED
  BY <1>1, <1>2, <1>3, <1>4, <1>5, <1>6, <1>7, <1>8, <1>9, <1>10
     DEF Next, StoreNext, BrowserNext

\* Every variable keeps the shape the code gives it, and no step of the server sends a connection
\* more than two frames.
THEOREM TypeCorrect == Spec => []TypeOK
BY TypeInit, TypeStep, PTL DEF Spec

-------------------------------------------------------------------------------
(* The registry.  The facts are stated of any pair of maps and any rosters, so *)
(* that they can be used between the two updates of enterRoom.                 *)

\* The two maps hold the same members, each under its own id.
MapsAgree(bi, br) ==
  /\ bi \in [Conn -> Member \cup {NoMember}]
  /\ br \in [Room -> SUBSET Member]
  /\ \A r \in Room : \A m \in Member : m \in br[r] <=> bi[m.id] = m /\ m.roomId = r
  /\ \A c \in Conn : bi[c] # NoMember => bi[c].id = c

\* Who is where, read off byId.
Hosts(bi, c, r) == bi[c] # NoMember /\ bi[c].roomId = r /\ bi[c].role = "host"
Views(bi, c, r) == bi[c] # NoMember /\ bi[c].roomId = r /\ bi[c].role = "viewer"

LEMMA People ==
  ASSUME NEW bi, NEW br, MapsAgree(bi, br), NEW r \in Room, NEW d \in Conn
  PROVE  /\ d \in membersOf(br, r) <=> bi[d] # NoMember /\ bi[d].roomId = r
         /\ d \in hostOf(br, r) <=> Hosts(bi, d, r)
         /\ d \in viewersOf(br, r) <=> Views(bi, d, r)
<1>1. \A m \in br[r] : m \in Member /\ bi[m.id] = m /\ m.roomId = r /\ m # NoMember
  BY SignalingAssumption DEF MapsAgree
<1>2. bi[d] # NoMember /\ bi[d].roomId = r => bi[d] \in br[r] /\ bi[d].id = d
  BY DEF MapsAgree
<1> QED BY <1>1, <1>2 DEF membersOf, hostOf, viewersOf, Hosts, Views

LEMMA PeopleAreConnections ==
  ASSUME NEW br \in [Room -> SUBSET Member], NEW r \in Room
  PROVE  membersOf(br, r) \subseteq Conn /\ hostOf(br, r) \subseteq Conn
         /\ viewersOf(br, r) \subseteq Conn
BY DEF membersOf, hostOf, viewersOf, Member

\* What a registry must keep: one host in a room, and rosters that are up to date.
RegistryOK(bi, br, ro) ==
  /\ MapsAgree(bi, br)
  /\ ro \in [Conn -> SUBSET Conn]
  /\ \A r \in Room : \A c, d \in Conn : Hosts(bi, c, r) /\ Hosts(bi, d, r) => c = d
  /\ \A r \in Room : \A c, d \in Conn : Hosts(bi, c, r) => (d \in ro[c] <=> Views(bi, d, r))
  /\ \A r \in Room : \A c, d \in Conn : Views(bi, c, r) /\ d \in ro[c] => Hosts(bi, d, r)

LEMMA RegistryTyping ==
  ASSUME NEW bi, NEW br, NEW ro, RegistryOK(bi, br, ro), NEW c \in Conn, bi[c] # NoMember
  PROVE  /\ bi[c] \in Member /\ bi[c].roomId \in Room
         /\ Hosts(bi, c, bi[c].roomId) \/ Views(bi, c, bi[c].roomId)
         /\ bi[c].role \in Role
BY DEF RegistryOK, MapsAgree, Member, Role, Hosts, Views

\* What d, who knew of K, knows after the frames that announce m.
Informed(K, br, m, d) ==
  IF d = m.id THEN (IF m.role = "host" THEN viewersOf(br, m.roomId) ELSE {})
  ELSE IF d \in Hearers(br, m) THEN K \cup {m.id} ELSE K

LEMMA HearJoin ==
  ASSUME NEW K, NEW br \in [Room -> SUBSET Member], NEW m \in Member, NEW d \in Conn
  PROVE  Hear(K, JoinFrames(br, m)[d]) = Informed(K, br, m, d)
<1> DEFINE V == IF m.role = "host" THEN viewersOf(br, m.roomId) ELSE {}
           joined == RoomFrameOf("joined", m, V)
           told == RoomFrameOf("peer-joined", m, {})
           H == Hearers(br, m)
<1>1. /\ joined.type = "joined" /\ joined.viewers = V
      /\ told.type = "peer-joined" /\ told.peer = m.id
  BY DEF RoomFrameOf
<1>2. JoinFrames(br, m) = [SendTo(H, told) EXCEPT ![m.id] = <<joined>>]
  BY DEF JoinFrames
<1> HIDE DEF V, H, joined, told
<1>3. JoinFrames(br, m)[d] =
        IF d = m.id THEN <<joined>> ELSE IF d \in H THEN <<told>> ELSE <<>>
  BY <1>2 DEF SendTo
<1>4. Hear(K, <<joined>>) = V /\ Hear(K, <<told>>) = K \cup {m.id} /\ Hear(K, <<>>) = K
  BY <1>1 DEF Hear
<1>5. Hear(K, JoinFrames(br, m)[d]) =
        IF d = m.id THEN V ELSE IF d \in H THEN K \cup {m.id} ELSE K
  BY <1>3, <1>4
<1> QED BY <1>5 DEF V, H, Informed

\* What everybody knows after the frames that announce that c left.
LEMMA HearLeave ==
  ASSUME NEW K, NEW c \in Conn, NEW d \in Conn, byId[c] # NoMember, byId[c].id = c
  PROVE  Hear(K, LeaveFrames(c)[d]) =
           IF d \in Hearers(Without(c), byId[c]) THEN K \ {c} ELSE K
<1> DEFINE left == RoomFrameOf("peer-left", byId[c], {})
           H == Hearers(Without(c), byId[c])
<1>1. left.type = "peer-left" /\ left.peer = c
  BY DEF RoomFrameOf
<1>2. LeaveFrames(c) = SendTo(H, left)
  BY DEF LeaveFrames
<1> HIDE DEF left, H
<1>3. LeaveFrames(c)[d] = IF d \in H THEN <<left>> ELSE <<>>
  BY <1>2 DEF SendTo
<1>4. Hear(K, <<left>>) = K \ {c} /\ Hear(K, <<>>) = K
  BY <1>1 DEF Hear
<1>5. Hear(K, LeaveFrames(c)[d]) = IF d \in H THEN K \ {c} ELSE K
  BY <1>3, <1>4
<1> QED BY <1>5 DEF H

-------------------------------------------------------------------------------
(* The two updates of the registry.                                            *)

\* Taking c out of both maps.
LEMMA MapsLeave ==
  ASSUME NEW c \in Conn, MapsAgree(byId, byRoom)
  PROVE  MapsAgree([byId EXCEPT ![c] = NoMember], Without(c))
<1> DEFINE bi == [byId EXCEPT ![c] = NoMember]
<1>1. /\ bi \in [Conn -> Member \cup {NoMember}]
      /\ \A d \in Conn : bi[d] = IF d = c THEN NoMember ELSE byId[d]
  BY DEF MapsAgree
<1>2. /\ Without(c) \in [Room -> SUBSET Member]
      /\ \A r \in Room : \A m \in Member :
           m \in Without(c)[r] <=> m \in byRoom[r] /\ m.id # c
  <2>1. CASE byId[c] = NoMember
    <3>1. \A r \in Room : \A m \in byRoom[r] : m.id # c
      BY <2>1, SignalingAssumption DEF MapsAgree
    <3> QED BY <2>1, <3>1 DEF Without, MapsAgree
  <2>2. CASE byId[c] # NoMember
    <3>1. byId[c].roomId \in Room
      BY <2>2 DEF MapsAgree, Member
    <3>2. \A r \in Room : \A m \in byRoom[r] : m.id = c => r = byId[c].roomId
      BY DEF MapsAgree
    <3> QED BY <2>2, <3>1, <3>2 DEF Without, MapsAgree
  <2> QED BY <2>1, <2>2
<1>3. \A m \in Member : m.id \in Conn /\ m # NoMember
  BY SignalingAssumption DEF Member
<1> HIDE DEF bi
<1> QED BY <1>1, <1>2, <1>3 DEF MapsAgree, bi

\* Putting m into both maps.
LEMMA MapsEnter ==
  ASSUME NEW bi, NEW br, MapsAgree(bi, br), NEW m \in Member, bi[m.id] = NoMember
  PROVE  MapsAgree([bi EXCEPT ![m.id] = m], [br EXCEPT ![m.roomId] = @ \cup {m}])
<1> DEFINE bj == [bi EXCEPT ![m.id] = m]
           bs == [br EXCEPT ![m.roomId] = @ \cup {m}]
<1>1. /\ bj \in [Conn -> Member \cup {NoMember}]
      /\ \A d \in Conn : bj[d] = IF d = m.id THEN m ELSE bi[d]
  BY DEF MapsAgree
<1>2. /\ bs \in [Room -> SUBSET Member]
      /\ \A r \in Room : bs[r] = IF r = m.roomId THEN br[r] \cup {m} ELSE br[r]
  BY DEF MapsAgree
<1>3. \A n \in Member : n.id \in Conn /\ n.roomId \in Room /\ n # NoMember
  BY SignalingAssumption DEF Member
<1> HIDE DEF bj, bs
<1>4. \A r \in Room : \A n \in Member : n \in bs[r] <=> bj[n.id] = n /\ n.roomId = r
  BY <1>1, <1>2, <1>3 DEF MapsAgree
<1>5. \A d \in Conn : bj[d] # NoMember => bj[d].id = d
  BY <1>1 DEF MapsAgree
<1>6. MapsAgree(bj, bs)
  BY <1>1, <1>2, <1>4, <1>5 DEF MapsAgree
<1> QED BY <1>6 DEF bj, bs

\* leaveSignaling keeps the registry in order: whoever knew of c and stays is told.
LEMMA RegistryLeave ==
  ASSUME NEW c \in Conn, RegistryOK(byId, byRoom, roster)
  PROVE  RegistryOK([byId EXCEPT ![c] = NoMember], Without(c),
           [d \in Conn |-> IF d = c THEN {} ELSE Hear(roster[d], LeaveFrames(c)[d])])
<1> DEFINE bi == [byId EXCEPT ![c] = NoMember]
           br == Without(c)
           ro == [d \in Conn |-> IF d = c THEN {} ELSE Hear(roster[d], LeaveFrames(c)[d])]
<1>1. MapsAgree(byId, byRoom) /\ MapsAgree(bi, br)
  BY MapsLeave DEF RegistryOK
<1>2. \A d \in Conn : bi[d] = IF d = c THEN NoMember ELSE byId[d]
  BY DEF RegistryOK, MapsAgree
<1>3. \A d \in Conn : \A r \in Room :
        /\ Hosts(bi, d, r) <=> d # c /\ Hosts(byId, d, r)
        /\ Views(bi, d, r) <=> d # c /\ Views(byId, d, r)
  BY <1>2 DEF Hosts, Views
<1>4. CASE byId[c] = NoMember
  <2>1. \A d \in Conn : ro[d] = IF d = c THEN {} ELSE roster[d]
    BY <1>4 DEF LeaveFrames, Silence, Hear
  <2>2. ro \in [Conn -> SUBSET Conn]
    <3>1. \A d \in Conn : ro[d] \in SUBSET Conn
      BY <2>1 DEF RegistryOK
    <3> QED BY <3>1
  <2>3. \A r \in Room : ~Hosts(byId, c, r) /\ ~Views(byId, c, r)
    BY <1>4 DEF Hosts, Views
  <2> HIDE DEF bi, br, ro
  <2>4. RegistryOK(bi, br, ro)
    BY <1>1, <1>3, <2>1, <2>2, <2>3 DEF RegistryOK
  <2> QED BY <2>4 DEF bi, br, ro
<1>5. CASE byId[c] # NoMember
  <2> DEFINE q == byId[c].roomId
             H == Hearers(br, byId[c])
  <2>1. q \in Room /\ byId[c].id = c /\ (Hosts(byId, c, q) \/ Views(byId, c, q))
    BY <1>1, <1>5, RegistryTyping DEF MapsAgree
  <2>2. \A d \in Conn : ro[d] = IF d = c THEN {} ELSE IF d \in H THEN roster[d] \ {c} ELSE roster[d]
    BY <1>5, <2>1, HearLeave
  <2>3. ro \in [Conn -> SUBSET Conn]
    <3>1. ro = [d \in Conn |-> ro[d]]
      OBVIOUS
    <3> HIDE DEF ro, H
    <3>2. ASSUME NEW d \in Conn PROVE ro[d] \in SUBSET Conn
      <4>1. roster[d] \in SUBSET Conn
        BY DEF RegistryOK
      <4> QED BY <2>2, <4>1
    <3> QED BY <3>1, <3>2
  <2>4. \A d \in Conn : d # c /\ Hosts(byId, d, q) => d \in H
    <3> SUFFICES ASSUME NEW d \in Conn, d # c, Hosts(byId, d, q) PROVE d \in H
      OBVIOUS
    <3>1. Views(byId, c, q)
      BY <2>1 DEF RegistryOK
    <3>2. H = hostOf(br, q)
      BY <3>1 DEF Hearers, Views
    <3>3. Hosts(bi, d, q)
      BY <1>3, <2>1
    <3> HIDE DEF bi, br, H, q
    <3> QED BY <1>1, <2>1, <3>2, <3>3, People
  <2>5. \A d \in Conn : Hosts(byId, c, q) /\ Views(byId, d, q) => d \in H
    <3> SUFFICES ASSUME NEW d \in Conn, Hosts(byId, c, q), Views(byId, d, q) PROVE d \in H
      OBVIOUS
    <3>1. H = membersOf(br, q) \ {c}
      BY <2>1 DEF Hearers, Hosts
    <3>2. d # c
      BY DEF Hosts, Views
    <3>3. Views(bi, d, q)
      BY <1>3, <2>1, <3>2
    <3> HIDE DEF bi, br, H, q
    <3> QED BY <1>1, <2>1, <3>1, <3>2, <3>3, People DEF Views
  <2>6. \A r \in Room : Hosts(byId, c, r) \/ Views(byId, c, r) => r = q
    BY DEF Hosts, Views
  <2> HIDE DEF bi, br, ro, H, q
  <2>7. ASSUME NEW r \in Room, NEW e \in Conn, NEW d \in Conn, Hosts(bi, e, r)
        PROVE  d \in ro[e] <=> Views(bi, d, r)
    <3>1. e # c /\ Hosts(byId, e, r) /\ (d \in roster[e] <=> Views(byId, d, r))
      BY <1>3, <2>7 DEF RegistryOK
    <3>2. d # c => (d \in ro[e] <=> d \in roster[e])
      BY <2>2, <3>1
    <3>3. d = c => d \notin ro[e]
      BY <2>2, <2>4, <2>6, <3>1
    <3> QED BY <1>3, <3>1, <3>2, <3>3
  <2>8. ASSUME NEW r \in Room, NEW e \in Conn, NEW d \in Conn, Views(bi, e, r), d \in ro[e]
        PROVE  Hosts(bi, d, r)
    <3>1. e # c /\ Views(byId, e, r)
      BY <1>3, <2>8
    <3>2. d \in roster[e]
      BY <2>2, <2>8, <3>1
    <3>3. Hosts(byId, d, r)
      BY <3>1, <3>2 DEF RegistryOK
    <3>4. d # c
      BY <2>2, <2>5, <2>6, <2>8, <3>1, <3>3
    <3> QED BY <1>3, <3>3, <3>4
  <2>9. \A r \in Room : \A e, d \in Conn : Hosts(bi, e, r) /\ Hosts(bi, d, r) => e = d
    BY <1>3 DEF RegistryOK
  <2>10. RegistryOK(bi, br, ro)
    BY <1>1, <2>3, <2>7, <2>8, <2>9 DEF RegistryOK
  <2> QED BY <2>10 DEF bi, br, ro
<1> QED BY <1>4, <1>5

\* The second half of enterRoom: m enters both maps, and everybody hears of it.
Entered(br, m) == [br EXCEPT ![m.roomId] = @ \cup {m}]
Placed(bi, m) == [bi EXCEPT ![m.id] = m]
Heard(ro, br, m) == [d \in Conn |-> Hear(ro[d], JoinFrames(br, m)[d])]

\* It keeps the registry in order when the seat is free.
LEMMA RegistryEnter ==
  ASSUME NEW bi, NEW br, NEW ro, RegistryOK(bi, br, ro), NEW m \in Member,
         bi[m.id] = NoMember,
         m.role = "host" => \A d \in Conn : ~Hosts(bi, d, m.roomId)
  PROVE  RegistryOK(Placed(bi, m), Entered(br, m), Heard(ro, Entered(br, m), m))
<1> DEFINE bj == [bi EXCEPT ![m.id] = m]
           bs == [br EXCEPT ![m.roomId] = @ \cup {m}]
           rs == [d \in Conn |-> Hear(ro[d], JoinFrames(bs, m)[d])]
           c == m.id
           q == m.roomId
           H == Hearers(bs, m)
<1>1. MapsAgree(bi, br) /\ MapsAgree(bj, bs)
  BY MapsEnter DEF RegistryOK
<1>2. \A d \in Conn : bj[d] = IF d = c THEN m ELSE bi[d]
  BY DEF RegistryOK, MapsAgree
<1>3. c \in Conn /\ q \in Room /\ m # NoMember /\ m.role \in {"host", "viewer"}
  BY SignalingAssumption DEF Member, Role
<1>4. \A d \in Conn : \A r \in Room :
        /\ Hosts(bj, d, r) <=> IF d = c THEN r = q /\ m.role = "host" ELSE Hosts(bi, d, r)
        /\ Views(bj, d, r) <=> IF d = c THEN r = q /\ m.role = "viewer" ELSE Views(bi, d, r)
  BY <1>2, <1>3 DEF Hosts, Views
<1>5. rs = [d \in Conn |-> rs[d]]
  OBVIOUS
<1>6. ASSUME NEW d \in Conn
      PROVE  rs[d] = IF d = c THEN (IF m.role = "host" THEN viewersOf(bs, q) ELSE {})
                     ELSE IF d \in H THEN ro[d] \cup {c} ELSE ro[d]
  <2>1. bs \in [Room -> SUBSET Member]
    BY <1>1 DEF MapsAgree
  <2>2. rs[d] = Hear(ro[d], JoinFrames(bs, m)[d])
    OBVIOUS
  <2> HIDE DEF bs, rs
  <2>3. Hear(ro[d], JoinFrames(bs, m)[d]) = Informed(ro[d], bs, m, d)
    BY <2>1, HearJoin
  <2> QED BY <2>2, <2>3 DEF Informed
<1>7. H = IF m.role = "host" THEN membersOf(bs, q) \ {c} ELSE hostOf(bs, q)
  BY DEF Hearers
<1>8. m.role = "host" => \A d \in Conn : ~Hosts(bi, d, q)
  OBVIOUS
<1>9. bi[c] = NoMember
  OBVIOUS
<1> HIDE DEF bj, bs, rs, c, q, H
<1>10. \A d \in Conn :
         /\ d \in viewersOf(bs, q) <=> Views(bj, d, q)
         /\ d \in hostOf(bs, q) <=> Hosts(bj, d, q)
         /\ d \in membersOf(bs, q) <=> Hosts(bj, d, q) \/ Views(bj, d, q)
  <2>1. \A d \in Conn : bj[d] # NoMember /\ bj[d].roomId = q <=> Hosts(bj, d, q) \/ Views(bj, d, q)
    <3>1. \A d \in Conn : bj[d] # NoMember => bj[d].role \in {"host", "viewer"}
      BY <1>1 DEF MapsAgree, Member, Role
    <3> QED BY <3>1 DEF Hosts, Views
  <2>2. ASSUME NEW d \in Conn
        PROVE  /\ d \in viewersOf(bs, q) <=> Views(bj, d, q)
               /\ d \in hostOf(bs, q) <=> Hosts(bj, d, q)
               /\ d \in membersOf(bs, q) <=> Hosts(bj, d, q) \/ Views(bj, d, q)
    <3>1. MapsAgree(bj, bs) /\ q \in Room
      BY <1>1, <1>3
    <3>2. /\ d \in membersOf(bs, q) <=> bj[d] # NoMember /\ bj[d].roomId = q
          /\ d \in hostOf(bs, q) <=> Hosts(bj, d, q)
          /\ d \in viewersOf(bs, q) <=> Views(bj, d, q)
      BY <3>1, People, Zenon
    <3> QED BY <2>1, <3>2
  <2> QED BY <2>2
<1>11. rs \in [Conn -> SUBSET Conn]
  <2>1. viewersOf(bs, q) \in SUBSET Conn
    BY <1>1, <1>3, PeopleAreConnections DEF MapsAgree
  <2>2. ASSUME NEW d \in Conn PROVE rs[d] \in SUBSET Conn
    <3>1. ro[d] \in SUBSET Conn /\ {c} \in SUBSET Conn
      BY <1>3 DEF RegistryOK
    <3> QED BY <1>6, <2>1, <3>1
  <2> QED BY <1>5, <2>2
\* Nobody is in two rooms, or in one room twice; c was in none.
<1>12. \A r \in Room : \A d \in Conn :
         /\ ~Hosts(bi, c, r) /\ ~Views(bi, c, r)
         /\ Views(bi, d, r) => ~Hosts(bi, d, r)
         /\ (Hosts(bi, d, r) \/ Views(bi, d, r)) /\ (Hosts(bi, d, q) \/ Views(bi, d, q)) => r = q
  BY <1>9 DEF Hosts, Views
<1>13. \A r \in Room : \A e, d \in Conn : Hosts(bj, e, r) /\ Hosts(bj, d, r) => e = d
  BY <1>4, <1>8 DEF RegistryOK
<1>14. \A d \in Conn : d # c =>
         (d \in H <=> IF m.role = "host" THEN Hosts(bi, d, q) \/ Views(bi, d, q) ELSE Hosts(bi, d, q))
  BY <1>3, <1>4, <1>7, <1>10
<1>15. ASSUME NEW r \in Room, NEW e \in Conn, NEW d \in Conn, Hosts(bj, e, r)
       PROVE  d \in rs[e] <=> Views(bj, d, r)
  <2>1. CASE e = c
    <3>1. m.role = "host" /\ r = q
      BY <1>4, <1>15, <2>1
    <3>2. rs[e] = viewersOf(bs, q)
      BY <1>6, <2>1, <3>1
    <3> QED BY <1>10, <3>1, <3>2
  <2>2. CASE e # c
    <3>1. Hosts(bi, e, r) /\ (d \in ro[e] <=> Views(bi, d, r))
      BY <1>4, <1>15, <2>2 DEF RegistryOK
    <3>2. rs[e] = IF e \in H THEN ro[e] \cup {c} ELSE ro[e]
      BY <1>6, <2>2
    <3>3. e \in H <=> m.role = "viewer" /\ r = q
      BY <1>3, <1>8, <1>12, <1>14, <2>2, <3>1
    <3>4. Views(bj, c, r) <=> m.role = "viewer" /\ r = q
      BY <1>3, <1>4
    <3>5. CASE d = c
      <4>1. d \notin ro[e]
        BY <1>12, <3>1, <3>5
      <4> QED BY <3>2, <3>3, <3>4, <3>5, <4>1
    <3>6. CASE d # c
      <4>1. Views(bj, d, r) <=> Views(bi, d, r)
        BY <1>4, <3>6
      <4> QED BY <3>1, <3>2, <3>6, <4>1
    <3> QED BY <3>5, <3>6
  <2> QED BY <2>1, <2>2
<1>16. ASSUME NEW r \in Room, NEW e \in Conn, NEW d \in Conn, Views(bj, e, r), d \in rs[e]
       PROVE  Hosts(bj, d, r)
  <2>1. CASE e = c
    <3>1. m.role = "viewer"
      BY <1>4, <1>16, <2>1
    <3>2. rs[e] = {}
      BY <1>6, <2>1, <3>1
    <3> QED BY <1>16, <3>2
  <2>2. CASE e # c
    <3>1. Views(bi, e, r) /\ (d \in ro[e] => Hosts(bi, d, r))
      BY <1>4, <1>16, <2>2 DEF RegistryOK
    <3>2. rs[e] = IF e \in H THEN ro[e] \cup {c} ELSE ro[e]
      BY <1>6, <2>2
    <3>3. e \in H => m.role = "host" /\ r = q
      BY <1>3, <1>12, <1>14, <2>2, <3>1
    <3>4. CASE d = c
      <4>1. d \notin ro[e]
        BY <1>12, <3>1, <3>4
      <4> QED BY <1>4, <1>16, <3>2, <3>3, <3>4, <4>1
    <3>5. CASE d # c
      <4>1. Hosts(bi, d, r)
        BY <1>16, <3>1, <3>2, <3>5
      <4> QED BY <1>4, <3>5, <4>1
    <3> QED BY <3>4, <3>5
  <2> QED BY <2>1, <2>2
<1>17. RegistryOK(bj, bs, rs)
  BY <1>1, <1>11, <1>13, <1>15, <1>16 DEF RegistryOK
<1> QED BY <1>17 DEF bj, bs, rs, Placed, Entered, Heard

-------------------------------------------------------------------------------
(* The steps of the server, as the registry sees them.                         *)

RegistryStep ==
  \/ UNCHANGED registry
  \/ \E c \in Conn : leaveSignaling(c)
  \/ \E c \in Conn, r \in Room, role \in Role, u \in Account :
       Admissible(r, role, u) /\ enterRoom(c, r, role, u)

\* Once a room has an owner it keeps that owner, and the owner is an account.
RoomStep ==
  \A r \in Room :
    \/ rooms'[r] = rooms[r]
    \/ rooms'[r].status # "unused" /\ rooms'[r].hostId = rooms[r].hostId /\ rooms[r].status # "unused"
    \/ rooms'[r].status # "unused" /\ rooms'[r].hostId \in User /\ rooms[r].status = "unused"

\* A connection that has a place stays up, unless this step takes the place away; only an open
\* connection is given one.
ConnStep ==
  \A c \in Conn :
    byId'[c] # NoMember =>
      \/ conn'[c] \in {"open", "closing"}
      \/ conn[c] \notin {"open", "closing"} /\ byId'[c] = byId[c]

LEMMA NextCases ==
  ASSUME TypeOK, [Next]_vars
  PROVE  RegistryStep /\ RoomStep /\ ConnStep
<1> USE DEF registry
<1>1. \A r \in Room : getRoom(r) => RoomStep
  BY DEF getRoom, TypeOK, RoomStatus, RoomStep
<1>2. UNCHANGED rooms => RoomStep
  BY DEF RoomStep
<1>3. UNCHANGED <<conn, byId>> => ConnStep
  BY DEF ConnStep
<1>4. ASSUME NEW r \in Room, RoomExpires(r) \/ ReadRoom(r)
      PROVE  RegistryStep /\ RoomStep /\ ConnStep
  <2>1. RoomStep
    BY <1>1, <1>4 DEF RoomExpires, ReadRoom, TypeOK, RoomStatus, RoomStep
  <2> QED BY <1>3, <1>4, <2>1 DEF RoomExpires, ReadRoom, RegistryStep
<1>5. ASSUME NEW r \in Room, NEW u \in User, createRoom(r, u)
      PROVE  RegistryStep /\ RoomStep /\ ConnStep
  <2>1. RoomStep
    BY <1>5 DEF createRoom, TypeOK, RoomStep
  <2> QED BY <1>3, <1>5, <2>1 DEF createRoom, RegistryStep
<1>6. CASE sweepExpiredRooms
  <2>1. RoomStep
    BY <1>6 DEF sweepExpiredRooms, TypeOK, RoomStep
  <2> QED BY <1>3, <1>6, <2>1 DEF sweepExpiredRooms, RegistryStep
<1>7. ASSUME NEW c \in Conn, NEW u \in Account, Connect(c, u)
      PROVE  RegistryStep /\ RoomStep /\ ConnStep
  <2>1. ConnStep
    BY <1>7 DEF Connect, TypeOK, ConnStep
  <2> QED BY <1>2, <1>7, <2>1 DEF Connect, RegistryStep
<1>8. ASSUME NEW c \in Conn, NEW code \in ErrorCode, Open(c), fail(c, code)
      PROVE  RegistryStep /\ ConnStep
  BY <1>8 DEF fail, Open, TypeOK, ConnStep, RegistryStep
<1>9. ASSUME NEW c \in Conn, BadJoin(c)
      PROVE  RegistryStep /\ RoomStep /\ ConnStep
  BY <1>2, <1>8, <1>9 DEF BadJoin, ErrorCode
<1>10. ASSUME NEW c \in Conn, NEW r \in Room, NEW role \in Role, JoinRefused(c, r, role)
       PROVE  RegistryStep /\ RoomStep /\ ConnStep
  BY <1>1, <1>8, <1>10 DEF JoinRefused
<1>11. ASSUME NEW c \in Conn, NEW r \in Room, NEW role \in Role, Join(c, r, role)
       PROVE  RegistryStep /\ RoomStep /\ ConnStep
  <2>1. RegistryStep
    <3>1. userOf[c] \in Account
      BY DEF TypeOK
    <3> QED BY <1>11, <3>1 DEF Join, RegistryStep
  <2>2. ConnStep
    <3>1. \A d \in Conn : d # c => byId'[d] = byId[d]
      BY <1>11 DEF Join, enterRoom, TypeOK
    <3>2. conn' = conn /\ conn[c] = "open"
      BY <1>11 DEF Join, Open
    <3> QED BY <3>1, <3>2 DEF ConnStep
  <2> QED BY <1>1, <1>11, <2>1, <2>2 DEF Join
<1>12. ASSUME NEW c \in Conn, NEW type \in {"sdp", "ice"}, NEW target \in Conn \cup {NoTarget},
              Signal(c, type, target)
       PROVE  RegistryStep /\ RoomStep /\ ConnStep
  BY <1>2, <1>3, <1>12 DEF Signal, relay, RegistryStep
<1>13. ASSUME NEW c \in Conn, Leave(c) \/ Close(c)
       PROVE  RegistryStep /\ RoomStep /\ ConnStep
  <2>1. leaveSignaling(c) /\ UNCHANGED rooms
    BY <1>13 DEF Leave, Close
  <2>2. \A d \in Conn : /\ byId'[d] = IF d = c THEN NoMember ELSE byId[d]
                        /\ d # c => conn'[d] = conn[d]
    BY <1>13 DEF Leave, Close, leaveSignaling, TypeOK
  <2>3. ConnStep
    BY <2>2 DEF ConnStep
  <2> QED BY <1>2, <2>1, <2>3 DEF RegistryStep
<1>14. CASE UNCHANGED vars
  BY <1>2, <1>3, <1>14 DEF vars, RegistryStep
<1> QED
  BY <1>4, <1>5, <1>6, <1>7, <1>9, <1>10, <1>11, <1>12, <1>13, <1>14
     DEF Next, StoreNext, BrowserNext

-------------------------------------------------------------------------------
(* The inductive invariant.  Each conjunct needs the others: the rosters stay  *)
(* exact because a room has one host, which holds because the maps agree; the  *)
(* host stays the owner because a room with members is never created again.    *)

Placement == TypeOK /\ RegistryOK(byId, byRoom, roster)

IInv ==
  /\ Placement
  /\ NoDeadMembers
  /\ \A r \in Room : rooms[r].status # "unused" => rooms[r].hostId \in User
  /\ \A c \in Conn : byId[c] # NoMember =>
       /\ rooms[byId[c].roomId].status # "unused"
       /\ byId[c].role = "host" => rooms[byId[c].roomId].hostId = byId[c].userId

LEMMA RegistryOKInit == Init => RegistryOK(byId, byRoom, roster)
<1> SUFFICES ASSUME Init PROVE RegistryOK(byId, byRoom, roster)
  OBVIOUS
<1>1. \A m \in Member : m.id \in Conn /\ m # NoMember
  BY SignalingAssumption DEF Member
<1>2. MapsAgree(byId, byRoom)
  BY <1>1 DEF Init, MapsAgree
<1>3. \A c \in Conn, r \in Room : ~Hosts(byId, c, r) /\ ~Views(byId, c, r)
  BY DEF Init, Hosts, Views
<1>4. roster \in [Conn -> SUBSET Conn]
  BY DEF Init
<1> QED BY <1>2, <1>3, <1>4 DEF RegistryOK

\* enterRoom is leaveSignaling followed by the insertion of the new member.
LEMMA RegistryOKStep ==
  ASSUME TypeOK, RegistryOK(byId, byRoom, roster), RegistryStep
  PROVE  RegistryOK(byId', byRoom', roster')
<1>1. CASE UNCHANGED registry
  BY <1>1 DEF registry
<1>2. ASSUME NEW c \in Conn, leaveSignaling(c)
      PROVE  RegistryOK(byId', byRoom', roster')
  BY <1>2, RegistryLeave DEF leaveSignaling
<1>3. ASSUME NEW c \in Conn, NEW r \in Room, NEW role \in Role, NEW u \in Account,
             Admissible(r, role, u), enterRoom(c, r, role, u)
      PROVE  RegistryOK(byId', byRoom', roster')
  <2> DEFINE m == [id |-> c, userId |-> u, role |-> role, roomId |-> r]
             bi == [byId EXCEPT ![c] = NoMember]
             br == Without(c)
             ro == [d \in Conn |-> IF d = c THEN {} ELSE Hear(roster[d], LeaveFrames(c)[d])]
             bs == [br EXCEPT ![m.roomId] = @ \cup {m}]
  <2>1. RegistryOK(bi, br, ro)
    BY RegistryLeave
  <2>2. m \in Member /\ m.id = c /\ m.roomId = r /\ m.role = role
    BY DEF Member
  <2>3. bi[c] = NoMember /\ [bi EXCEPT ![c] = m] = [byId EXCEPT ![c] = m]
    BY DEF TypeOK
  <2>4. role = "host" => \A d \in Conn : ~Hosts(bi, d, r)
    <3>1. role = "host" => hostOf(byRoom, r) = {}
      BY <1>3 DEF Admissible
    <3>2. \A d \in Conn : d \in hostOf(byRoom, r) <=> Hosts(byId, d, r)
      BY People DEF RegistryOK
    <3>3. \A d \in Conn : Hosts(bi, d, r) => Hosts(byId, d, r)
      BY DEF TypeOK, Hosts
    <3> HIDE DEF bi
    <3> QED BY <3>1, <3>2, <3>3
  <2>5. /\ byId' = [byId EXCEPT ![c] = m]
        /\ byRoom' = bs
        /\ roster' = [d \in Conn |-> Hear(Hear(roster[d], LeaveFrames(c)[d]), JoinFrames(bs, m)[d])]
    BY <1>3 DEF enterRoom
  <2>6. roster' = [d \in Conn |-> Hear(ro[d], JoinFrames(bs, m)[d])]
    <3>1. \A d \in Conn : d # c => ro[d] = Hear(roster[d], LeaveFrames(c)[d])
      OBVIOUS
    <3>2. br \in [Room -> SUBSET Member]
      BY LeaveType
    <3>3. bs \in [Room -> SUBSET Member]
      BY <2>2, <3>2
    <3> HIDE DEF m, bs, ro, br
    <3>4. \A K, L : Hear(K, JoinFrames(bs, m)[c]) = Hear(L, JoinFrames(bs, m)[c])
      <4> TAKE K, L
      <4>1. \A J : Hear(J, JoinFrames(bs, m)[c]) = Informed(J, bs, m, c)
        BY <2>2, <3>3, HearJoin
      <4>2. Informed(K, bs, m, c) = Informed(L, bs, m, c)
        BY <2>2 DEF Informed
      <4> QED BY <4>1, <4>2
    <3>5. \A d \in Conn : Hear(Hear(roster[d], LeaveFrames(c)[d]), JoinFrames(bs, m)[d])
                            = Hear(ro[d], JoinFrames(bs, m)[d])
      BY <3>1, <3>4
    <3> QED BY <2>5, <3>5
  <2> HIDE DEF m, bi, br, ro
  <2>7. RegistryOK([bi EXCEPT ![c] = m], bs, [d \in Conn |-> Hear(ro[d], JoinFrames(bs, m)[d])])
    <3>1. m.role = "host" => \A d \in Conn : ~Hosts(bi, d, m.roomId)
      BY <2>2, <2>4
    <3>2. bi[m.id] = NoMember
      BY <2>2, <2>3
    <3>3. RegistryOK(Placed(bi, m), Entered(br, m), Heard(ro, Entered(br, m), m))
      BY <2>1, <2>2, <3>1, <3>2, RegistryEnter
    <3> QED BY <2>2, <3>3 DEF Placed, Entered, Heard
  <2> QED BY <2>3, <2>5, <2>6, <2>7
<1> QED BY <1>1, <1>2, <1>3 DEF RegistryStep

\* A step leaves a connection the place it has, takes it away, or gives it an admissible one.
LEMMA PlaceStep ==
  ASSUME TypeOK, RegistryStep, NEW c \in Conn
  PROVE  \/ byId'[c] = byId[c]
         \/ byId'[c] = NoMember
         \/ \E r \in Room, role \in Role, u \in Account :
              /\ Admissible(r, role, u)
              /\ byId'[c] = [id |-> c, userId |-> u, role |-> role, roomId |-> r]
<1>1. CASE UNCHANGED registry
  BY <1>1 DEF registry
<1>2. ASSUME NEW d \in Conn, leaveSignaling(d)
      PROVE  byId'[c] = byId[c] \/ byId'[c] = NoMember
  BY <1>2 DEF leaveSignaling, TypeOK
<1>3. ASSUME NEW d \in Conn, NEW r \in Room, NEW role \in Role, NEW u \in Account,
             Admissible(r, role, u), enterRoom(d, r, role, u)
      PROVE  \/ byId'[c] = byId[c]
             \/ byId'[c] = [id |-> c, userId |-> u, role |-> role, roomId |-> r]
  BY <1>3 DEF enterRoom, TypeOK
<1> QED BY <1>1, <1>2, <1>3 DEF RegistryStep

LEMMA Inductive == Spec => []IInv
<1>1. Init => IInv
  <2> SUFFICES ASSUME Init PROVE IInv
    OBVIOUS
  <2>1. TypeOK
    BY SilenceType, WireType DEF Init, TypeOK, Wire, RoomStatus, ConnStatus, Account
  <2>2. RegistryOK(byId, byRoom, roster)
    BY RegistryOKInit
  <2> QED BY <2>1, <2>2 DEF Init, IInv, Placement, NoDeadMembers
<1>2. TypeOK' /\ IInv /\ [Next]_vars => IInv'
  <2> SUFFICES ASSUME TypeOK', IInv, [Next]_vars PROVE IInv'
    OBVIOUS
  <2> USE DEF IInv, Placement
  <2>1. RegistryStep /\ RoomStep /\ ConnStep
    BY NextCases
  <2>2. RegistryOK(byId', byRoom', roster')
    BY <2>1, RegistryOKStep
  <2>3. NoDeadMembers'
    <3> SUFFICES ASSUME NEW c \in Conn, byId'[c] # NoMember
                 PROVE  conn'[c] \in {"open", "closing"} /\ byId'[c].id = c
      BY DEF NoDeadMembers
    <3>1. byId'[c].id = c
      BY <2>2 DEF RegistryOK, MapsAgree
    <3>2. conn'[c] \in {"open", "closing"}
      BY <2>1 DEF ConnStep, NoDeadMembers
    <3> QED BY <3>1, <3>2
  <2>4. (\A r \in Room : rooms[r].status # "unused" => rooms[r].hostId \in User)'
    BY <2>1 DEF RoomStep
  <2>5. ASSUME NEW c \in Conn, byId'[c] # NoMember
        PROVE  /\ rooms'[byId'[c].roomId].status # "unused"
               /\ byId'[c].role = "host" => rooms'[byId'[c].roomId].hostId = byId'[c].userId
    <3>1. CASE byId'[c] = byId[c]
      <4>1. byId[c].roomId \in Room
        BY <2>5, <3>1 DEF TypeOK, Member
      <4> QED BY <2>1, <2>5, <3>1, <4>1 DEF RoomStep
    <3>2. CASE \E r \in Room, role \in Role, u \in Account :
                 /\ Admissible(r, role, u)
                 /\ byId'[c] = [id |-> c, userId |-> u, role |-> role, roomId |-> r]
      <4>1. PICK r \in Room, role \in Role, u \in Account :
                 /\ Admissible(r, role, u)
                 /\ byId'[c] = [id |-> c, userId |-> u, role |-> role, roomId |-> r]
        BY <3>2
      <4>2. rooms[r].status = "live" /\ (role = "host" => rooms[r].hostId = u)
        BY <4>1 DEF Admissible, Found
      <4> QED BY <2>1, <4>1, <4>2 DEF RoomStep
    <3> QED BY <2>1, <2>5, <3>1, <3>2, PlaceStep
  <2> QED BY <2>2, <2>3, <2>4, <2>5
<1> QED BY <1>1, <1>2, TypeCorrect, PTL DEF Spec

-------------------------------------------------------------------------------
(* What follows.                                                               *)

LEMMA MapsInAgreement == Placement => RegistriesAgree
<1> SUFFICES ASSUME Placement, NEW r \in Room
             PROVE  byRoom[r] = {byId[c] : c \in {d \in Conn : byId[d] # NoMember /\ byId[d].roomId = r}}
  BY DEF RegistriesAgree
<1>1. \A m \in byRoom[r] : m \in Member /\ byId[m.id] = m /\ m.roomId = r /\ m # NoMember /\ m.id \in Conn
  BY SignalingAssumption DEF Placement, RegistryOK, MapsAgree, Member
<1>2. \A c \in Conn : byId[c] # NoMember /\ byId[c].roomId = r => byId[c] \in byRoom[r]
  BY DEF Placement, RegistryOK, MapsAgree
<1> QED BY <1>1, <1>2

\* The two maps of signaling.ts agree in every reachable state.
THEOREM MapsAlwaysAgree == Spec => []RegistriesAgree
<1>1. IInv => RegistriesAgree
  BY MapsInAgreement DEF IInv
<1> QED BY <1>1, Inductive, PTL

\* Nobody stays behind as a member of a room once its socket has reported its close.
THEOREM MembersAlwaysLive == Spec => []NoDeadMembers
<1>1. IInv => NoDeadMembers
  BY DEF IInv
<1> QED BY <1>1, Inductive, PTL

LEMMA SingleHost == Placement => OneHost
<1> SUFFICES ASSUME Placement, NEW r \in Room, NEW c \in hostOf(byRoom, r), NEW d \in hostOf(byRoom, r)
             PROVE  c = d
  BY DEF OneHost
<1>1. c \in Conn /\ d \in Conn
  BY PeopleAreConnections DEF Placement, TypeOK
<1>2. Hosts(byId, c, r) /\ Hosts(byId, d, r)
  BY <1>1, People DEF Placement, RegistryOK
<1> QED BY <1>1, <1>2 DEF Placement, RegistryOK

\* A room never has two hosts.
THEOREM OneHostAlways == Spec => []OneHost
<1>1. IInv => OneHost
  BY SingleHost DEF IInv
<1> QED BY <1>1, Inductive, PTL

\* Whoever hosts a room is the account that owns it, for as long as it hosts.
THEOREM HostAlwaysOwner == Spec => []HostIsOwner
<1>1. IInv => HostIsOwner
  <2> SUFFICES ASSUME IInv, NEW c \in Conn, byId[c] # NoMember, byId[c].role = "host"
               PROVE  rooms[byId[c].roomId].hostId = byId[c].userId /\ byId[c].userId # Guest
    BY DEF HostIsOwner
  <2>1. byId[c].roomId \in Room
    BY DEF IInv, Placement, TypeOK, Member
  <2> QED BY <2>1, SignalingAssumption DEF IInv
<1> QED BY <1>1, Inductive, PTL

LEMMA RostersUpToDate == Placement => RosterExact
<1> SUFFICES ASSUME Placement, NEW c \in Conn, byId[c] # NoMember
             PROVE  IF byId[c].role = "host" THEN roster[c] = viewersOf(byRoom, byId[c].roomId)
                    ELSE roster[c] \subseteq hostOf(byRoom, byId[c].roomId)
  BY DEF RosterExact
<1> DEFINE r == byId[c].roomId
<1>1. r \in Room /\ (Hosts(byId, c, r) \/ Views(byId, c, r)) /\ roster[c] \in SUBSET Conn
  BY RegistryTyping DEF Placement, TypeOK
<1>2. \A d \in Conn : /\ d \in viewersOf(byRoom, r) <=> Views(byId, d, r)
                      /\ d \in hostOf(byRoom, r) <=> Hosts(byId, d, r)
  BY <1>1, People DEF Placement, RegistryOK
<1>3. viewersOf(byRoom, r) \subseteq Conn
  BY <1>1, PeopleAreConnections DEF Placement, TypeOK
<1>4. CASE Hosts(byId, c, r)
  <2>1. \A d \in Conn : d \in roster[c] <=> Views(byId, d, r)
    BY <1>1, <1>4 DEF Placement, RegistryOK
  <2>2. roster[c] = viewersOf(byRoom, r)
    BY <1>1, <1>2, <1>3, <2>1
  <2> QED BY <1>4, <2>2 DEF Hosts
<1>5. CASE Views(byId, c, r)
  <2>1. \A d \in Conn : d \in roster[c] => Hosts(byId, d, r)
    BY <1>1, <1>5 DEF Placement, RegistryOK
  <2>2. roster[c] \subseteq hostOf(byRoom, r)
    BY <1>1, <1>2, <2>1
  <2> QED BY <1>5, <2>2 DEF Views
<1> QED BY <1>1, <1>4, <1>5

\* The frames sent to a host add up to the viewers of its room, in every reachable state.
THEOREM RosterAlwaysExact == Spec => []RosterExact
<1>1. IInv => RosterExact
  BY RostersUpToDate DEF IInv
<1> QED BY <1>1, Inductive, PTL

\* A connection is given a place only in a room that is live at that moment.
THEOREM OnlyLiveRoomsEntered == Spec => EntersLiveRoomsOnly
<1>1. TypeOK /\ [Next]_vars =>
        [\A c \in Conn : byId'[c] # byId[c] /\ byId'[c] # NoMember => rooms[byId'[c].roomId].status = "live"]_vars
  <2> SUFFICES ASSUME TypeOK, [Next]_vars, NEW c \in Conn, byId'[c] # byId[c], byId'[c] # NoMember
               PROVE  rooms[byId'[c].roomId].status = "live"
    OBVIOUS
  <2>1. RegistryStep
    BY NextCases
  <2>2. PICK r \in Room, role \in Role, u \in Account :
          /\ Admissible(r, role, u)
          /\ byId'[c] = [id |-> c, userId |-> u, role |-> role, roomId |-> r]
    BY <2>1, PlaceStep
  <2> QED BY <2>2 DEF Admissible, Found
<1> QED BY <1>1, TypeCorrect, PTL DEF Spec, EntersLiveRoomsOnly

-------------------------------------------------------------------------------
(* Refinement: the registry implements RoomHosting.                            *)

Seat(br, r) == IF hostOf(br, r) = {} THEN NoMember
               ELSE CHOOSE c \in Conn : c \in hostOf(br, r)
HostView(br, ro, r) == UNION {ro[c] : c \in hostOf(br, r)}

\* The seat is the host, and what the host knows is its audience.
LEMMA Seating ==
  ASSUME NEW bi, NEW br, NEW ro, RegistryOK(bi, br, ro), NEW r \in Room
  PROVE  /\ Seat(br, r) \in Conn \cup {NoMember}
         /\ \A c \in Conn : Seat(br, r) = c <=> Hosts(bi, c, r)
         /\ HostView(br, ro, r) = IF Seat(br, r) = NoMember THEN {} ELSE viewersOf(br, r)
<1>1. /\ \A c \in Conn : c \in hostOf(br, r) <=> Hosts(bi, c, r)
      /\ \A c \in Conn : c \in viewersOf(br, r) <=> Views(bi, c, r)
      /\ hostOf(br, r) \subseteq Conn /\ viewersOf(br, r) \subseteq Conn
  BY People, PeopleAreConnections DEF RegistryOK, MapsAgree
<1>2. NoMember \notin Conn
  BY SignalingAssumption
<1>3. CASE hostOf(br, r) = {}
  BY <1>1, <1>2, <1>3 DEF Seat, HostView
<1>4. ASSUME NEW h \in Conn, h \in hostOf(br, r)
      PROVE  /\ Seat(br, r) \in Conn \cup {NoMember}
             /\ \A c \in Conn : Seat(br, r) = c <=> Hosts(bi, c, r)
             /\ HostView(br, ro, r) = IF Seat(br, r) = NoMember THEN {} ELSE viewersOf(br, r)
  <2>1. \A c \in Conn : c \in hostOf(br, r) <=> c = h
    BY <1>1, <1>4 DEF RegistryOK
  <2>2. hostOf(br, r) = {h}
    BY <1>1, <2>1
  <2>3. Seat(br, r) = h
    BY <1>4, <2>2 DEF Seat
  <2>4. HostView(br, ro, r) = ro[h]
    BY <2>2 DEF HostView
  <2>5. \A d \in Conn : d \in ro[h] <=> Views(bi, d, r)
    BY <1>1, <1>4 DEF RegistryOK
  <2>6. ro[h] \subseteq Conn
    BY DEF RegistryOK
  <2>7. ro[h] = viewersOf(br, r)
    BY <1>1, <2>5, <2>6
  <2> QED BY <1>1, <1>2, <2>1, <2>3, <2>4, <2>7
<1> QED BY <1>1, <1>3, <1>4

\* Two seats taken by the same connections are the same, and so are two audiences.
LEMMA SamePlaces ==
  ASSUME NEW bi, NEW br, NEW ro, RegistryOK(bi, br, ro), NEW r \in Room,
         NEW s \in Conn \cup {NoMember}, \A c \in Conn : s = c <=> Hosts(bi, c, r),
         NEW A \in SUBSET Conn, \A c \in Conn : c \in A <=> Views(bi, c, r)
  PROVE  Seat(br, r) = s /\ viewersOf(br, r) = A
<1>1. \A c \in Conn : Seat(br, r) = c <=> s = c
  BY Seating
<1>2. Seat(br, r) \in Conn \cup {NoMember}
  BY Seating
<1>3. Seat(br, r) = s
  BY <1>1, <1>2, SignalingAssumption
<1>4. \A c \in Conn : c \in viewersOf(br, r) <=> c \in A
  BY People DEF RegistryOK
<1>5. viewersOf(br, r) \subseteq Conn
  BY PeopleAreConnections DEF RegistryOK, MapsAgree
<1>6. viewersOf(br, r) = A
  BY <1>4, <1>5
<1> QED BY <1>3, <1>6

\* Whoever leaves gives up seat and place, and nobody else does.
LEMMA LeaveDeparts ==
  ASSUME Placement, RegistryOK(byId', byRoom', roster'), NEW c \in Conn, leaveSignaling(c)
  PROVE  Hosting!Depart(c)
<1>1. \A d \in Conn : \A r \in Room :
        /\ Hosts(byId', d, r) <=> d # c /\ Hosts(byId, d, r)
        /\ Views(byId', d, r) <=> d # c /\ Views(byId, d, r)
  BY DEF leaveSignaling, Placement, TypeOK, Hosts, Views
<1>2. ASSUME NEW r \in Room
      PROVE  /\ Seat(byRoom', r) = IF Seat(byRoom, r) = c THEN NoMember ELSE Seat(byRoom, r)
             /\ viewersOf(byRoom', r) = viewersOf(byRoom, r) \ {c}
             /\ HostView(byRoom', roster', r)
                  = IF Seat(byRoom', r) = NoMember THEN {} ELSE viewersOf(byRoom', r)
  <2> DEFINE s == IF Seat(byRoom, r) = c THEN NoMember ELSE Seat(byRoom, r)
             A == viewersOf(byRoom, r) \ {c}
  <2>1. /\ Seat(byRoom, r) \in Conn \cup {NoMember}
        /\ \A d \in Conn : Seat(byRoom, r) = d <=> Hosts(byId, d, r)
    BY Seating DEF Placement
  <2>2. /\ \A d \in Conn : d \in viewersOf(byRoom, r) <=> Views(byId, d, r)
        /\ viewersOf(byRoom, r) \subseteq Conn
    BY People, PeopleAreConnections DEF Placement, RegistryOK, MapsAgree
  <2>3. s \in Conn \cup {NoMember} /\ \A d \in Conn : s = d <=> Hosts(byId', d, r)
    BY <1>1, <2>1, SignalingAssumption
  <2>4. A \in SUBSET Conn /\ \A d \in Conn : d \in A <=> Views(byId', d, r)
    BY <1>1, <2>2
  <2> HIDE DEF s, A
  <2>5. Seat(byRoom', r) = s /\ viewersOf(byRoom', r) = A
    BY <2>3, <2>4, SamePlaces
  <2>6. HostView(byRoom', roster', r)
          = IF Seat(byRoom', r) = NoMember THEN {} ELSE viewersOf(byRoom', r)
    BY Seating
  <2> QED BY <2>5, <2>6 DEF s, A
<1>3. /\ [r \in Room |-> Seat(byRoom', r)] =
           [r \in Room |-> IF Seat(byRoom, r) = c THEN NoMember ELSE Seat(byRoom, r)]
      /\ [r \in Room |-> viewersOf(byRoom', r)] = [r \in Room |-> viewersOf(byRoom, r) \ {c}]
  BY <1>2
<1>4. Hosting!HostInformed
  BY <1>2 DEF Hosting!HostInformed, Seat, HostView
<1> QED BY <1>3, <1>4 DEF Hosting!Depart, Hosting!SeatWithout, Hosting!AudienceWithout, Seat

\* Whoever enters as host takes a free seat, whoever enters as viewer joins the audience.
LEMMA EnterTakesPlace ==
  ASSUME Placement, RegistryOK(byId', byRoom', roster'),
         NEW c \in Conn, NEW q \in Room, NEW role \in Role, NEW u \in Account,
         Admissible(q, role, u), enterRoom(c, q, role, u)
  PROVE  Hosting!TakeSeat(c, q) \/ Hosting!Watch(c, q)
<1>1. \A d \in Conn : \A r \in Room :
        /\ Hosts(byId', d, r) <=> IF d = c THEN r = q /\ role = "host" ELSE Hosts(byId, d, r)
        /\ Views(byId', d, r) <=> IF d = c THEN r = q /\ role = "viewer" ELSE Views(byId, d, r)
  <2> DEFINE m == [id |-> c, userId |-> u, role |-> role, roomId |-> q]
  <2>1. m \in Member /\ m.roomId = q /\ m.role = role
    BY DEF Member
  <2>2. m # NoMember
    BY <2>1, SignalingAssumption
  <2>3. byId' = [byId EXCEPT ![c] = m]
    BY DEF enterRoom
  <2> HIDE DEF m
  <2>4. \A d \in Conn : byId'[d] = IF d = c THEN m ELSE byId[d]
    BY <2>3 DEF Placement, TypeOK
  <2> QED BY <2>1, <2>2, <2>4 DEF Hosts, Views
<1>2. role = "host" => Seat(byRoom, q) = NoMember
  BY DEF Admissible, Seat
<1>3. role \in {"host", "viewer"}
  BY DEF Role
<1>4. ASSUME NEW r \in Room
      PROVE  /\ Seat(byRoom', r) = IF r = q /\ role = "host" THEN c
                                   ELSE IF Seat(byRoom, r) = c THEN NoMember ELSE Seat(byRoom, r)
             /\ viewersOf(byRoom', r) = IF r = q /\ role = "viewer"
                                        THEN (viewersOf(byRoom, r) \ {c}) \cup {c}
                                        ELSE viewersOf(byRoom, r) \ {c}
             /\ HostView(byRoom', roster', r)
                  = IF Seat(byRoom', r) = NoMember THEN {} ELSE viewersOf(byRoom', r)
  <2> DEFINE s == IF r = q /\ role = "host" THEN c
                  ELSE IF Seat(byRoom, r) = c THEN NoMember ELSE Seat(byRoom, r)
             A == IF r = q /\ role = "viewer" THEN (viewersOf(byRoom, r) \ {c}) \cup {c}
                                              ELSE viewersOf(byRoom, r) \ {c}
  <2>1. /\ Seat(byRoom, r) \in Conn \cup {NoMember}
        /\ \A d \in Conn : Seat(byRoom, r) = d <=> Hosts(byId, d, r)
    BY Seating DEF Placement
  <2>2. /\ \A d \in Conn : d \in viewersOf(byRoom, r) <=> Views(byId, d, r)
        /\ viewersOf(byRoom, r) \subseteq Conn
    BY People, PeopleAreConnections DEF Placement, RegistryOK, MapsAgree
  <2>3. s \in Conn \cup {NoMember} /\ \A d \in Conn : s = d <=> Hosts(byId', d, r)
    <3>1. CASE r = q /\ role = "host"
      <4>1. \A d \in Conn : ~Hosts(byId, d, r)
        BY <1>2, <2>1, <3>1, SignalingAssumption
      <4> QED BY <1>1, <3>1, <4>1
    <3>2. CASE ~(r = q /\ role = "host")
      BY <1>1, <2>1, <3>2, SignalingAssumption
    <3> QED BY <3>1, <3>2
  <2>4. A \in SUBSET Conn /\ \A d \in Conn : d \in A <=> Views(byId', d, r)
    BY <1>1, <1>3, <2>2
  <2> HIDE DEF s, A
  <2>5. Seat(byRoom', r) = s /\ viewersOf(byRoom', r) = A
    BY <2>3, <2>4, SamePlaces
  <2>6. HostView(byRoom', roster', r)
          = IF Seat(byRoom', r) = NoMember THEN {} ELSE viewersOf(byRoom', r)
    BY Seating
  <2> QED BY <2>5, <2>6 DEF s, A
<1>5. CASE role = "host"
  <2>1. /\ [r \in Room |-> Seat(byRoom', r)] =
             [[r \in Room |-> IF Seat(byRoom, r) = c THEN NoMember ELSE Seat(byRoom, r)]
                EXCEPT ![q] = c]
        /\ [r \in Room |-> viewersOf(byRoom', r)] = [r \in Room |-> viewersOf(byRoom, r) \ {c}]
    BY <1>4, <1>5
  <2>2. Hosting!TakeSeat(c, q)
    BY <1>2, <1>4, <1>5, <2>1
       DEF Hosting!TakeSeat, Hosting!SeatWithout, Hosting!AudienceWithout,
           Hosting!HostInformed, Seat, HostView
  <2> QED BY <2>2
<1>6. CASE role = "viewer"
  <2>1. /\ [r \in Room |-> Seat(byRoom', r)] =
             [r \in Room |-> IF Seat(byRoom, r) = c THEN NoMember ELSE Seat(byRoom, r)]
        /\ [r \in Room |-> viewersOf(byRoom', r)] =
             [[r \in Room |-> viewersOf(byRoom, r) \ {c}] EXCEPT ![q] = @ \cup {c}]
    BY <1>4, <1>6
  <2>2. Hosting!HostInformed
    BY <1>4 DEF Hosting!HostInformed, Seat, HostView
  <2>3. [r \in Room |-> viewersOf(byRoom', r)] =
             [[r \in Room |-> [s \in Room |-> viewersOf(byRoom, s)][r] \ {c}]
                EXCEPT ![q] = @ \cup {c}]
    BY <2>1
  <2>4. Hosting!Watch(c, q)
    BY <2>1, <2>2, <2>3
       DEF Hosting!Watch, Hosting!SeatWithout, Hosting!AudienceWithout, Seat
  <2> QED BY <2>4
<1> QED BY <1>3, <1>5, <1>6

\* What a step of the registry is to RoomHosting.
LEMMA PlacesStep ==
  ASSUME Placement, Placement', RegistryStep
  PROVE  [Hosting!Next]_(Hosting!vars)
<1>1. RegistryOK(byId', byRoom', roster')
  BY DEF Placement
<1>2. CASE UNCHANGED registry
  BY <1>2 DEF registry, Hosting!vars, hostOf, viewersOf
<1>3. ASSUME NEW c \in Conn, leaveSignaling(c) PROVE Hosting!Next
  BY <1>1, <1>3, LeaveDeparts DEF Hosting!Next
<1>4. ASSUME NEW c \in Conn, NEW r \in Room, NEW role \in Role, NEW u \in Account,
             Admissible(r, role, u), enterRoom(c, r, role, u)
      PROVE  Hosting!Next
  BY <1>1, <1>4, EnterTakesPlace DEF Hosting!Next
<1> QED BY <1>2, <1>3, <1>4 DEF RegistryStep

LEMMA PlacesInit == Init => Hosting!Init
<1> SUFFICES ASSUME Init PROVE Hosting!Init
  OBVIOUS
<1>1. \A r \in Room : hostOf(byRoom, r) = {} /\ viewersOf(byRoom, r) = {}
  BY DEF Init, hostOf, viewersOf
<1> QED BY <1>1 DEF Hosting!Init

\* Every behaviour of the server is one of RoomHosting: seats are never taken over, everybody is
\* in one place, and what the host of a room knows of its audience is never out of date.
THEOREM ImplementsRoomHosting == Spec => KeepsHostingPromise
<1>1. IInv /\ IInv' /\ [Next]_vars => [Hosting!Next]_(Hosting!vars)
  BY NextCases, PlacesStep DEF IInv, Placement
<1> QED BY PlacesInit, <1>1, Inductive, PTL DEF Spec, KeepsHostingPromise, Hosting!Spec

-------------------------------------------------------------------------------
(* Signals.  Only a relay puts an sdp or ice frame on the wire.                *)

Quiet(w) == \A d \in Conn : \A i \in DOMAIN w[d] : w[d][i].type \notin {"sdp", "ice"}

LEMMA QuietSend ==
  ASSUME NEW f, f.type \notin {"sdp", "ice"}, NEW S
  PROVE  Quiet(SendTo(S, f)) /\ Quiet(Silence)
BY DEF Quiet, SendTo, Silence

LEMMA QuietLeave ==
  ASSUME NEW c \in Conn
  PROVE  Quiet(LeaveFrames(c))
<1> DEFINE f == RoomFrameOf("peer-left", byId[c], {})
<1>1. f.type \notin {"sdp", "ice"}
  BY DEF RoomFrameOf
<1>2. LeaveFrames(c) = Silence \/ \E S : LeaveFrames(c) = SendTo(S, f)
  BY DEF LeaveFrames
<1> HIDE DEF f
<1> QED BY <1>1, <1>2, QuietSend

LEMMA QuietJoin ==
  ASSUME NEW br, NEW m
  PROVE  Quiet(JoinFrames(br, m))
<1> DEFINE V == IF m.role = "host" THEN viewersOf(br, m.roomId) ELSE {}
           f == RoomFrameOf("peer-joined", m, {})
           g == RoomFrameOf("joined", m, V)
           H == Hearers(br, m)
<1>1. f.type \notin {"sdp", "ice"} /\ g.type \notin {"sdp", "ice"}
  BY DEF RoomFrameOf
<1>2. JoinFrames(br, m) = [SendTo(H, f) EXCEPT ![m.id] = <<g>>]
  BY DEF JoinFrames
<1> HIDE DEF V, f, g, H
<1>3. \A d \in Conn : JoinFrames(br, m)[d] \in {<<>>, <<f>>, <<g>>}
  BY <1>2 DEF SendTo
<1>4. \A s \in {<<>>, <<f>>, <<g>>} : \A i \in DOMAIN s : s[i].type \notin {"sdp", "ice"}
  BY <1>1
<1> QED BY <1>3, <1>4 DEF Quiet

LEMMA QuietPair ==
  ASSUME NEW v \in Instalment, NEW w \in Instalment, Quiet(v), Quiet(w)
  PROVE  Quiet([d \in Conn |-> v[d] \o w[d]])
<1>1. ASSUME NEW s \in Seq(Frame), NEW t \in Seq(Frame),
             \A i \in DOMAIN s : s[i].type \notin {"sdp", "ice"},
             \A i \in DOMAIN t : t[i].type \notin {"sdp", "ice"},
             NEW i \in DOMAIN (s \o t)
      PROVE  (s \o t)[i].type \notin {"sdp", "ice"}
  <2>1. /\ Len(s) \in Nat /\ Len(t) \in Nat
        /\ DOMAIN s = 1..Len(s) /\ DOMAIN t = 1..Len(t)
    BY LenProperties
  <2>2. /\ s \o t \in Seq(Frame) /\ Len(s \o t) = Len(s) + Len(t)
        /\ \A k \in 1..(Len(s) + Len(t)) :
             (s \o t)[k] = IF k <= Len(s) THEN s[k] ELSE t[k - Len(s)]
    BY ConcatProperties
  <2>3. DOMAIN (s \o t) = 1..(Len(s) + Len(t))
    BY <2>2, LenProperties
  <2>4. CASE i <= Len(s)
    BY <1>1, <2>1, <2>2, <2>3, <2>4
  <2>5. CASE ~(i <= Len(s))
    <3>1. i - Len(s) \in 1..Len(t)
      BY <2>1, <2>3, <2>5
    <3>2. (s \o t)[i] = t[i - Len(s)]
      BY <2>2, <2>3, <2>5
    <3> QED BY <1>1, <2>1, <3>1, <3>2
  <2> QED BY <2>4, <2>5
<1> SUFFICES ASSUME NEW d \in Conn, NEW i \in DOMAIN (v[d] \o w[d])
             PROVE  (v[d] \o w[d])[i].type \notin {"sdp", "ice"}
  BY DEF Quiet
<1>2. v[d] \in Seq(Frame) /\ w[d] \in Seq(Frame)
  BY InstalmentSeq
<1> QED BY <1>1, <1>2 DEF Quiet

LEMMA QuietEnter ==
  ASSUME TypeOK, NEW c \in Conn, NEW r \in Room, NEW role \in Role, NEW u \in Account,
         enterRoom(c, r, role, u)
  PROVE  Quiet(wire')
<1> DEFINE m == [id |-> c, userId |-> u, role |-> role, roomId |-> r]
           br == [Without(c) EXCEPT ![r] = @ \cup {m}]
<1>1. m \in Member
  BY DEF Member
<1>2. br \in [Room -> SUBSET Member] /\ LeaveFrames(c) \in Instalment
  BY <1>1, LeaveType
<1>3. wire' = [d \in Conn |-> LeaveFrames(c)[d] \o JoinFrames(br, m)[d]]
  BY DEF enterRoom
<1> HIDE DEF m, br
<1>4. JoinFrames(br, m) \in Instalment
  BY <1>1, <1>2, JoinType
<1>5. Quiet(LeaveFrames(c)) /\ Quiet(JoinFrames(br, m))
  BY QuietLeave, QuietJoin
<1> QED BY <1>2, <1>3, <1>4, <1>5, QuietPair

\* A step is a relay of an open connection, or puts no signal on the wire, or stutters.
LEMMA SignalCases ==
  ASSUME TypeOK, [Next]_vars
  PROVE  \/ \E c \in Conn, type \in {"sdp", "ice"}, target \in Conn \cup {NoTarget} :
              Signal(c, type, target)
         \/ Quiet(wire')
         \/ UNCHANGED vars
<1>1. Quiet(Silence)
  <2>1. [type |-> "error"].type \notin {"sdp", "ice"}
    OBVIOUS
  <2> QED BY <2>1, QuietSend
<1>2. ASSUME NEW c \in Conn, NEW code \in ErrorCode, fail(c, code) PROVE Quiet(wire')
  <2>1. [type |-> "error", code |-> code].type \notin {"sdp", "ice"}
    OBVIOUS
  <2> QED BY <1>2, <2>1, QuietSend DEF fail
<1>3. ASSUME NEW c \in Conn, leaveSignaling(c) PROVE Quiet(wire')
  BY <1>3, QuietLeave DEF leaveSignaling
<1>4. ASSUME NEW c \in Conn, NEW r \in Room, NEW role \in Role, Join(c, r, role)
      PROVE  Quiet(wire')
  BY <1>4, QuietEnter DEF Join, TypeOK
<1>5. StoreNext => Quiet(wire')
  BY <1>1 DEF StoreNext, RoomExpires, ReadRoom, createRoom, sweepExpiredRooms
<1>6. ASSUME NEW c \in Conn, BrowserNext(c)
      PROVE  \/ \E type \in {"sdp", "ice"}, target \in Conn \cup {NoTarget} : Signal(c, type, target)
             \/ Quiet(wire')
  <2>1. \A u \in Account : Connect(c, u) => Quiet(wire')
    BY <1>1 DEF Connect
  <2>2. BadJoin(c) => Quiet(wire')
    BY <1>2 DEF BadJoin, ErrorCode
  <2>3. \A r \in Room, role \in Role : JoinRefused(c, r, role) => Quiet(wire')
    BY <1>2 DEF JoinRefused
  <2>4. Leave(c) \/ Close(c) => Quiet(wire')
    BY <1>3 DEF Leave, Close
  <2> QED BY <1>4, <1>6, <2>1, <2>2, <2>3, <2>4 DEF BrowserNext
<1> QED BY <1>5, <1>6 DEF Next

\* Whom a relay reaches: the other half of a pair of host and viewer.
LEMMA Receivers ==
  ASSUME Placement, NEW c \in Conn, byId[c] # NoMember, NEW d \in Conn,
         \/ d \in Hearers(byRoom, byId[c])
         \/ byId[c].role = "host" /\ d \in viewersOf(byRoom, byId[c].roomId)
  PROVE  /\ byId[d] # NoMember /\ byId[d].roomId = byId[c].roomId
         /\ byId[d].role # byId[c].role
         /\ byId[c].role = "viewer" => c \in roster[d]
<1> DEFINE r == byId[c].roomId
<1>1. r \in Room /\ (Hosts(byId, c, r) \/ Views(byId, c, r)) /\ byId[c].id = c
  BY RegistryTyping DEF Placement, RegistryOK, MapsAgree
<1>2. /\ d \in viewersOf(byRoom, r) <=> Views(byId, d, r)
      /\ d \in hostOf(byRoom, r) <=> Hosts(byId, d, r)
      /\ d \in membersOf(byRoom, r) <=> byId[d] # NoMember /\ byId[d].roomId = r
  BY <1>1, People DEF Placement, RegistryOK
<1>3. CASE Hosts(byId, c, r)
  <2>1. d # c /\ byId[d] # NoMember /\ byId[d].roomId = r
    BY <1>1, <1>2, <1>3 DEF Hearers, Hosts, Views
  <2>2. ~Hosts(byId, d, r)
    BY <1>1, <1>3, <2>1 DEF Placement, RegistryOK
  <2> QED BY <1>3, <2>1, <2>2 DEF Hosts
<1>4. CASE Views(byId, c, r)
  <2>1. Hosts(byId, d, r)
    BY <1>1, <1>2, <1>4 DEF Hearers, Hosts, Views
  <2>2. c \in roster[d]
    BY <1>1, <1>4, <2>1 DEF Placement, RegistryOK
  <2> QED BY <1>4, <2>1, <2>2 DEF Hosts, Views
<1> QED BY <1>1, <1>3, <1>4

LEMMA RelayInPair ==
  ASSUME Placement, NEW c \in Conn, NEW type, NEW target, relay(c, type, target)
  PROVE  SignalsStayInPair'
<1> DEFINE f == RoomFrameOf(type, byId[c], {})
           S == IF byId[c].role = "host" /\ target # NoTarget
                THEN viewersOf(byRoom, byId[c].roomId) \cap {target}
                ELSE Hearers(byRoom, byId[c])
<1>1. byId[c] # NoMember /\ wire' = SendTo(S, f) /\ byId' = byId /\ roster' = roster
  BY DEF relay, registry
<1>2. f.peer = c /\ f.roomId = byId[c].roomId /\ f.role = byId[c].role
  BY <1>1 DEF RoomFrameOf, Placement, RegistryOK, MapsAgree
<1>3. ASSUME NEW d \in Conn, d \in S
      PROVE  /\ byId[d] # NoMember /\ byId[d].roomId = byId[c].roomId
             /\ byId[d].role # byId[c].role
             /\ byId[c].role = "viewer" => c \in roster[d]
  BY <1>1, <1>3, Receivers
<1> HIDE DEF f, S
<1>4. \A d \in Conn : \A i \in DOMAIN wire'[d] : wire'[d][i] = f /\ d \in S
  BY <1>1 DEF SendTo
<1> QED BY <1>1, <1>2, <1>3, <1>4 DEF SignalsStayInPair

\* sdp and ice frames pass between the host and a viewer of one room, and nobody else.
THEOREM SignalsAlwaysInPair == Spec => []SignalsStayInPair
<1>1. Init => SignalsStayInPair
  BY DEF Init, SignalsStayInPair, Silence
<1>2. IInv /\ SignalsStayInPair /\ [Next]_vars => SignalsStayInPair'
  <2> SUFFICES ASSUME IInv, SignalsStayInPair, [Next]_vars PROVE SignalsStayInPair'
    OBVIOUS
  <2>1. CASE Quiet(wire')
    BY <2>1 DEF Quiet, SignalsStayInPair
  <2>2. ASSUME NEW c \in Conn, NEW type \in {"sdp", "ice"}, NEW target \in Conn \cup {NoTarget},
               Signal(c, type, target)
        PROVE  SignalsStayInPair'
    BY <2>2, RelayInPair DEF Signal, IInv
  <2>3. CASE UNCHANGED vars
    BY <2>3 DEF vars, SignalsStayInPair
  <2> QED BY <2>1, <2>2, <2>3, SignalCases DEF IInv, Placement
<1> QED BY <1>1, <1>2, Inductive, PTL DEF Spec
==============================================================================
