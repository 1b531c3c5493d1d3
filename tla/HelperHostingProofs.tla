-------------------------- MODULE HelperHostingProofs --------------------------
(***************************************************************************)
(* Theorems about HelperHosting.  Presence is disturbed by nothing a       *)
(* helper does in rooms: the server implements module HelperRegistry, so   *)
(* the theorems of HelperRegistryProofs hold of it.  And what a helper does *)
(* to a room is what a browser may do to it, so the lemmas of              *)
(* SignalingProofs about the handlers of the registry hold of both.        *)
(***************************************************************************)
EXTENDS HelperHosting, TLAPS

LEMMA InitMaps == Init => Reg!Init
BY DEF Init

\* Every step of a helper in a room is a step of its presence: a frame is a status frame, and a
\* close is a close.
LEMMA HelperStepMaps ==
  ASSUME NEW c \in Agent, HelperNext(c)
  PROVE  Reg!Next
<1>1. CASE Frame(c)
  BY <1>1 DEF Frame, Reg!Next, Reg!AgentNext
<1>2. CASE HelperClose(c)
  BY <1>2 DEF HelperClose, Reg!Next
<1>3. Frame(c) \/ HelperClose(c)
  BY DEF HelperNext, AttachRoom, AttachRefused, DetachRoom, RoomSignal, HelperError
<1> QED BY <1>1, <1>2, <1>3

LEMMA StepMaps == [Next]_vars => [Reg!Next]_(Reg!vars)
<1>1. ASSUME PresenceStep PROVE Reg!Next
  BY <1>1 DEF PresenceStep, Reg!Next
<1>2. ASSUME SignalingStep PROVE UNCHANGED Reg!vars
  BY <1>2 DEF SignalingStep, registry, Reg!vars
<1>3. ASSUME UNCHANGED vars PROVE UNCHANGED Reg!vars
  BY <1>3 DEF vars, registry, Reg!vars
<1> QED BY <1>1, <1>2, <1>3, HelperStepMaps DEF Next

\* Attaching, detaching, signalling and closing as the host of a room leave presence as module
\* HelperRegistry describes it: every behaviour of the server is one of HelperRegistry.
THEOREM ImplementsHelperRegistry == Spec => PresenceUndisturbed
BY InitMaps, StepMaps, PTL DEF Spec, PresenceUndisturbed, Reg!Spec


-------------------------------------------------------------------------------
(* The endpoint's map of attached helpers.                                     *)

HostingType ==
  /\ userOf \in [Conn -> Sig!Account]
  /\ byId \in [Conn -> Sig!Member \cup {NoMember}]
  /\ helperConn \in [Agent -> {"idle", "open", "closing", "closed"}]
  /\ helperUser \in [Agent -> Sig!Account]
  /\ registered \in [Agent -> BOOLEAN]
  /\ attachedRooms \in [Agent -> Room \cup {NoRoom}]

\* Only helpers that said hello host, and until their onClose: hence a later upgrade or hello
\* finds no membership, and onClose of a helper that never said hello has none to end.
HostsAreGreeted ==
  \A c \in Agent :
    /\ byId[c] # NoMember => registered[c] /\ helperConn[c] \in {"open", "closing"}
    /\ helperConn[c] = "idle" => ~registered[c]

HostingInv == HostingType /\ HostsAreGreeted /\ AttachedAgrees

LEMMA HostingInit == Init => HostingInv
BY DEF Init, Sig!Init, Reg!Init, HostingInv, HostingType, HostsAreGreeted, AttachedAgrees,
       Sig!Account, Conn

\* A step of a browser changes the membership of that browser at most, and never to a mistyped one.
LEMMA BrowserMembership ==
  ASSUME HostingType, NEW c \in Browser, Sig!BrowserNext(c)
  PROVE  /\ userOf' \in [Conn -> Sig!Account]
         /\ \E m \in Sig!Member \cup {NoMember} : byId' \in {byId, [byId EXCEPT ![c] = m]}
<1> USE DEF HostingType
<1>1. c \in Conn
  BY DEF Conn
<1>2. ASSUME NEW u \in Sig!Account, Sig!Connect(c, u)
      PROVE  userOf' \in [Conn -> Sig!Account] /\ byId' = byId
  BY <1>2 DEF Sig!Connect, Sig!registry
<1>3. ASSUME NEW r \in Room, NEW role \in Sig!Role, Sig!Join(c, r, role)
      PROVE  /\ userOf' = userOf
             /\ \E m \in Sig!Member : byId' = [byId EXCEPT ![c] = m]
  <2>1. [id |-> c, userId |-> userOf[c], role |-> role, roomId |-> r] \in Sig!Member
    BY <1>1 DEF Sig!Member
  <2>2. byId' = [byId EXCEPT ![c] = [id |-> c, userId |-> userOf[c], role |-> role, roomId |-> r]]
    BY <1>3 DEF Sig!Join, Sig!enterRoom
  <2>3. userOf' = userOf
    BY <1>3 DEF Sig!Join
  <2> QED BY <2>1, <2>2, <2>3
<1>4. CASE Sig!Leave(c) \/ Sig!Close(c)
  BY <1>4 DEF Sig!Leave, Sig!Close, Sig!leaveSignaling
<1>5. ASSUME \/ Sig!BadJoin(c)
             \/ \E r \in Room, role \in Sig!Role : Sig!JoinRefused(c, r, role)
             \/ \E type \in {"sdp", "ice"}, target \in Conn \cup {NoTarget} :
                  Sig!Signal(c, type, target)
      PROVE  userOf' = userOf /\ byId' = byId
  BY <1>5 DEF Sig!BadJoin, Sig!JoinRefused, Sig!Signal, Sig!fail, Sig!relay, Sig!registry
<1> QED BY <1>2, <1>3, <1>4, <1>5 DEF Sig!BrowserNext

LEMMA SignalingKeeps ==
  ASSUME HostingInv, SignalingStep
  PROVE  HostingInv'
<1> USE DEF HostingInv
<1>1. UNCHANGED <<helperConn, helperUser, registered, attachedRooms>>
  BY DEF SignalingStep, registry
<1> DEFINE AgentsStay == /\ userOf' \in [Conn -> Sig!Account]
                         /\ byId' \in [Conn -> Sig!Member \cup {NoMember}]
                         /\ \A a \in Agent : byId'[a] = byId[a]
<1>2. AgentsStay
  <2>1. CASE Sig!StoreNext
    <3>1. UNCHANGED <<userOf, byId>>
      BY <2>1 DEF Sig!StoreNext, Sig!RoomExpires, Sig!ReadRoom, Sig!createRoom,
                  Sig!sweepExpiredRooms, Sig!registry
    <3> QED BY <3>1 DEF HostingType
  <2>2. ASSUME NEW c \in Browser, Sig!BrowserNext(c)
        PROVE  AgentsStay
    <3>1. PICK m \in Sig!Member \cup {NoMember} : byId' \in {byId, [byId EXCEPT ![c] = m]}
      BY <2>2, BrowserMembership
    <3>2. \A a \in Agent : a # c /\ a \in Conn
      BY HostingAssumption DEF Conn
    <3> QED BY <2>2, <3>1, <3>2, BrowserMembership DEF HostingType
  <2> QED BY <2>1, <2>2 DEF SignalingStep
<1> QED BY <1>1, <1>2 DEF HostingType, HostsAreGreeted, AttachedAgrees

LEMMA PresenceKeeps ==
  ASSUME HostingInv, PresenceStep
  PROVE  HostingInv'
<1> USE DEF HostingInv, HostingType
<1>1. UNCHANGED <<userOf, byId, attachedRooms>>
  BY DEF PresenceStep, RoomsAlone
<1> DEFINE Greeted ==
      /\ helperConn' \in [Agent -> {"idle", "open", "closing", "closed"}]
      /\ helperUser' \in [Agent -> Sig!Account]
      /\ registered' \in [Agent -> BOOLEAN]
      /\ \A a \in Agent :
           /\ helperConn[a] \in {"open", "closing"} =>
                helperConn'[a] \in {"open", "closing"} /\ helperUser'[a] = helperUser[a]
           /\ registered[a] => registered'[a]
           /\ helperConn'[a] = "idle" => helperConn[a] = "idle" /\ registered'[a] = registered[a]
<1>2. Greeted
  <2>1. ASSUME NEW c \in Agent, NEW u \in User \cup {Guest}, Reg!Connect(c, u)
        PROVE  Greeted
    BY <2>1 DEF Reg!Connect, Sig!Account
  <2>2. ASSUME NEW c \in Agent, Reg!Hello(c)
        PROVE  Greeted
    <3>1. CASE registered[c]
      BY <2>2, <3>1 DEF Reg!Hello
    <3>2. CASE ~registered[c]
      <4>1. /\ registered' = [registered EXCEPT ![c] = TRUE] /\ helperUser' = helperUser
            /\ \E S \in SUBSET Agent : helperConn' = Reg!CloseAll(S)
        BY <2>2, <3>2 DEF Reg!Hello
      <4> QED BY <2>2, <4>1 DEF Reg!Hello, Reg!CloseAll, Reg!Open
    <3> QED BY <3>1, <3>2
  <2>3. ASSUME NEW c \in Agent, Reg!BadHello(c) \/ Reg!HelloTimer(c)
        PROVE  Greeted
    BY <2>3 DEF Reg!BadHello, Reg!HelloTimer, Reg!CloseAll, Reg!Open
  <2>4. CASE Reg!Heartbeat
    BY <2>4 DEF Reg!Heartbeat, Reg!sweepStaleHelpers, Reg!CloseAll, Reg!Open
  <2>5. CASE UNCHANGED <<helperConn, helperUser, registered>>
    BY <2>5
  <2>6. \/ \E c \in Agent : \/ \E u \in User \cup {Guest} : Reg!Connect(c, u)
                            \/ Reg!Hello(c) \/ Reg!BadHello(c) \/ Reg!HelloTimer(c)
        \/ Reg!Heartbeat
        \/ UNCHANGED <<helperConn, helperUser, registered>>
    BY DEF PresenceStep, Reg!AgentNext, Reg!TimerNext, Reg!CommandNext, Reg!Status, Reg!Tick,
           Reg!handleHelperAck, Reg!sendCommand, Reg!presence
  <2> QED BY <2>1, <2>2, <2>3, <2>4, <2>5, <2>6
<1>3. HostsAreGreeted'
  BY <1>1, <1>2 DEF HostsAreGreeted
<1>4. AttachedAgrees'
  BY <1>1, <1>2 DEF AttachedAgrees, HostsAreGreeted
<1> QED BY <1>1, <1>2, <1>3, <1>4

\* Attach and detach change the map and the registry together.
LEMMA HelperKeeps ==
  ASSUME HostingInv, NEW c \in Agent, HelperNext(c)
  PROVE  HostingInv'
<1> USE DEF HostingInv, HostingType
<1>1. c \in Conn
  BY DEF Conn
<1>2. ASSUME Frame(c)
      PROVE  UNCHANGED <<userOf, helperConn, helperUser, registered>> /\ Reg!Open(c) /\ registered[c]
  BY <1>2 DEF Frame, Reg!Status
<1>3. ASSUME NEW r \in Room, AttachRoom(c, r)
      PROVE  HostingInv'
  <2> DEFINE m == [id |-> c, userId |-> helperUser[c], role |-> "host", roomId |-> r]
  <2>1. m \in Sig!Member
    BY <1>1 DEF Sig!Member, Sig!Role
  <2>2. m # NoMember /\ r # NoRoom
    BY <2>1, PartsAssumption, HostingAssumption DEF Sig!SignalingAssumption
  <2>3. /\ byId' = [byId EXCEPT ![c] = m]
        /\ attachedRooms' = [attachedRooms EXCEPT ![c] = r]
        /\ Frame(c)
    BY <1>3 DEF AttachRoom, Sig!enterRoom
  <2> QED BY <1>1, <1>2, <2>1, <2>2, <2>3 DEF HostsAreGreeted, AttachedAgrees, Reg!Open, Conn
<1>4. CASE DetachRoom(c)
  <2>1. /\ byId' = [byId EXCEPT ![c] = NoMember]
        /\ attachedRooms' = [attachedRooms EXCEPT ![c] = NoRoom]
        /\ Frame(c)
    BY <1>4 DEF DetachRoom, Sig!leaveSignaling
  <2> QED BY <1>1, <1>2, <2>1 DEF HostsAreGreeted, AttachedAgrees, Conn
<1>5. CASE HelperClose(c)
  <2>1. /\ helperConn[c] \in {"open", "closing"}
        /\ helperConn' = [helperConn EXCEPT ![c] = "closed"]
        /\ UNCHANGED <<userOf, helperUser, registered>>
    BY <1>5 DEF HelperClose, Reg!Close
  <2>2. /\ byId' = [byId EXCEPT ![c] = NoMember]
        /\ attachedRooms' = [attachedRooms EXCEPT ![c] = NoRoom]
    BY <1>1, <1>5 DEF HelperClose, Sig!leaveSignaling, HostsAreGreeted, AttachedAgrees
  <2> QED BY <1>1, <2>1, <2>2 DEF HostsAreGreeted, AttachedAgrees, Conn
<1>6. ASSUME \/ \E r \in Room : AttachRefused(c, r)
             \/ \E type \in {"sdp", "ice"}, target \in Conn \cup {NoTarget} : RoomSignal(c, type, target)
             \/ HelperError(c)
      PROVE  HostingInv'
  <2>1. Frame(c) /\ UNCHANGED <<byId, attachedRooms>>
    BY <1>6 DEF AttachRefused, RoomSignal, HelperError, Sig!relay, Sig!registry
  <2> QED BY <1>2, <2>1 DEF HostsAreGreeted, AttachedAgrees
<1> QED BY <1>3, <1>4, <1>5, <1>6 DEF HelperNext

LEMMA HostingStep == HostingInv /\ [Next]_vars => HostingInv'
<1>1. ASSUME HostingInv, UNCHANGED vars
      PROVE  HostingInv'
  BY <1>1 DEF vars, signaling, registry, HostingInv, HostingType, HostsAreGreeted, AttachedAgrees
<1> QED BY <1>1, SignalingKeeps, PresenceKeeps, HelperKeeps DEF Next

\* room-sdp and room-ice are accepted from exactly the helpers that host a room, and go to the
\* room they host, whatever attaches, detaches, refusals, supersessions and closes came before.
THEOREM AttachedAlwaysAgrees == Spec => []AttachedAgrees
<1>1. HostingInv => AttachedAgrees
  BY DEF HostingInv
<1> QED BY <1>1, HostingInit, HostingStep, PTL DEF Spec
-------------------------------------------------------------------------------
(* The lemmas of the parts.  They are lemmas about instances of their own, so  *)
(* these lemmas say that an instance of a proof module speaks of the same      *)
(* definitions as the instance the specification uses.                         *)

SP == INSTANCE SignalingProofs
RP == INSTANCE HelperRegistryProofs WITH conn <- helperConn, userOf <- helperUser

LEMMA SPAssumption == SP!SignalingAssumption
BY PartsAssumption
   DEF SP!SignalingAssumption, Sig!SignalingAssumption, SP!Member, Sig!Member,
       SP!Account, Sig!Account, SP!Role, Sig!Role

LEMMA RPAssumption == RP!HelperAssumption
BY PartsAssumption
   DEF RP!HelperAssumption, Reg!HelperAssumption, RP!Entry, Reg!Entry, RP!Pending, Reg!Pending,
       RP!Result, Reg!Result, RP!Ids, Reg!Ids

LEMMA SameSignalingTypes == Sig!TypeOK <=> SP!TypeOK
BY DEF SP!TypeOK, Sig!TypeOK, SP!RoomStatus, Sig!RoomStatus, SP!ConnStatus, Sig!ConnStatus,
       SP!Account, Sig!Account, SP!Member, Sig!Member, SP!Role, Sig!Role, SP!Frame, Sig!Frame,
       SP!RoomFrame, Sig!RoomFrame, SP!ErrorFrame, Sig!ErrorFrame, SP!ErrorCode, Sig!ErrorCode

LEMMA SameSignalingInit == ASSUME Sig!Init PROVE SP!Init
BY Zenon DEF Sig!Init, SP!Init, Sig!Silence, SP!Silence

LEMMA SameStoreStep == ASSUME Sig!StoreNext PROVE SP!StoreNext
BY Zenon
   DEF Sig!StoreNext, SP!StoreNext, Sig!RoomExpires, SP!RoomExpires, Sig!ReadRoom, SP!ReadRoom,
       Sig!createRoom, SP!createRoom, Sig!sweepExpiredRooms, SP!sweepExpiredRooms,
       Sig!getRoom, SP!getRoom, Sig!registry, SP!registry, Sig!Silence, SP!Silence

LEMMA SameEnter ==
  ASSUME NEW c, NEW r, NEW role, NEW u, Sig!enterRoom(c, r, role, u)
  PROVE  SP!enterRoom(c, r, role, u)
BY Zenon
   DEF Sig!enterRoom, SP!enterRoom, Sig!Without, SP!Without, Sig!LeaveFrames, SP!LeaveFrames,
       Sig!JoinFrames, SP!JoinFrames, Sig!Hear, SP!Hear, Sig!Hearers, SP!Hearers,
       Sig!hostOf, SP!hostOf, Sig!membersOf, SP!membersOf, Sig!viewersOf, SP!viewersOf,
       Sig!RoomFrameOf, SP!RoomFrameOf, Sig!SendTo, SP!SendTo, Sig!Silence, SP!Silence

LEMMA SameLeave ==
  ASSUME NEW c, Sig!leaveSignaling(c)
  PROVE  SP!leaveSignaling(c)
BY Zenon
   DEF Sig!leaveSignaling, SP!leaveSignaling, Sig!Without, SP!Without,
       Sig!LeaveFrames, SP!LeaveFrames, Sig!Hear, SP!Hear, Sig!Hearers, SP!Hearers,
       Sig!hostOf, SP!hostOf, Sig!membersOf, SP!membersOf,
       Sig!RoomFrameOf, SP!RoomFrameOf, Sig!SendTo, SP!SendTo, Sig!Silence, SP!Silence

LEMMA SameRelay ==
  ASSUME NEW c, NEW type, NEW target, Sig!relay(c, type, target)
  PROVE  SP!relay(c, type, target)
BY Zenon
   DEF Sig!relay, SP!relay, Sig!Hearers, SP!Hearers, Sig!hostOf, SP!hostOf,
       Sig!membersOf, SP!membersOf, Sig!viewersOf, SP!viewersOf,
       Sig!RoomFrameOf, SP!RoomFrameOf, Sig!SendTo, SP!SendTo, Sig!registry, SP!registry

LEMMA SameAdmissible ==
  ASSUME NEW r, NEW role, NEW u, Sig!Admissible(r, role, u)
  PROVE  SP!Admissible(r, role, u)
BY Zenon DEF Sig!Admissible, SP!Admissible, Sig!Found, SP!Found, Sig!hostOf, SP!hostOf

LEMMA SameBrowserStep ==
  ASSUME NEW c, Sig!BrowserNext(c)
  PROVE  SP!BrowserNext(c)
BY Zenon
   DEF Sig!BrowserNext, SP!BrowserNext, Sig!Connect, SP!Connect, Sig!BadJoin, SP!BadJoin,
       Sig!Join, SP!Join, Sig!JoinRefused, SP!JoinRefused, Sig!Signal, SP!Signal,
       Sig!Leave, SP!Leave, Sig!Close, SP!Close, Sig!fail, SP!fail, Sig!relay, SP!relay,
       Sig!Admissible, SP!Admissible, Sig!RefusedBecause, SP!RefusedBecause,
       Sig!Found, SP!Found, Sig!getRoom, SP!getRoom, Sig!Open, SP!Open,
       Sig!leaveSignaling, SP!leaveSignaling, Sig!registry, SP!registry,
       Sig!Role, SP!Role, Sig!Account, SP!Account, Sig!ErrorCode, SP!ErrorCode,
       Sig!enterRoom, SP!enterRoom, Sig!Without, SP!Without, Sig!LeaveFrames, SP!LeaveFrames,
       Sig!JoinFrames, SP!JoinFrames, Sig!Hear, SP!Hear, Sig!Hearers, SP!Hearers,
       Sig!hostOf, SP!hostOf, Sig!membersOf, SP!membersOf, Sig!viewersOf, SP!viewersOf,
       Sig!RoomFrameOf, SP!RoomFrameOf, Sig!SendTo, SP!SendTo, Sig!Silence, SP!Silence

LEMMA SamePresence == Reg!Spec => RP!Spec
<1>1. ASSUME Reg!Init PROVE RP!Init
  BY <1>1, Zenon DEF Reg!Init, RP!Init, Reg!NotPending, RP!NotPending
<1>2. ASSUME [Reg!Next]_(Reg!vars) PROVE [RP!Next]_(RP!vars)
  BY <1>2, Zenon
     DEF Reg!Next, RP!Next, Reg!vars, RP!vars, Reg!AgentNext, RP!AgentNext,
         Reg!TimerNext, RP!TimerNext, Reg!CommandNext, RP!CommandNext,
         Reg!Connect, RP!Connect, Reg!Hello, RP!Hello, Reg!BadHello, RP!BadHello,
         Reg!Status, RP!Status, Reg!handleHelperAck, RP!handleHelperAck, Reg!Close, RP!Close,
         Reg!HelloTimer, RP!HelloTimer, Reg!Heartbeat, RP!Heartbeat, Reg!Tick, RP!Tick,
         Reg!sendCommand, RP!sendCommand, Reg!sweepStaleHelpers, RP!sweepStaleHelpers,
         Reg!CloseAll, RP!CloseAll, Reg!isStale, RP!isStale, Reg!Connected, RP!Connected,
         Reg!Registered, RP!Registered, Reg!Open, RP!Open, Reg!clearPending, RP!clearPending,
         Reg!touchHelper, RP!touchHelper, Reg!unregisterHelper, RP!unregisterHelper,
         Reg!NotPending, RP!NotPending, Reg!presence, RP!presence, Reg!commands, RP!commands
<1> QED BY <1>1, <1>2, PTL DEF Reg!Spec, RP!Spec
-------------------------------------------------------------------------------
(* Presence.                                                                   *)

\* A helper that hosts said hello and has not had its onClose, and while its socket is open it
\* is the entry of its account: a superseded or stale helper cannot go on hosting a room.
THEOREM HostingAlwaysCurrent == Spec => []HostingHelperIsCurrent
<1>1. HostingInv /\ RP!NoOrphanHelper => HostingHelperIsCurrent
  BY DEF HostingInv, HostsAreGreeted, HostingHelperIsCurrent, RP!NoOrphanHelper,
         RP!Open, RP!Registered, Reg!Registered
<1>2. Spec => []RP!NoOrphanHelper
  BY ImplementsHelperRegistry, SamePresence, RPAssumption, RP!NeverOrphaned, PTL
     DEF PresenceUndisturbed
<1> QED BY <1>1, <1>2, HostingInit, HostingStep, PTL DEF Spec

-------------------------------------------------------------------------------
(* The room registry, with browsers and helpers in it.                         *)

\* What a helper does in a room is what a browser may do: leave, or enter as the owner's host.
LEMMA HelperIsRegistryStep ==
  ASSUME HostingType, NEW c \in Agent, HelperNext(c)
  PROVE  SP!RegistryStep
<1>1. c \in Conn
  BY DEF Conn
<1>2. ASSUME NEW r \in Room, AttachRoom(c, r)
      PROVE  SP!RegistryStep
  <2>1. SP!Admissible(r, "host", helperUser[c]) /\ SP!enterRoom(c, r, "host", helperUser[c])
    BY <1>2, SameEnter, SameAdmissible DEF AttachRoom
  <2>2. "host" \in SP!Role /\ helperUser[c] \in SP!Account
    BY DEF HostingType, SP!Role, SP!Account, Sig!Account
  <2> QED BY <1>1, <2>1, <2>2 DEF SP!RegistryStep
<1>3. ASSUME Sig!leaveSignaling(c)
      PROVE  SP!RegistryStep
  BY <1>1, <1>3, SameLeave DEF SP!RegistryStep
<1>4. ASSUME UNCHANGED <<byId, byRoom, roster>>
      PROVE  SP!RegistryStep
  BY <1>4 DEF SP!RegistryStep, SP!registry
<1> QED
  BY <1>2, <1>3, <1>4
     DEF HelperNext, DetachRoom, HelperClose, AttachRefused, RoomSignal, HelperError,
         Sig!relay, Sig!registry

\* A step of the store or of a browser is a step of Signaling.
LEMMA SignalingStepIsNext == SignalingStep => SP!Next
<1>1. \A c \in Browser : c \in Conn
  BY DEF Conn
<1> QED BY <1>1, SameStoreStep, SameBrowserStep DEF SignalingStep, SP!Next

LEMMA RegistryStepOfAll ==
  ASSUME SP!TypeOK, HostingType, [Next]_vars
  PROVE  SP!RegistryStep
<1>1. CASE SignalingStep
  BY <1>1, SignalingStepIsNext, SPAssumption, SP!NextCases
<1>2. CASE PresenceStep \/ UNCHANGED vars
  BY <1>2 DEF PresenceStep, RoomsAlone, vars, signaling, SP!RegistryStep, SP!registry
<1> QED BY <1>1, <1>2, HelperIsRegistryStep DEF Next

LEMMA HelperKeepsTypes ==
  ASSUME SP!TypeOK, HostingType, NEW c \in Agent, HelperNext(c)
  PROVE  SP!TypeOK'
<1>1. c \in Conn
  BY DEF Conn
<1>2. UNCHANGED <<conn, userOf>>
  BY DEF HelperNext, AttachRoom, AttachRefused, DetachRoom, RoomSignal, HelperError,
         HelperClose, Frame
<1>3. rooms' \in [Room -> [status : SP!RoomStatus, hostId : SP!Account]]
  <2>1. ASSUME NEW r \in Room, Sig!getRoom(r)
        PROVE  rooms' \in [Room -> [status : SP!RoomStatus, hostId : SP!Account]]
    <3> DEFINE found == [rooms[r] EXCEPT !.status = IF @ = "expired" THEN "deleted" ELSE @]
    <3>1. /\ rooms \in [Room -> [status : SP!RoomStatus, hostId : SP!Account]]
          /\ "deleted" \in SP!RoomStatus
      BY DEF SP!TypeOK, SP!RoomStatus
    <3>2. found \in [status : SP!RoomStatus, hostId : SP!Account]
      BY <3>1
    <3>3. rooms' = [rooms EXCEPT ![r] = found]
      BY <2>1 DEF Sig!getRoom
    <3> HIDE DEF found
    <3> QED BY <3>1, <3>2, <3>3
  <2>2. UNCHANGED rooms \/ \E r \in Room : Sig!getRoom(r)
    BY DEF HelperNext, AttachRoom, AttachRefused, DetachRoom, RoomSignal, HelperError, HelperClose
  <2> QED BY <2>1, <2>2 DEF SP!TypeOK
<1> DEFINE RegistryTyped ==
             /\ byId' \in [Conn -> SP!Member \cup {NoMember}]
             /\ byRoom' \in [Room -> SUBSET SP!Member]
             /\ wire' \in SP!Wire
             /\ roster' \in [Conn -> SUBSET Conn]
<1>4. RegistryTyped
  <2>1. ASSUME NEW r \in Room, AttachRoom(c, r)
        PROVE  RegistryTyped
    <3>1. SP!enterRoom(c, r, "host", helperUser[c])
      BY <2>1, SameEnter DEF AttachRoom
    <3>2. "host" \in SP!Role /\ helperUser[c] \in SP!Account
      BY DEF HostingType, SP!Role, SP!Account, Sig!Account
    <3> QED BY <1>1, <3>1, <3>2, SPAssumption, SP!enterRoomType
  <2>2. ASSUME Sig!leaveSignaling(c)
        PROVE  RegistryTyped
    BY <1>1, <2>2, SameLeave, SPAssumption, SP!leaveSignalingType
  <2>3. ASSUME wire' \in SP!Wire, UNCHANGED <<byId, byRoom, roster>>
        PROVE  RegistryTyped
    BY <2>3 DEF SP!TypeOK
  <2>4. ASSUME NEW code \in Sig!ErrorCode,
               wire' = Sig!SendTo({c}, [type |-> "error", code |-> code])
        PROVE  wire' \in SP!Wire
    <3>1. [type |-> "error", code |-> code] \in SP!Frame
      BY <2>4 DEF SP!Frame, SP!ErrorFrame, SP!ErrorCode, Sig!ErrorCode
    <3>2. wire' = SP!SendTo({c}, [type |-> "error", code |-> code])
      BY <2>4 DEF SP!SendTo, Sig!SendTo
    <3> QED BY <3>1, <3>2, SPAssumption, SP!SendToType, SP!WireType
  <2>5. ASSUME NEW type \in {"sdp", "ice"}, NEW target \in Conn \cup {NoTarget}, RoomSignal(c, type, target)
        PROVE  RegistryTyped
    <3>1. SP!relay(c, type, target)
      BY <2>5, SameRelay DEF RoomSignal
    <3>2. wire' \in SP!Wire
      BY <1>1, <3>1, SPAssumption, SP!relayType
    <3> QED BY <2>3, <3>1, <3>2 DEF SP!relay, SP!registry
  <2>6. CASE HelperError(c) \/ \E r \in Room : AttachRefused(c, r)
    <3>1. UNCHANGED <<byId, byRoom, roster>>
      BY <2>6 DEF HelperError, AttachRefused
    <3>2. \E code \in Sig!ErrorCode : wire' = Sig!SendTo({c}, [type |-> "error", code |-> code])
      BY <2>6 DEF HelperError, AttachRefused, Sig!ErrorCode
    <3> QED BY <2>3, <2>4, <3>1, <3>2
  <2>7. ASSUME wire' = Sig!Silence, UNCHANGED <<byId, byRoom, roster>>
        PROVE  RegistryTyped
    <3>1. wire' = SP!Silence
      BY <2>7 DEF SP!Silence, Sig!Silence
    <3> QED BY <2>3, <2>7, <3>1, SPAssumption, SP!SilentType
  <2> HIDE DEF RegistryTyped
  <2>8. CASE HelperClose(c)
    BY <2>2, <2>7, <2>8 DEF HelperClose
  <2> QED BY <2>1, <2>2, <2>5, <2>6, <2>8 DEF HelperNext, DetachRoom
<1> QED BY <1>2, <1>3, <1>4 DEF SP!TypeOK, SP!Wire

LEMMA TypeStep ==
  ASSUME SP!TypeOK, HostingType, [Next]_vars
  PROVE  SP!TypeOK'
<1>1. CASE SignalingStep
  BY <1>1, SignalingStepIsNext, SPAssumption, SP!TypeStep
<1>2. CASE PresenceStep
  <2>1. wire' = SP!Silence /\ UNCHANGED <<rooms, conn, userOf, byId, byRoom, roster>>
    BY <1>2 DEF PresenceStep, RoomsAlone, SP!Silence, Sig!Silence
  <2>2. wire' \in SP!Wire
    BY <2>1, SPAssumption, SP!SilentType
  <2> QED BY <2>1, <2>2 DEF SP!TypeOK, SP!Wire
<1>3. CASE UNCHANGED vars
  BY <1>3 DEF vars, signaling, SP!TypeOK
<1> QED BY <1>1, <1>2, <1>3, HelperKeepsTypes DEF Next
\* Everything the theorems below need of the registry and of the endpoint's map.
IInv == SP!Placement /\ HostingInv

LEMMA Inductive == Spec => []IInv
<1>1. Init => IInv
  <2> SUFFICES ASSUME Init PROVE IInv
    OBVIOUS
  <2>1. SP!Init
    BY SameSignalingInit DEF Init
  <2> QED
    BY <2>1, SPAssumption, SP!TypeInit, SP!RegistryOKInit, HostingInit DEF IInv, SP!Placement
<1>2. IInv /\ [Next]_vars => IInv'
  <2> SUFFICES ASSUME IInv, [Next]_vars PROVE IInv'
    OBVIOUS
  <2>1. SP!TypeOK /\ HostingType /\ SP!RegistryOK(byId, byRoom, roster)
    BY DEF IInv, SP!Placement, HostingInv
  <2>2. SP!TypeOK' /\ SP!RegistryOK(byId', byRoom', roster')
    BY <2>1, TypeStep, RegistryStepOfAll, SPAssumption, SP!RegistryOKStep
  <2> QED BY <2>2, HostingStep DEF IInv, SP!Placement
<1> QED BY <1>1, <1>2, PTL DEF Spec

\* The types of both parts and of the endpoint's map hold in the composition.
THEOREM TypeCorrect == Spec => []TypeOK
<1>1. SP!Placement => Sig!TypeOK
  BY SameSignalingTypes DEF SP!Placement
<1>2. RP!TypeOK => Reg!TypeOK
  BY DEF RP!TypeOK, Reg!TypeOK, RP!Entry, Reg!Entry, RP!Pending, Reg!Pending,
         RP!Result, Reg!Result, RP!Relayed, Reg!Relayed, RP!Ids, Reg!Ids,
         RP!NotPending, Reg!NotPending
<1>3. Spec => []RP!TypeOK
  BY ImplementsHelperRegistry, SamePresence, RPAssumption, RP!TypeCorrect, PTL
     DEF PresenceUndisturbed
<1>4. IInv /\ RP!TypeOK => TypeOK
  BY <1>1, <1>2 DEF IInv, HostingInv, HostingType, TypeOK
<1> QED BY <1>3, <1>4, Inductive, PTL

\* With hosts on either endpoint, the two maps of the registry agree, a room has one host, and
\* the frames a host was sent add up to the viewers of its room.
THEOREM RoomsAlwaysInOrder ==
  Spec => [](Sig!RegistriesAgree /\ Sig!OneHost /\ Sig!RosterExact)
<1>1. SP!Placement => SP!RegistriesAgree /\ SP!OneHost /\ SP!RosterExact
  BY SPAssumption, SP!MapsInAgreement, SP!SingleHost, SP!RostersUpToDate
<1>2. SP!RegistriesAgree => Sig!RegistriesAgree
  BY DEF SP!RegistriesAgree, Sig!RegistriesAgree
<1>3. SP!OneHost => Sig!OneHost
  BY DEF SP!OneHost, Sig!OneHost, SP!hostOf, Sig!hostOf
<1>4. SP!RosterExact => Sig!RosterExact
  BY DEF SP!RosterExact, Sig!RosterExact, SP!hostOf, Sig!hostOf, SP!viewersOf, Sig!viewersOf
<1>5. IInv => Sig!RegistriesAgree /\ Sig!OneHost /\ Sig!RosterExact
  BY <1>1, <1>2, <1>3, <1>4 DEF IInv
<1> QED BY <1>5, Inductive, PTL

\* A step puts no signal on the wire, or is a relay for a connection that is in a room, or
\* leaves the rooms alone.
LEMMA SignalSteps ==
  ASSUME IInv, [Next]_vars
  PROVE  \/ \E c \in Conn, type \in {"sdp", "ice"} : \E target : SP!relay(c, type, target)
         \/ SP!Quiet(wire')
         \/ UNCHANGED signaling
<1> USE DEF IInv, SP!Placement, HostingInv
<1>1. CASE SignalingStep
  <2>1. SP!Next
    BY <1>1, SignalingStepIsNext
  <2>2. \/ \E c \in Conn, type \in {"sdp", "ice"}, target \in Conn \cup {NoTarget} :
             SP!Signal(c, type, target)
        \/ SP!Quiet(wire')
        \/ UNCHANGED SP!vars
    BY <2>1, SPAssumption, SP!SignalCases
  <2> QED BY <2>2 DEF SP!Signal, SP!vars, signaling
<1>2. \A S, code : SP!Quiet(SP!SendTo(S, [type |-> "error", code |-> code])) /\ SP!Quiet(SP!Silence)
  <2>1. \A code : [type |-> "error", code |-> code].type \notin {"sdp", "ice"}
    OBVIOUS
  <2> QED BY <2>1, SPAssumption, SP!QuietSend
<1>3. CASE PresenceStep
  BY <1>2, <1>3 DEF PresenceStep, RoomsAlone, SP!Silence, Sig!Silence
<1>4. ASSUME NEW c \in Agent, HelperNext(c)
      PROVE  \/ \E type \in {"sdp", "ice"} : \E target : SP!relay(c, type, target)
             \/ SP!Quiet(wire')
  <2>1. c \in Conn
    BY DEF Conn
  <2>2. ASSUME NEW r \in Room, AttachRoom(c, r)
        PROVE  SP!Quiet(wire')
    <3>1. SP!enterRoom(c, r, "host", helperUser[c])
      BY <2>2, SameEnter DEF AttachRoom
    <3>2. "host" \in SP!Role /\ helperUser[c] \in SP!Account
      BY DEF HostingType, SP!Role, SP!Account, Sig!Account
    <3> QED BY <2>1, <3>1, <3>2, SPAssumption, SP!QuietEnter
  <2>3. ASSUME Sig!leaveSignaling(c)
        PROVE  SP!Quiet(wire')
    <3>1. SP!leaveSignaling(c)
      BY <2>3, SameLeave
    <3> QED BY <2>1, <3>1, SPAssumption, SP!QuietLeave DEF SP!leaveSignaling
  <2>4. CASE HelperError(c) \/ \E r \in Room : AttachRefused(c, r)
    <3>1. \E code : wire' = SP!SendTo({c}, [type |-> "error", code |-> code])
      BY <2>4 DEF HelperError, AttachRefused, SP!SendTo, Sig!SendTo
    <3> QED BY <1>2, <3>1
  <2>5. CASE HelperClose(c)
    BY <1>2, <2>3, <2>5 DEF HelperClose, SP!Silence, Sig!Silence
  <2>6. ASSUME NEW type \in {"sdp", "ice"}, NEW target \in Conn \cup {NoTarget}, RoomSignal(c, type, target)
        PROVE  SP!relay(c, type, target)
    BY <2>6, SameRelay DEF RoomSignal
  <2> QED BY <1>4, <2>2, <2>3, <2>4, <2>5, <2>6 DEF HelperNext, DetachRoom
<1>5. \A c \in Agent : c \in Conn
  BY DEF Conn
<1> QED BY <1>1, <1>3, <1>4, <1>5 DEF Next, vars

\* sdp and ice pass between host and viewer of one room, whichever endpoints they use.
THEOREM SignalsAlwaysInPair == Spec => []SignalsStayInPair
<1>1. Init => SP!SignalsStayInPair
  BY DEF Init, Sig!Init, Sig!Silence, SP!SignalsStayInPair
<1>2. IInv /\ SP!SignalsStayInPair /\ [Next]_vars => SP!SignalsStayInPair'
  <2> SUFFICES ASSUME IInv, SP!SignalsStayInPair, [Next]_vars PROVE SP!SignalsStayInPair'
    OBVIOUS
  <2>1. CASE SP!Quiet(wire')
    BY <2>1 DEF SP!Quiet, SP!SignalsStayInPair
  <2>2. ASSUME NEW c \in Conn, NEW type \in {"sdp", "ice"}, NEW target, SP!relay(c, type, target)
        PROVE  SP!SignalsStayInPair'
    BY <2>2, SPAssumption, SP!RelayInPair DEF IInv
  <2>3. CASE UNCHANGED signaling
    BY <2>3 DEF signaling, SP!SignalsStayInPair
  <2> QED BY <2>1, <2>2, <2>3, SignalSteps
<1>3. SP!SignalsStayInPair => SignalsStayInPair
  BY DEF SP!SignalsStayInPair, SignalsStayInPair, Sig!SignalsStayInPair
<1> QED BY <1>1, <1>2, <1>3, Inductive, PTL DEF Spec

\* Hosting from either endpoint implements RoomHosting: no seat is taken over, a connection is
\* in one place, and what a host knows of its audience is never out of date.
THEOREM ImplementsRoomHosting == Spec => KeepsHostingPromise
<1>1. ASSUME Init PROVE Sig!Hosting!Init
  <2>1. SP!Hosting!Init
    BY <1>1, SameSignalingInit, SPAssumption, SP!PlacesInit DEF Init
  <2> QED
    BY <2>1, Zenon
       DEF SP!Hosting!Init, Sig!Hosting!Init, SP!hostOf, Sig!hostOf, SP!viewersOf, Sig!viewersOf
<1>2. ASSUME IInv, IInv', [Next]_vars PROVE [Sig!Hosting!Next]_(Sig!Hosting!vars)
  <2>1. SP!RegistryStep
    BY <1>2, RegistryStepOfAll DEF IInv, SP!Placement, HostingInv
  <2>2. [SP!Hosting!Next]_(SP!Hosting!vars)
    BY <1>2, <2>1, SPAssumption, SP!PlacesStep DEF IInv
  <2> QED
    BY <2>2, Zenon
       DEF SP!Hosting!vars, Sig!Hosting!vars, SP!hostOf, Sig!hostOf,
           SP!viewersOf, Sig!viewersOf, SP!Hosting!Next, Sig!Hosting!Next,
           SP!Hosting!TakeSeat, Sig!Hosting!TakeSeat, SP!Hosting!Watch, Sig!Hosting!Watch,
           SP!Hosting!Depart, Sig!Hosting!Depart, SP!Hosting!SeatWithout, Sig!Hosting!SeatWithout,
           SP!Hosting!AudienceWithout, Sig!Hosting!AudienceWithout,
           SP!Hosting!HostInformed, Sig!Hosting!HostInformed
<1> QED
  BY <1>1, <1>2, Inductive, PTL
     DEF Spec, KeepsHostingPromise, Sig!KeepsHostingPromise, Sig!Hosting!Spec
==============================================================================
