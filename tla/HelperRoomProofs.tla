--------------------------- MODULE HelperRoomProofs ---------------------------
(***************************************************************************)
(* Proofs about module HelperRoom: for any number of viewers and any bound *)
(* on the commands, every invariant its run checks.                        *)
(*                                                                         *)
(* What is in flight is described by the frames themselves: by which of    *)
(* them are in a queue, in which order, and, where there is a bound to     *)
(* keep, by how many.                                                      *)
(***************************************************************************)
EXTENDS HelperRoom, FiniteSets, FiniteSetTheorems, TLAPS

AttachRoom == [type |-> "attach-room"]
DetachRoom == [type |-> "detach-room"]
Start == [type |-> "start"]
PeerLeft(v) == [type |-> "peer-left", peer |-> v]
PeerJoined(v) == [type |-> "peer-joined", peer |-> v]
AttachAck(W) == [type |-> "attach-ack", viewers |-> W]
Answer(v, n) == [type |-> "answer", peer |-> v, serial |-> n]

OfferFrame == [type : {"room-sdp"}, peer : Viewer, serial : Serial]
ServerFrame == {AttachRoom, DetachRoom} \cup OfferFrame
HelperFrame == [type : {"start", "stop"}] \cup [type : {"peer-joined", "peer-left"}, peer : Viewer]
               \cup [type : {"answer"}, peer : Viewer, serial : Serial]
               \cup [type : {"attach-ack"}, viewers : SUBSET Viewer]

\* The frames that make the helper add v.
Announcing(v) == {f \in HelperFrame : f = PeerJoined(v) \/ (f.type = "attach-ack" /\ v \in f.viewers)}

Has(s, x) == \E i \in 1..Len(s) : s[i] = x
Announced(v) == \E i \in 1..Len(toHelper) : toHelper[i] \in Announcing(v)
Count(s, S) == Cardinality({i \in 1..Len(s) : s[i] \in S})
Bit(b) == IF b THEN 1 ELSE 0

-------------------------------------------------------------------------------
(* The inductive invariant.                                                   *)

\* The shapes, the frames' among them.  Each stream was asked for, so there are not too many.
Shapes ==
  /\ page \in [Viewer -> {"outside", "inside", "gone"}]
  /\ offers \in [Viewer -> Seq(Serial)]
  /\ answered \in [Viewer -> BOOLEAN]
  /\ seat \in BOOLEAN /\ refused \in BOOLEAN /\ room \in BOOLEAN
  /\ toServer \in Seq(ServerFrame) /\ toHelper \in Seq(HelperFrame)
  /\ asked \in [commands : 0..MaxCommands, clicks : 0..MaxCommands]
  /\ streams \in Nat /\ session \in 0..streams
  /\ streams + Count(toHelper, {Start}) <= asked.commands + asked.clicks
  /\ tracked \in [Viewer -> {"none", "todo", "sent"}]
  /\ entry \in [Viewer -> Entry \cup {NoEntry}]
  /\ late \subseteq OfferFrame
  /\ failed \subseteq Viewer

\* A departure is the last the helper hears of a viewer.
Departures ==
  \A v \in Viewer : \A i \in 1..Len(toHelper) : toHelper[i] = PeerLeft(v) =>
    page[v] = "gone" /\ \A j \in i..Len(toHelper) : toHelper[j] \notin Announcing(v)

\* The offer to v of stream n has left its webrtcbin, or is about to.
Out(v, n) == Offer(v, n) \in late \/ Has(toServer, Offer(v, n)) \/ Has(offers[v], n) \/ Has(toHelper, Answer(v, n))
Settled(v) == v \in Serving /\ entry[v].signaling # "new"
Departed(v) == page[v] = "gone" /\ v \notin Serving /\ ~Announced(v)

\* An offer that is out is of a stream that has begun, and if it is the running one, the
\* webrtcbin has applied or refused it, or its viewer is gone for good.
OffersOut ==
  \A v \in Viewer, n \in Serial : Out(v, n) =>
    n <= streams /\ (n = session => Settled(v) \/ Departed(v))

\* Attaches and detaches alternate in s, and the last of them is the one the stream calls for,
\* whether it runs or is off.  A helper that is seated has to be detached before it is attached.
Within(s, i, j, x) == \E k \in i..j : s[k] = x

Alternate(s, seated, off) ==
  /\ \A i, j \in 1..Len(s) : i < j /\ s[i] = AttachRoom /\ s[j] = AttachRoom =>
       Within(s, i + 1, j - 1, DetachRoom)
  /\ seated => \A i \in 1..Len(s) : s[i] = AttachRoom => Within(s, 1, i - 1, DetachRoom)
  /\ off => /\ \A i \in 1..Len(s) : s[i] = AttachRoom => Within(s, i + 1, Len(s), DetachRoom)
            /\ seated => Within(s, 1, Len(s), DetachRoom)
  /\ ~off => \A i \in 1..Len(s) : s[i] = DetachRoom => Within(s, i + 1, Len(s), AttachRoom)

SeatInOrder ==
  /\ Alternate(toServer, seat, session = 0)
  /\ session # 0 /\ ~Has(toServer, AttachRoom) => (seat <=> ~refused)

\* A helper that keeps its seat serves the viewers in the room, or is about to be told of them.
Attended ==
  seat /\ ~Has(toServer, DetachRoom) =>
    \A v \in Inside : v \in Serving \cup failed \/ Announced(v)

\* Up to the end of the first stream: nothing before it starts, nobody before it has its seat,
\* and whoever is not in the room any more has a departure on its way.
FirstStream ==
  /\ streams = 0 => toServer = <<>> /\ ~seat
  /\ streams = 0 => \A v \in Viewer : v \notin Serving /\ ~Announced(v)
  /\ streams = 1 /\ session # 0 =>
       /\ ~Has(toServer, DetachRoom)
       /\ \A v \in Viewer : v \in Serving \/ Announced(v) =>
            seat /\ (page[v] # "inside" => Has(toHelper, PeerLeft(v)))

\* The offers that are asked of a webrtcbin, and the answers it has not taken yet.
Work(e) == IF e = NoEntry THEN 0
           ELSE Count(e.tasks, {"create"}) + Count(e.tasks, {"local"}) + Bit(e.pending)
Back(e) == IF e = NoEntry THEN 0 ELSE Count(e.tasks, {"remote"})

AnswersOf(v) == {Answer(v, n) : n \in Serial}

\* Whatever has had, or will have, the helper ask for another offer to v; and what has come back
\* from v, or may still come.
Due(v) == Work(entry[v]) + Bit(tracked[v] = "todo") + Count(toHelper, Announcing(v))
          + Count(toServer, {AttachRoom}) + Bit(page[v] = "outside" /\ seat)
Returns(v) == Back(entry[v]) + Count(toHelper, AnswersOf(v)) + Bit(~answered[v])

\* One offer for each stream, and one answer.
WorkBounded == \A v \in Viewer : Due(v) <= streams /\ Returns(v) <= 1

IInv == Shapes /\ EntriesTracked /\ Departures /\ OffersOut /\ SeatInOrder /\ Attended
        /\ FirstStream /\ WorkBounded
-------------------------------------------------------------------------------
(* Sequences: what appending to one and taking its first element changes.     *)

LEMMA Appended ==
  ASSUME NEW S, NEW s \in Seq(S), NEW x \in S
  PROVE  /\ Append(s, x) \in Seq(S)
         /\ Len(s) \in Nat /\ Len(Append(s, x)) = Len(s) + 1
         /\ \A i \in 1..Len(s) : Append(s, x)[i] = s[i]
         /\ Append(s, x)[Len(s) + 1] = x
OBVIOUS

LEMMA Taken ==
  ASSUME NEW S, NEW s \in Seq(S), s # <<>>
  PROVE  /\ Tail(s) \in Seq(S) /\ Head(s) \in S /\ Head(s) = s[1]
         /\ Len(s) \in Nat /\ Len(s) # 0 /\ Len(Tail(s)) = Len(s) - 1
         /\ \A i \in 1..(Len(s) - 1) : Tail(s)[i] = s[i + 1]
OBVIOUS

LEMMA HasAppended ==
  ASSUME NEW S, NEW s \in Seq(S), NEW x \in S, NEW y
  PROVE  Has(Append(s, x), y) <=> Has(s, y) \/ y = x
<1>1. 1..(Len(s) + 1) = 1..Len(s) \cup {Len(s) + 1}
  BY Appended
<1> QED BY <1>1, Appended DEF Has

LEMMA HasTaken ==
  ASSUME NEW S, NEW s \in Seq(S), s # <<>>, NEW y
  PROVE  Has(s, y) <=> Has(Tail(s), y) \/ y = Head(s)
<1>1. ASSUME Has(s, y) PROVE Has(Tail(s), y) \/ y = Head(s)
  <2>1. PICK i \in 1..Len(s) : s[i] = y
    BY <1>1 DEF Has
  <2>2. CASE i = 1
    BY <2>1, <2>2, Taken
  <2>3. CASE i # 1
    <3>1. i - 1 \in 1..(Len(s) - 1) /\ (i - 1) + 1 = i
      BY <2>3, Taken
    <3> QED BY <2>1, <3>1, Taken DEF Has
  <2> QED BY <2>2, <2>3
<1>2. ASSUME Has(Tail(s), y) PROVE Has(s, y)
  <2>1. PICK i \in 1..(Len(s) - 1) : s[i + 1] = y
    BY <1>2, Taken DEF Has
  <2>2. i + 1 \in 1..Len(s)
    BY Taken
  <2> QED BY <2>1, <2>2 DEF Has
<1>3. Has(s, Head(s))
  <2>1. 1 \in 1..Len(s)
    BY Taken
  <2> QED BY <2>1, Taken DEF Has
<1> QED BY <1>1, <1>2, <1>3

LEMMA HasNothing == \A y : ~Has(<<>>, y)
BY DEF Has

LEMMA CountType ==
  ASSUME NEW S, NEW s \in Seq(S), NEW A
  PROVE  /\ Count(s, A) \in Nat
         /\ IsFiniteSet({i \in 1..Len(s) : s[i] \in A})
<1>1. IsFiniteSet(1..Len(s))
  BY FS_Interval, Appended
<1>2. IsFiniteSet({i \in 1..Len(s) : s[i] \in A})
  BY <1>1, FS_Subset
<1> QED BY <1>2, FS_CardinalityType DEF Count

LEMMA CountNothing == \A A : Count(<<>>, A) = 0
<1>1. \A A : {i \in 1..Len(<<>>) : <<>>[i] \in A} = {}
  OBVIOUS
<1> QED BY <1>1, FS_EmptySet DEF Count

LEMMA CountAppended ==
  ASSUME NEW S, NEW s \in Seq(S), NEW x \in S, NEW A
  PROVE  Count(Append(s, x), A) = Count(s, A) + Bit(x \in A)
<1> DEFINE C == {i \in 1..Len(s) : s[i] \in A}
           D == {i \in 1..Len(Append(s, x)) : Append(s, x)[i] \in A}
<1>1. IsFiniteSet(C) /\ Cardinality(C) \in Nat
  BY CountType DEF Count
<1>2. 1..Len(Append(s, x)) = 1..Len(s) \cup {Len(s) + 1}
  BY Appended
<1>3. D = IF x \in A THEN C \cup {Len(s) + 1} ELSE C
  BY <1>2, Appended
<1>4. Len(s) + 1 \notin C
  BY Appended
<1> HIDE DEF C, D
<1>5. x \in A => Cardinality(D) = Cardinality(C) + 1
  BY <1>1, <1>3, <1>4, FS_AddElement
<1>6. x \notin A => Cardinality(D) = Cardinality(C) + 0
  BY <1>1, <1>3
<1> QED BY <1>5, <1>6 DEF Count, Bit, C, D

LEMMA CountTaken ==
  ASSUME NEW S, NEW s \in Seq(S), s # <<>>, NEW A
  PROVE  Count(s, A) = Count(Tail(s), A) + Bit(Head(s) \in A)
<1> DEFINE C == {i \in 1..Len(Tail(s)) : Tail(s)[i] \in A}
           D == {i \in 1..Len(s) : s[i] \in A}
           E == D \ {1}
<1>1. IsFiniteSet(C) /\ IsFiniteSet(D)
  <2>1. IsFiniteSet(D)
    BY CountType
  <2>2. Tail(s) \in Seq(S)
    BY Taken
  <2>3. IsFiniteSet(C)
    BY <2>2, CountType
  <2> QED BY <2>1, <2>3
<1>2. \A i \in E : i - 1 \in C
  <2> TAKE i \in E
  <2>1. i - 1 \in 1..(Len(s) - 1) /\ (i - 1) + 1 = i
    BY Taken
  <2> QED BY <2>1, Taken
<1>3. \A i \in C : i + 1 \in E /\ (i + 1) - 1 = i
  BY Taken
<1> DEFINE f == [i \in E |-> i - 1]
<1>4. f \in Bijection(E, C)
  <2>1. f \in [E -> C]
    BY <1>2
  <2>2. \A i, j \in E : f[i] = f[j] => i = j
    <3>1. \A i \in E : i \in Nat
      BY Taken
    <3> QED BY <3>1
  <2>3. \A c \in C : \E i \in E : f[i] = c
    BY <1>3
  <2> QED BY <2>1, <2>2, <2>3, Zenon DEF Bijection, Injection, Surjection, IsInjective
<1>5. IsFiniteSet(E)
  BY <1>1, FS_Subset
<1> HIDE DEF C, D, E, f
<1>6. Cardinality(E) = Cardinality(C)
  BY <1>4, <1>5, <1>1, FS_Bijection DEF ExistsBijection
<1>7. Head(s) \in A <=> 1 \in D
  BY Taken DEF D
<1>8. Cardinality(D) \in Nat /\ Cardinality(C) \in Nat
  BY <1>1, FS_CardinalityType
<1>9. 1 \in D => Cardinality(D) = Cardinality(C) + 1
  <2>1. 1 \in D => Cardinality(E) = Cardinality(D) - 1
    BY <1>1, FS_RemoveElement DEF E
  <2> QED BY <2>1, <1>6, <1>8
<1>10. 1 \notin D => Cardinality(D) = Cardinality(C) + 0
  <2>1. 1 \notin D => E = D
    BY DEF E
  <2> QED BY <2>1, <1>6, <1>8
<1> QED BY <1>7, <1>9, <1>10 DEF Count, Bit, C, D

-------------------------------------------------------------------------------
(* Frames.                                                                    *)

LEMMA HelperFrames ==
  /\ Start \in HelperFrame /\ [type |-> "stop"] \in HelperFrame
  /\ \A v \in Viewer : PeerJoined(v) \in HelperFrame /\ PeerLeft(v) \in HelperFrame
  /\ \A v \in Viewer, n \in Serial : Answer(v, n) \in HelperFrame
  /\ \A W \in SUBSET Viewer : AttachAck(W) \in HelperFrame
BY DEF HelperFrame, Start, PeerJoined, PeerLeft, Answer, AttachAck

LEMMA HelperFrameKinds ==
  ASSUME NEW f \in HelperFrame
  PROVE  /\ f.type \in {"start", "stop", "peer-joined", "peer-left", "answer", "attach-ack"}
         /\ f.type = "start" => f = Start
         /\ f.type = "stop" => f = [type |-> "stop"]
         /\ f.type = "peer-joined" => f.peer \in Viewer /\ f = PeerJoined(f.peer)
         /\ f.type = "peer-left" => f.peer \in Viewer /\ f = PeerLeft(f.peer)
         /\ f.type = "answer" => f.peer \in Viewer /\ f.serial \in Serial /\ f = Answer(f.peer, f.serial)
         /\ f.type = "attach-ack" => f.viewers \in SUBSET Viewer /\ f = AttachAck(f.viewers)
BY DEF HelperFrame, Start, PeerJoined, PeerLeft, Answer, AttachAck

LEMMA WhoIsAnnounced ==
  ASSUME NEW v \in Viewer
  PROVE  /\ \A w \in Viewer : PeerJoined(w) \in Announcing(v) <=> w = v
         /\ \A W \in SUBSET Viewer : AttachAck(W) \in Announcing(v) <=> v \in W
         /\ \A w \in Viewer : PeerLeft(w) \notin Announcing(v)
         /\ \A w \in Viewer, n \in Serial : Answer(w, n) \notin Announcing(v)
         /\ Start \notin Announcing(v) /\ [type |-> "stop"] \notin Announcing(v)
<1>1. \A w \in Viewer : PeerJoined(w) \in Announcing(v) <=> w = v
  BY HelperFrames DEF Announcing, PeerJoined
<1>2. \A W \in SUBSET Viewer : AttachAck(W) \in Announcing(v) <=> v \in W
  BY HelperFrames DEF Announcing, AttachAck, PeerJoined
<1>3. \A f \in Announcing(v) : f.type \in {"peer-joined", "attach-ack"}
  BY DEF Announcing, PeerJoined
<1> QED BY <1>1, <1>2, <1>3 DEF PeerLeft, Answer, Start

\* Frames of two kinds differ, and so do two of a kind with different contents.
LEMMA FramesDiffer ==
  /\ AttachRoom # DetachRoom
  /\ \A v, n : Offer(v, n) # AttachRoom /\ Offer(v, n) # DetachRoom
  /\ \A v, n, w, m : Offer(v, n) = Offer(w, m) => v = w /\ n = m
  /\ \A v, w : PeerLeft(v) = PeerLeft(w) => v = w
  /\ \A v, w : PeerLeft(v) # PeerJoined(w)
  /\ \A v, W : PeerLeft(v) # AttachAck(W)
  /\ \A v, w, n : PeerLeft(v) # Answer(w, n)
  /\ \A v, n, w, m : Answer(v, n) = Answer(w, m) => v = w /\ n = m
  /\ \A v, w, n : PeerJoined(v) # Answer(w, n)
  /\ \A v, n, W : Answer(v, n) # AttachAck(W)
  /\ \A v : PeerLeft(v) # Start /\ PeerJoined(v) # Start /\ PeerLeft(v) # [type |-> "stop"]
  /\ \A v, n : Answer(v, n) # Start /\ Answer(v, n) # [type |-> "stop"]
  /\ \A W : AttachAck(W) # Start
  /\ Start # [type |-> "stop"]
BY DEF AttachRoom, DetachRoom, Offer, PeerLeft, PeerJoined, AttachAck, Answer, Start

LEMMA ServerFrames ==
  /\ AttachRoom \in ServerFrame /\ DetachRoom \in ServerFrame
  /\ \A v \in Viewer, n \in Serial : Offer(v, n) \in OfferFrame
  /\ OfferFrame \subseteq ServerFrame
BY DEF ServerFrame, OfferFrame, Offer

LEMMA ServerFrameKinds ==
  ASSUME NEW f \in ServerFrame
  PROVE  /\ f.type = "attach-room" => f = AttachRoom
         /\ f.type = "detach-room" => f = DetachRoom
         /\ f.type = "room-sdp" => f.peer \in Viewer /\ f.serial \in Serial /\ f = Offer(f.peer, f.serial)
BY DEF ServerFrame, OfferFrame, Offer, AttachRoom, DetachRoom
-------------------------------------------------------------------------------
(* The steps, by what they do to the stream and to the frames in flight.      *)

\* The server handles f, or the thread of the helper does.
Arrives(f) ==
  /\ toServer # <<>> /\ f = Head(toServer) /\ toServer' = Tail(toServer)
  /\ UNCHANGED <<page, answered, asked, stream, tracked, entry, late, failed>>
Hears(f) ==
  /\ toHelper # <<>> /\ f = Head(toHelper) /\ toHelper' = Tail(toHelper)
  /\ UNCHANGED <<viewers, server, asked>>
Clicked ==
  /\ asked.clicks < MaxCommands /\ asked' = [asked EXCEPT !.clicks = @ + 1]
  /\ UNCHANGED <<viewers, server, toHelper>>

Attaching == Arrives(AttachRoom) /\ attachHelperToRoom
Refusing == Arrives(AttachRoom) /\ refuseAttach
Detaching == Arrives(DetachRoom) /\ seat' = FALSE /\ UNCHANGED <<refused, toHelper, offers>>
Relaying(v, n) == Arrives(Offer(v, n)) /\ relayOffer(v, n)

ToStop == IF session = 0 THEN toServer ELSE Append(toServer, DetachRoom)

Stopping ==
  /\ Hears(Start) \/ Hears([type |-> "stop"]) \/ Clicked
  /\ DropAll
  /\ session' = 0 /\ streams' = streams /\ room' \in BOOLEAN
  /\ toServer' = ToStop

Starting ==
  /\ Hears(Start) \/ Clicked
  /\ DropAll
  /\ session' = streams + 1 /\ streams' = streams + 1 /\ room' = TRUE
  /\ toServer' = Append(ToStop, AttachRoom)

Announces(f, S) == f = AttachAck(S) \/ \E v \in Viewer : S = {v} /\ f = PeerJoined(v)
Adding(f, S) == Hears(f) /\ Announces(f, S) /\ add_viewers(S) /\ UNCHANGED <<toServer, stream, late>>
Removing(v) == Hears(PeerLeft(v)) /\ remove_viewer(v) /\ UNCHANGED <<toServer, stream>>
Answered(v, n) ==
  /\ Hears(Answer(v, n))
  /\ entry' = IF v \in Serving THEN Enqueue(v, "remote") ELSE entry
  /\ UNCHANGED <<toServer, stream, tracked, late, failed>>

LEMMA ServerSteps ==
  ASSUME Shapes, ServerStep
  PROVE  Attaching \/ Refusing \/ Detaching \/ \E v \in Viewer, n \in Serial : Relaying(v, n)
<1>1. Head(toServer) \in ServerFrame
  BY Taken DEF Shapes, ServerStep
<1>2. CASE Head(toServer).type = "attach-room"
  BY <1>1, <1>2, ServerFrameKinds DEF ServerStep, Arrives, Attaching, Refusing
<1>3. CASE Head(toServer).type = "detach-room"
  BY <1>1, <1>3, ServerFrameKinds DEF ServerStep, Arrives, Detaching
<1>4. CASE Head(toServer).type = "room-sdp"
  BY <1>1, <1>4, ServerFrameKinds DEF ServerStep, Arrives, Relaying
<1> QED BY <1>2, <1>3, <1>4 DEF ServerStep

LEMMA StreamSteps ==
  ASSUME Shapes
  PROVE  /\ stop_stream /\ (Hears(Start) \/ Hears([type |-> "stop"]) \/ Clicked) => Stopping
         /\ start_stream /\ (Hears(Start) \/ Clicked) => Starting \/ Stopping
BY DEF Shapes, stop_stream, start_stream, Starting, Stopping, ToStop, AttachRoom, DetachRoom

LEMMA ThreadSteps ==
  ASSUME Shapes, handle \/ handle_local
  PROVE  \/ Starting \/ Stopping
         \/ \E S \in SUBSET Viewer : \E f \in HelperFrame : Adding(f, S)
         \/ \E v \in Viewer : Removing(v)
         \/ \E v \in Viewer, n \in Serial : Answered(v, n)
<1>1. CASE handle_local
  <2>1. Clicked
    BY <1>1 DEF handle_local, Clicked
  <2>2. stop_stream \/ start_stream
    BY <1>1 DEF handle_local
  <2> QED BY <2>1, <2>2, StreamSteps
<1>2. CASE handle
  <2> DEFINE f == Head(toHelper)
  <2>1. f \in HelperFrame /\ Hears(f)
    BY <1>2, Taken DEF Shapes, handle, Hears
  <2>2. CASE f.type = "start" /\ start_stream
    BY <2>1, <2>2, HelperFrameKinds, StreamSteps
  <2>3. CASE f.type = "stop" /\ stop_stream
    BY <2>1, <2>3, HelperFrameKinds, StreamSteps
  <2>4. CASE f.type = "attach-ack" /\ add_viewers(f.viewers) /\ UNCHANGED <<toServer, stream, late>>
    BY <2>1, <2>4, HelperFrameKinds DEF Adding, Announces
  <2>5. CASE f.type = "peer-joined" /\ add_viewers({f.peer}) /\ UNCHANGED <<toServer, stream, late>>
    BY <2>1, <2>5, HelperFrameKinds DEF Adding, Announces
  <2>6. CASE f.type = "peer-left" /\ remove_viewer(f.peer) /\ UNCHANGED <<toServer, stream>>
    BY <2>1, <2>6, HelperFrameKinds DEF Removing
  <2>7. CASE /\ f.type = "answer"
             /\ entry' = IF f.peer \in Serving THEN Enqueue(f.peer, "remote") ELSE entry
             /\ UNCHANGED <<toServer, stream, tracked, late, failed>>
    BY <2>1, <2>7, HelperFrameKinds DEF Answered
  <2> QED BY <1>2, <2>2, <2>3, <2>4, <2>5, <2>6, <2>7 DEF handle
<1> QED BY <1>1, <1>2
-------------------------------------------------------------------------------
(* The entries.                                                               *)

LEMMA EntryFields ==
  ASSUME NEW e \in Entry
  PROVE  /\ e # NoEntry /\ e.serial \in Serial /\ e.tasks \in Seq(Task)
         /\ e.pending \in BOOLEAN /\ e.signaling \in {"new", "refused", "have-local-offer", "stable"}
BY RoomAssumption DEF Entry

\* An entry whose tasks, pending offer or signaling state change is an entry of the same stream.
LEMMA TasksChanged ==
  ASSUME NEW e \in Entry, NEW t \in Seq(Task)
  PROVE  \E d \in Entry : /\ d = [e EXCEPT !.tasks = t] /\ d.tasks = t /\ d.serial = e.serial
                          /\ d.pending = e.pending /\ d.signaling = e.signaling
<1>1. [e EXCEPT !.tasks = t] \in Entry
  BY DEF Entry
<1>2. /\ [e EXCEPT !.tasks = t].tasks = t /\ [e EXCEPT !.tasks = t].serial = e.serial
      /\ [e EXCEPT !.tasks = t].pending = e.pending /\ [e EXCEPT !.tasks = t].signaling = e.signaling
  BY DEF Entry
<1> QED BY <1>1, <1>2

LEMMA PendingChanged ==
  ASSUME NEW e \in Entry, NEW b \in BOOLEAN
  PROVE  \E d \in Entry : /\ d = [e EXCEPT !.pending = b] /\ d.pending = b /\ d.serial = e.serial
                          /\ d.tasks = e.tasks /\ d.signaling = e.signaling
<1>1. [e EXCEPT !.pending = b] \in Entry
  BY DEF Entry
<1>2. /\ [e EXCEPT !.pending = b].pending = b /\ [e EXCEPT !.pending = b].serial = e.serial
      /\ [e EXCEPT !.pending = b].tasks = e.tasks /\ [e EXCEPT !.pending = b].signaling = e.signaling
  BY DEF Entry
<1> QED BY <1>1, <1>2

LEMMA SignalingChanged ==
  ASSUME NEW e \in Entry, NEW s \in {"new", "refused", "have-local-offer", "stable"}
  PROVE  \E d \in Entry : /\ d = [e EXCEPT !.signaling = s] /\ d.signaling = s /\ d.serial = e.serial
                          /\ d.tasks = e.tasks /\ d.pending = e.pending
<1>1. [e EXCEPT !.signaling = s] \in Entry
  BY DEF Entry
<1>2. /\ [e EXCEPT !.signaling = s].signaling = s /\ [e EXCEPT !.signaling = s].serial = e.serial
      /\ [e EXCEPT !.signaling = s].tasks = e.tasks /\ [e EXCEPT !.signaling = s].pending = e.pending
  BY DEF Entry
<1> QED BY <1>1, <1>2

LEMMA EntriesServing ==
  ASSUME Shapes
  PROVE  \A v \in Viewer : /\ v \in Serving <=> entry[v] \in Entry
                           /\ v \notin Serving <=> entry[v] = NoEntry
BY RoomAssumption DEF Shapes, Serving

\* What a webrtcbin does when it works off a task.
LEMMA TaskSteps ==
  ASSUME Shapes, NEW v \in Viewer, RunTask(v)
  PROVE  /\ v \in Serving /\ entry[v] \in Entry /\ entry[v].tasks # <<>>
         /\ \E e \in Entry :
              /\ entry' = [entry EXCEPT ![v] = e]
              /\ e.serial = entry[v].serial /\ e.tasks = Tail(entry[v].tasks)
              /\ \/ /\ Head(entry[v].tasks) = "create" /\ e.signaling = entry[v].signaling
                    /\ toServer' = toServer
                    /\ \/ e.pending = TRUE /\ failed' = failed
                       \/ e.pending = entry[v].pending /\ failed' = failed \cup {v}
                 \/ /\ Head(entry[v].tasks) = "local" /\ e.pending = entry[v].pending
                    /\ \/ /\ e.signaling # "new" /\ failed' = failed
                          /\ toServer' = Append(toServer, Offer(v, e.serial))
                       \/ /\ e.signaling = entry[v].signaling /\ failed' = failed \cup {v}
                          /\ toServer' = toServer
                 \/ /\ Head(entry[v].tasks) = "remote"
                    /\ entry[v].signaling # "new" => e.signaling # "new"
                    /\ toServer' = toServer
                    /\ e.pending = entry[v].pending /\ failed' = failed
<1>1. v \in Serving /\ entry[v] \in Entry /\ entry[v].tasks # <<>>
  BY EntriesServing DEF RunTask
<1> DEFINE done == [entry[v] EXCEPT !.tasks = Tail(@)]
<1>2. Tail(entry[v].tasks) \in Seq(Task)
  BY <1>1, EntryFields, Taken
<1>3. PICK d \in Entry : /\ d = done /\ d.tasks = Tail(entry[v].tasks) /\ d.serial = entry[v].serial
                         /\ d.pending = entry[v].pending /\ d.signaling = entry[v].signaling
  BY <1>1, <1>2, TasksChanged
<1> HIDE DEF done
<1>4. ASSUME Head(entry[v].tasks) = "create", created(v, d)
      PROVE  \E e \in Entry :
               /\ entry' = [entry EXCEPT ![v] = e] /\ toServer' = toServer
               /\ e.serial = d.serial /\ e.tasks = d.tasks /\ e.signaling = d.signaling
               /\ \/ e.pending = TRUE /\ failed' = failed
                  \/ e.pending = d.pending /\ failed' = failed \cup {v}
  <2>1. PICK e \in Entry : /\ e = [d EXCEPT !.pending = TRUE] /\ e.pending = TRUE
                           /\ e.serial = d.serial /\ e.tasks = d.tasks /\ e.signaling = d.signaling
    BY PendingChanged
  <2> QED BY <1>4, <2>1 DEF created
<1>5. ASSUME applied(v, d)
      PROVE  \E e \in Entry :
               /\ entry' = [entry EXCEPT ![v] = e]
               /\ e.serial = d.serial /\ e.tasks = d.tasks /\ e.pending = d.pending
               /\ \/ /\ e.signaling # "new" /\ failed' = failed
                     /\ toServer' = Append(toServer, Offer(v, e.serial))
                  \/ /\ e.signaling = d.signaling /\ failed' = failed \cup {v} /\ toServer' = toServer
  <2>1. PICK x \in Entry : /\ x = [d EXCEPT !.signaling = "have-local-offer"]
                           /\ x.signaling = "have-local-offer" /\ x.serial = d.serial
                           /\ x.tasks = d.tasks /\ x.pending = d.pending
    BY SignalingChanged
  <2>2. PICK y \in Entry : /\ y = [d EXCEPT !.signaling = "refused"]
                           /\ y.signaling = "refused" /\ y.serial = d.serial
                           /\ y.tasks = d.tasks /\ y.pending = d.pending
    BY SignalingChanged
  <2>3. d.signaling # "new" => d = [d EXCEPT !.signaling = d.signaling]
    BY DEF Entry
  <2>4. \/ /\ \/ entry' = [entry EXCEPT ![v] = x]
              \/ d.signaling = "new" /\ entry' = [entry EXCEPT ![v] = y]
              \/ d.signaling # "new" /\ entry' = [entry EXCEPT ![v] = d]
           /\ toServer' = Append(toServer, Offer(v, d.serial)) /\ failed' = failed
        \/ entry' = [entry EXCEPT ![v] = d] /\ toServer' = toServer /\ failed' = failed \cup {v}
    BY <1>5, <2>1, <2>2, <2>3 DEF applied
  <2> QED BY <2>1, <2>2, <2>4
<1>6. ASSUME accepted(v, d)
      PROVE  \E e \in Entry :
               /\ entry' = [entry EXCEPT ![v] = e] /\ toServer' = toServer
               /\ e.serial = d.serial /\ e.tasks = d.tasks /\ (d.signaling # "new" => e.signaling # "new")
               /\ e.pending = d.pending /\ failed' = failed
  <2>1. PICK e \in Entry : /\ e = [d EXCEPT !.signaling = "stable"]
                           /\ e.signaling = "stable" /\ e.serial = d.serial
                           /\ e.tasks = d.tasks /\ e.pending = d.pending
    BY SignalingChanged
  <2> QED BY <1>6, <2>1 DEF accepted
<1>7. \/ Head(entry[v].tasks) = "create" /\ created(v, d)
      \/ Head(entry[v].tasks) = "local" /\ applied(v, d)
      \/ Head(entry[v].tasks) = "remote" /\ accepted(v, d)
  BY <1>3 DEF RunTask, done
<1>8. CASE Head(entry[v].tasks) = "create" /\ created(v, d)
  BY <1>1, <1>3, <1>4, <1>8
<1>9. CASE Head(entry[v].tasks) = "local" /\ applied(v, d)
  BY <1>1, <1>3, <1>5, <1>9
<1>10. CASE Head(entry[v].tasks) = "remote" /\ accepted(v, d)
  BY <1>1, <1>3, <1>6, <1>10
<1> QED BY <1>7, <1>8, <1>9, <1>10

LEMMA PollEntries ==
  ASSUME Shapes, poll_negotiations
  PROVE  \A v \in Viewer :
           IF v \in Serving
           THEN /\ entry'[v] \in Entry /\ entry'[v].serial = entry[v].serial
                /\ entry'[v].signaling = entry[v].signaling
                /\ \E s \in {<<>>, <<"create">>}, t \in {<<>>, <<"local">>} :
                     /\ entry'[v].tasks = (entry[v].tasks \o s) \o t
                     /\ s = <<"create">> <=> tracked[v] = "todo"
                     /\ t = <<"local">> <=> entry[v].pending
                     /\ ~entry'[v].pending
           ELSE entry'[v] = NoEntry
<1> SUFFICES ASSUME NEW v \in Viewer
             PROVE  IF v \in Serving
                    THEN /\ entry'[v] \in Entry /\ entry'[v].serial = entry[v].serial
                         /\ entry'[v].signaling = entry[v].signaling
                         /\ \E s \in {<<>>, <<"create">>}, t \in {<<>>, <<"local">>} :
                              /\ entry'[v].tasks = (entry[v].tasks \o s) \o t
                              /\ s = <<"create">> <=> tracked[v] = "todo"
                              /\ t = <<"local">> <=> entry[v].pending
                              /\ ~entry'[v].pending
                    ELSE entry'[v] = NoEntry
  OBVIOUS
<1>1. CASE v \notin Serving
  BY <1>1, EntriesServing DEF poll_negotiations, NeedOffer, Pending
<1>2. CASE v \in Serving
  <2>1. entry[v] \in Entry
    BY <1>2, EntriesServing
  <2>2. PICK s \in {<<>>, <<"create">>} : s = IF v \in NeedOffer THEN <<"create">> ELSE <<>>
    OBVIOUS
  <2>3. PICK t \in {<<>>, <<"local">>} : t = IF v \in Pending THEN <<"local">> ELSE <<>>
    OBVIOUS
  <2>4. /\ s = <<"create">> <=> tracked[v] = "todo"
        /\ t = <<"local">> <=> entry[v].pending
    BY <1>2, <2>1, <2>2, <2>3, EntryFields DEF NeedOffer, Pending
  <2>5. entry[v].tasks \in Seq(Task) /\ s \in Seq(Task) /\ t \in Seq(Task)
    <3>1. <<>> \in Seq(Task) /\ <<"create">> \in Seq(Task) /\ <<"local">> \in Seq(Task)
      BY DEF Task
    <3> QED BY <2>1, <3>1, EntryFields
  <2>6. (entry[v].tasks \o s) \o t \in Seq(Task)
    BY <2>5
  <2>7. CASE v \in NeedOffer \cup Pending
    <3>1. PICK d \in Entry : /\ d = [entry[v] EXCEPT !.pending = FALSE] /\ d.pending = FALSE
                             /\ d.serial = entry[v].serial /\ d.tasks = entry[v].tasks
                             /\ d.signaling = entry[v].signaling
      BY <2>1, PendingChanged
    <3>2. PICK e \in Entry : /\ e = [d EXCEPT !.tasks = (entry[v].tasks \o s) \o t]
                             /\ e.tasks = (entry[v].tasks \o s) \o t /\ e.pending = d.pending
                             /\ e.serial = d.serial /\ e.signaling = d.signaling
      BY <2>6, TasksChanged
    <3>3. entry'[v] = [entry[v] EXCEPT !.pending = FALSE, !.tasks = (@ \o s) \o t]
      BY <2>2, <2>3, <2>7 DEF poll_negotiations
    <3>4. entry'[v] = e
      BY <2>1, <3>1, <3>2, <3>3 DEF Entry
    <3> QED BY <1>2, <2>4, <3>1, <3>2, <3>4
  <2>8. CASE v \notin NeedOffer \cup Pending
    <3>1. entry'[v] = entry[v] /\ s = <<>> /\ t = <<>>
      BY <2>2, <2>3, <2>8 DEF poll_negotiations
    <3>2. entry[v].tasks = (entry[v].tasks \o s) \o t
      BY <2>5, <3>1
    <3>3. ~entry[v].pending
      BY <1>2, <2>8 DEF Pending
    <3> QED BY <1>2, <2>1, <2>4, <3>1, <3>2, <3>3
  <2> QED BY <2>7, <2>8
<1> QED BY <1>1, <1>2

\* An answer is queued for the webrtcbin, if there is one.
LEMMA AnswerEntries ==
  ASSUME Shapes, NEW w \in Viewer, NEW n \in Serial, Answered(w, n)
  PROVE  \A v \in Viewer :
           IF v \in Serving
           THEN /\ entry'[v] \in Entry /\ entry'[v].serial = entry[v].serial
                /\ entry'[v].signaling = entry[v].signaling
                /\ entry'[v].pending = entry[v].pending
                /\ entry'[v].tasks = IF v = w THEN Append(entry[v].tasks, "remote") ELSE entry[v].tasks
           ELSE entry'[v] = NoEntry
<1>1. CASE w \notin Serving
  BY <1>1, EntriesServing DEF Answered
<1>2. CASE w \in Serving
  <2>1. entry[w] \in Entry /\ Append(entry[w].tasks, "remote") \in Seq(Task)
    BY <1>2, EntriesServing, EntryFields DEF Task
  <2>2. PICK e \in Entry : /\ e = [entry[w] EXCEPT !.tasks = Append(entry[w].tasks, "remote")]
                           /\ e.tasks = Append(entry[w].tasks, "remote") /\ e.pending = entry[w].pending
                           /\ e.serial = entry[w].serial /\ e.signaling = entry[w].signaling
    <3>1. PICK t \in Seq(Task) : t = Append(entry[w].tasks, "remote")
      BY <2>1
    <3>2. PICK d \in Entry, b \in Entry :
            /\ b = entry[w] /\ d = [b EXCEPT !.tasks = t] /\ d.tasks = t
            /\ d.serial = b.serial /\ d.pending = b.pending /\ d.signaling = b.signaling
      BY <2>1, TasksChanged
    <3> QED BY <3>1, <3>2
  <2>3. entry' = [entry EXCEPT ![w] = e]
    BY <1>2, <2>1, <2>2 DEF Answered, Enqueue, Shapes
  <2> QED BY <1>2, <2>2, <2>3, EntriesServing DEF Shapes
<1> QED BY <1>1, <1>2

\* So these steps keep the entries there are, and no others.
LEMMA KeptEntries ==
  ASSUME Shapes,
         \/ \E v \in Viewer : RunTask(v)
         \/ poll_negotiations
         \/ \E v \in Viewer, n \in Serial : Answered(v, n)
  PROVE  /\ entry' \in [Viewer -> Entry \cup {NoEntry}]
         /\ Serving' = Serving
         /\ \A v \in Serving : /\ entry'[v].serial = entry[v].serial
                               /\ entry[v].signaling # "new" => entry'[v].signaling # "new"
<1>1. /\ DOMAIN entry' = Viewer /\ entry' = [v \in DOMAIN entry' |-> entry'[v]]
      /\ \A v \in Viewer :
           IF v \in Serving
           THEN /\ entry'[v] \in Entry /\ entry'[v].serial = entry[v].serial
                /\ entry[v].signaling # "new" => entry'[v].signaling # "new"
           ELSE entry'[v] = NoEntry
  <2>1. CASE poll_negotiations
    BY <2>1, PollEntries DEF poll_negotiations
  <2>2. CASE \E v \in Viewer, n \in Serial : Answered(v, n)
    <3>1. /\ DOMAIN entry' = Viewer /\ entry' = [v \in DOMAIN entry' |-> entry'[v]]
      BY <2>2 DEF Answered, Enqueue, Shapes
    <3> QED BY <2>2, <3>1, AnswerEntries
  <2>3. ASSUME NEW w \in Viewer, RunTask(w)
        PROVE  /\ DOMAIN entry' = Viewer /\ entry' = [v \in DOMAIN entry' |-> entry'[v]]
               /\ \A v \in Viewer :
                    IF v \in Serving
                    THEN /\ entry'[v] \in Entry /\ entry'[v].serial = entry[v].serial
                         /\ entry[v].signaling # "new" => entry'[v].signaling # "new"
                    ELSE entry'[v] = NoEntry
    <3>1. PICK e \in Entry : /\ entry' = [entry EXCEPT ![w] = e] /\ e.serial = entry[w].serial
                             /\ entry[w].signaling # "new" => e.signaling # "new"
      BY <2>3, TaskSteps
    <3> QED BY <2>3, <3>1, EntriesServing DEF Shapes, RunTask
  <2> QED BY <2>1, <2>2, <2>3
<1>2. \A v \in Viewer : entry'[v] # NoEntry <=> v \in Serving
  BY <1>1, EntryFields
<1> QED BY <1>1, <1>2 DEF Serving
-------------------------------------------------------------------------------
(* The shapes.                                                                *)

LEMMA StreamsAreSerials ==
  ASSUME Shapes
  PROVE  streams \in Serial \cup {0} /\ session \in Serial \cup {0}
<1>1. Count(toHelper, {Start}) \in Nat
  BY CountType DEF Shapes
<1> QED BY <1>1, RoomAssumption DEF Shapes, Serial

LEMMA OfferShape ==
  ASSUME NEW v \in Viewer, NEW n \in Serial
  PROVE  Offer(v, n) \in OfferFrame
BY ServerFrames

LEMMA OutliveShape ==
  ASSUME Shapes, NEW S, Outlive(S)
  PROVE  /\ late' \subseteq OfferFrame
         /\ \A o \in late' : o \in late \/ \E v \in S \cap Serving : o = Offer(v, entry[v].serial)
<1>1. \A o \in late' : o \in late \/ \E v \in S \cap Serving : o = Offer(v, entry[v].serial)
  BY DEF Outlive
<1>2. \A v \in Serving : v \in Viewer /\ entry[v].serial \in Serial
  BY EntriesServing, EntryFields DEF Serving
<1> QED BY <1>1, <1>2, OfferShape DEF Shapes

\* A frame that is handled was counted, and so was what is left.
LEMMA StartsTaken ==
  ASSUME Shapes, NEW f, Hears(f)
  PROVE  /\ f \in HelperFrame /\ toHelper' \in Seq(HelperFrame)
         /\ Count(toHelper', {Start}) \in Nat
         /\ Count(toHelper, {Start}) = Count(toHelper', {Start}) + Bit(f \in {Start})
BY Taken, CountTaken, CountType DEF Shapes, Hears

LEMMA StartsAppended ==
  ASSUME Shapes, NEW f \in HelperFrame, toHelper' = Append(toHelper, f)
  PROVE  /\ toHelper' \in Seq(HelperFrame)
         /\ Count(toHelper', {Start}) = Count(toHelper, {Start}) + Bit(f \in {Start})
BY Appended, CountAppended DEF Shapes

\* What the viewer pages and the server do to the frames for the helper.
LEMMA FrameAdded ==
  ASSUME Shapes, NEW f \in HelperFrame, f # Start, streams' = streams, asked' = asked,
         toHelper' \in {toHelper, Append(toHelper, f)}
  PROVE  /\ toHelper' \in Seq(HelperFrame)
         /\ streams' + Count(toHelper', {Start}) <= asked'.commands + asked'.clicks
<1>1. Count(toHelper, {Start}) \in Nat
  BY CountType DEF Shapes
<1>2. CASE toHelper' = toHelper
  BY <1>2 DEF Shapes
<1>3. CASE toHelper' = Append(toHelper, f)
  <2>1. Bit(f \in {Start}) = 0
    BY DEF Bit
  <2>2. /\ toHelper' \in Seq(HelperFrame)
        /\ Count(toHelper', {Start}) = Count(toHelper, {Start}) + Bit(f \in {Start})
    BY <1>3, StartsAppended
  <2>3. Count(toHelper', {Start}) = Count(toHelper, {Start})
    BY <1>1, <2>1, <2>2
  <2> QED BY <2>2, <2>3 DEF Shapes
<1> QED BY <1>2, <1>3

LEMMA ViewerShapes ==
  ASSUME Shapes, NEW v \in Viewer, ViewerNext(v)
  PROVE  Shapes'
<1>1. CASE Join(v)
  <2>1. PICK f \in HelperFrame : f = PeerJoined(v) /\ f # Start
    BY HelperFrames, FramesDiffer
  <2>2. toHelper' \in {toHelper, Append(toHelper, f)} /\ streams' = streams /\ asked' = asked
    BY <1>1, <2>1 DEF Join, Tell, PeerJoined, stream
  <2>3. page' \in [Viewer -> {"outside", "inside", "gone"}]
    BY <1>1 DEF Join, Shapes
  <2> QED BY <1>1, <2>1, <2>2, <2>3, FrameAdded DEF Join, Shapes, server, stream
<1>2. CASE Leave(v)
  <2>1. PICK f \in HelperFrame : f = PeerLeft(v) /\ f # Start
    BY HelperFrames, FramesDiffer
  <2>2. toHelper' \in {toHelper, Append(toHelper, f)} /\ streams' = streams /\ asked' = asked
    BY <1>2, <2>1 DEF Leave, Tell, PeerLeft, stream
  <2>3. page' \in [Viewer -> {"outside", "inside", "gone"}] /\ offers' \in [Viewer -> Seq(Serial)]
    BY <1>2 DEF Leave, Shapes
  <2> QED BY <1>2, <2>1, <2>2, <2>3, FrameAdded DEF Leave, Shapes, server, stream
<1>3. CASE handleOffer(v)
  <2>1. offers[v] \in Seq(Serial) /\ Head(offers[v]) \in Serial /\ Tail(offers[v]) \in Seq(Serial)
    BY <1>3, Taken DEF handleOffer, Shapes
  <2>2. PICK f \in HelperFrame : f = Answer(v, Head(offers[v])) /\ f # Start
    BY <2>1, HelperFrames, FramesDiffer
  <2>3. toHelper' \in {toHelper, Append(toHelper, f)} /\ streams' = streams /\ asked' = asked
    BY <1>3, <2>2 DEF handleOffer, Tell, Answer, stream
  <2>4. answered' \in [Viewer -> BOOLEAN] /\ offers' \in [Viewer -> Seq(Serial)]
    BY <1>3, <2>1 DEF handleOffer, Shapes
  <2> QED BY <1>3, <2>2, <2>3, <2>4, FrameAdded DEF handleOffer, Shapes, server, stream
<1> QED BY <1>1, <1>2, <1>3 DEF ViewerNext

LEMMA ServerShapes ==
  ASSUME Shapes, ServerStep
  PROVE  Shapes'
<1>0. toServer' \in Seq(ServerFrame)
  BY Taken DEF Shapes, ServerStep
<1>1. CASE Attaching
  <2>1. Inside \in SUBSET Viewer
    BY DEF Inside
  <2>2. PICK f \in HelperFrame : f = AttachAck(Inside) /\ f # Start
    BY <2>1, HelperFrames, FramesDiffer
  <2>3. toHelper' \in {toHelper, Append(toHelper, f)} /\ streams' = streams /\ asked' = asked
    BY <1>1, <2>2 DEF Attaching, Arrives, attachHelperToRoom, AttachAck, stream
  <2> QED BY <1>0, <1>1, <2>2, <2>3, FrameAdded DEF Attaching, Arrives, attachHelperToRoom, Shapes, stream
<1>2. CASE Refusing \/ Detaching
  BY <1>0, <1>2 DEF Refusing, Detaching, Arrives, refuseAttach, Shapes, stream
<1>3. CASE \E v \in Viewer, n \in Serial : Relaying(v, n)
  <2>1. offers' \in [Viewer -> Seq(Serial)]
    BY <1>3, Appended DEF Relaying, relayOffer, Shapes
  <2> QED BY <1>0, <1>3, <2>1 DEF Relaying, Arrives, relayOffer, Shapes, stream, server
<1> QED BY <1>1, <1>2, <1>3, ServerSteps

LEMMA CommandShapes ==
  ASSUME Shapes, NEW command \in {"start", "stop"}, Command(command)
  PROVE  Shapes'
<1>1. PICK f \in HelperFrame : f = [type |-> command]
  BY HelperFrames DEF Start
<1>2. /\ toHelper' \in Seq(HelperFrame)
      /\ Count(toHelper', {Start}) = Count(toHelper, {Start}) + Bit(f \in {Start})
  BY <1>1, StartsAppended DEF Command
<1>3. asked' \in [commands : 0..MaxCommands, clicks : 0..MaxCommands]
      /\ asked'.commands = asked.commands + 1 /\ asked'.clicks = asked.clicks
  <2>1. asked.commands + 1 \in 0..MaxCommands
    BY RoomAssumption DEF Command, Shapes
  <2> QED BY <2>1 DEF Command, Shapes
<1>4. Bit(f \in {Start}) \in {0, 1} /\ Count(toHelper, {Start}) \in Nat
  BY CountType DEF Bit, Shapes
<1>5. streams' + Count(toHelper', {Start}) <= asked'.commands + asked'.clicks
  BY <1>2, <1>3, <1>4 DEF Command, Shapes, stream
<1> QED BY <1>2, <1>3, <1>5 DEF Command, Shapes, stream, server, viewers

LEMMA DropAllShape ==
  ASSUME Shapes, DropAll
  PROVE  /\ tracked' \in [Viewer -> {"none", "todo", "sent"}]
         /\ entry' \in [Viewer -> Entry \cup {NoEntry}]
         /\ late' \subseteq OfferFrame
         /\ failed' \subseteq Viewer
BY OutliveShape DEF DropAll, Shapes

LEMMA StreamShapes ==
  ASSUME Shapes, Starting \/ Stopping
  PROVE  Shapes'
<1>1. ToStop \in Seq(ServerFrame)
  BY ServerFrames, Appended DEF ToStop, Shapes
<1>2. Append(ToStop, AttachRoom) \in Seq(ServerFrame)
  BY <1>1, ServerFrames, Appended
<1>3. Count(toHelper, {Start}) \in Nat
  BY CountType DEF Shapes
<1>4. /\ toHelper' \in Seq(HelperFrame)
      /\ asked' \in [commands : 0..MaxCommands, clicks : 0..MaxCommands]
      /\ streams' + Count(toHelper', {Start}) <= asked'.commands + asked'.clicks
  <2>1. CASE Clicked
    <3>1. asked' \in [commands : 0..MaxCommands, clicks : 0..MaxCommands]
          /\ asked'.commands = asked.commands /\ asked'.clicks = asked.clicks + 1
      <4>1. asked.clicks + 1 \in 0..MaxCommands
        BY <2>1, RoomAssumption DEF Clicked, Shapes
      <4> QED BY <2>1, <4>1 DEF Clicked, Shapes
    <3>2. streams' \in {streams, streams + 1} /\ toHelper' = toHelper
      BY <2>1 DEF Starting, Stopping, Clicked
    <3> QED BY <1>3, <3>1, <3>2 DEF Shapes
  <2>2. CASE Hears(Start)
    <3>1. streams' \in {streams, streams + 1} /\ asked' = asked
      BY <2>2 DEF Starting, Stopping, Hears
    <3>2. Count(toHelper, {Start}) = Count(toHelper', {Start}) + 1 /\ toHelper' \in Seq(HelperFrame)
      BY <2>2, StartsTaken DEF Bit
    <3>3. Count(toHelper', {Start}) \in Nat
      BY <2>2, StartsTaken
    <3> QED BY <3>1, <3>2, <3>3 DEF Shapes
  <2>3. CASE Hears([type |-> "stop"]) /\ Stopping
    <3>1. Bit([type |-> "stop"] \in {Start}) \in Nat
      BY DEF Bit
    <3>2. /\ Count(toHelper, {Start}) = Count(toHelper', {Start}) + Bit([type |-> "stop"] \in {Start})
          /\ toHelper' \in Seq(HelperFrame)
      BY <2>3, StartsTaken
    <3>3. Count(toHelper', {Start}) \in Nat
      BY <2>3, StartsTaken
    <3>4. streams' = streams /\ asked' = asked
      BY <2>3 DEF Stopping, Hears
    <3> QED BY <3>1, <3>2, <3>3, <3>4 DEF Shapes
  <2> QED BY <2>1, <2>2, <2>3 DEF Starting, Stopping
<1>5. /\ streams' \in Nat /\ session' \in 0..streams' /\ room' \in BOOLEAN
      /\ toServer' \in Seq(ServerFrame) /\ DropAll
  <2>1. toServer' \in Seq(ServerFrame) /\ DropAll /\ room' \in BOOLEAN
    BY <1>1, <1>2 DEF Starting, Stopping
  <2>2. CASE streams' = streams + 1 /\ session' = streams + 1
    BY <2>1, <2>2 DEF Shapes
  <2>3. CASE streams' = streams /\ session' = 0
    BY <2>1, <2>3 DEF Shapes
  <2> QED BY <2>2, <2>3 DEF Starting, Stopping
<1>6. UNCHANGED <<viewers, server>>
  BY DEF Starting, Stopping, Hears, Clicked
<1> QED BY <1>4, <1>5, <1>6, DropAllShape DEF Shapes, viewers, server

LEMMA HearingShapes ==
  ASSUME Shapes,
         \/ \E S \in SUBSET Viewer, f \in HelperFrame : Adding(f, S)
         \/ \E v \in Viewer : Removing(v)
         \/ \E v \in Viewer, n \in Serial : Answered(v, n)
  PROVE  Shapes'
<1>1. PICK f : Hears(f) /\ UNCHANGED <<toServer, stream>>
  BY DEF Adding, Removing, Answered
<1>2. /\ toHelper' \in Seq(HelperFrame)
      /\ streams' + Count(toHelper', {Start}) <= asked'.commands + asked'.clicks
  <2>1. Bit(f \in {Start}) \in Nat
    BY DEF Bit
  <2>2. /\ toHelper' \in Seq(HelperFrame) /\ Count(toHelper', {Start}) \in Nat
        /\ Count(toHelper, {Start}) = Count(toHelper', {Start}) + Bit(f \in {Start})
    BY <1>1, StartsTaken
  <2> QED BY <1>1, <2>1, <2>2 DEF Hears, Shapes, stream
<1>3. /\ tracked' \in [Viewer -> {"none", "todo", "sent"}]
      /\ entry' \in [Viewer -> Entry \cup {NoEntry}]
      /\ late' \subseteq OfferFrame
      /\ failed' \subseteq Viewer
  <2>1. CASE \E S \in SUBSET Viewer, g \in HelperFrame : Adding(g, S)
    <3>1. session # 0 => NewEntry \in Entry
      BY StreamsAreSerials DEF NewEntry, Entry
    <3> QED BY <2>1, <3>1 DEF Adding, add_viewers, Shapes
  <2>2. CASE \E v \in Viewer : Removing(v)
    BY <2>2, OutliveShape DEF Removing, remove_viewer, Shapes
  <2>3. CASE \E v \in Viewer, n \in Serial : Answered(v, n)
    BY <2>3, KeptEntries DEF Answered, Shapes
  <2> QED BY <2>1, <2>2, <2>3
<1> QED BY <1>1, <1>2, <1>3 DEF Hears, Shapes, stream, viewers, server

LEMMA OtherShapes ==
  ASSUME Shapes,
         \/ poll_negotiations
         \/ \E v \in Viewer : RunTask(v)
         \/ \E o \in late : LateCallback(o)
  PROVE  Shapes'
<1>1. CASE poll_negotiations
  BY <1>1, KeptEntries DEF poll_negotiations, Shapes, viewers, server, stream
<1>2. ASSUME NEW v \in Viewer, RunTask(v)
      PROVE  Shapes'
  <2>1. toServer' \in Seq(ServerFrame)
    <3>1. PICK e \in Entry : toServer' \in {toServer, Append(toServer, Offer(v, e.serial))}
      BY <1>2, TaskSteps
    <3>2. Offer(v, e.serial) \in ServerFrame
      BY EntryFields, ServerFrames
    <3>3. PICK f \in ServerFrame : f = Offer(v, e.serial)
      BY <3>2
    <3>4. Append(toServer, f) \in Seq(ServerFrame)
      BY <3>3, Appended DEF Shapes
    <3> QED BY <3>1, <3>3, <3>4 DEF Shapes
  <2>2. failed' \subseteq Viewer
    BY <1>2, TaskSteps DEF Shapes
  <2>3. entry' \in [Viewer -> Entry \cup {NoEntry}]
    BY <1>2, KeptEntries
  <2> QED BY <1>2, <2>1, <2>2, <2>3 DEF RunTask, Shapes, viewers, server, stream
<1>3. CASE \E o \in late : LateCallback(o)
  <2>1. toServer' \in Seq(ServerFrame)
    <3>1. PICK o \in ServerFrame : toServer' \in {toServer, Append(toServer, o)}
      BY <1>3, ServerFrames DEF LateCallback, Shapes
    <3>2. Append(toServer, o) \in Seq(ServerFrame)
      BY Appended DEF Shapes
    <3> QED BY <3>1, <3>2 DEF Shapes
  <2> QED BY <1>3, <2>1 DEF LateCallback, Shapes, viewers, server, stream
<1> QED BY <1>1, <1>2, <1>3

LEMMA ShapesInit == Init => Shapes
<1> SUFFICES ASSUME Init PROVE Shapes
  OBVIOUS
<1>1. Count(toHelper, {Start}) = 0
  BY CountNothing DEF Init
<1>2. /\ offers \in [Viewer -> Seq(Serial)]
      /\ toServer \in Seq(ServerFrame) /\ toHelper \in Seq(HelperFrame)
  BY DEF Init
<1>3. /\ asked \in [commands : 0..MaxCommands, clicks : 0..MaxCommands]
      /\ asked.commands = 0 /\ asked.clicks = 0
  BY RoomAssumption DEF Init
<1>4. streams = 0 /\ session \in 0..streams
  BY DEF Init
<1>5. streams + Count(toHelper, {Start}) <= asked.commands + asked.clicks
  BY <1>1, <1>3, <1>4
<1>6. /\ page \in [Viewer -> {"outside", "inside", "gone"}]
      /\ answered \in [Viewer -> BOOLEAN]
      /\ seat \in BOOLEAN /\ refused \in BOOLEAN /\ room \in BOOLEAN
  BY DEF Init
<1>7. /\ tracked \in [Viewer -> {"none", "todo", "sent"}]
      /\ entry \in [Viewer -> Entry \cup {NoEntry}]
      /\ late \subseteq OfferFrame /\ failed \subseteq Viewer
  BY DEF Init
<1>8. streams \in Nat
  BY <1>4
<1> QED BY <1>2, <1>3, <1>4, <1>5, <1>6, <1>7, <1>8 DEF Shapes

LEMMA ShapesStep == Shapes /\ [Next]_vars => Shapes'
<1> SUFFICES ASSUME Shapes, [Next]_vars
             PROVE  Shapes'
  OBVIOUS
<1>1. CASE \E v \in Viewer : ViewerNext(v)
  BY <1>1, ViewerShapes
<1>2. CASE ServerStep
  BY <1>2, ServerShapes
<1>3. CASE \E command \in {"start", "stop"} : Command(command)
  BY <1>3, CommandShapes
<1>4. CASE handle \/ handle_local
  BY <1>4, ThreadSteps, StreamShapes, HearingShapes
<1>5. CASE poll_negotiations \/ (\E v \in Viewer : RunTask(v)) \/ \E o \in late : LateCallback(o)
  BY <1>5, OtherShapes
<1>6. CASE UNCHANGED vars
  BY <1>6 DEF vars, Shapes, viewers, server, stream
<1> QED BY <1>1, <1>2, <1>3, <1>4, <1>5, <1>6 DEF Next, HelperNext
-------------------------------------------------------------------------------
(* The entries and those who are tracked.                                     *)

LEMMA TrackedStep == Shapes /\ EntriesTracked /\ [Next]_vars => EntriesTracked'
<1> SUFFICES ASSUME Shapes, EntriesTracked, [Next]_vars
             PROVE  EntriesTracked'
  OBVIOUS
<1>1. CASE UNCHANGED <<entry, tracked, session>>
  BY <1>1 DEF EntriesTracked, Serving
<1>2. CASE Starting \/ Stopping
  <2>1. Serving' = {}
    BY <1>2 DEF Starting, Stopping, DropAll, Serving
  <2> QED BY <2>1 DEF EntriesTracked
<1>3. ASSUME NEW S \in SUBSET Viewer, NEW f \in HelperFrame, Adding(f, S)
      PROVE  EntriesTracked'
  <2>1. PICK B \in SUBSET (IF session = 0 THEN {} ELSE S \ Serving) :
          /\ tracked' = [v \in Viewer |-> IF v \in B THEN "none" ELSE IF v \in S THEN "todo" ELSE tracked[v]]
          /\ entry' = [v \in Viewer |-> IF session # 0 /\ v \in S \ (Serving \cup B)
                                         THEN NewEntry ELSE entry[v]]
    BY <1>3 DEF Adding, add_viewers
  <2>2. session' = session
    BY <1>3 DEF Adding, stream
  <2>3. ASSUME NEW v \in Serving'
        PROVE  tracked'[v] # "none" /\ entry'[v].serial = session
    <3>1. v \in Viewer /\ entry'[v] # NoEntry
      BY DEF Serving
    <3>2. v \notin B
      BY <2>1, <3>1 DEF Serving
    <3>3. CASE session # 0 /\ v \in S \ (Serving \cup B)
      BY <2>1, <3>1, <3>2, <3>3 DEF NewEntry
    <3>4. CASE v \in Serving
      BY <2>1, <3>1, <3>2, <3>4 DEF EntriesTracked
    <3> QED BY <2>1, <3>1, <3>3, <3>4 DEF Serving
  <2> QED BY <2>2, <2>3 DEF EntriesTracked
<1>4. ASSUME NEW w \in Viewer, Removing(w)
      PROVE  EntriesTracked'
  <2>1. /\ session' = session /\ w \notin Serving'
        /\ \A v \in Viewer : v # w => entry'[v] = entry[v] /\ tracked'[v] = tracked[v]
    BY <1>4 DEF Removing, remove_viewer, stream, Shapes, Serving
  <2> QED BY <2>1 DEF EntriesTracked, Serving
<1>5. CASE \/ \E v \in Viewer : RunTask(v)
           \/ poll_negotiations
           \/ \E v \in Viewer, n \in Serial : Answered(v, n)
  <2>1. \A v \in Viewer : tracked[v] # "none" => tracked'[v] # "none"
    BY <1>5 DEF RunTask, poll_negotiations, Answered
  <2>2. session' = session
    BY <1>5 DEF RunTask, poll_negotiations, Answered, stream
  <2> QED BY <1>5, <2>1, <2>2, KeptEntries DEF EntriesTracked, Serving
<1>6. CASE \E v \in Viewer : ViewerNext(v)
  BY <1>1, <1>6 DEF ViewerNext, Join, Leave, handleOffer, stream
<1>7. CASE ServerStep \/ (\E command \in {"start", "stop"} : Command(command)) \/ \E o \in late : LateCallback(o)
  BY <1>1, <1>7 DEF ServerStep, Command, LateCallback, stream
<1>8. CASE handle \/ handle_local
  BY <1>2, <1>3, <1>4, <1>5, <1>8, ThreadSteps
<1>9. CASE UNCHANGED vars
  BY <1>1, <1>9 DEF vars, stream
<1> QED BY <1>5, <1>6, <1>7, <1>8, <1>9 DEF Next, HelperNext
-------------------------------------------------------------------------------
(* The frames for the helper.                                                 *)

LEMMA FramesAppended ==
  ASSUME Shapes, NEW f \in HelperFrame, toHelper' = Append(toHelper, f)
  PROVE  /\ \A v : Announced(v)' <=> Announced(v) \/ f \in Announcing(v)
         /\ \A x : Has(toHelper, x)' <=> Has(toHelper, x) \/ x = f
<1>1. /\ Len(toHelper') = Len(toHelper) + 1 /\ Len(toHelper) \in Nat
      /\ \A i \in 1..Len(toHelper) : toHelper'[i] = toHelper[i]
      /\ toHelper'[Len(toHelper) + 1] = f
  BY Appended DEF Shapes
<1>2. 1..Len(toHelper') = 1..Len(toHelper) \cup {Len(toHelper) + 1}
  BY <1>1
<1>3. \A v : Announced(v)' <=> Announced(v) \/ f \in Announcing(v)
  BY <1>1, <1>2 DEF Announced, Announcing
<1> QED BY <1>1, <1>2, <1>3 DEF Has

LEMMA FrameTaken ==
  ASSUME Shapes, NEW f, Hears(f)
  PROVE  /\ \A v : Announced(v) <=> Announced(v)' \/ f \in Announcing(v)
         /\ \A x : Has(toHelper, x) <=> Has(toHelper, x)' \/ x = f
<1>1. /\ toHelper' \in Seq(HelperFrame) /\ f = toHelper[1] /\ Len(toHelper) \in Nat
      /\ Len(toHelper) # 0 /\ Len(toHelper') = Len(toHelper) - 1
      /\ \A i \in 1..(Len(toHelper) - 1) : toHelper'[i] = toHelper[i + 1]
  BY Taken DEF Shapes, Hears
<1>2. \A x : Has(toHelper, x) <=> Has(toHelper, x)' \/ x = f
  BY HasTaken DEF Shapes, Hears
<1>3. \A v : Announced(v) <=> \E x \in Announcing(v) : Has(toHelper, x)
  BY DEF Announced, Has
<1>4. \A v : Announced(v)' <=> \E x \in Announcing(v) : Has(toHelper, x)'
  BY DEF Announced, Has, Announcing
<1> QED BY <1>2, <1>3, <1>4

\* The viewers and the server send the helper a frame, or none: nobody who is gone is
\* announced, and whoever's departure is reported is gone.
Sends(f) ==
  /\ toHelper' \in {toHelper, Append(toHelper, f)}
  /\ \A v \in Viewer : page[v] = "gone" => page'[v] = "gone" /\ f \notin Announcing(v)
  /\ \A v \in Viewer : f = PeerLeft(v) => page'[v] = "gone"

LEMMA FrameSteps ==
  ASSUME Shapes, [Next]_vars
  PROVE  \/ \E f \in HelperFrame : Sends(f)
         \/ \E f \in HelperFrame : Hears(f)
<1>1. CASE UNCHANGED <<page, toHelper>>
  BY <1>1, HelperFrames, WhoIsAnnounced, FramesDiffer DEF Sends
<1>2. ASSUME NEW v \in Viewer, Join(v)
      PROVE  \E f \in HelperFrame : Sends(f)
  <2>1. PICK f \in HelperFrame : f = PeerJoined(v)
    BY HelperFrames
  <2>2. toHelper' \in {toHelper, Append(toHelper, f)}
    BY <1>2, <2>1 DEF Join, Tell, PeerJoined
  <2>3. \A w \in Viewer : page[w] = "gone" => page'[w] = "gone" /\ w # v
    BY <1>2 DEF Join, Shapes
  <2> QED BY <2>1, <2>2, <2>3, WhoIsAnnounced, FramesDiffer DEF Sends
<1>3. ASSUME NEW v \in Viewer, Leave(v)
      PROVE  \E f \in HelperFrame : Sends(f)
  <2>1. PICK f \in HelperFrame : f = PeerLeft(v)
    BY HelperFrames
  <2>2. toHelper' \in {toHelper, Append(toHelper, f)}
    BY <1>3, <2>1 DEF Leave, Tell, PeerLeft
  <2>3. page'[v] = "gone" /\ \A w \in Viewer : page[w] = "gone" => page'[w] = "gone"
    BY <1>3 DEF Leave, Shapes
  <2> QED BY <2>1, <2>2, <2>3, WhoIsAnnounced, FramesDiffer DEF Sends
<1>4. ASSUME NEW v \in Viewer, handleOffer(v)
      PROVE  \E f \in HelperFrame : Sends(f)
  <2>1. Head(offers[v]) \in Serial
    BY <1>4, Taken DEF handleOffer, Shapes
  <2>2. PICK f \in HelperFrame : f = Answer(v, Head(offers[v]))
    BY <2>1, HelperFrames
  <2>3. toHelper' \in {toHelper, Append(toHelper, f)} /\ page' = page
    BY <1>4, <2>2 DEF handleOffer, Tell, Answer
  <2> QED BY <2>1, <2>2, <2>3, WhoIsAnnounced, FramesDiffer DEF Sends
<1>5. CASE Attaching
  <2>1. Inside \in SUBSET Viewer /\ \A v \in Viewer : page[v] = "gone" => v \notin Inside
    BY DEF Inside
  <2>2. PICK f \in HelperFrame : f = AttachAck(Inside)
    BY <2>1, HelperFrames
  <2>3. toHelper' \in {toHelper, Append(toHelper, f)} /\ page' = page
    BY <1>5, <2>2 DEF Attaching, Arrives, attachHelperToRoom, AttachAck
  <2> QED BY <2>1, <2>2, <2>3, WhoIsAnnounced, FramesDiffer DEF Sends
<1>6. CASE ServerStep
  <2>1. CASE Refusing \/ Detaching \/ \E v \in Viewer, n \in Serial : Relaying(v, n)
    BY <1>1, <2>1 DEF Refusing, Detaching, Relaying, Arrives, refuseAttach, relayOffer
  <2> QED BY <1>5, <1>6, <2>1, ServerSteps
<1>7. ASSUME NEW command \in {"start", "stop"}, Command(command)
      PROVE  \E f \in HelperFrame : Sends(f)
  <2>1. PICK f \in HelperFrame : f = [type |-> command]
    BY HelperFrames DEF Start
  <2>2. \A v \in Viewer : f \notin Announcing(v)
    BY <2>1 DEF Announcing, PeerJoined
  <2>3. \A v \in Viewer : f # PeerLeft(v)
    BY <2>1 DEF PeerLeft
  <2> QED BY <1>7, <2>1, <2>2, <2>3 DEF Sends, Command, viewers
<1>8. CASE handle \/ handle_local
  <2>1. CASE handle
    <3>1. Head(toHelper) \in HelperFrame
      BY <2>1, Taken DEF handle, Shapes
    <3> QED BY <2>1, <3>1 DEF handle, Hears
  <2>2. CASE handle_local
    BY <1>1, <2>2 DEF handle_local, viewers
  <2> QED BY <1>8, <2>1, <2>2
<1>9. CASE poll_negotiations \/ (\E v \in Viewer : RunTask(v)) \/ (\E o \in late : LateCallback(o)) \/ UNCHANGED vars
  BY <1>1, <1>9 DEF poll_negotiations, RunTask, LateCallback, viewers, vars
<1> QED BY <1>2, <1>3, <1>4, <1>6, <1>7, <1>8, <1>9 DEF Next, HelperNext, ViewerNext

LEMMA DeparturesStep == Shapes /\ Departures /\ [Next]_vars => Departures'
<1> SUFFICES ASSUME Shapes, Departures, [Next]_vars
             PROVE  Departures'
  OBVIOUS
<1>1. ASSUME NEW f \in HelperFrame, Sends(f)
      PROVE  Departures'
  <2> SUFFICES ASSUME NEW v \in Viewer, NEW i \in 1..Len(toHelper'), toHelper'[i] = PeerLeft(v)
               PROVE  page'[v] = "gone" /\ \A j \in i..Len(toHelper') : toHelper'[j] \notin Announcing(v)
    BY DEF Departures, Announcing
  <2>1. CASE toHelper' = toHelper
    BY <1>1, <2>1 DEF Sends, Departures
  <2>2. CASE toHelper' = Append(toHelper, f)
    <3>1. /\ Len(toHelper') = Len(toHelper) + 1 /\ Len(toHelper) \in Nat
          /\ \A k \in 1..Len(toHelper) : toHelper'[k] = toHelper[k]
          /\ toHelper'[Len(toHelper) + 1] = f
      BY <2>2, Appended DEF Shapes
    <3>2. CASE i = Len(toHelper) + 1
      <4>1. f = PeerLeft(v) /\ \A j \in i..Len(toHelper') : j = i
        BY <3>1, <3>2
      <4> QED BY <1>1, <3>2, <4>1, WhoIsAnnounced DEF Sends
    <3>3. CASE i \in 1..Len(toHelper)
      <4>1. page[v] = "gone" /\ \A j \in i..Len(toHelper) : toHelper[j] \notin Announcing(v)
        BY <3>1, <3>3 DEF Departures
      <4>2. page'[v] = "gone" /\ f \notin Announcing(v)
        BY <1>1, <4>1 DEF Sends
      <4>3. \A j \in i..Len(toHelper') : j = Len(toHelper) + 1 \/ (j \in i..Len(toHelper) /\ j \in 1..Len(toHelper))
        BY <3>1, <3>3
      <4> QED BY <3>1, <4>1, <4>2, <4>3
    <3> QED BY <3>1, <3>2, <3>3
  <2> QED BY <1>1, <2>1, <2>2 DEF Sends
<1>2. ASSUME NEW f \in HelperFrame, Hears(f)
      PROVE  Departures'
  <2>1. /\ Len(toHelper) \in Nat /\ Len(toHelper') = Len(toHelper) - 1
        /\ \A i \in 1..(Len(toHelper) - 1) : toHelper'[i] = toHelper[i + 1]
    BY <1>2, Taken DEF Shapes, Hears
  <2> SUFFICES ASSUME NEW v \in Viewer, NEW i \in 1..Len(toHelper'), toHelper'[i] = PeerLeft(v)
               PROVE  page'[v] = "gone" /\ \A j \in i..Len(toHelper') : toHelper'[j] \notin Announcing(v)
    BY DEF Departures, Announcing
  <2>2. page' = page
    BY <1>2 DEF Hears, viewers
  <2>3. i + 1 \in 1..Len(toHelper) /\ toHelper[i + 1] = PeerLeft(v)
    BY <2>1
  <2>4. page[v] = "gone" /\ \A j \in (i + 1)..Len(toHelper) : toHelper[j] \notin Announcing(v)
    BY <2>3 DEF Departures
  <2>5. \A j \in i..Len(toHelper') : j + 1 \in (i + 1)..Len(toHelper) /\ toHelper'[j] = toHelper[j + 1]
    BY <2>1
  <2> QED BY <2>2, <2>4, <2>5
<1> QED BY <1>1, <1>2, FrameSteps
-------------------------------------------------------------------------------
(* Offers and answers.                                                        *)

\* What a departure that arrives tells: the viewer is gone, and is not announced again.
LEMMA DepartureArrives ==
  ASSUME Shapes, Departures, NEW v \in Viewer, Hears(PeerLeft(v))
  PROVE  page[v] = "gone" /\ ~Announced(v)'
<1>1. /\ Len(toHelper) \in Nat /\ Len(toHelper) # 0 /\ Len(toHelper') = Len(toHelper) - 1
      /\ toHelper[1] = PeerLeft(v)
      /\ \A i \in 1..(Len(toHelper) - 1) : toHelper'[i] = toHelper[i + 1]
  BY Taken DEF Shapes, Hears
<1>2. 1 \in 1..Len(toHelper)
  BY <1>1
<1>3. page[v] = "gone" /\ \A j \in 1..Len(toHelper) : toHelper[j] \notin Announcing(v)
  BY <1>1, <1>2 DEF Departures
<1>4. \A i \in 1..Len(toHelper') : i + 1 \in 1..Len(toHelper)
  BY <1>1
<1>5. \A i \in 1..Len(toHelper') : toHelper'[i] \notin Announcing(v)
  BY <1>1, <1>3, <1>4
<1> QED BY <1>3, <1>5 DEF Announced, Announcing

LEMMA AnnouncesExactly ==
  ASSUME NEW S \in SUBSET Viewer, NEW f, Announces(f, S)
  PROVE  /\ f \in HelperFrame
         /\ \A v \in Viewer : f \in Announcing(v) <=> v \in S
         /\ \A v \in Viewer, n \in Serial : f # Answer(v, n)
         /\ \A v : f # PeerLeft(v)
         /\ f # Start
BY HelperFrames, WhoIsAnnounced, FramesDiffer DEF Announces

\* Who is settled, or gone, stays so until the stream ends.
LEMMA OffersOutKept ==
  ASSUME OffersOut, session' = session, streams' = streams,
         \A v \in Viewer : Settled(v) \/ Departed(v) => Settled(v)' \/ Departed(v)',
         \A v \in Viewer, n \in Serial : Out(v, n)' => Out(v, n) \/ (n <= streams /\ Settled(v)')
                                                       \/ (n <= streams /\ Departed(v)')
  PROVE  OffersOut'
<1> SUFFICES ASSUME NEW v \in Viewer, NEW n \in Serial, Out(v, n)'
             PROVE  n <= streams' /\ (n = session' => Settled(v)' \/ Departed(v)')
  BY DEF OffersOut
<1>1. CASE Out(v, n)
  BY <1>1 DEF OffersOut
<1>2. CASE ~Out(v, n)
  BY <1>2
<1> QED BY <1>1, <1>2

LEMMA ViewerOffers ==
  ASSUME Shapes, OffersOut, NEW w \in Viewer, ViewerNext(w)
  PROVE  OffersOut'
<1>1. session' = session /\ streams' = streams /\ UNCHANGED <<entry, late, toServer>>
  BY DEF ViewerNext, Join, Leave, handleOffer, stream
<1>2. PICK f \in HelperFrame :
        /\ toHelper' \in {toHelper, Append(toHelper, f)}
        /\ \A v \in Viewer : page[v] = "gone" => page'[v] = "gone" /\ f \notin Announcing(v)
        /\ \A v \in Viewer, n \in Serial : f = Answer(v, n) => Has(offers[v], n)
        /\ \A v \in Viewer : \A n : Has(offers[v], n)' => Has(offers[v], n)
  <2>1. CASE Join(w)
    <3>1. PICK f \in HelperFrame : f = PeerJoined(w)
      BY HelperFrames
    <3>2. toHelper' \in {toHelper, Append(toHelper, f)} /\ offers' = offers
      BY <2>1, <3>1 DEF Join, Tell, PeerJoined
    <3>3. \A v \in Viewer : page[v] = "gone" => page'[v] = "gone" /\ v # w
      BY <2>1 DEF Join, Shapes
    <3> QED BY <3>1, <3>2, <3>3, WhoIsAnnounced, FramesDiffer DEF Has
  <2>2. CASE Leave(w)
    <3>1. PICK f \in HelperFrame : f = PeerLeft(w)
      BY HelperFrames
    <3>2. toHelper' \in {toHelper, Append(toHelper, f)} /\ offers' = [offers EXCEPT ![w] = <<>>]
      BY <2>2, <3>1 DEF Leave, Tell, PeerLeft
    <3>3. \A v \in Viewer : page[v] = "gone" => page'[v] = "gone"
      BY <2>2 DEF Leave, Shapes
    <3>4. \A v \in Viewer : offers'[v] = offers[v] \/ offers'[v] = <<>>
      BY <3>2 DEF Shapes
    <3> QED BY <3>1, <3>2, <3>3, <3>4, WhoIsAnnounced, FramesDiffer DEF Has
  <2>3. CASE handleOffer(w)
    <3>1. offers[w] \in Seq(Serial) /\ offers[w] # <<>> /\ Head(offers[w]) \in Serial
      BY <2>3, Taken DEF handleOffer, Shapes
    <3>2. PICK f \in HelperFrame : f = Answer(w, Head(offers[w]))
      BY <3>1, HelperFrames
    <3>3. /\ toHelper' \in {toHelper, Append(toHelper, f)} /\ page' = page
          /\ offers' = [offers EXCEPT ![w] = Tail(offers[w])]
      BY <2>3, <3>2 DEF handleOffer, Tell, Answer
    <3>4. \A n : Has(offers[w], n) <=> Has(Tail(offers[w]), n) \/ n = Head(offers[w])
      BY <3>1, HasTaken
    <3>5. \A v \in Viewer : offers'[v] = IF v = w THEN Tail(offers[w]) ELSE offers[v]
      BY <3>3 DEF Shapes
    <3>6. \A v \in Viewer : \A n : Has(offers'[v], n) => Has(offers[v], n)
      BY <3>4, <3>5
    <3>7. \A v \in Viewer : \A n : Has(offers[v], n)' => Has(offers[v], n)
      BY <3>6 DEF Has
    <3>8. \A v \in Viewer, n \in Serial : f = Answer(v, n) => Has(offers[v], n)
      BY <3>2, <3>4, FramesDiffer
    <3>9. \A v \in Viewer : f \notin Announcing(v)
      BY <3>1, <3>2, WhoIsAnnounced
    <3> QED BY <3>3, <3>7, <3>8, <3>9
  <2> QED BY <2>1, <2>2, <2>3 DEF ViewerNext
<1>3. \A v \in Viewer : Settled(v) => Settled(v)'
  BY <1>1 DEF Settled, Serving
<1>4. /\ \A v \in Viewer : page[v] = "gone" /\ Announced(v)' => Announced(v)
      /\ \A x : Has(toHelper, x)' => Has(toHelper, x) \/ x = f
  <2>1. CASE toHelper' = toHelper
    BY <2>1 DEF Announced, Announcing, Has
  <2>2. CASE toHelper' = Append(toHelper, f)
    BY <1>2, <2>2, FramesAppended
  <2> QED BY <1>2, <2>1, <2>2
<1>5. \A v \in Viewer : Departed(v) => Departed(v)'
  BY <1>1, <1>2, <1>4 DEF Departed, Serving
<1>6. \A v \in Viewer, n \in Serial : Out(v, n)' => Out(v, n)
  <2>1. \A v \in Viewer, n \in Serial : Has(toHelper, Answer(v, n))' => Has(toHelper, Answer(v, n)) \/ Has(offers[v], n)
    BY <1>2, <1>4
  <2>2. \A x : Has(toServer, x)' => Has(toServer, x)
    BY <1>1 DEF Has
  <2> QED BY <1>1, <1>2, <2>1, <2>2 DEF Out
<1> QED BY <1>1, <1>3, <1>5, <1>6, OffersOutKept

LEMMA ServerOffers ==
  ASSUME Shapes, OffersOut, ServerStep
  PROVE  OffersOut'
<1>1. /\ session' = session /\ streams' = streams /\ UNCHANGED <<entry, late, page>>
      /\ \A x : Has(toServer, x)' => Has(toServer, x)
  BY HasTaken DEF ServerStep, stream, Shapes, Has
<1>2. \A v \in Viewer : Settled(v) => Settled(v)'
  BY <1>1 DEF Settled, Serving
<1>3. CASE Attaching
  <2>1. Inside \in SUBSET Viewer /\ \A v \in Viewer : page[v] = "gone" => v \notin Inside
    BY DEF Inside
  <2>2. PICK f \in HelperFrame : f = AttachAck(Inside)
    BY <2>1, HelperFrames
  <2>3. toHelper' = Append(toHelper, f) /\ offers' = offers
    BY <1>3, <2>2 DEF Attaching, Arrives, attachHelperToRoom, AttachAck
  <2>4. /\ \A v \in Viewer : page[v] = "gone" /\ Announced(v)' => Announced(v)
        /\ \A v \in Viewer, n \in Serial : Has(toHelper, Answer(v, n))' => Has(toHelper, Answer(v, n))
    BY <2>1, <2>2, <2>3, FramesAppended, WhoIsAnnounced, FramesDiffer
  <2>5. \A v \in Viewer : Departed(v) => Departed(v)'
    BY <1>1, <2>4 DEF Departed, Serving
  <2>6. \A v \in Viewer, n \in Serial : Out(v, n)' => Out(v, n)
    BY <1>1, <2>3, <2>4 DEF Out, Has
  <2> QED BY <1>1, <1>2, <2>5, <2>6, OffersOutKept
<1>4. CASE UNCHANGED <<toHelper, offers>>
  <2>1. \A v \in Viewer : Departed(v) => Departed(v)'
    BY <1>1, <1>4 DEF Departed, Serving, Announced, Announcing
  <2>2. \A v \in Viewer, n \in Serial : Out(v, n)' => Out(v, n)
    BY <1>1, <1>4 DEF Out, Has
  <2> QED BY <1>1, <1>2, <2>1, <2>2, OffersOutKept
<1>5. ASSUME NEW w \in Viewer, NEW m \in Serial, Relaying(w, m)
      PROVE  OffersOut'
  <2>1. toHelper' = toHelper /\ Has(toServer, Offer(w, m))
    BY <1>5, HasTaken DEF Relaying, relayOffer, Arrives, Shapes
  <2>2. \A v \in Viewer : \A n : Has(offers'[v], n) => Has(offers[v], n) \/ (v = w /\ n = m)
    <3>1. \A v \in Viewer : offers'[v] = offers[v] \/ (v = w /\ offers'[v] = Append(offers[v], m))
      BY <1>5 DEF Relaying, relayOffer, Shapes
    <3>2. \A n : Has(Append(offers[w], m), n) <=> Has(offers[w], n) \/ n = m
      BY HasAppended DEF Shapes
    <3> QED BY <3>1, <3>2
  <2>3. \A v \in Viewer : \A n : Has(offers[v], n)' => Has(offers[v], n) \/ (v = w /\ n = m)
    BY <2>2 DEF Has
  <2>4. \A v \in Viewer : Departed(v) => Departed(v)'
    BY <1>1, <2>1 DEF Departed, Serving, Announced, Announcing
  <2>5. \A v \in Viewer, n \in Serial : Has(toHelper, Answer(v, n))' => Has(toHelper, Answer(v, n))
    BY <2>1 DEF Has
  <2>6. \A v \in Viewer, n \in Serial : Out(v, n)' => Out(v, n)
    BY <1>1, <2>1, <2>3, <2>5 DEF Out
  <2> QED BY <1>1, <1>2, <2>4, <2>6, OffersOutKept
<1>6. CASE Refusing \/ Detaching
  BY <1>4, <1>6 DEF Refusing, Detaching, refuseAttach
<1> QED BY <1>3, <1>5, <1>6, ServerSteps

\* The end of a stream: offers that were being set may still be sent, but they are late.
LEMMA StreamOffers ==
  ASSUME Shapes, EntriesTracked, OffersOut, Starting \/ Stopping
  PROVE  OffersOut'
<1>1. /\ session' = 0 \/ session' = streams + 1
      /\ streams' \in {streams, streams + 1} /\ offers' = offers
  BY DEF Starting, Stopping, Hears, Clicked, viewers
<1>2. \A x : Has(toHelper, x)' => Has(toHelper, x)
  <2>1. CASE toHelper' = toHelper
    BY <2>1 DEF Has
  <2>2. CASE Hears(Start) \/ Hears([type |-> "stop"])
    BY <2>2, FrameTaken
  <2> QED BY <2>1, <2>2 DEF Starting, Stopping, Clicked
<1>3. \A v \in Viewer, n \in Serial : Has(toServer, Offer(v, n))' => Has(toServer, Offer(v, n))
  <2>1. ToStop \in Seq(ServerFrame)
        /\ \A v \in Viewer, n \in Serial : Has(ToStop, Offer(v, n)) => Has(toServer, Offer(v, n))
    BY ServerFrames, Appended, HasAppended, FramesDiffer DEF ToStop, Shapes
  <2>2. \A v \in Viewer, n \in Serial : Has(Append(ToStop, AttachRoom), Offer(v, n)) => Has(toServer, Offer(v, n))
    BY <2>1, ServerFrames, HasAppended, FramesDiffer
  <2>3. \A v \in Viewer, n \in Serial : Has(toServer', Offer(v, n)) => Has(toServer, Offer(v, n))
    BY <2>1, <2>2 DEF Starting, Stopping
  <2> QED BY <2>3 DEF Has, Offer
<1>4. \A v \in Viewer, n \in Serial : Offer(v, n) \in late' => Offer(v, n) \in late \/ n = session
  <2>1. Outlive(Viewer)
    BY DEF Starting, Stopping, DropAll
  <2>2. ASSUME NEW v \in Viewer, NEW n \in Serial, Offer(v, n) \in late', Offer(v, n) \notin late
        PROVE  n = session
    <3>1. PICK w \in Viewer \cap Serving : Offer(v, n) = Offer(w, entry[w].serial)
      BY <2>1, <2>2, OutliveShape
    <3>2. n = entry[w].serial
      BY <3>1, FramesDiffer
    <3> QED BY <3>1, <3>2 DEF EntriesTracked
  <2> QED BY <2>2
<1>5. \A v \in Viewer, n \in Serial : Out(v, n)' => Out(v, n) \/ n = session
  <2>1. \A v \in Viewer : \A n : Has(offers[v], n)' => Has(offers[v], n)
    BY <1>1 DEF Has
  <2>2. \A v \in Viewer, n \in Serial : Has(toHelper, Answer(v, n))' => Has(toHelper, Answer(v, n))
    BY <1>2
  <2>3. \A v \in Viewer, n \in Serial : Offer(v, n)' = Offer(v, n)
    BY DEF Offer
  <2> QED BY <1>3, <1>4, <2>1, <2>2, <2>3 DEF Out
<1>6. session \in 0..streams /\ streams \in Nat
  BY DEF Shapes
<1>7. \A n \in Serial : n \in Nat /\ n # 0
  BY RoomAssumption DEF Serial
<1> SUFFICES ASSUME NEW v \in Viewer, NEW n \in Serial, Out(v, n)'
             PROVE  n <= streams' /\ n # session'
  BY DEF OffersOut
<1>8. n <= streams
  BY <1>5, <1>6, <1>7 DEF OffersOut
<1> QED BY <1>1, <1>6, <1>7, <1>8

LEMMA AddingOffers ==
  ASSUME Shapes, OffersOut, NEW S \in SUBSET Viewer, NEW f \in HelperFrame, Adding(f, S)
  PROVE  OffersOut'
<1>1. session' = session /\ streams' = streams /\ UNCHANGED <<toServer, late, offers, page>> /\ Hears(f)
  BY DEF Adding, Hears, stream, viewers
<1>2. \A v \in Viewer : v \in Serving => v \in Serving' /\ entry'[v] = entry[v]
  BY DEF Adding, add_viewers, Serving
<1>3. \A v \in Viewer : v \in Serving' => v \in Serving \/ v \in S
  BY DEF Adding, add_viewers, Serving
<1>4. \A v \in Viewer : v \in S \/ Announced(v)' => Announced(v)
  BY <1>1, FrameTaken, AnnouncesExactly DEF Adding
<1>5. \A v \in Viewer : Settled(v) => Settled(v)'
  BY <1>2 DEF Settled
<1>6. \A v \in Viewer : Departed(v) => Departed(v)'
  BY <1>1, <1>3, <1>4 DEF Departed
<1>7. \A v \in Viewer, n \in Serial : Out(v, n)' => Out(v, n)
  <2>1. \A x : Has(toHelper, x)' => Has(toHelper, x)
    BY <1>1, FrameTaken
  <2> QED BY <1>1, <2>1 DEF Out, Has
<1> QED BY <1>1, <1>5, <1>6, <1>7, OffersOutKept

\* The webrtcbin of a viewer that left may still send its offer: the viewer stays gone.
LEMMA RemovingOffers ==
  ASSUME Shapes, EntriesTracked, Departures, OffersOut, NEW w \in Viewer, Removing(w)
  PROVE  OffersOut'
<1>1. /\ session' = session /\ streams' = streams /\ UNCHANGED <<toServer, offers, page>>
      /\ Hears(PeerLeft(w)) /\ Outlive({w}) /\ entry' = [entry EXCEPT ![w] = NoEntry]
  BY DEF Removing, remove_viewer, Hears, stream, viewers
<1>2. \A v \in Viewer : Announced(v)' => Announced(v)
  BY <1>1, FrameTaken
<1>3. Departed(w)'
  BY <1>1, DepartureArrives DEF Departed, Serving, Shapes
<1>4. \A v \in Viewer : v # w => (Settled(v) => Settled(v)') /\ (Departed(v) => Departed(v)')
  BY <1>1, <1>2 DEF Settled, Departed, Serving, Shapes
<1>5. \A v \in Viewer, n \in Serial : Offer(v, n) \in late' => Offer(v, n) \in late \/ (v = w /\ n = session)
  <2>1. ASSUME NEW v \in Viewer, NEW n \in Serial, Offer(v, n) \in late', Offer(v, n) \notin late
        PROVE  v = w /\ n = session
    <3>1. PICK u \in {w} \cap Serving : Offer(v, n) = Offer(u, entry[u].serial)
      BY <1>1, <2>1, OutliveShape
    <3>2. v = u /\ n = entry[u].serial
      BY <3>1, FramesDiffer
    <3> QED BY <3>1, <3>2 DEF EntriesTracked
  <2> QED BY <2>1
<1>6. \A v \in Viewer, n \in Serial : Out(v, n)' => Out(v, n) \/ (n <= streams /\ Departed(v)')
  <2>1. \A x : Has(toHelper, x)' => Has(toHelper, x)
    BY <1>1, FrameTaken
  <2>2. session <= streams
    BY DEF Shapes
  <2>3. \A v \in Viewer, n \in Serial : Offer(v, n)' = Offer(v, n)
    BY DEF Offer
  <2>4. \A x, v : (Has(toServer, x)' <=> Has(toServer, x)) /\ (Has(offers[v], x)' <=> Has(offers[v], x))
    BY <1>1 DEF Has
  <2>5. \A v \in Viewer, n \in Serial : Offer(v, n) \in late' => Offer(v, n) \in late \/ (n <= streams /\ Departed(v)')
    BY <1>3, <1>5, <2>2
  <2>6. \A v \in Viewer, n \in Serial : Has(toHelper, Answer(v, n))' => Has(toHelper, Answer(v, n))
    BY <2>1
  <2> QED BY <2>3, <2>4, <2>5, <2>6 DEF Out
<1>7. \A v \in Viewer : Settled(v) \/ Departed(v) => Settled(v)' \/ Departed(v)'
  BY <1>3, <1>4
<1> QED BY <1>1, <1>6, <1>7, OffersOutKept

\* An offer leaves its webrtcbin when set-local-description is done with it.
LEMMA EntryOffers ==
  ASSUME Shapes, EntriesTracked, OffersOut,
         \/ \E v \in Viewer : RunTask(v)
         \/ poll_negotiations
         \/ \E v \in Viewer, n \in Serial : Answered(v, n)
  PROVE  OffersOut'
<1>1. session' = session /\ streams' = streams /\ UNCHANGED <<late, offers, page>>
  BY DEF RunTask, poll_negotiations, Answered, Hears, stream, viewers
<1>2. /\ Serving' = Serving
      /\ \A v \in Serving : entry[v].signaling # "new" => entry'[v].signaling # "new"
  BY KeptEntries
<1>3. \A x : Has(toHelper, x)' => Has(toHelper, x)
  <2>1. CASE toHelper' = toHelper
    BY <2>1 DEF Has
  <2>2. CASE \E v \in Viewer, n \in Serial : Answered(v, n)
    BY <2>2, FrameTaken DEF Answered
  <2> QED BY <2>1, <2>2 DEF RunTask, poll_negotiations
<1>4. \A v \in Viewer : Announced(v)' => Announced(v)
  <2>1. CASE toHelper' = toHelper
    BY <2>1 DEF Announced, Announcing
  <2>2. CASE \E v \in Viewer, n \in Serial : Answered(v, n)
    BY <2>2, FrameTaken DEF Answered
  <2> QED BY <2>1, <2>2 DEF RunTask, poll_negotiations
<1>5. \A v \in Viewer : (Settled(v) => Settled(v)') /\ (Departed(v) => Departed(v)')
  BY <1>1, <1>2, <1>4 DEF Settled, Departed
<1>6. \A v \in Viewer, n \in Serial :
        Has(toServer, Offer(v, n))' => Has(toServer, Offer(v, n)) \/ (n <= streams /\ Settled(v)')
  <2>1. CASE toServer' = toServer
    BY <2>1 DEF Has, Offer
  <2>2. ASSUME NEW w \in Viewer, RunTask(w), toServer' # toServer,
               NEW v \in Viewer, NEW n \in Serial, Has(toServer', Offer(v, n)), ~Has(toServer, Offer(v, n))
        PROVE  n <= streams /\ Settled(v)'
    <3>1. PICK e \in Entry : /\ entry' = [entry EXCEPT ![w] = e] /\ e.serial = entry[w].serial
                             /\ e.signaling # "new"
                             /\ toServer' = Append(toServer, Offer(w, e.serial))
      BY <2>2, TaskSteps
    <3>2. Offer(w, e.serial) \in ServerFrame
      BY ServerFrames, EntryFields
    <3>3. Offer(v, n) = Offer(w, e.serial)
      BY <2>2, <3>1, <3>2, HasAppended DEF Shapes
    <3>4. v = w /\ n = e.serial
      BY <3>3, FramesDiffer
    <3>5. w \in Serving /\ e.serial = session
      BY <2>2, <3>1 DEF RunTask, EntriesTracked
    <3>6. entry'[w] = e
      BY <3>1 DEF Shapes
    <3> QED BY <1>2, <3>1, <3>4, <3>5, <3>6 DEF Settled, Shapes
  <2>3. toServer' = toServer \/ \E w \in Viewer : RunTask(w)
    BY DEF poll_negotiations, Answered
  <2>4. \A v \in Viewer, n \in Serial : Has(toServer, Offer(v, n))' <=> Has(toServer', Offer(v, n))
    BY DEF Has, Offer
  <2> QED BY <2>1, <2>2, <2>3, <2>4
<1>7. \A v \in Viewer, n \in Serial : Out(v, n)' => Out(v, n) \/ (n <= streams /\ Settled(v)')
  <2>1. \A v \in Viewer, n \in Serial : Has(toHelper, Answer(v, n))' => Has(toHelper, Answer(v, n))
    BY <1>3
  <2>2. \A v, n : Has(offers[v], n)' => Has(offers[v], n)
    BY <1>1 DEF Has
  <2>3. \A v, n : Offer(v, n) \in late' => Offer(v, n) \in late
    BY <1>1
  <2> QED BY <1>6, <2>1, <2>2, <2>3 DEF Out, Offer
<1> QED BY <1>1, <1>5, <1>7, OffersOutKept

LEMMA LateOffers ==
  ASSUME Shapes, OffersOut, NEW o \in late, LateCallback(o)
  PROVE  OffersOut'
<1>1. /\ session' = session /\ streams' = streams /\ UNCHANGED <<entry, page, toHelper, offers>>
      /\ late' \subseteq late /\ toServer' \in {toServer, Append(toServer, o)}
  BY DEF LateCallback, stream, viewers
<1>2. \A x : Has(toServer', x) => Has(toServer, x) \/ x \in late
  <2>1. o \in ServerFrame
    BY ServerFrames DEF Shapes
  <2>2. \A x : Has(Append(toServer, o), x) <=> Has(toServer, x) \/ x = o
    BY <2>1, HasAppended DEF Shapes
  <2> QED BY <1>1, <2>2
<1>3. \A x : Has(toServer, x)' => Has(toServer, x) \/ x \in late
  BY <1>2 DEF Has
<1>4. \A v \in Viewer, n \in Serial : Out(v, n)' => Out(v, n)
  <2>1. \A v, n : Has(toHelper, Answer(v, n))' => Has(toHelper, Answer(v, n))
    BY <1>1 DEF Has, Answer
  <2>2. \A v, n : Has(offers[v], n)' => Has(offers[v], n)
    BY <1>1 DEF Has
  <2> QED BY <1>1, <1>3, <2>1, <2>2 DEF Out
<1>5. \A v \in Viewer : (Settled(v) => Settled(v)') /\ (Departed(v) => Departed(v)')
  BY <1>1 DEF Settled, Departed, Serving, Announced, Announcing
<1> QED BY <1>1, <1>4, <1>5, OffersOutKept

LEMMA QuietOffers ==
  ASSUME Shapes, OffersOut,
         UNCHANGED vars \/ \E command \in {"start", "stop"} : Command(command)
  PROVE  OffersOut'
<1>1. session' = session /\ streams' = streams /\ UNCHANGED <<entry, page, offers, late, toServer>>
  BY DEF Command, vars, stream, viewers
<1>2. /\ \A v \in Viewer, n \in Serial : Has(toHelper, Answer(v, n))' => Has(toHelper, Answer(v, n))
      /\ \A v \in Viewer : Announced(v)' => Announced(v)
  <2>1. CASE toHelper' = toHelper
    BY <2>1 DEF Has, Announced, Announcing, Answer
  <2>2. CASE toHelper' = Append(toHelper, Start) \/ toHelper' = Append(toHelper, [type |-> "stop"])
    BY <2>2, HelperFrames, FramesAppended, FramesDiffer, WhoIsAnnounced
  <2> QED BY <2>1, <2>2 DEF Command, vars, Start
<1>3. \A v \in Viewer : (Settled(v) => Settled(v)') /\ (Departed(v) => Departed(v)')
  BY <1>1, <1>2 DEF Settled, Departed, Serving
<1>4. \A v \in Viewer, n \in Serial : Out(v, n)' => Out(v, n)
  <2>1. \A v, n : (Has(offers[v], n)' => Has(offers[v], n)) /\ (Has(toServer, Offer(v, n))' => Has(toServer, Offer(v, n)))
    BY <1>1 DEF Has, Offer
  <2> QED BY <1>1, <1>2, <2>1 DEF Out
<1> QED BY <1>1, <1>3, <1>4, OffersOutKept

LEMMA OffersStep ==
  Shapes /\ EntriesTracked /\ Departures /\ OffersOut /\ [Next]_vars => OffersOut'
<1> SUFFICES ASSUME Shapes, EntriesTracked, Departures, OffersOut, [Next]_vars
             PROVE  OffersOut'
  OBVIOUS
<1>1. CASE \E v \in Viewer : ViewerNext(v)
  BY <1>1, ViewerOffers
<1>2. CASE ServerStep
  BY <1>2, ServerOffers
<1>3. CASE UNCHANGED vars \/ \E command \in {"start", "stop"} : Command(command)
  BY <1>3, QuietOffers
<1>4. CASE handle \/ handle_local
  BY <1>4, ThreadSteps, StreamOffers, AddingOffers, RemovingOffers, EntryOffers
<1>5. CASE poll_negotiations \/ \E v \in Viewer : RunTask(v)
  BY <1>5, EntryOffers
<1>6. CASE \E o \in late : LateCallback(o)
  BY <1>6, LateOffers
<1> QED BY <1>1, <1>2, <1>3, <1>4, <1>5, <1>6 DEF Next, HelperNext
-------------------------------------------------------------------------------
(* Attaches and detaches.                                                     *)

\* Off: the stream does not run.  A frame that is appended, of each of the three kinds.
LEMMA OfferQueued ==
  ASSUME NEW s \in Seq(ServerFrame), NEW x \in ServerFrame, x # AttachRoom, x # DetachRoom,
         NEW seated, NEW off, Alternate(s, seated, off)
  PROVE  Alternate(Append(s, x), seated, off)
<1> DEFINE t == Append(s, x)
<1>1. /\ Len(s) \in Nat /\ Len(t) = Len(s) + 1 /\ t[Len(s) + 1] = x
      /\ \A i \in 1..Len(s) : t[i] = s[i]
  BY Appended
<1>2. \A i \in 1..Len(t) : t[i] \in {AttachRoom, DetachRoom} => i \in 1..Len(s) /\ s[i] = t[i]
  BY <1>1
<1>3. \A i, j \in Int : \A y : 1 <= i /\ j <= Len(s) /\ Within(s, i, j, y) => Within(t, i, j, y)
  BY <1>1 DEF Within
<1> HIDE DEF t
<1>4. \A i \in 1..Len(s) : \A y : Within(s, i + 1, Len(s), y) => Within(t, i + 1, Len(t), y)
  BY <1>1 DEF Within
<1>5. \A i, j \in 1..Len(t) : i < j /\ t[i] = AttachRoom /\ t[j] = AttachRoom => Within(t, i + 1, j - 1, DetachRoom)
  BY <1>1, <1>2, <1>3 DEF Alternate
<1>6. seated => \A i \in 1..Len(t) : t[i] = AttachRoom => Within(t, 1, i - 1, DetachRoom)
  BY <1>1, <1>2, <1>3 DEF Alternate
<1>7. off => /\ \A i \in 1..Len(t) : t[i] = AttachRoom => Within(t, i + 1, Len(t), DetachRoom)
             /\ seated => Within(t, 1, Len(t), DetachRoom)
  <2>1. off => \A i \in 1..Len(t) : t[i] = AttachRoom => Within(t, i + 1, Len(t), DetachRoom)
    BY <1>2, <1>4 DEF Alternate
  <2>2. Within(s, 1, Len(s), DetachRoom) => Within(t, 1, Len(t), DetachRoom)
    BY <1>1 DEF Within
  <2> QED BY <2>1, <2>2 DEF Alternate
<1>8. ~off => \A i \in 1..Len(t) : t[i] = DetachRoom => Within(t, i + 1, Len(t), AttachRoom)
  BY <1>2, <1>4 DEF Alternate
<1> QED BY <1>5, <1>6, <1>7, <1>8 DEF Alternate, t

LEMMA DetachQueued ==
  ASSUME NEW s \in Seq(ServerFrame), NEW seated, Alternate(s, seated, FALSE)
  PROVE  Alternate(Append(s, DetachRoom), seated, TRUE)
<1> DEFINE t == Append(s, DetachRoom)
<1>1. /\ Len(s) \in Nat /\ Len(t) = Len(s) + 1 /\ t[Len(s) + 1] = DetachRoom
      /\ \A i \in 1..Len(s) : t[i] = s[i]
  BY Appended, ServerFrames
<1>2. \A i \in 1..Len(t) : t[i] = AttachRoom => i \in 1..Len(s) /\ s[i] = t[i]
  BY <1>1, FramesDiffer
<1>3. \A i, j \in Int : \A y : 1 <= i /\ j <= Len(s) /\ Within(s, i, j, y) => Within(t, i, j, y)
  BY <1>1 DEF Within
<1> HIDE DEF t
<1>4. \A i \in 0..Len(s) : Within(t, i + 1, Len(t), DetachRoom)
  BY <1>1 DEF Within
<1>5. \A i, j \in 1..Len(t) : i < j /\ t[i] = AttachRoom /\ t[j] = AttachRoom => Within(t, i + 1, j - 1, DetachRoom)
  BY <1>1, <1>2, <1>3 DEF Alternate
<1>6. seated => \A i \in 1..Len(t) : t[i] = AttachRoom => Within(t, 1, i - 1, DetachRoom)
  BY <1>1, <1>2, <1>3 DEF Alternate
<1>7. Within(t, 1, Len(t), DetachRoom)
  BY <1>1, <1>4
<1>8. \A i \in 1..Len(t) : t[i] = AttachRoom => Within(t, i + 1, Len(t), DetachRoom)
  BY <1>1, <1>2, <1>4
<1> QED BY <1>5, <1>6, <1>7, <1>8 DEF Alternate, t

LEMMA AttachQueued ==
  ASSUME NEW s \in Seq(ServerFrame), NEW seated, Alternate(s, seated, TRUE)
  PROVE  Alternate(Append(s, AttachRoom), seated, FALSE)
<1> DEFINE t == Append(s, AttachRoom)
<1>1. /\ Len(s) \in Nat /\ Len(t) = Len(s) + 1 /\ t[Len(s) + 1] = AttachRoom
      /\ \A i \in 1..Len(s) : t[i] = s[i]
  BY Appended, ServerFrames
<1>2. \A i \in 1..Len(t) : (i \in 1..Len(s) /\ t[i] = s[i]) \/ (i = Len(s) + 1 /\ t[i] # DetachRoom)
  BY <1>1, FramesDiffer
<1>3. \A i, j \in Int : \A y : 1 <= i /\ j <= Len(s) /\ Within(s, i, j, y) => Within(t, i, j, y)
  BY <1>1 DEF Within
<1> HIDE DEF t
<1>4. \A i \in 1..Len(s) : Within(t, i + 1, Len(t), AttachRoom)
  BY <1>1 DEF Within
<1>5. ASSUME NEW i \in 1..Len(t), NEW j \in 1..Len(t), i < j, t[i] = AttachRoom, t[j] = AttachRoom
      PROVE  Within(t, i + 1, j - 1, DetachRoom)
  <2>1. i \in 1..Len(s) /\ s[i] = AttachRoom
    BY <1>1, <1>5
  <2>2. CASE j \in 1..Len(s)
    <3>1. Within(s, i + 1, j - 1, DetachRoom)
      BY <1>1, <1>5, <2>1, <2>2 DEF Alternate
    <3> QED BY <1>1, <1>3, <2>1, <2>2, <3>1
  <2>3. CASE j = Len(s) + 1
    <3>1. Within(s, i + 1, Len(s), DetachRoom) /\ j - 1 = Len(s)
      BY <1>1, <2>1, <2>3 DEF Alternate
    <3> QED BY <1>1, <1>3, <2>1, <3>1
  <2> QED BY <1>2, <2>2, <2>3
<1>6. ASSUME seated, NEW i \in 1..Len(t), t[i] = AttachRoom
      PROVE  Within(t, 1, i - 1, DetachRoom)
  <2>1. CASE i \in 1..Len(s)
    BY <1>1, <1>3, <1>6, <2>1 DEF Alternate
  <2>2. CASE i = Len(s) + 1
    <3>1. Within(s, 1, Len(s), DetachRoom) /\ i - 1 = Len(s)
      BY <1>1, <1>6, <2>2 DEF Alternate
    <3> QED BY <1>1, <1>3, <3>1
  <2> QED BY <1>2, <2>1, <2>2
<1>7. \A i \in 1..Len(t) : t[i] = DetachRoom => Within(t, i + 1, Len(t), AttachRoom)
  BY <1>2, <1>4
<1> QED BY <1>5, <1>6, <1>7 DEF Alternate, t

\* A frame that is handled: the first one.
LEMMA FrameHandled ==
  ASSUME NEW s \in Seq(ServerFrame), s # <<>>, NEW seated \in BOOLEAN, NEW off, Alternate(s, seated, off)
  PROVE  /\ Alternate(Tail(s), FALSE, off)
         /\ Head(s) = AttachRoom => ~seated /\ Alternate(Tail(s), TRUE, off)
         /\ Head(s) \notin {AttachRoom, DetachRoom} => Alternate(Tail(s), seated, off)
<1> DEFINE t == Tail(s)
<1>1. /\ Len(s) \in Nat /\ Len(s) # 0 /\ Len(t) = Len(s) - 1 /\ Head(s) = s[1]
      /\ \A i \in 1..(Len(s) - 1) : t[i] = s[i + 1]
  BY Taken
<1> HIDE DEF t
<1>2. \A i \in 1..Len(t) : i + 1 \in 1..Len(s) /\ s[i + 1] = t[i] /\ i \in Int
  BY <1>1
<1>3. ASSUME NEW i \in Int, NEW j \in Int, 1 <= i, j <= Len(t), NEW y, Within(s, i + 1, j + 1, y)
      PROVE  Within(t, i, j, y)
  <2>1. PICK k \in (i + 1)..(j + 1) : s[k] = y
    BY <1>3 DEF Within
  <2>2. k - 1 \in i..j /\ k - 1 \in 1..(Len(s) - 1) /\ (k - 1) + 1 = k
    BY <1>1, <1>3, <2>1
  <2> QED BY <1>1, <2>1, <2>2 DEF Within
<1>4. ASSUME NEW i \in 1..Len(t), NEW j \in 1..Len(t), i < j, t[i] = AttachRoom, t[j] = AttachRoom
      PROVE  Within(t, i + 1, j - 1, DetachRoom)
  <2>0. i + 1 < j + 1 /\ i + 1 \in 1..Len(s) /\ j + 1 \in 1..Len(s)
    BY <1>2, <1>4
  <2>1. Within(s, (i + 1) + 1, (j + 1) - 1, DetachRoom)
    BY <1>2, <1>4, <2>0 DEF Alternate
  <2>2. (j + 1) - 1 = (j - 1) + 1
    BY <1>2
  <2> QED BY <1>1, <1>3, <2>1, <2>2
<1>5. ASSUME off, NEW i \in 1..Len(t), t[i] = AttachRoom
      PROVE  Within(t, i + 1, Len(t), DetachRoom)
  <2>1. Within(s, (i + 1) + 1, Len(s), DetachRoom)
    BY <1>2, <1>5 DEF Alternate
  <2>2. Len(s) = Len(t) + 1
    BY <1>1
  <2> QED BY <1>1, <1>3, <2>1, <2>2
<1>6. ASSUME ~off, NEW i \in 1..Len(t), t[i] = DetachRoom
      PROVE  Within(t, i + 1, Len(t), AttachRoom)
  <2>1. Within(s, (i + 1) + 1, Len(s), AttachRoom)
    BY <1>2, <1>6 DEF Alternate
  <2>2. Len(s) = Len(t) + 1
    BY <1>1
  <2> QED BY <1>1, <1>3, <2>1, <2>2
<1>7. Alternate(t, FALSE, off)
  BY <1>4, <1>5, <1>6 DEF Alternate
<1>8. ASSUME s[1] = AttachRoom
      PROVE  ~seated /\ Alternate(t, TRUE, off)
  <2>1. 1 \in 1..Len(s)
    BY <1>1
  <2>2. ~seated
    BY <1>8, <2>1 DEF Alternate, Within
  <2>3. ASSUME NEW i \in 1..Len(t), t[i] = AttachRoom
        PROVE  Within(t, 1, i - 1, DetachRoom)
    <3>1. Within(s, 1 + 1, (i + 1) - 1, DetachRoom)
      BY <1>2, <1>8, <2>1, <2>3 DEF Alternate
    <3>2. (i + 1) - 1 = (i - 1) + 1
      BY <1>2
    <3> QED BY <1>1, <1>3, <3>1, <3>2
  <2>4. ASSUME off
        PROVE  Within(t, 1, Len(t), DetachRoom)
    <3>1. Within(s, 1 + 1, Len(s), DetachRoom)
      BY <1>8, <2>1, <2>4 DEF Alternate
    <3>2. Len(s) = Len(t) + 1
      BY <1>1
    <3> QED BY <1>1, <1>3, <3>1, <3>2
  <2> QED BY <1>7, <2>2, <2>3, <2>4 DEF Alternate
<1>9. ASSUME s[1] \notin {AttachRoom, DetachRoom}, seated
      PROVE  Alternate(t, seated, off)
  <2>1. ASSUME NEW i \in 1..Len(t), t[i] = AttachRoom
        PROVE  Within(t, 1, i - 1, DetachRoom)
    <3>1. PICK k \in 1..((i + 1) - 1) : s[k] = DetachRoom
      BY <1>2, <1>9, <2>1 DEF Alternate, Within
    <3>2. k \in (1 + 1)..((i - 1) + 1)
      BY <1>2, <1>9, <3>1
    <3>3. Within(s, 1 + 1, (i - 1) + 1, DetachRoom)
      BY <3>1, <3>2 DEF Within
    <3> QED BY <1>1, <1>2, <1>3, <3>3
  <2>2. ASSUME off
        PROVE  Within(t, 1, Len(t), DetachRoom)
    <3>1. PICK k \in 1..Len(s) : s[k] = DetachRoom
      BY <1>9, <2>2 DEF Alternate, Within
    <3>2. k \in (1 + 1)..(Len(t) + 1)
      BY <1>1, <1>9, <3>1
    <3>3. Within(s, 1 + 1, Len(t) + 1, DetachRoom)
      BY <3>1, <3>2 DEF Within
    <3> QED BY <1>1, <1>3, <3>3
  <2> QED BY <1>7, <2>1, <2>2 DEF Alternate
<1> QED BY <1>1, <1>7, <1>8, <1>9 DEF t

\* The kinds of step: nothing is queued, an offer is, or what the stream calls for.
LEMMA ToStopAlternates ==
  ASSUME Shapes, SeatInOrder
  PROVE  ToStop \in Seq(ServerFrame) /\ Alternate(ToStop, seat, TRUE)
<1>1. CASE session = 0
  BY <1>1 DEF ToStop, SeatInOrder, Shapes
<1>2. CASE session # 0
  <2>1. Alternate(toServer, seat, FALSE)
    BY <1>2 DEF SeatInOrder
  <2> QED BY <1>2, <2>1, DetachQueued, ServerFrames, Appended DEF ToStop, Shapes
<1> QED BY <1>1, <1>2

LEMMA StreamSeats ==
  ASSUME Shapes, SeatInOrder, Starting \/ Stopping
  PROVE  SeatInOrder'
<1>1. ToStop \in Seq(ServerFrame) /\ Alternate(ToStop, seat, TRUE)
  BY ToStopAlternates
<1>2. seat' = seat /\ refused' = refused
  BY DEF Starting, Stopping, Hears, Clicked, server
<1>3. CASE Stopping
  <2>1. toServer' = ToStop /\ session' = 0
    BY <1>3 DEF Stopping
  <2>2. Alternate(toServer', seat', session' = 0)
    BY <1>1, <1>2, <2>1
  <2> QED BY <2>1, <2>2 DEF SeatInOrder, Alternate, Within, AttachRoom, DetachRoom
<1>4. CASE Starting
  <2>1. toServer' = Append(ToStop, AttachRoom) /\ session' # 0
    BY <1>4 DEF Starting, Shapes
  <2>2. Alternate(Append(ToStop, AttachRoom), seat, FALSE)
    BY <1>1, AttachQueued
  <2>3. Alternate(toServer', seat', session' = 0)
    BY <1>2, <2>1, <2>2
  <2>4. Has(toServer', AttachRoom)
    BY <1>1, <2>1, HasAppended, ServerFrames
  <2> QED BY <2>1, <2>3, <2>4 DEF SeatInOrder, Alternate, Within, AttachRoom, DetachRoom, Has
<1> QED BY <1>3, <1>4

LEMMA OfferSeats ==
  ASSUME Shapes, SeatInOrder, UNCHANGED <<seat, refused, session>>,
         NEW o \in OfferFrame, toServer' \in {toServer, Append(toServer, o)}
  PROVE  SeatInOrder'
<1>1. o \in ServerFrame /\ o # AttachRoom /\ o # DetachRoom
  BY ServerFrames DEF OfferFrame, AttachRoom, DetachRoom
<1>2. toServer \in Seq(ServerFrame) /\ Alternate(toServer, seat, session = 0)
  BY DEF Shapes, SeatInOrder
<1>3. Alternate(Append(toServer, o), seat, session = 0)
  BY <1>1, <1>2, OfferQueued
<1>4. Has(Append(toServer, o), AttachRoom) <=> Has(toServer, AttachRoom)
  BY <1>1, <1>2, HasAppended
<1>5. Alternate(toServer', seat', session' = 0) /\ (Has(toServer', AttachRoom) <=> Has(toServer, AttachRoom))
  BY <1>2, <1>3, <1>4
<1> QED BY <1>5 DEF SeatInOrder, Alternate, Within, AttachRoom, DetachRoom, Has

LEMMA ServerSeats ==
  ASSUME Shapes, SeatInOrder, ServerStep
  PROVE  SeatInOrder'
<1> DEFINE off == session = 0
<1>1. /\ toServer \in Seq(ServerFrame) /\ toServer # <<>> /\ toServer' = Tail(toServer)
      /\ seat \in BOOLEAN /\ session' = session
  BY DEF ServerStep, Shapes, stream
<1>2. Alternate(toServer, seat, off)
  BY DEF SeatInOrder
<1>3. /\ Alternate(Tail(toServer), FALSE, off)
      /\ Head(toServer) = AttachRoom => ~seat /\ Alternate(Tail(toServer), TRUE, off)
      /\ Head(toServer) \notin {AttachRoom, DetachRoom} => Alternate(Tail(toServer), seat, off)
  BY <1>1, <1>2, FrameHandled
<1>4. SeatInOrder' <=> /\ Alternate(toServer', seat', off)
                       /\ session # 0 /\ ~Has(toServer', AttachRoom) => (seat' <=> ~refused')
  BY <1>1 DEF SeatInOrder, Alternate, Within, AttachRoom, DetachRoom, Has
<1>5. Has(toServer, AttachRoom) <=> Has(toServer', AttachRoom) \/ AttachRoom = Head(toServer)
  BY <1>1, HasTaken
<1> HIDE DEF off
<1>6. CASE Attaching
  BY <1>1, <1>3, <1>4, <1>6 DEF Attaching, Arrives, attachHelperToRoom
<1>7. CASE Refusing
  <2>1. seat' = FALSE /\ refused' = TRUE
    BY <1>1, <1>3, <1>7 DEF Refusing, Arrives, refuseAttach
  <2> QED BY <1>1, <1>3, <1>4, <2>1
<1>8. CASE Detaching
  <2>1. seat' = FALSE /\ Head(toServer) = DetachRoom
    BY <1>8 DEF Detaching, Arrives
  <2>2. session # 0 => Has(toServer', AttachRoom)
    <3>1. 1 \in 1..Len(toServer) /\ toServer[1] = DetachRoom
      BY <1>1, <2>1, Taken
    <3>2. session # 0 => \E k \in (1 + 1)..Len(toServer) : toServer[k] = AttachRoom
      BY <1>2, <3>1 DEF Alternate, Within, off
    <3>3. session # 0 => Has(toServer, AttachRoom)
      BY <1>1, <3>2, Taken DEF Has
    <3> QED BY <1>5, <2>1, <3>3, FramesDiffer
  <2> QED BY <1>1, <1>3, <1>4, <2>1, <2>2
<1>9. CASE \E v \in Viewer, n \in Serial : Relaying(v, n)
  <2>1. UNCHANGED <<seat, refused>> /\ Head(toServer) \notin {AttachRoom, DetachRoom}
    BY <1>9, FramesDiffer DEF Relaying, Arrives, relayOffer, server
  <2>2. session # 0 /\ ~Has(toServer, AttachRoom) => (seat <=> ~refused)
    BY DEF SeatInOrder
  <2> QED BY <1>1, <1>3, <1>4, <1>5, <2>1, <2>2
<1> QED BY <1>6, <1>7, <1>8, <1>9, ServerSteps

\* The other steps send the server an offer at most.
LEMMA OfferSteps ==
  ASSUME Shapes, [Next]_vars
  PROVE  \/ ServerStep \/ Starting \/ Stopping
         \/ /\ UNCHANGED <<seat, refused, session, streams>>
            /\ toServer' = toServer \/ \E o \in OfferFrame : toServer' = Append(toServer, o)
<1>1. CASE (\E v \in Viewer : ViewerNext(v)) \/ (\E command \in {"start", "stop"} : Command(command)) \/ UNCHANGED vars
  BY <1>1 DEF ViewerNext, Join, Leave, handleOffer, Command, vars, server, stream
<1>2. CASE handle \/ handle_local
  BY <1>2, ThreadSteps DEF Adding, Removing, Answered, Hears, server, stream
<1>3. CASE poll_negotiations
  BY <1>3 DEF poll_negotiations, server, stream
<1>4. ASSUME NEW v \in Viewer, RunTask(v)
      PROVE  /\ UNCHANGED <<seat, refused, session, streams>>
             /\ toServer' = toServer \/ \E o \in OfferFrame : toServer' = Append(toServer, o)
  <2>1. PICK e \in Entry : toServer' \in {toServer, Append(toServer, Offer(v, e.serial))}
    BY <1>4, TaskSteps
  <2>2. Offer(v, e.serial) \in OfferFrame
    BY EntryFields, ServerFrames
  <2> QED BY <1>4, <2>1, <2>2 DEF RunTask, server, stream
<1>5. CASE \E o \in late : LateCallback(o)
  BY <1>5 DEF LateCallback, server, stream, Shapes
<1> QED BY <1>1, <1>2, <1>3, <1>4, <1>5 DEF Next, HelperNext

LEMMA SeatsStep == Shapes /\ SeatInOrder /\ [Next]_vars => SeatInOrder'
<1> SUFFICES ASSUME Shapes, SeatInOrder, [Next]_vars
             PROVE  SeatInOrder'
  OBVIOUS
<1>1. CASE UNCHANGED <<seat, refused, session, toServer>>
  BY <1>1 DEF SeatInOrder, Alternate, Within, AttachRoom, DetachRoom, Has
<1> QED BY <1>1, OfferSteps, ServerSeats, StreamSeats, OfferSeats

\* Nothing in flight: the seat is what the last attach or detach made it.
LEMMA SeatSettled == SeatInOrder => SeatFollowsStream
<1> SUFFICES ASSUME SeatInOrder, Quiet
             PROVE  seat <=> session # 0 /\ ~refused
  BY DEF SeatFollowsStream
<1>1. toServer = <<>>
  BY DEF Quiet
<1> QED BY <1>1 DEF SeatInOrder, Alternate, Within, Has
-------------------------------------------------------------------------------
(* The audience.                                                              *)

LEMMA Others ==
  ASSUME Shapes, [Next]_vars
  PROVE  \/ \E v \in Viewer : ViewerNext(v)
         \/ ServerStep
         \/ Starting \/ Stopping
         \/ \E S \in SUBSET Viewer : \E f \in HelperFrame : Adding(f, S)
         \/ \E v \in Viewer : Removing(v)
         \/ \/ \E v \in Viewer : RunTask(v)
            \/ poll_negotiations
            \/ \E v \in Viewer, n \in Serial : Answered(v, n)
         \/ \E o \in late : LateCallback(o)
         \/ \/ \E command \in {"start", "stop"} : Command(command)
            \/ UNCHANGED vars
BY ThreadSteps DEF Next, HelperNext

\* An offer that is queued is neither an attach nor a detach.
LEMMA DetachesQueued ==
  ASSUME Shapes, toServer' = toServer \/ \E o \in OfferFrame : toServer' = Append(toServer, o)
  PROVE  Has(toServer, DetachRoom)' <=> Has(toServer, DetachRoom)
<1>1. CASE toServer' = toServer
  BY <1>1 DEF Has, DetachRoom
<1>2. ASSUME NEW o \in OfferFrame, toServer' = Append(toServer, o)
      PROVE  Has(toServer', DetachRoom) <=> Has(toServer, DetachRoom)
  <2>1. o \in ServerFrame /\ o # DetachRoom
    BY ServerFrames DEF OfferFrame, DetachRoom
  <2> QED BY <1>2, <2>1, HasAppended DEF Shapes
<1>3. Has(toServer, DetachRoom)' <=> Has(toServer', DetachRoom)
  BY DEF Has, DetachRoom
<1> QED BY <1>1, <1>2, <1>3

LEMMA DetachesHandled ==
  ASSUME Shapes, ServerStep
  PROVE  Has(toServer, DetachRoom) <=> Has(toServer, DetachRoom)' \/ Head(toServer) = DetachRoom
<1>1. Has(toServer, DetachRoom) <=> Has(Tail(toServer), DetachRoom) \/ DetachRoom = Head(toServer)
  BY HasTaken DEF Shapes, ServerStep
<1> QED BY <1>1 DEF ServerStep, Has, DetachRoom

LEMMA AnnouncedKept ==
  ASSUME toHelper' = toHelper
  PROVE  /\ \A v : Announced(v)' <=> Announced(v)
         /\ \A v : Has(toHelper, PeerLeft(v))' <=> Has(toHelper, PeerLeft(v))
BY DEF Announced, Announcing, Has, PeerLeft

\* A page that joins, leaves or answers, and what the helper is told of it.
LEMMA ViewerTells ==
  ASSUME Shapes, NEW w \in Viewer, ViewerNext(w)
  PROVE  /\ UNCHANGED <<server, toServer, entry, failed, stream>>
         /\ \A v \in Viewer : v # w => page'[v] = page[v]
         /\ \A v \in Viewer : Announced(v) => Announced(v)'
         /\ \A v \in Viewer : Has(toHelper, PeerLeft(v)) => Has(toHelper, PeerLeft(v))'
         /\ \A v \in Viewer : Announced(v)' => Announced(v) \/ (seat /\ page'[v] = "inside")
         /\ \/ page'[w] = page[w]
            \/ page'[w] = "inside" /\ (seat => Announced(w)')
            \/ page[w] = "inside" /\ page'[w] = "gone" /\ (seat => Has(toHelper, PeerLeft(w))')
<1>1. UNCHANGED <<server, toServer, entry, failed, stream>>
  BY DEF ViewerNext, Join, Leave, handleOffer
<1>2. CASE ~seat
  <2>1. toHelper' = toHelper
    BY <1>2 DEF ViewerNext, Join, Leave, handleOffer, Tell
  <2> QED BY <1>1, <1>2, <2>1, AnnouncedKept DEF ViewerNext, Join, Leave, handleOffer, Shapes
<1>3. CASE seat /\ Join(w)
  <2>1. PICK f \in HelperFrame : f = PeerJoined(w)
    BY HelperFrames
  <2>2. toHelper' = Append(toHelper, f)
    BY <1>3, <2>1 DEF Join, Tell, PeerJoined
  <2>3. /\ \A v \in Viewer : Announced(v)' <=> Announced(v) \/ v = w
        /\ \A v \in Viewer : Has(toHelper, PeerLeft(v)) => Has(toHelper, PeerLeft(v))'
    BY <2>1, <2>2, FramesAppended, WhoIsAnnounced
  <2>4. page'[w] = "inside" /\ \A v \in Viewer : v # w => page'[v] = page[v]
    BY <1>3 DEF Join, Shapes
  <2> QED BY <1>1, <1>3, <2>3, <2>4
<1>4. CASE seat /\ Leave(w)
  <2>1. PICK f \in HelperFrame : f = PeerLeft(w)
    BY HelperFrames
  <2>2. toHelper' = Append(toHelper, f)
    BY <1>4, <2>1 DEF Leave, Tell, PeerLeft
  <2>3. /\ \A v \in Viewer : Announced(v)' <=> Announced(v)
        /\ \A v \in Viewer : Has(toHelper, PeerLeft(v))' <=> Has(toHelper, PeerLeft(v)) \/ PeerLeft(v) = f
    BY <2>1, <2>2, FramesAppended, WhoIsAnnounced
  <2>4. page[w] = "inside" /\ page'[w] = "gone" /\ \A v \in Viewer : v # w => page'[v] = page[v]
    BY <1>4 DEF Leave, Shapes
  <2> QED BY <1>1, <1>4, <2>1, <2>3, <2>4
<1>5. CASE seat /\ handleOffer(w)
  <2>1. Head(offers[w]) \in Serial
    BY <1>5, Taken DEF handleOffer, Shapes
  <2>2. PICK f \in HelperFrame : f = Answer(w, Head(offers[w]))
    BY <2>1, HelperFrames
  <2>3. page' = page /\ (toHelper' = toHelper \/ toHelper' = Append(toHelper, f))
    BY <1>5, <2>2 DEF handleOffer, Tell, Answer
  <2>4. CASE toHelper' = toHelper
    BY <1>1, <2>3, <2>4, AnnouncedKept
  <2>5. CASE toHelper' = Append(toHelper, f)
    <3>1. /\ \A v \in Viewer : Announced(v)' <=> Announced(v)
          /\ \A v \in Viewer : Has(toHelper, PeerLeft(v)) => Has(toHelper, PeerLeft(v))'
      BY <2>1, <2>2, <2>5, FramesAppended, WhoIsAnnounced
    <3> QED BY <1>1, <2>3, <3>1
  <2> QED BY <2>3, <2>4, <2>5
<1> QED BY <1>2, <1>3, <1>4, <1>5 DEF ViewerNext

\* The server announces those inside, or nobody.
LEMMA ServerTells ==
  ASSUME Shapes, ServerStep
  PROVE  /\ UNCHANGED <<page, entry, failed, stream>>
         /\ \A v \in Viewer : Announced(v) => Announced(v)'
         /\ \A v \in Viewer : Has(toHelper, PeerLeft(v)) => Has(toHelper, PeerLeft(v))'
         /\ \/ seat' = TRUE /\ Head(toServer) = AttachRoom
               /\ \A v \in Viewer : Announced(v)' <=> Announced(v) \/ v \in Inside
            \/ /\ \A v \in Viewer : Announced(v)' => Announced(v)
               /\ \/ seat' = seat /\ Head(toServer) # DetachRoom
                  \/ seat' = FALSE /\ Head(toServer) = DetachRoom
<1>1. UNCHANGED <<page, entry, failed, stream>>
  BY DEF ServerStep
<1>2. CASE Attaching
  <2>1. PICK f \in HelperFrame : f = AttachAck(Inside) /\ Inside \in SUBSET Viewer
    BY HelperFrames DEF Inside
  <2>2. toHelper' = Append(toHelper, f) /\ seat' = TRUE /\ Head(toServer) = AttachRoom
    BY <1>2, <2>1 DEF Attaching, Arrives, attachHelperToRoom, AttachAck
  <2>3. /\ \A v \in Viewer : Announced(v)' <=> Announced(v) \/ v \in Inside
        /\ \A v \in Viewer : Has(toHelper, PeerLeft(v)) => Has(toHelper, PeerLeft(v))'
    BY <2>1, <2>2, FramesAppended, WhoIsAnnounced
  <2> QED BY <1>1, <2>2, <2>3
<1>3. CASE Refusing
  BY <1>1, <1>3, AnnouncedKept, FramesDiffer DEF Refusing, Arrives, refuseAttach
<1>4. CASE Detaching
  BY <1>1, <1>4, AnnouncedKept DEF Detaching, Arrives
<1>5. CASE \E v \in Viewer, n \in Serial : Relaying(v, n)
  BY <1>1, <1>5, AnnouncedKept, FramesDiffer DEF Relaying, Arrives, relayOffer, server
<1> QED BY <1>2, <1>3, <1>4, <1>5, ServerSteps

LEMMA CommandTells ==
  ASSUME Shapes, UNCHANGED vars \/ \E command \in {"start", "stop"} : Command(command)
  PROVE  /\ UNCHANGED <<server, page, toServer, entry, failed, stream>>
         /\ \A v \in Viewer : Announced(v)' <=> Announced(v)
         /\ \A v \in Viewer : Has(toHelper, PeerLeft(v)) => Has(toHelper, PeerLeft(v))'
<1>1. UNCHANGED <<server, page, toServer, entry, failed, stream>>
  BY DEF Command, vars, viewers
<1>2. CASE toHelper' = toHelper
  BY <1>1, <1>2, AnnouncedKept
<1>3. CASE toHelper' = Append(toHelper, Start) \/ toHelper' = Append(toHelper, [type |-> "stop"])
  BY <1>1, <1>3, HelperFrames, FramesAppended, WhoIsAnnounced
<1> QED BY <1>2, <1>3 DEF Command, vars, Start

\* A step of a webrtcbin, or a tick: nobody is announced, added or removed.
LEMMA EntriesTell ==
  ASSUME Shapes,
         \/ \E v \in Viewer : RunTask(v)
         \/ poll_negotiations
         \/ \E v \in Viewer, n \in Serial : Answered(v, n)
  PROVE  /\ UNCHANGED <<server, page, stream>> /\ Serving' = Serving /\ failed \subseteq failed'
         /\ \A v \in Viewer : Announced(v)' <=> Announced(v)
         /\ \A v \in Viewer : Has(toHelper, PeerLeft(v)) => Has(toHelper, PeerLeft(v))'
<1>1. UNCHANGED <<server, page, stream>> /\ Serving' = Serving
  BY KeptEntries DEF RunTask, poll_negotiations, Answered, Hears, viewers
<1>2. CASE \E v \in Viewer : RunTask(v)
  <2>1. failed \subseteq failed'
    BY <1>2, TaskSteps
  <2> QED BY <1>1, <1>2, <2>1, AnnouncedKept DEF RunTask
<1>3. CASE poll_negotiations
  BY <1>1, <1>3, AnnouncedKept DEF poll_negotiations
<1>4. CASE \E v \in Viewer, n \in Serial : Answered(v, n)
  BY <1>1, <1>4, FrameTaken, WhoIsAnnounced, FramesDiffer DEF Answered
<1> QED BY <1>2, <1>3, <1>4

\* Those who are announced get a webrtcbin, unless it cannot be built; the others keep theirs.
LEMMA AddingTells ==
  ASSUME Shapes, NEW S \in SUBSET Viewer, NEW f \in HelperFrame, Adding(f, S)
  PROVE  /\ UNCHANGED <<server, page, toServer, stream>>
         /\ \A v \in Viewer : Announced(v) <=> Announced(v)' \/ v \in S
         /\ \A v \in Viewer : Has(toHelper, PeerLeft(v)) => Has(toHelper, PeerLeft(v))'
         /\ \A v \in Viewer : v \in Serving => v \in Serving'
         /\ \A v \in Viewer : v \in Serving' => v \in Serving \/ v \in S
         /\ session # 0 => \A v \in S : v \in Serving' \cup failed'
         /\ \A v \in Viewer \ S : v \in failed => v \in failed'
<1>1. UNCHANGED <<server, page, toServer, stream>> /\ Hears(f)
  BY DEF Adding, Hears, viewers
<1>2. /\ \A v \in Viewer : Announced(v) <=> Announced(v)' \/ v \in S
      /\ \A v \in Viewer : Has(toHelper, PeerLeft(v)) => Has(toHelper, PeerLeft(v))'
  BY <1>1, FrameTaken, AnnouncesExactly DEF Adding
<1>3. session # 0 => NewEntry # NoEntry
  <2>1. session # 0 => NewEntry \in Entry
    BY StreamsAreSerials DEF NewEntry, Entry
  <2> QED BY <2>1, EntryFields
<1>4. PICK B \in SUBSET (IF session = 0 THEN {} ELSE S \ Serving) :
        /\ entry' = [v \in Viewer |-> IF session # 0 /\ v \in S \ (Serving \cup B)
                                       THEN NewEntry ELSE entry[v]]
        /\ failed' = (failed \ S) \cup B
  BY DEF Adding, add_viewers
<1>5. \A v \in Viewer : v \in Serving' <=> v \in Serving \/ (session # 0 /\ v \in S \ B)
  BY <1>3, <1>4 DEF Serving
<1> QED BY <1>1, <1>2, <1>4, <1>5

LEMMA RemovingTells ==
  ASSUME Shapes, Departures, NEW w \in Viewer, Removing(w)
  PROVE  /\ UNCHANGED <<server, page, toServer, stream>>
         /\ page[w] = "gone" /\ ~Announced(w)' /\ w \notin Serving'
         /\ \A v \in Viewer : Announced(v)' <=> Announced(v)
         /\ \A v \in Viewer \ {w} : /\ Has(toHelper, PeerLeft(v)) => Has(toHelper, PeerLeft(v))'
                                    /\ v \in Serving' <=> v \in Serving
                                    /\ v \in failed => v \in failed'
<1>1. UNCHANGED <<server, page, toServer, stream>> /\ Hears(PeerLeft(w))
  BY DEF Removing, Hears, viewers
<1>2. /\ \A v \in Viewer : Announced(v)' <=> Announced(v)
      /\ \A v \in Viewer \ {w} : Has(toHelper, PeerLeft(v)) => Has(toHelper, PeerLeft(v))'
  BY <1>1, FrameTaken, WhoIsAnnounced, FramesDiffer
<1>3. page[w] = "gone" /\ ~Announced(w)'
  BY <1>1, DepartureArrives
<1>4. w \notin Serving' /\ \A v \in Viewer \ {w} : (v \in Serving' <=> v \in Serving) /\ (v \in failed => v \in failed')
  BY DEF Removing, remove_viewer, Serving, Shapes
<1> QED BY <1>1, <1>2, <1>3, <1>4

\* At the end of a stream everyone is dropped, and nobody is announced anew.
LEMMA StreamTells ==
  ASSUME Shapes, Starting \/ Stopping
  PROVE  /\ UNCHANGED <<server, page>> /\ Serving' = {}
         /\ \A v \in Viewer : Announced(v)' => Announced(v)
<1>1. UNCHANGED <<server, page>> /\ Serving' = {}
  BY DEF Starting, Stopping, Hears, Clicked, viewers, DropAll, Serving
<1>2. CASE toHelper' = toHelper
  BY <1>1, <1>2, AnnouncedKept
<1>3. CASE Hears(Start) \/ Hears([type |-> "stop"])
  BY <1>1, <1>3, FrameTaken
<1> QED BY <1>2, <1>3 DEF Starting, Stopping, Clicked

LEMMA AttendedStep ==
  Shapes /\ Departures /\ SeatInOrder /\ Attended /\ [Next]_vars => Attended'
<1> SUFFICES ASSUME Shapes, Departures, SeatInOrder, Attended, [Next]_vars,
                    seat', ~Has(toServer, DetachRoom)', NEW v \in Viewer, page'[v] = "inside"
             PROVE  v \in Serving' \cup failed' \/ Announced(v)'
  BY DEF Attended, Inside
<1>1. seat /\ ~Has(toServer, DetachRoom) /\ page[v] = "inside" => v \in Serving \cup failed \/ Announced(v)
  BY DEF Attended, Inside
<1>2. CASE \E w \in Viewer : ViewerNext(w)
  <2>1. PICK w \in Viewer : ViewerNext(w)
    BY <1>2
  <2>2. seat /\ Serving' = Serving /\ failed' = failed /\ ~Has(toServer, DetachRoom)
    BY <2>1, ViewerTells, DetachesQueued DEF server, Serving
  <2>3. CASE page[v] = "inside"
    BY <1>1, <2>1, <2>2, <2>3, ViewerTells
  <2>4. CASE page[v] # "inside"
    BY <2>1, <2>2, <2>4, ViewerTells
  <2> QED BY <2>3, <2>4
<1>3. CASE ServerStep
  <2>1. Serving' = Serving /\ failed' = failed /\ page' = page
    BY <1>3, ServerTells DEF Serving
  <2>2. CASE \A u \in Viewer : Announced(u)' <=> Announced(u) \/ u \in Inside
    BY <2>1, <2>2 DEF Inside
  <2>3. CASE seat' = seat /\ Head(toServer) # DetachRoom
    <3>1. ~Has(toServer, DetachRoom)
      BY <1>3, <2>3, DetachesHandled
    <3> QED BY <1>1, <1>3, <2>1, <2>3, <3>1, ServerTells
  <2> QED BY <1>3, <2>2, <2>3, ServerTells
<1>4. CASE Starting \/ Stopping
  <2>1. seat
    BY <1>4, StreamTells DEF server
  <2>2. Has(ToStop, DetachRoom) /\ ToStop \in Seq(ServerFrame)
    BY <2>1, ToStopAlternates DEF Alternate, Within, Has
  <2>3. Has(Append(ToStop, AttachRoom), DetachRoom)
    BY <2>2, HasAppended, ServerFrames
  <2>4. Has(toServer', DetachRoom)
    BY <1>4, <2>2, <2>3 DEF Starting, Stopping
  <2> QED BY <2>4 DEF Has, DetachRoom
<1>5. CASE \E S \in SUBSET Viewer : \E f \in HelperFrame : Adding(f, S)
  <2>1. PICK S \in SUBSET Viewer, f \in HelperFrame : Adding(f, S)
    BY <1>5
  <2>2. seat /\ page' = page /\ ~Has(toServer, DetachRoom)
    BY <2>1, AddingTells, DetachesQueued DEF server
  <2>3. session # 0
    BY <2>2 DEF SeatInOrder, Alternate, Within, Has
  <2>4. CASE v \in S
    BY <2>1, <2>3, <2>4, AddingTells
  <2>5. CASE v \notin S
    BY <1>1, <2>1, <2>2, <2>5, AddingTells
  <2> QED BY <2>4, <2>5
<1>6. CASE \E w \in Viewer : Removing(w)
  <2>1. PICK w \in Viewer : Removing(w)
    BY <1>6
  <2>2. seat /\ page' = page /\ ~Has(toServer, DetachRoom) /\ v # w
    BY <2>1, RemovingTells, DetachesQueued DEF server
  <2> QED BY <1>1, <2>1, <2>2, RemovingTells
<1>7. CASE \/ \E w \in Viewer : RunTask(w)
           \/ poll_negotiations
           \/ \E w \in Viewer, n \in Serial : Answered(w, n)
  <2>1. toServer' = toServer \/ \E o \in OfferFrame : toServer' = Append(toServer, o)
    <3>1. CASE \E w \in Viewer : RunTask(w)
      <4>1. PICK w \in Viewer, e \in Entry : toServer' \in {toServer, Append(toServer, Offer(w, e.serial))}
        BY <3>1, TaskSteps
      <4>2. Offer(w, e.serial) \in OfferFrame
        BY ServerFrames, EntryFields
      <4> QED BY <4>1, <4>2
    <3> QED BY <1>7, <3>1 DEF poll_negotiations, Answered
  <2>2. seat /\ page' = page /\ ~Has(toServer, DetachRoom)
    BY <1>7, <2>1, EntriesTell, DetachesQueued DEF server
  <2> QED BY <1>1, <1>7, <2>2, EntriesTell
<1>8. CASE \E o \in late : LateCallback(o)
  <2>1. toServer' = toServer \/ \E o \in OfferFrame : toServer' = Append(toServer, o)
    BY <1>8 DEF LateCallback, Shapes
  <2>2. /\ seat /\ page' = page /\ ~Has(toServer, DetachRoom) /\ Serving' = Serving /\ failed' = failed
        /\ Announced(v)' <=> Announced(v)
    BY <1>8, <2>1, DetachesQueued, AnnouncedKept DEF LateCallback, viewers, server, Serving
  <2> QED BY <1>1, <2>2
<1>9. CASE (\E command \in {"start", "stop"} : Command(command)) \/ UNCHANGED vars
  <2>1. /\ seat /\ page' = page /\ ~Has(toServer, DetachRoom) /\ Serving' = Serving /\ failed' = failed
        /\ Announced(v)' <=> Announced(v)
    BY <1>9, CommandTells, DetachesQueued DEF server, Serving
  <2> QED BY <1>1, <2>1
<1> QED BY <1>2, <1>3, <1>4, <1>5, <1>6, <1>7, <1>8, <1>9, Others

\* Before the first stream nothing happens in the room that the helper would know of.
LEMMA BeforeStreams ==
  ASSUME Shapes, OffersOut, FirstStream, [Next]_vars, streams' = 0
  PROVE  /\ toServer' = <<>> /\ ~seat'
         /\ \A v \in Viewer : v \notin Serving' /\ ~Announced(v)'
<1>1. streams = 0 /\ ~Starting
  <2>1. streams \in Nat
    BY DEF Shapes
  <2>2. ~Starting
    BY <2>1 DEF Starting
  <2>3. ServerStep \/ Stopping => streams' = streams
    BY DEF ServerStep, Stopping, stream
  <2> QED BY <2>2, <2>3, OfferSteps
<1>2. /\ toServer = <<>> /\ ~seat /\ session = 0 /\ Serving = {}
      /\ \A v \in Viewer : v \notin Serving /\ ~Announced(v)
  BY <1>1 DEF FirstStream, Shapes, Serving
<1>3. late = {}
  <2>1. ASSUME NEW o \in late
        PROVE  FALSE
    <3>1. PICK v \in Viewer, n \in Serial : o = Offer(v, n)
      BY DEF Shapes, OfferFrame, Offer
    <3>2. n <= streams
      BY <3>1 DEF OffersOut, Out
    <3> QED BY <1>1, <3>2, RoomAssumption DEF Serial
  <2> QED BY <2>1
<1>4. CASE \E w \in Viewer : ViewerNext(w)
  <2>1. PICK w \in Viewer : ViewerNext(w)
    BY <1>4
  <2> QED BY <1>2, <2>1, ViewerTells DEF server, Serving
<1>5. CASE Stopping
  <2>1. toServer' = toServer
    BY <1>2, <1>5 DEF Stopping, ToStop
  <2> QED BY <1>2, <1>5, <2>1, StreamTells DEF server
<1>6. CASE \E S \in SUBSET Viewer : \E f \in HelperFrame : Adding(f, S)
  <2>1. PICK S \in SUBSET Viewer, f \in HelperFrame : Adding(f, S)
    BY <1>6
  <2> QED BY <1>2, <2>1, AddingTells DEF server
<1>7. CASE (\E w \in Viewer : Removing(w)) \/ \E w \in Viewer, n \in Serial : Answered(w, n)
  <2>1. UNCHANGED <<server, toServer>>
    BY <1>7 DEF Removing, Answered, Hears
  <2>2. \A v \in Viewer : Announced(v)' => Announced(v)
    BY <1>7, FrameTaken DEF Removing, Answered
  <2>3. \A v \in Viewer : entry'[v] = NoEntry
    BY <1>2, <1>7 DEF Removing, remove_viewer, Answered, Serving, Shapes
  <2> QED BY <1>2, <2>1, <2>2, <2>3 DEF server, Serving
<1>8. CASE (\E w \in Viewer : RunTask(w)) \/ poll_negotiations
  BY <1>2, <1>8 DEF RunTask, poll_negotiations, NeedOffer, Pending
<1>9. CASE (\E command \in {"start", "stop"} : Command(command)) \/ UNCHANGED vars
  BY <1>2, <1>9, CommandTells DEF server, Serving
<1>10. ~ServerStep
  BY <1>2 DEF ServerStep
<1> QED BY <1>1, <1>3, <1>4, <1>5, <1>6, <1>7, <1>8, <1>9, <1>10, Others

\* The first stream begins with nothing to undo ...
LEMMA FirstBegins ==
  ASSUME Shapes, FirstStream, Starting, streams' = 1
  PROVE  ~Has(toServer, DetachRoom)' /\ \A v \in Viewer : v \notin Serving' /\ ~Announced(v)'
<1>1. streams = 0
  BY DEF Starting, Shapes
<1>2. toServer = <<>> /\ session = 0 /\ \A v \in Viewer : ~Announced(v)
  BY <1>1 DEF FirstStream, Shapes
<1>3. toServer' = Append(<<>>, AttachRoom)
  BY <1>2 DEF Starting, ToStop
<1>4. <<>> \in Seq(ServerFrame)
  OBVIOUS
<1>5. ~Has(toServer', DetachRoom)
  BY <1>3, <1>4, HasAppended, HasNothing, ServerFrames, FramesDiffer
<1> QED BY <1>2, <1>5, StreamTells DEF Has, DetachRoom

\* ... and while it runs, whoever leaves is followed by a departure.
LEMMA FirstRuns ==
  ASSUME Shapes, Departures, FirstStream, [Next]_vars, streams' = 1, session' # 0, ~Starting
  PROVE  /\ ~Has(toServer, DetachRoom)'
         /\ \A v \in Viewer : v \in Serving' \/ Announced(v)' =>
              seat' /\ (page'[v] # "inside" => Has(toHelper, PeerLeft(v))')
<1>1. ~Stopping /\ streams = 1 /\ session # 0
  BY OfferSteps DEF Stopping, ServerStep, stream
<1>2. /\ ~Has(toServer, DetachRoom)
      /\ \A v \in Viewer : v \in Serving \/ Announced(v) =>
           seat /\ (page[v] # "inside" => Has(toHelper, PeerLeft(v)))
  BY <1>1 DEF FirstStream
<1>3. ~Has(toServer, DetachRoom)'
  <2>1. CASE ServerStep
    BY <1>2, <2>1, DetachesHandled
  <2> QED BY <1>1, <1>2, <2>1, OfferSteps, DetachesQueued
<1> SUFFICES ASSUME NEW v \in Viewer, v \in Serving' \/ Announced(v)'
             PROVE  seat' /\ (page'[v] # "inside" => Has(toHelper, PeerLeft(v))')
  BY <1>3
<1>4. CASE \E w \in Viewer : ViewerNext(w)
  <2>1. PICK w \in Viewer : ViewerNext(w)
    BY <1>4
  <2>2. seat' = seat /\ (v \in Serving' <=> v \in Serving)
    BY <2>1, ViewerTells DEF server, Serving
  <2>3. v \in Serving \/ Announced(v) \/ (seat /\ page'[v] = "inside")
    BY <2>1, <2>2, ViewerTells
  <2> QED BY <1>2, <2>1, <2>2, <2>3, ViewerTells
<1>5. CASE ServerStep
  <2>1. v \in Serving' <=> v \in Serving
    BY <1>5, ServerTells DEF Serving
  <2>2. Head(toServer) # DetachRoom
    BY <1>2, <1>5, DetachesHandled
  <2>3. v \in Serving \/ Announced(v) \/ (seat' /\ page[v] = "inside")
    BY <1>5, <2>1, ServerTells DEF Inside
  <2>4. seat => seat'
    BY <1>5, <2>2, ServerTells
  <2> QED BY <1>2, <1>5, <2>3, <2>4, ServerTells
<1>6. CASE \E S \in SUBSET Viewer : \E f \in HelperFrame : Adding(f, S)
  <2>1. PICK S \in SUBSET Viewer, f \in HelperFrame : Adding(f, S)
    BY <1>6
  <2>2. v \in Serving \/ Announced(v)
    BY <2>1, AddingTells
  <2> QED BY <1>2, <2>1, <2>2, AddingTells DEF server
<1>7. CASE \E w \in Viewer : Removing(w)
  <2>1. PICK w \in Viewer : Removing(w)
    BY <1>7
  <2>2. v # w /\ (v \in Serving \/ Announced(v))
    BY <2>1, RemovingTells
  <2> QED BY <1>2, <2>1, <2>2, RemovingTells DEF server
<1>8. CASE \/ \E w \in Viewer : RunTask(w)
           \/ poll_negotiations
           \/ \E w \in Viewer, n \in Serial : Answered(w, n)
  BY <1>2, <1>8, EntriesTell DEF server
<1>9. CASE \E o \in late : LateCallback(o)
  BY <1>2, <1>9, AnnouncedKept DEF LateCallback, viewers, server, Serving
<1>10. CASE (\E command \in {"start", "stop"} : Command(command)) \/ UNCHANGED vars
  BY <1>2, <1>10, CommandTells DEF server, Serving
<1> QED BY <1>1, <1>4, <1>5, <1>6, <1>7, <1>8, <1>9, <1>10, Others

LEMMA FirstStreamStep ==
  Shapes /\ Departures /\ OffersOut /\ FirstStream /\ [Next]_vars => FirstStream'
<1> SUFFICES ASSUME Shapes, Departures, OffersOut, FirstStream, [Next]_vars
             PROVE  FirstStream'
  OBVIOUS
<1>1. streams' = 0 => /\ toServer' = <<>> /\ ~seat'
                      /\ \A v \in Viewer : v \notin Serving' /\ ~Announced(v)'
  BY BeforeStreams
<1>2. streams' = 1 /\ session' # 0 =>
        /\ ~Has(toServer, DetachRoom)'
        /\ \A v \in Viewer : v \in Serving' \/ Announced(v)' =>
             seat' /\ (page'[v] # "inside" => Has(toHelper, PeerLeft(v))')
  BY FirstBegins, FirstRuns
<1> QED BY <1>1, <1>2 DEF FirstStream

LEMMA AudienceServed == SeatInOrder /\ Attended /\ FirstStream => ServesAudience
<1> SUFFICES ASSUME SeatInOrder, Attended, FirstStream, Quiet, seat
             PROVE  /\ Inside \subseteq Serving \cup failed
                    /\ streams = 1 => Serving \subseteq Inside
  BY DEF ServesAudience
<1>1. toServer = <<>> /\ toHelper = <<>>
  BY DEF Quiet
<1>2. ~Has(toServer, DetachRoom) /\ \A v : ~Announced(v) /\ ~Has(toHelper, PeerLeft(v))
  BY <1>1 DEF Has, Announced
<1>3. Inside \subseteq Serving \cup failed
  BY <1>2 DEF Attended, Inside
<1>4. session # 0
  BY SeatSettled DEF SeatFollowsStream
<1> QED BY <1>2, <1>3, <1>4 DEF FirstStream, Serving, Inside
-------------------------------------------------------------------------------
(* The work of a webrtcbin.                                                   *)

LEMMA BitType == \A b : Bit(b) \in {0, 1}
BY DEF Bit

LEMMA WorkType ==
  ASSUME NEW e \in Entry \cup {NoEntry}
  PROVE  Work(e) \in Nat /\ Back(e) \in Nat
<1>1. CASE e = NoEntry
  BY <1>1 DEF Work, Back
<1>2. CASE e # NoEntry
  <2>1. e.tasks \in Seq(Task)
    BY <1>2, EntryFields
  <2>2. \A A : Count(e.tasks, A) \in Nat
    BY <2>1, CountType
  <2> QED BY <1>2, <2>2, BitType DEF Work, Back
<1> QED BY <1>1, <1>2

LEMMA WorkParts ==
  ASSUME Shapes, NEW v \in Viewer
  PROVE  /\ Work(entry[v]) \in Nat /\ Back(entry[v]) \in Nat
         /\ Bit(tracked[v] = "todo") \in Nat /\ Count(toHelper, Announcing(v)) \in Nat
         /\ Count(toServer, {AttachRoom}) \in Nat /\ Bit(page[v] = "outside" /\ seat) \in Nat
         /\ Count(toHelper, AnswersOf(v)) \in Nat /\ Bit(~answered[v]) \in Nat /\ streams \in Nat
<1>1. \A A : Count(toHelper, A) \in Nat /\ Count(toServer, A) \in Nat
  BY CountType DEF Shapes
<1>2. entry[v] \in Entry \cup {NoEntry} /\ streams \in Nat
  BY DEF Shapes
<1> QED BY <1>1, <1>2, BitType, WorkType

LEMMA WorkPartsNext ==
  ASSUME Shapes', NEW v \in Viewer
  PROVE  /\ Work(entry'[v]) \in Nat /\ Back(entry'[v]) \in Nat
         /\ Bit(tracked'[v] = "todo") \in Nat /\ Count(toHelper', Announcing(v)) \in Nat
         /\ Count(toServer', {AttachRoom}) \in Nat /\ Bit(page'[v] = "outside" /\ seat') \in Nat
         /\ Count(toHelper', AnswersOf(v)) \in Nat /\ Bit(~answered'[v]) \in Nat /\ streams' \in Nat
<1>1. \A A : Count(toHelper', A) \in Nat /\ Count(toServer', A) \in Nat
  <2>1. toHelper' \in Seq(HelperFrame) /\ toServer' \in Seq(ServerFrame)
    BY DEF Shapes, ServerFrame, HelperFrame, OfferFrame, Serial, AttachRoom, DetachRoom
  <2> QED BY <2>1, CountType
<1>2. entry'[v] \in Entry \cup {NoEntry} /\ streams' \in Nat
  BY DEF Shapes, Entry, Serial, Task
<1> QED BY <1>1, <1>2, BitType, WorkType

\* What is due to v does not grow, except with the streams, and neither does what comes back.
LEMMA WorkKept ==
  ASSUME Shapes, Shapes', WorkBounded, NEW v \in Viewer,
         Work(entry'[v]) + Bit(tracked'[v] = "todo") + Count(toHelper', Announcing(v))
           <= Work(entry[v]) + Bit(tracked[v] = "todo") + Count(toHelper, Announcing(v)),
         Back(entry'[v]) + Count(toHelper', AnswersOf(v)) <= Back(entry[v]) + Count(toHelper, AnswersOf(v)),
         Count(toServer', {AttachRoom}) + streams <= Count(toServer, {AttachRoom}) + streams',
         page' = page, answered' = answered, seat' = seat
  PROVE  Due(v)' <= streams' /\ Returns(v)' <= 1
<1>1. Due(v) <= streams /\ Returns(v) <= 1
  BY DEF WorkBounded
<1>2. Bit(page'[v] = "outside" /\ seat') = Bit(page[v] = "outside" /\ seat) /\ Bit(~answered'[v]) = Bit(~answered[v])
  OBVIOUS
<1>3. Due(v)' = Work(entry'[v]) + Bit(tracked'[v] = "todo") + Count(toHelper', Announcing(v))
                + Count(toServer', {AttachRoom}) + Bit(page'[v] = "outside" /\ seat')
  BY DEF Due
<1>4. Returns(v)' = Back(entry'[v]) + Count(toHelper', AnswersOf(v)) + Bit(~answered'[v])
  BY DEF Returns
<1>5. Due(v) = Work(entry[v]) + Bit(tracked[v] = "todo") + Count(toHelper, Announcing(v))
                + Count(toServer, {AttachRoom}) + Bit(page[v] = "outside" /\ seat)
  BY DEF Due
<1>6. Returns(v) = Back(entry[v]) + Count(toHelper, AnswersOf(v)) + Bit(~answered[v])
  BY DEF Returns
<1>7. Due(v)' <= streams'
  <2>1. PICK w, c, o, n \in Nat :
          /\ w = Work(entry[v]) + Bit(tracked[v] = "todo") + Count(toHelper, Announcing(v))
          /\ c = Count(toServer, {AttachRoom}) /\ o = Bit(page[v] = "outside" /\ seat) /\ n = streams
    <3>1. /\ Work(entry[v]) \in Nat /\ Bit(tracked[v] = "todo") \in Nat
          /\ Count(toHelper, Announcing(v)) \in Nat
      BY WorkParts
    <3>2. Work(entry[v]) + Bit(tracked[v] = "todo") + Count(toHelper, Announcing(v)) \in Nat
      BY <3>1
    <3> QED BY <3>2, WorkParts
  <2>2. PICK w1, c1, n1 \in Nat :
          /\ w1 = Work(entry'[v]) + Bit(tracked'[v] = "todo") + Count(toHelper', Announcing(v))
          /\ c1 = Count(toServer', {AttachRoom}) /\ n1 = streams'
    <3>1. /\ Work(entry'[v]) \in Nat /\ Bit(tracked'[v] = "todo") \in Nat
          /\ Count(toHelper', Announcing(v)) \in Nat
      BY WorkPartsNext
    <3>2. Work(entry'[v]) + Bit(tracked'[v] = "todo") + Count(toHelper', Announcing(v)) \in Nat
      BY <3>1
    <3> QED BY <3>2, WorkPartsNext
  <2>3. w1 <= w /\ c1 + n <= c + n1
    BY <2>1, <2>2
  <2>4. w + c + o <= n
    BY <1>1, <1>5, <2>1
  <2>5. Due(v)' = w1 + c1 + o
    BY <1>2, <1>3, <2>1, <2>2
  <2> QED BY <2>2, <2>3, <2>4, <2>5
<1>8. Returns(v)' <= 1
  BY <1>1, <1>2, <1>4, <1>6, WorkParts, WorkPartsNext
<1> QED BY <1>7, <1>8

\* The same for the steps that do not touch the webrtcbins.
LEMMA WorkMoved ==
  ASSUME Shapes, Shapes', WorkBounded, NEW v \in Viewer,
         entry' = entry, tracked' = tracked, streams' = streams,
         Count(toHelper', Announcing(v)) + Count(toServer', {AttachRoom}) + Bit(page'[v] = "outside" /\ seat')
           <= Count(toHelper, Announcing(v)) + Count(toServer, {AttachRoom}) + Bit(page[v] = "outside" /\ seat),
         Count(toHelper', AnswersOf(v)) + Bit(~answered'[v]) <= Count(toHelper, AnswersOf(v)) + Bit(~answered[v])
  PROVE  Due(v)' <= streams' /\ Returns(v)' <= 1
<1>1. PICK w, b, n, m, m1, u, u1 \in Nat :
        /\ w = Work(entry[v]) + Bit(tracked[v] = "todo") /\ b = Back(entry[v]) /\ n = streams
        /\ m = Count(toHelper, AnswersOf(v)) /\ m1 = Count(toHelper', AnswersOf(v))
        /\ u = Bit(~answered[v]) /\ u1 = Bit(~answered'[v])
  <2>1. Work(entry[v]) \in Nat /\ Bit(tracked[v] = "todo") \in Nat
    BY WorkParts
  <2>2. Work(entry[v]) + Bit(tracked[v] = "todo") \in Nat
    BY <2>1
  <2>3. Back(entry[v]) \in Nat /\ streams \in Nat /\ Count(toHelper, AnswersOf(v)) \in Nat /\ Bit(~answered[v]) \in Nat
    BY WorkParts
  <2>4. Count(toHelper', AnswersOf(v)) \in Nat /\ Bit(~answered'[v]) \in Nat
    BY WorkPartsNext
  <2> QED BY <2>2, <2>3, <2>4
<1>2. PICK a, c, o, a1, c1, o1 \in Nat :
        /\ a = Count(toHelper, Announcing(v)) /\ c = Count(toServer, {AttachRoom})
        /\ o = Bit(page[v] = "outside" /\ seat)
        /\ a1 = Count(toHelper', Announcing(v)) /\ c1 = Count(toServer', {AttachRoom})
        /\ o1 = Bit(page'[v] = "outside" /\ seat')
  BY WorkParts, WorkPartsNext
<1>3. a1 + c1 + o1 <= a + c + o /\ m1 + u1 <= m + u
  BY <1>1, <1>2
<1>4. w + a + c + o <= n /\ b + m + u <= 1
  BY <1>1, <1>2 DEF WorkBounded, Due, Returns
<1>5. Due(v)' = w + a1 + c1 + o1
  BY <1>1, <1>2 DEF Due
<1>6. Returns(v)' = b + m1 + u1
  BY <1>1 DEF Returns
<1> QED BY <1>1, <1>3, <1>4, <1>5, <1>6

LEMMA FramesCounted ==
  ASSUME Shapes
  PROVE  /\ \A A : Count(toHelper, A) \in Nat /\ Count(toServer, A) \in Nat
         /\ \A f \in HelperFrame : toHelper' = Append(toHelper, f) =>
              \A A : Count(toHelper', A) = Count(toHelper, A) + Bit(f \in A)
         /\ \A f : Hears(f) => \A A : /\ Count(toHelper, A) = Count(toHelper', A) + Bit(f \in A)
                                      /\ Count(toHelper', A) \in Nat
<1>1. \A A : Count(toHelper, A) \in Nat /\ Count(toServer, A) \in Nat
  BY CountType DEF Shapes
<1>2. \A f \in HelperFrame : toHelper' = Append(toHelper, f) =>
        \A A : Count(toHelper', A) = Count(toHelper, A) + Bit(f \in A)
  BY CountAppended DEF Shapes
<1>3. \A f : Hears(f) => \A A : /\ Count(toHelper, A) = Count(toHelper', A) + Bit(f \in A)
                                /\ Count(toHelper', A) \in Nat
  <2> SUFFICES ASSUME NEW f, Hears(f), NEW A
               PROVE  /\ Count(toHelper, A) = Count(toHelper', A) + Bit(f \in A)
                      /\ Count(toHelper', A) \in Nat
    OBVIOUS
  <2>1. toHelper' \in Seq(HelperFrame)
    BY Taken DEF Shapes, Hears
  <2>2. Count(toHelper', A) \in Nat
    BY <2>1, CountType
  <2> QED BY <2>2, CountTaken DEF Shapes, Hears
<1> QED BY <1>1, <1>2, <1>3

LEMMA Bits ==
  /\ \A b : b => Bit(b) = 1
  /\ \A b : ~b => Bit(b) = 0
BY DEF Bit

LEMMA NotAnswers ==
  ASSUME NEW v \in Viewer
  PROVE  /\ \A w \in Viewer, n \in Serial : Answer(w, n) \in AnswersOf(v) <=> w = v
         /\ \A w : PeerJoined(w) \notin AnswersOf(v) /\ PeerLeft(w) \notin AnswersOf(v)
         /\ \A W : AttachAck(W) \notin AnswersOf(v)
         /\ Start \notin AnswersOf(v) /\ [type |-> "stop"] \notin AnswersOf(v)
BY FramesDiffer DEF AnswersOf

LEMMA ViewerWork ==
  ASSUME Shapes, Shapes', WorkBounded, NEW w \in Viewer, ViewerNext(w)
  PROVE  WorkBounded'
<1> SUFFICES ASSUME NEW v \in Viewer
             PROVE  Due(v)' <= streams' /\ Returns(v)' <= 1
  BY DEF WorkBounded
<1>1. entry' = entry /\ tracked' = tracked /\ streams' = streams /\ toServer' = toServer /\ seat' = seat
  BY DEF ViewerNext, Join, Leave, handleOffer, stream, server
<1> DEFINE C == Count(toServer, {AttachRoom})
           N == Count(toHelper, Announcing(v))
           M == Count(toHelper, AnswersOf(v))
<1>2. C \in Nat /\ N \in Nat /\ M \in Nat /\ Count(toServer', {AttachRoom}) = C
  BY <1>1, FramesCounted
<1>3. ASSUME toHelper' = toHelper,
             page'[v] = page[v] \/ page'[v] # "outside", answered'[v] = answered[v] \/ answered'[v]
      PROVE  Due(v)' <= streams' /\ Returns(v)' <= 1
  <2>1. Bit(page'[v] = "outside" /\ seat') \in Nat /\ Bit(page[v] = "outside" /\ seat) \in Nat
        /\ Bit(~answered'[v]) \in Nat /\ Bit(~answered[v]) \in Nat
    BY BitType
  <2>2. Bit(page'[v] = "outside" /\ seat') <= Bit(page[v] = "outside" /\ seat)
    BY <1>1, <1>3 DEF Bit
  <2>3. Bit(~answered'[v]) <= Bit(~answered[v])
    <3>1. CASE answered'[v]
      <4>1. Bit(~answered'[v]) = 0
        BY <3>1, Bits
      <4> QED BY <2>1, <4>1
    <3>2. CASE ~answered'[v]
      <4>1. Bit(~answered'[v]) = 1 /\ Bit(~answered[v]) = 1
        BY <1>3, <3>2, Bits
      <4> QED BY <4>1
    <3> QED BY <3>1, <3>2
  <2>4. Count(toHelper', Announcing(v)) = N /\ Count(toHelper', AnswersOf(v)) = M
    BY <1>3
  <2> HIDE DEF C, N, M
  <2>5. N + C + Bit(page'[v] = "outside" /\ seat') <= N + C + Bit(page[v] = "outside" /\ seat)
    BY <1>2, <2>1, <2>2
  <2>6. M + Bit(~answered'[v]) <= M + Bit(~answered[v])
    BY <1>2, <2>1, <2>3
  <2> QED BY <1>1, <1>2, <2>4, <2>5, <2>6, WorkMoved DEF C, N, M
<1>4. CASE ~seat
  <2>1. toHelper' = toHelper
    BY <1>4 DEF ViewerNext, Join, Leave, handleOffer, Tell
  <2>2. page'[v] = page[v] \/ page'[v] # "outside"
    BY DEF ViewerNext, Join, Leave, handleOffer, Shapes
  <2>3. answered'[v] = answered[v] \/ answered'[v]
    BY DEF ViewerNext, Join, Leave, handleOffer, Shapes
  <2> QED BY <1>3, <2>1, <2>2, <2>3
<1>5. CASE seat /\ Join(w)
  <2>1. PICK f \in HelperFrame : f = PeerJoined(w) /\ toHelper' = Append(toHelper, f)
    BY <1>5, HelperFrames DEF Join, Tell, PeerJoined
  <2>2. /\ Count(toHelper', Announcing(v)) = N + Bit(f \in Announcing(v))
        /\ Count(toHelper', AnswersOf(v)) = M + Bit(f \in AnswersOf(v))
    BY <2>1, FramesCounted
  <2>3. f \notin AnswersOf(v) /\ (f \in Announcing(v) <=> v = w)
    BY <2>1, NotAnswers, WhoIsAnnounced
  <2>4. answered'[v] = answered[v] /\ Bit(~answered[v]) \in Nat
    BY <1>5, BitType DEF Join
  <2>5. Bit(f \in AnswersOf(v)) = 0
    BY <2>3, Bits
  <2>6. Bit(f \in Announcing(v)) + Bit(page'[v] = "outside" /\ seat') <= Bit(page[v] = "outside" /\ seat)
        /\ Bit(f \in Announcing(v)) \in Nat /\ Bit(page'[v] = "outside" /\ seat') \in Nat
        /\ Bit(page[v] = "outside" /\ seat) \in Nat
    <3>1. CASE v = w
      <4>1. page[v] = "outside" /\ page'[v] = "inside"
        BY <1>5, <3>1 DEF Join, Shapes
      <4> QED BY <1>5, <2>3, <3>1, <4>1 DEF Bit
    <3>2. CASE v # w
      <4>1. page'[v] = page[v]
        BY <1>5, <3>2 DEF Join, Shapes
      <4> QED BY <1>1, <2>3, <3>2, <4>1 DEF Bit
    <3> QED BY <3>1, <3>2
  <2> HIDE DEF C, N, M
  <2>7. (N + Bit(f \in Announcing(v))) + C + Bit(page'[v] = "outside" /\ seat')
          <= N + C + Bit(page[v] = "outside" /\ seat)
    BY <1>2, <2>6
  <2>8. (M + 0) + Bit(~answered'[v]) <= M + Bit(~answered[v])
    BY <1>2, <2>4
  <2> QED BY <1>1, <1>2, <2>2, <2>5, <2>7, <2>8, WorkMoved DEF C, N, M
<1>6. CASE seat /\ Leave(w)
  <2>1. PICK f \in HelperFrame : f = PeerLeft(w) /\ toHelper' = Append(toHelper, f)
    BY <1>6, HelperFrames DEF Leave, Tell, PeerLeft
  <2>2. /\ Count(toHelper', Announcing(v)) = N + Bit(f \in Announcing(v))
        /\ Count(toHelper', AnswersOf(v)) = M + Bit(f \in AnswersOf(v))
    BY <2>1, FramesCounted
  <2>3. Bit(f \in Announcing(v)) = 0 /\ Bit(f \in AnswersOf(v)) = 0
    BY <2>1, NotAnswers, WhoIsAnnounced, Bits
  <2>4. answered'[v] = answered[v] /\ Bit(~answered[v]) \in Nat
    BY <1>6, BitType DEF Leave
  <2>5. /\ Bit(page'[v] = "outside" /\ seat') <= Bit(page[v] = "outside" /\ seat)
        /\ Bit(page'[v] = "outside" /\ seat') \in Nat /\ Bit(page[v] = "outside" /\ seat) \in Nat
    <3>1. page'[v] = page[v] \/ page'[v] = "gone"
      BY <1>6 DEF Leave, Shapes
    <3> QED BY <1>1, <3>1 DEF Bit
  <2> HIDE DEF C, N, M
  <2>6. (N + 0) + C + Bit(page'[v] = "outside" /\ seat') <= N + C + Bit(page[v] = "outside" /\ seat)
    BY <1>2, <2>5
  <2>7. (M + 0) + Bit(~answered'[v]) <= M + Bit(~answered[v])
    BY <1>2, <2>4
  <2> QED BY <1>1, <1>2, <2>2, <2>3, <2>6, <2>7, WorkMoved DEF C, N, M
<1>7. CASE seat /\ handleOffer(w)
  <2>1. page' = page /\ Bit(page[v] = "outside" /\ seat) \in Nat
    BY <1>7, BitType DEF handleOffer
  <2>2. CASE UNCHANGED <<answered, toHelper>>
    BY <1>3, <2>1, <2>2
  <2>3. CASE ~answered[w] /\ answered' = [answered EXCEPT ![w] = TRUE]
             /\ toHelper' = Append(toHelper, [type |-> "answer", peer |-> w, serial |-> Head(offers[w])])
    <3>1. Head(offers[w]) \in Serial
      BY <1>7, Taken DEF handleOffer, Shapes
    <3>2. PICK f \in HelperFrame : f = Answer(w, Head(offers[w])) /\ toHelper' = Append(toHelper, f)
      BY <2>3, <3>1, HelperFrames DEF Answer
    <3>3. /\ Count(toHelper', Announcing(v)) = N + Bit(f \in Announcing(v))
          /\ Count(toHelper', AnswersOf(v)) = M + Bit(f \in AnswersOf(v))
      BY <3>2, FramesCounted
    <3>4. f \notin Announcing(v) /\ (f \in AnswersOf(v) <=> v = w)
      BY <3>1, <3>2, WhoIsAnnounced, NotAnswers
    <3>5. Bit(f \in Announcing(v)) = 0
      BY <3>4, Bits
    <3>6. Bit(f \in AnswersOf(v)) + Bit(~answered'[v]) <= Bit(~answered[v])
          /\ Bit(f \in AnswersOf(v)) \in Nat /\ Bit(~answered'[v]) \in Nat /\ Bit(~answered[v]) \in Nat
      <4>1. CASE v = w
        BY <2>3, <3>4, <4>1 DEF Bit, Shapes
      <4>2. CASE v # w
        BY <2>3, <3>4, <4>2 DEF Bit, Shapes
      <4> QED BY <4>1, <4>2
    <3> HIDE DEF C, N, M
    <3>7. (N + 0) + C + Bit(page[v] = "outside" /\ seat) <= N + C + Bit(page[v] = "outside" /\ seat)
      BY <1>2, <2>1
    <3>8. (M + Bit(f \in AnswersOf(v))) + Bit(~answered'[v]) <= M + Bit(~answered[v])
      BY <1>2, <3>6
    <3> QED BY <1>1, <1>2, <2>1, <3>3, <3>5, <3>7, <3>8, WorkMoved DEF C, N, M
  <2> QED BY <1>7, <2>2, <2>3 DEF handleOffer, Tell
<1> QED BY <1>4, <1>5, <1>6, <1>7 DEF ViewerNext

LEMMA ServerWork ==
  ASSUME Shapes, Shapes', WorkBounded, ServerStep
  PROVE  WorkBounded'
<1> SUFFICES ASSUME NEW v \in Viewer
             PROVE  Due(v)' <= streams' /\ Returns(v)' <= 1
  BY DEF WorkBounded
<1>1. entry' = entry /\ tracked' = tracked /\ streams' = streams /\ page' = page /\ answered' = answered
  BY DEF ServerStep, stream
<1> DEFINE C == Count(toServer', {AttachRoom})
           N == Count(toHelper, Announcing(v))
           M == Count(toHelper, AnswersOf(v))
           U == Bit(~answered[v])
           O == Bit(page[v] = "outside" /\ seat)
           O1 == Bit(page[v] = "outside" /\ seat')
           H == Bit(Head(toServer) \in {AttachRoom})
<1>2. C \in Nat /\ N \in Nat /\ M \in Nat /\ U \in Nat /\ O \in Nat /\ O1 \in Nat /\ H \in Nat
  <2>1. C \in Nat
    BY WorkPartsNext
  <2>2. N \in Nat /\ M \in Nat
    BY WorkParts
  <2>3. U \in Nat /\ O \in Nat /\ O1 \in Nat /\ H \in Nat
    BY BitType
  <2> QED BY <2>1, <2>2, <2>3
<1>3. Count(toServer, {AttachRoom}) = C + H
  BY CountTaken DEF ServerStep, Shapes
<1>4. Bit(~answered'[v]) = U /\ Bit(page'[v] = "outside" /\ seat') = O1
  BY <1>1
<1>5. CASE Attaching
  <2>1. Inside \in SUBSET Viewer
    BY DEF Inside
  <2>2. PICK f \in HelperFrame : f = AttachAck(Inside) /\ toHelper' = Append(toHelper, f)
    BY <1>5, <2>1, HelperFrames DEF Attaching, attachHelperToRoom, AttachAck
  <2> DEFINE K == Bit(f \in Announcing(v))
  <2>3. /\ Count(toHelper', Announcing(v)) = N + K
        /\ Count(toHelper', AnswersOf(v)) = M + Bit(f \in AnswersOf(v))
    BY <2>2, FramesCounted
  <2>4. Bit(f \in AnswersOf(v)) = 0
    BY <2>2, NotAnswers, Bits
  <2>5. H = 1
    BY <1>5, Bits DEF Attaching, Arrives
  <2>6. f \in Announcing(v) <=> v \in Inside
    BY <2>1, <2>2, WhoIsAnnounced
  <2>7. K + O1 <= 1 /\ K \in Nat
    <3>1. CASE v \in Inside
      BY <2>6, <3>1 DEF Bit, Inside
    <3>2. CASE v \notin Inside
      BY <2>6, <3>2 DEF Bit, Inside
    <3> QED BY <3>1, <3>2
  <2> HIDE DEF C, N, M, U, O, O1, H, K
  <2>8. (N + K) + C + O1 <= N + (C + H) + O
    BY <1>2, <2>5, <2>7
  <2>9. (M + 0) + U <= M + U
    BY <1>2
  <2> QED BY <1>1, <1>3, <1>4, <2>3, <2>4, <2>8, <2>9, WorkMoved DEF C, N, M, U, O, O1, H, K
<1>6. CASE Refusing \/ Detaching \/ \E w \in Viewer, n \in Serial : Relaying(w, n)
  <2>1. toHelper' = toHelper /\ (seat' = seat \/ seat' = FALSE)
    BY <1>6 DEF Refusing, refuseAttach, Detaching, Relaying, relayOffer, server
  <2>2. O1 <= O
    BY <2>1 DEF Bit
  <2>3. Count(toHelper', Announcing(v)) = N /\ Count(toHelper', AnswersOf(v)) = M
    BY <2>1
  <2> HIDE DEF C, N, M, U, O, O1, H
  <2>4. N + C + O1 <= N + (C + H) + O /\ M + U <= M + U
    BY <1>2, <2>2
  <2> QED BY <1>1, <1>3, <1>4, <2>3, <2>4, WorkMoved DEF C, N, M, U, O, O1, H
<1> QED BY <1>5, <1>6, ServerSteps

LEMMA StreamWork ==
  ASSUME Shapes, Shapes', WorkBounded, Starting \/ Stopping
  PROVE  WorkBounded'
<1> SUFFICES ASSUME NEW v \in Viewer
             PROVE  Due(v)' <= streams' /\ Returns(v)' <= 1
  BY DEF WorkBounded
<1>1. page' = page /\ answered' = answered /\ seat' = seat
  BY DEF Starting, Stopping, Hears, Clicked, viewers, server
<1>2. entry'[v] = NoEntry /\ (tracked'[v] = tracked[v] \/ tracked'[v] = "none")
  BY DEF Starting, Stopping, DropAll
<1>3. Work(entry'[v]) = 0 /\ Back(entry'[v]) = 0
  BY <1>2 DEF Work, Back
<1>4. Bit(tracked'[v] = "todo") <= Bit(tracked[v] = "todo")
  BY <1>2 DEF Bit
<1>5. \A A : Count(toHelper', A) <= Count(toHelper, A)
  <2>1. CASE toHelper' = toHelper
    BY <2>1, FramesCounted
  <2>2. ASSUME NEW f, Hears(f), NEW A
        PROVE  Count(toHelper', A) <= Count(toHelper, A)
    <3>1. Count(toHelper, A) = Count(toHelper', A) + Bit(f \in A) /\ Count(toHelper', A) \in Nat
      BY <2>2, FramesCounted
    <3>2. Bit(f \in A) \in Nat
      BY BitType
    <3> QED BY <3>1, <3>2
  <2> QED BY <2>1, <2>2 DEF Starting, Stopping, Clicked
<1>6. Count(toServer', {AttachRoom}) + streams <= Count(toServer, {AttachRoom}) + streams'
  <2> DEFINE C == Count(toServer, {AttachRoom})
  <2>1. C \in Nat /\ streams \in Nat
    BY WorkParts
  <2>2. ToStop \in Seq(ServerFrame) /\ Count(ToStop, {AttachRoom}) = C
    <3>1. CASE session = 0
      BY <3>1 DEF ToStop, Shapes
    <3>2. CASE session # 0
      <4>1. Bit(DetachRoom \in {AttachRoom}) = 0
        BY FramesDiffer, Bits
      <4>2. Count(Append(toServer, DetachRoom), {AttachRoom}) = C + Bit(DetachRoom \in {AttachRoom})
        BY CountAppended, ServerFrames DEF Shapes
      <4>3. Append(toServer, DetachRoom) \in Seq(ServerFrame)
        BY Appended, ServerFrames DEF Shapes
      <4> HIDE DEF C
      <4> QED BY <2>1, <3>2, <4>1, <4>2, <4>3 DEF ToStop
    <3> QED BY <3>1, <3>2
  <2>3. Count(Append(ToStop, AttachRoom), {AttachRoom}) = C + 1
    <3>1. Bit(AttachRoom \in {AttachRoom}) = 1
      BY Bits
    <3>2. Count(Append(ToStop, AttachRoom), {AttachRoom}) = Count(ToStop, {AttachRoom}) + Bit(AttachRoom \in {AttachRoom})
      BY <2>2, CountAppended, ServerFrames
    <3> QED BY <2>2, <3>1, <3>2
  <2>4. CASE Stopping
    BY <2>1, <2>2, <2>4 DEF Stopping
  <2>5. CASE Starting
    <3>1. Count(toServer', {AttachRoom}) = C + 1 /\ streams' = streams + 1
      BY <2>3, <2>5 DEF Starting
    <3> HIDE DEF C
    <3>2. (C + 1) + streams <= C + (streams + 1)
      BY <2>1
    <3> QED BY <3>1, <3>2 DEF C
  <2> QED BY <2>4, <2>5
<1>7. PICK w, b, t, n, m \in Nat :
        /\ w = Work(entry[v]) /\ b = Back(entry[v]) /\ t = Bit(tracked[v] = "todo")
        /\ n = Count(toHelper, Announcing(v)) /\ m = Count(toHelper, AnswersOf(v))
  BY WorkParts
<1>8. PICK t1, n1, m1 \in Nat :
        /\ t1 = Bit(tracked'[v] = "todo")
        /\ n1 = Count(toHelper', Announcing(v)) /\ m1 = Count(toHelper', AnswersOf(v))
  BY WorkPartsNext
<1>9. t1 <= t /\ n1 <= n /\ m1 <= m
  BY <1>4, <1>5, <1>7, <1>8
<1>10. 0 + t1 + n1 <= w + t + n /\ 0 + m1 <= b + m
  BY <1>9
<1> QED BY <1>1, <1>3, <1>6, <1>7, <1>8, <1>10, WorkKept

\* Steps on one frame, or on none: work may move from a frame to a webrtcbin.
LEMMA HearingWork ==
  ASSUME Shapes, Shapes', WorkBounded,
         \/ \E S \in SUBSET Viewer : \E f \in HelperFrame : Adding(f, S)
         \/ \E w \in Viewer : Removing(w)
         \/ \E w \in Viewer, n \in Serial : Answered(w, n)
  PROVE  WorkBounded'
<1> SUFFICES ASSUME NEW v \in Viewer
             PROVE  Due(v)' <= streams' /\ Returns(v)' <= 1
  BY DEF WorkBounded
<1>1. PICK f : Hears(f) /\ UNCHANGED <<toServer, stream>> /\
        \/ \E S \in SUBSET Viewer : f \in HelperFrame /\ Adding(f, S)
        \/ \E w \in Viewer : f = PeerLeft(w) /\ Removing(w)
        \/ \E w \in Viewer, n \in Serial : f = Answer(w, n) /\ Answered(w, n)
  BY DEF Adding, Removing, Answered
<1>2. page' = page /\ answered' = answered /\ seat' = seat /\ toServer' = toServer /\ streams' = streams
  BY <1>1 DEF Hears, viewers, server, stream
<1>3. Count(toServer', {AttachRoom}) + streams <= Count(toServer, {AttachRoom}) + streams'
  <2>1. Count(toServer, {AttachRoom}) \in Nat /\ streams \in Nat
    BY WorkParts
  <2>2. Count(toServer', {AttachRoom}) = Count(toServer, {AttachRoom})
    BY <1>2
  <2> QED BY <1>2, <2>1, <2>2
<1>4. PICK w0, b0, t0, n0, m0 \in Nat :
        /\ w0 = Work(entry[v]) /\ b0 = Back(entry[v]) /\ t0 = Bit(tracked[v] = "todo")
        /\ n0 = Count(toHelper, Announcing(v)) /\ m0 = Count(toHelper, AnswersOf(v))
  BY WorkParts
<1>5. PICK w1, b1, t1, n1, m1 \in Nat :
        /\ w1 = Work(entry'[v]) /\ b1 = Back(entry'[v]) /\ t1 = Bit(tracked'[v] = "todo")
        /\ n1 = Count(toHelper', Announcing(v)) /\ m1 = Count(toHelper', AnswersOf(v))
  BY WorkPartsNext
<1>6. n0 = n1 + Bit(f \in Announcing(v)) /\ m0 = m1 + Bit(f \in AnswersOf(v))
  BY <1>1, <1>4, <1>5, FramesCounted
<1>7. w1 + t1 + n1 <= w0 + t0 + n0 /\ b1 + m1 <= b0 + m0
  <2>1. ASSUME NEW S \in SUBSET Viewer, f \in HelperFrame, Adding(f, S)
        PROVE  w1 + t1 + n1 <= w0 + t0 + n0 /\ b1 + m1 <= b0 + m0
    <3>1. (f \in Announcing(v) <=> v \in S) /\ f \notin AnswersOf(v)
      BY <2>1, AnnouncesExactly DEF Adding, AnswersOf
    <3>2. m0 = m1
      <4>1. Bit(f \in AnswersOf(v)) = 0
        BY <3>1, Bits
      <4> QED BY <1>6, <4>1
    <3>3. PICK B \in SUBSET (IF session = 0 THEN {} ELSE S \ Serving) :
            /\ tracked' = [u \in Viewer |-> IF u \in B THEN "none" ELSE IF u \in S THEN "todo" ELSE tracked[u]]
            /\ entry' = [u \in Viewer |-> IF session # 0 /\ u \in S \ (Serving \cup B)
                                           THEN NewEntry ELSE entry[u]]
      BY <2>1 DEF Adding, add_viewers
    <3>4. w1 = w0 /\ b1 = b0
      <4>1. CASE session # 0 /\ v \in S \ (Serving \cup B)
        <5>1. entry[v] = NoEntry /\ entry'[v] = NewEntry
          BY <3>3, <4>1 DEF Serving
        <5>2. NewEntry.tasks = <<>> /\ NewEntry.pending = FALSE
          BY DEF NewEntry
        <5>3. Work(NewEntry) = 0 /\ Back(NewEntry) = 0
          BY <5>2, CountNothing, Bits DEF Work, Back
        <5>4. Work(NoEntry) = 0 /\ Back(NoEntry) = 0
          BY DEF Work, Back
        <5> QED BY <1>4, <1>5, <5>1, <5>3, <5>4
      <4>2. CASE ~(session # 0 /\ v \in S \ (Serving \cup B))
        <5>1. entry'[v] = entry[v]
          BY <3>3, <4>2
        <5> QED BY <1>4, <1>5, <5>1
      <4> QED BY <4>1, <4>2
    <3>5. t1 + n1 <= t0 + n0
      <4>1. CASE v \in S
        <5>1. Bit(f \in Announcing(v)) = 1
          BY <3>1, <4>1, Bits
        <5>2. n0 = n1 + 1 /\ t1 <= 1
          BY <1>5, <1>6, <5>1, BitType
        <5> QED BY <5>2
      <4>2. CASE v \notin S
        <5>1. Bit(f \in Announcing(v)) = 0 /\ tracked'[v] = tracked[v]
          BY <3>1, <3>3, <4>2, Bits
        <5>2. n0 = n1 /\ t1 = t0
          BY <1>4, <1>5, <1>6, <5>1
        <5> QED BY <5>2
      <4> QED BY <4>1, <4>2
    <3> QED BY <3>2, <3>4, <3>5
  <2>2. ASSUME NEW w \in Viewer, f = PeerLeft(w), Removing(w)
        PROVE  w1 + t1 + n1 <= w0 + t0 + n0 /\ b1 + m1 <= b0 + m0
    <3>1. Bit(f \in Announcing(v)) = 0 /\ Bit(f \in AnswersOf(v)) = 0
      BY <2>2, WhoIsAnnounced, NotAnswers, Bits
    <3>2. n0 = n1 /\ m0 = m1
      BY <1>6, <3>1
    <3>3. \/ entry'[v] = entry[v] /\ tracked'[v] = tracked[v]
          \/ entry'[v] = NoEntry /\ tracked'[v] = "none"
      BY <2>2 DEF Removing, remove_viewer, Shapes
    <3>4. CASE entry'[v] = entry[v] /\ tracked'[v] = tracked[v]
      BY <1>4, <1>5, <3>2, <3>4
    <3>5. CASE entry'[v] = NoEntry /\ tracked'[v] = "none"
      <4>1. Work(NoEntry) = 0 /\ Back(NoEntry) = 0 /\ Bit(tracked'[v] = "todo") = 0
        BY <3>5, Bits DEF Work, Back
      <4>2. w1 = 0 /\ b1 = 0 /\ t1 = 0
        BY <1>5, <3>5, <4>1
      <4> QED BY <3>2, <4>2
    <3> QED BY <3>3, <3>4, <3>5
  <2>3. ASSUME NEW w \in Viewer, NEW n \in Serial, f = Answer(w, n), Answered(w, n)
        PROVE  w1 + t1 + n1 <= w0 + t0 + n0 /\ b1 + m1 <= b0 + m0
    <3>1. f \notin Announcing(v) /\ (f \in AnswersOf(v) <=> v = w)
      BY <2>3, WhoIsAnnounced, NotAnswers
    <3>2. Bit(f \in Announcing(v)) = 0
      BY <3>1, Bits
    <3>3. n0 = n1 /\ t1 = t0
      BY <1>4, <1>5, <1>6, <2>3, <3>2 DEF Answered
    <3>4. CASE v \notin Serving
      <4>1. entry'[v] = entry[v] /\ Bit(f \in AnswersOf(v)) \in Nat
        BY <2>3, <3>4, AnswerEntries, EntriesServing, BitType
      <4>2. w1 = w0 /\ b1 = b0
        BY <1>4, <1>5, <4>1
      <4> QED BY <1>6, <3>3, <4>1, <4>2
    <3>5. CASE v \in Serving
      <4>1. /\ entry[v] \in Entry /\ entry'[v] \in Entry
            /\ entry'[v].pending = entry[v].pending
            /\ entry'[v].tasks = IF v = w THEN Append(entry[v].tasks, "remote") ELSE entry[v].tasks
        BY <2>3, <3>5, AnswerEntries, EntriesServing
      <4>2. entry[v].tasks \in Seq(Task) /\ "remote" \in Task
        BY <4>1, EntryFields DEF Task
      <4>3. \A A : /\ Count(entry[v].tasks, A) \in Nat
                   /\ Count(Append(entry[v].tasks, "remote"), A) = Count(entry[v].tasks, A) + Bit("remote" \in A)
        BY <4>2, CountAppended, CountType
      <4>4. /\ Bit("remote" \in {"create"}) = 0 /\ Bit("remote" \in {"local"}) = 0
            /\ Bit("remote" \in {"remote"}) = 1
        BY Bits
      <4>5. /\ w0 = Count(entry[v].tasks, {"create"}) + Count(entry[v].tasks, {"local"}) + Bit(entry[v].pending)
            /\ w1 = Count(entry'[v].tasks, {"create"}) + Count(entry'[v].tasks, {"local"}) + Bit(entry'[v].pending)
            /\ b0 = Count(entry[v].tasks, {"remote"}) /\ b1 = Count(entry'[v].tasks, {"remote"})
        BY <1>4, <1>5, <4>1, EntryFields DEF Work, Back
      <4>6. CASE v = w
        <5>1. Bit(f \in AnswersOf(v)) = 1
          BY <3>1, <4>6, Bits
        <5>2. w1 = w0
          BY <4>1, <4>3, <4>4, <4>5, <4>6
        <5>3. b1 = b0 + 1
          BY <4>1, <4>3, <4>4, <4>5, <4>6
        <5> QED BY <1>6, <3>3, <5>1, <5>2, <5>3
      <4>7. CASE v # w
        <5>1. Bit(f \in AnswersOf(v)) = 0
          BY <3>1, <4>7, Bits
        <5>2. w1 = w0 /\ b1 = b0
          BY <4>1, <4>5, <4>7
        <5> QED BY <1>6, <3>3, <5>1, <5>2
      <4> QED BY <4>6, <4>7
    <3> QED BY <3>4, <3>5
  <2> QED BY <1>1, <2>1, <2>2, <2>3
<1> QED BY <1>2, <1>3, <1>4, <1>5, <1>7, WorkKept

\* A webrtcbin works off a task, which may be followed by the next.
LEMMA TaskWork ==
  ASSUME Shapes, Shapes', WorkBounded, NEW w \in Viewer, RunTask(w)
  PROVE  WorkBounded'
<1> SUFFICES ASSUME NEW v \in Viewer
             PROVE  Due(v)' <= streams' /\ Returns(v)' <= 1
  BY DEF WorkBounded
<1>1. /\ page' = page /\ answered' = answered /\ seat' = seat /\ streams' = streams
      /\ toHelper' = toHelper /\ tracked' = tracked
  BY DEF RunTask, viewers, server, stream
<1>2. PICK e \in Entry :
        /\ entry' = [entry EXCEPT ![w] = e] /\ e.tasks = Tail(entry[w].tasks)
        /\ \/ /\ Head(entry[w].tasks) = "create" /\ toServer' = toServer
           \/ /\ Head(entry[w].tasks) = "local" /\ e.pending = entry[w].pending
              /\ toServer' \in {toServer, Append(toServer, Offer(w, e.serial))}
           \/ /\ Head(entry[w].tasks) = "remote" /\ toServer' = toServer /\ e.pending = entry[w].pending
  BY TaskSteps
<1>3. /\ w \in Serving /\ entry[w] \in Entry /\ entry[w].tasks # <<>>
      /\ entry[w].tasks \in Seq(Task)
  BY TaskSteps, EntryFields
<1>4. PICK n, m, t, c, s \in Nat :
        /\ n = Count(toHelper, Announcing(v)) /\ m = Count(toHelper, AnswersOf(v))
        /\ t = Bit(tracked[v] = "todo") /\ c = Count(toServer, {AttachRoom}) /\ s = streams
  BY WorkParts
<1>5. Count(toServer', {AttachRoom}) = c
  <2>1. CASE toServer' = toServer
    BY <1>4, <2>1
  <2>2. CASE toServer' = Append(toServer, Offer(w, e.serial))
    <3>1. Offer(w, e.serial) \in ServerFrame /\ Offer(w, e.serial) \notin {AttachRoom}
      BY ServerFrames, EntryFields, FramesDiffer
    <3>2. Bit(Offer(w, e.serial) \in {AttachRoom}) = 0
      BY <3>1, Bits
    <3>3. Count(Append(toServer, Offer(w, e.serial)), {AttachRoom})
            = Count(toServer, {AttachRoom}) + Bit(Offer(w, e.serial) \in {AttachRoom})
      <4>1. toServer \in Seq(ServerFrame)
        BY DEF Shapes
      <4> QED BY <3>1, <4>1, CountAppended
    <3> QED BY <1>4, <2>2, <3>2, <3>3
  <2> QED BY <1>2, <2>1, <2>2
<1>6. PICK x, y, b \in Nat :
        /\ x = Work(entry[v]) /\ y = Work(entry'[v]) /\ b = Back(entry[v]) /\ y <= x /\ Back(entry'[v]) <= b
        /\ Back(entry'[v]) \in Nat
  <2>1. PICK x, y, b, d \in Nat :
          x = Work(entry[v]) /\ y = Work(entry'[v]) /\ b = Back(entry[v]) /\ d = Back(entry'[v])
    BY WorkParts, WorkPartsNext
  <2>2. CASE v # w
    <3>1. entry'[v] = entry[v]
      BY <1>2, <2>2 DEF Shapes
    <3>2. y = x /\ d = b
      BY <2>1, <3>1
    <3>3. y <= x /\ d <= b
      BY <3>2
    <3> QED BY <2>1, <3>3
  <2>3. CASE v = w
    <3>1. entry'[v] = e /\ entry[v] = entry[w]
      BY <1>2, <2>3 DEF Shapes
    <3>2. \A A : /\ Count(entry[w].tasks, A) = Count(e.tasks, A) + Bit(Head(entry[w].tasks) \in A)
                 /\ Count(e.tasks, A) \in Nat
      <4>1. \A A : Count(entry[w].tasks, A) = Count(Tail(entry[w].tasks), A) + Bit(Head(entry[w].tasks) \in A)
        BY <1>3, CountTaken
      <4>2. e.tasks \in Seq(Task)
        BY EntryFields
      <4> QED BY <1>2, <4>1, <4>2, CountType
    <3>3. \A A : Count(entry[w].tasks, A) \in Nat
      BY <1>3, CountType
    <3> DEFINE c0 == Count(entry[w].tasks, {"create"})
               l0 == Count(entry[w].tasks, {"local"})
               r0 == Count(entry[w].tasks, {"remote"})
               p0 == Bit(entry[w].pending)
               c1 == Count(e.tasks, {"create"})
               l1 == Count(e.tasks, {"local"})
               r1 == Count(e.tasks, {"remote"})
               p1 == Bit(e.pending)
    <3>3a. /\ c0 \in Nat /\ l0 \in Nat /\ r0 \in Nat /\ p0 \in Nat
          /\ c1 \in Nat /\ l1 \in Nat /\ r1 \in Nat /\ p1 \in Nat
      BY <3>2, <3>3, BitType
    <3>3b. /\ c0 = c1 + Bit(Head(entry[w].tasks) \in {"create"})
          /\ l0 = l1 + Bit(Head(entry[w].tasks) \in {"local"})
          /\ r0 = r1 + Bit(Head(entry[w].tasks) \in {"remote"})
      BY <3>2
    <3>4. x = c0 + l0 + p0 /\ y = c1 + l1 + p1 /\ b = r0 /\ d = r1
      BY <1>3, <2>1, <3>1, EntryFields DEF Work, Back
    <3>5. p0 <= 1 /\ p1 <= 1
      BY BitType
    <3>3c. e.pending = entry[w].pending => p0 = p1
      OBVIOUS
    <3> HIDE DEF c0, l0, r0, p0, c1, l1, r1, p1
    <3>6. CASE Head(entry[w].tasks) = "create"
      <4>1. /\ Bit(Head(entry[w].tasks) \in {"create"}) = 1 /\ Bit(Head(entry[w].tasks) \in {"local"}) = 0
            /\ Bit(Head(entry[w].tasks) \in {"remote"}) = 0
        BY <3>6, Bits
      <4>2. c0 = c1 + 1 /\ l0 = l1 /\ r0 = r1
        BY <3>3a, <3>3b, <4>1
      <4>3. y <= x /\ d <= b
        BY <3>3a, <3>4, <3>5, <4>2
      <4> QED BY <2>1, <4>3
    <3>7. CASE Head(entry[w].tasks) = "local" /\ e.pending = entry[w].pending
      <4>1. /\ Bit(Head(entry[w].tasks) \in {"create"}) = 0 /\ Bit(Head(entry[w].tasks) \in {"local"}) = 1
            /\ Bit(Head(entry[w].tasks) \in {"remote"}) = 0
        BY <3>7, Bits
      <4>2. c0 = c1 /\ l0 = l1 + 1 /\ r0 = r1 /\ p0 = p1
        BY <3>3a, <3>3b, <3>3c, <3>7, <4>1
      <4>3. y <= x /\ d <= b
        BY <3>3a, <3>4, <4>2
      <4> QED BY <2>1, <4>3
    <3>8. CASE Head(entry[w].tasks) = "remote" /\ e.pending = entry[w].pending
      <4>1. /\ Bit(Head(entry[w].tasks) \in {"create"}) = 0 /\ Bit(Head(entry[w].tasks) \in {"local"}) = 0
            /\ Bit(Head(entry[w].tasks) \in {"remote"}) = 1
        BY <3>8, Bits
      <4>2. c0 = c1 /\ l0 = l1 /\ r0 = r1 + 1 /\ p0 = p1
        BY <3>3a, <3>3b, <3>3c, <3>8, <4>1
      <4>3. y <= x /\ d <= b
        BY <3>3a, <3>4, <4>2
      <4> QED BY <2>1, <4>3
    <3> QED BY <1>2, <3>6, <3>7, <3>8
  <2> QED BY <2>2, <2>3
<1>7. y + t + n <= x + t + n
  BY <1>6
<1>8. Back(entry'[v]) + m <= b + m
  BY <1>6
<1>9. c + s <= c + s
  BY <1>4
<1> QED BY <1>1, <1>4, <1>5, <1>6, <1>7, <1>8, <1>9, WorkKept

LEMMA OneMore ==
  ASSUME NEW s \in Seq(Task), NEW x \in Task, NEW A
  PROVE  Count(s \o <<x>>, A) = Count(s, A) + Bit(x \in A)
<1>1. s \o <<x>> = Append(s, x)
  OBVIOUS
<1> QED BY <1>1, CountAppended

\* A tick turns what is due into tasks, one for one.
LEMMA PollWork ==
  ASSUME Shapes, Shapes', WorkBounded, poll_negotiations
  PROVE  WorkBounded'
<1> SUFFICES ASSUME NEW v \in Viewer
             PROVE  Due(v)' <= streams' /\ Returns(v)' <= 1
  BY DEF WorkBounded
<1>1. /\ page' = page /\ answered' = answered /\ seat' = seat /\ streams' = streams
      /\ toHelper' = toHelper /\ toServer' = toServer
      /\ tracked'[v] = IF v \in NeedOffer THEN "sent" ELSE tracked[v]
  BY DEF poll_negotiations, viewers, server, stream
<1>2. PICK n, m, c, s, x, y, b, d, t, u \in Nat :
        /\ n = Count(toHelper, Announcing(v)) /\ m = Count(toHelper, AnswersOf(v))
        /\ c = Count(toServer, {AttachRoom}) /\ s = streams
        /\ x = Work(entry[v]) /\ y = Work(entry'[v]) /\ b = Back(entry[v]) /\ d = Back(entry'[v])
        /\ t = Bit(tracked[v] = "todo") /\ u = Bit(tracked'[v] = "todo")
  BY WorkParts, WorkPartsNext
<1>3. y + u <= x + t /\ d <= b
  <2>1. CASE v \notin Serving
    <3>1. entry'[v] = entry[v] /\ tracked'[v] = tracked[v]
      BY <1>1, <2>1, PollEntries, EntriesServing DEF NeedOffer
    <3>2. y = x /\ u = t /\ d = b
      BY <1>2, <3>1
    <3> QED BY <3>2
  <2>2. CASE v \in Serving
    <3>1. entry[v] \in Entry /\ entry'[v] \in Entry /\ entry[v].tasks \in Seq(Task) /\ ~entry'[v].pending
      BY <2>2, PollEntries, EntriesServing, EntryFields
    <3>2. PICK q \in {<<>>, <<"create">>}, r \in {<<>>, <<"local">>} :
            /\ entry'[v].tasks = (entry[v].tasks \o q) \o r
            /\ q = <<"create">> <=> tracked[v] = "todo"
            /\ r = <<"local">> <=> entry[v].pending
      BY <2>2, PollEntries
    <3>3. u = 0
      <4>1. tracked'[v] # "todo"
        BY <1>1, <2>2 DEF NeedOffer
      <4> QED BY <1>2, <4>1, Bits
    <3>4. "create" \in Task /\ "local" \in Task /\ \A z \in Seq(Task) : z \o <<>> = z
      BY DEF Task
    <3>5. PICK k \in Seq(Task) :
            /\ k = entry[v].tasks \o q
            /\ Count(k, {"create"}) = Count(entry[v].tasks, {"create"}) + t
            /\ Count(k, {"local"}) = Count(entry[v].tasks, {"local"})
            /\ Count(k, {"remote"}) = Count(entry[v].tasks, {"remote"})
      <4>1. \A A : Count(entry[v].tasks, A) \in Nat
        BY <3>1, CountType
      <4>2. CASE q = <<"create">>
        <5>1. t = 1
          BY <1>2, <3>2, <4>2, Bits
        <5>2. /\ Bit("create" \in {"create"}) = 1 /\ Bit("create" \in {"local"}) = 0
              /\ Bit("create" \in {"remote"}) = 0
          BY Bits
        <5>3. \A A : Count(entry[v].tasks \o q, A) = Count(entry[v].tasks, A) + Bit("create" \in A)
          BY <3>1, <3>4, <4>2, OneMore
        <5>4. entry[v].tasks \o q \in Seq(Task)
          BY <3>1, <3>4, <4>2
        <5>5. \A A : Count(entry[v].tasks, A) + 0 = Count(entry[v].tasks, A)
          BY <4>1
        <5>6. /\ Count(entry[v].tasks \o q, {"create"}) = Count(entry[v].tasks, {"create"}) + 1
              /\ Count(entry[v].tasks \o q, {"local"}) = Count(entry[v].tasks, {"local"}) + 0
              /\ Count(entry[v].tasks \o q, {"remote"}) = Count(entry[v].tasks, {"remote"}) + 0
          BY <5>2, <5>3
        <5> QED BY <5>1, <5>4, <5>5, <5>6
      <4>3. CASE q # <<"create">>
        <5>1. t = 0 /\ entry[v].tasks \o q = entry[v].tasks
          BY <1>2, <3>1, <3>2, <3>4, <4>3, Bits
        <5> QED BY <3>1, <4>1, <5>1
      <4> QED BY <4>2, <4>3
    <3>6. PICK p \in Nat : p = Bit(entry[v].pending)
      BY BitType
    <3>7. /\ Count(k \o r, {"create"}) = Count(k, {"create"})
          /\ Count(k \o r, {"local"}) = Count(k, {"local"}) + p
          /\ Count(k \o r, {"remote"}) = Count(k, {"remote"})
      <4>1. \A A : Count(k, A) \in Nat
        BY CountType
      <4>2. CASE r = <<"local">>
        <5>1. p = 1
          BY <3>2, <3>6, <4>2, Bits
        <5>2. /\ Bit("local" \in {"create"}) = 0 /\ Bit("local" \in {"local"}) = 1
              /\ Bit("local" \in {"remote"}) = 0
          BY Bits
        <5>3. \A A : Count(k \o r, A) = Count(k, A) + Bit("local" \in A)
          BY <3>4, <4>2, OneMore
        <5> QED BY <4>1, <5>1, <5>2, <5>3
      <4>3. CASE r # <<"local">>
        <5>1. p = 0 /\ k \o r = k
          BY <3>2, <3>4, <3>6, <4>3, Bits
        <5> QED BY <4>1, <5>1
      <4> QED BY <4>2, <4>3
    <3>8. PICK c0, l0, r0 \in Nat :
            /\ c0 = Count(entry[v].tasks, {"create"}) /\ l0 = Count(entry[v].tasks, {"local"})
            /\ r0 = Count(entry[v].tasks, {"remote"})
      BY <3>1, CountType
    <3>9. x = c0 + l0 + p /\ b = r0
      BY <1>2, <3>1, <3>6, <3>8, EntryFields DEF Work, Back
    <3>10. Bit(entry'[v].pending) = 0
      BY <3>1, Bits
    <3>11. y = Count(k \o r, {"create"}) + Count(k \o r, {"local"}) + 0 /\ d = Count(k \o r, {"remote"})
      BY <1>2, <3>1, <3>2, <3>5, <3>10, EntryFields DEF Work, Back
    <3>12. y = (c0 + t) + (l0 + p) + 0 /\ d = r0
      BY <3>5, <3>7, <3>8, <3>11
    <3> QED BY <3>3, <3>9, <3>12
  <2> QED BY <2>1, <2>2
<1>4. y + u + n <= x + t + n /\ d + m <= b + m /\ c + s <= c + s
  BY <1>3
<1> QED BY <1>1, <1>2, <1>4, WorkKept

LEMMA OtherWork ==
  ASSUME Shapes, Shapes', WorkBounded,
         \/ \E o \in late : LateCallback(o)
         \/ \E command \in {"start", "stop"} : Command(command)
         \/ UNCHANGED vars
  PROVE  WorkBounded'
<1> SUFFICES ASSUME NEW v \in Viewer
             PROVE  Due(v)' <= streams' /\ Returns(v)' <= 1
  BY DEF WorkBounded
<1>1. entry' = entry /\ tracked' = tracked /\ streams' = streams /\ page' = page /\ answered' = answered /\ seat' = seat
  BY DEF LateCallback, Command, vars, stream, viewers, server
<1>2. PICK n, m, c, u, o \in Nat :
        /\ n = Count(toHelper, Announcing(v)) /\ m = Count(toHelper, AnswersOf(v))
        /\ c = Count(toServer, {AttachRoom}) /\ u = Bit(~answered[v]) /\ o = Bit(page[v] = "outside" /\ seat)
  BY WorkParts
<1>3. Count(toHelper', Announcing(v)) = n /\ Count(toHelper', AnswersOf(v)) = m
  <2>1. CASE toHelper' = toHelper
    BY <1>2, <2>1
  <2>2. ASSUME NEW f \in {Start, [type |-> "stop"]}, toHelper' = Append(toHelper, f)
        PROVE  Count(toHelper', Announcing(v)) = n /\ Count(toHelper', AnswersOf(v)) = m
    <3>1. Bit(f \in Announcing(v)) = 0 /\ Bit(f \in AnswersOf(v)) = 0 /\ f \in HelperFrame
      <4>1. CASE f = Start
        <5>1. f \in HelperFrame /\ f \notin Announcing(v) /\ f \notin AnswersOf(v)
          BY <4>1, HelperFrames, WhoIsAnnounced, NotAnswers
        <5> QED BY <5>1, Bits
      <4>2. CASE f = [type |-> "stop"]
        <5>1. f \in HelperFrame /\ f \notin Announcing(v) /\ f \notin AnswersOf(v)
          BY <4>2, HelperFrames, WhoIsAnnounced, NotAnswers
        <5> QED BY <5>1, Bits
      <4> QED BY <4>1, <4>2
    <3>2. /\ Count(toHelper', Announcing(v)) = n + Bit(f \in Announcing(v))
          /\ Count(toHelper', AnswersOf(v)) = m + Bit(f \in AnswersOf(v))
      BY <1>2, <2>2, <3>1, FramesCounted
    <3> QED BY <3>1, <3>2
  <2> QED BY <2>1, <2>2 DEF LateCallback, Command, vars, Start
<1>4. Count(toServer', {AttachRoom}) = c
  <2>1. CASE toServer' = toServer
    BY <1>2, <2>1
  <2>2. ASSUME NEW x \in late, toServer' = Append(toServer, x)
        PROVE  Count(toServer', {AttachRoom}) = c
    <3>1. x \in ServerFrame /\ x \notin {AttachRoom}
      BY ServerFrames, FramesDiffer DEF Shapes, OfferFrame, AttachRoom
    <3>2. Bit(x \in {AttachRoom}) = 0
      BY <3>1, Bits
    <3>3. Count(Append(toServer, x), {AttachRoom}) = Count(toServer, {AttachRoom}) + Bit(x \in {AttachRoom})
      BY <3>1, CountAppended DEF Shapes
    <3> QED BY <1>2, <2>2, <3>2, <3>3
  <2> QED BY <2>1, <2>2 DEF LateCallback, Command, vars
<1>5. Bit(page'[v] = "outside" /\ seat') = o /\ Bit(~answered'[v]) = u
  BY <1>1, <1>2
<1>6. n + c + o <= n + c + o /\ m + u <= m + u
  OBVIOUS
<1> QED BY <1>1, <1>2, <1>3, <1>4, <1>5, <1>6, WorkMoved

LEMMA WorkStep == Shapes /\ Shapes' /\ WorkBounded /\ [Next]_vars => WorkBounded'
<1> SUFFICES ASSUME Shapes, Shapes', WorkBounded, [Next]_vars
             PROVE  WorkBounded'
  OBVIOUS
<1> QED BY Others, ViewerWork, ServerWork, StreamWork, HearingWork, TaskWork, PollWork, OtherWork
-------------------------------------------------------------------------------
(* The invariant, and what it entails.                                        *)

LEMMA WorkInit == Init => WorkBounded
<1> SUFFICES ASSUME Init, NEW v \in Viewer
             PROVE  Due(v) <= streams /\ Returns(v) <= 1
  BY DEF WorkBounded
<1>1. /\ entry[v] = NoEntry /\ tracked[v] # "todo" /\ ~seat /\ ~answered[v]
      /\ toHelper = <<>> /\ toServer = <<>> /\ streams = 0
  BY DEF Init
<1>2. Work(entry[v]) = 0 /\ Back(entry[v]) = 0
  BY <1>1 DEF Work, Back
<1>3. /\ Count(toHelper, Announcing(v)) = 0 /\ Count(toHelper, AnswersOf(v)) = 0
      /\ Count(toServer, {AttachRoom}) = 0
  BY <1>1, CountNothing
<1>4. Bit(tracked[v] = "todo") = 0 /\ Bit(page[v] = "outside" /\ seat) = 0 /\ Bit(~answered[v]) = 1
  BY <1>1, Bits
<1> QED BY <1>1, <1>2, <1>3, <1>4 DEF Due, Returns

LEMMA IInvInit == Init => IInv
<1> SUFFICES ASSUME Init PROVE IInv
  OBVIOUS
<1>1. /\ toServer = <<>> /\ toHelper = <<>> /\ late = {} /\ Serving = {}
      /\ ~seat /\ session = 0 /\ streams = 0 /\ offers = [v \in Viewer |-> <<>>]
  BY DEF Init, Serving
<1>2. EntriesTracked /\ Departures /\ Attended
  BY <1>1 DEF EntriesTracked, Departures, Attended
<1>3. OffersOut
  BY <1>1, HasNothing DEF OffersOut, Out
<1>4. SeatInOrder
  BY <1>1 DEF SeatInOrder, Alternate
<1>5. FirstStream
  BY <1>1 DEF FirstStream, Announced
<1> QED BY <1>2, <1>3, <1>4, <1>5, ShapesInit, WorkInit DEF IInv

LEMMA IInvStep == IInv /\ [Next]_vars => IInv'
<1> SUFFICES ASSUME IInv, [Next]_vars
             PROVE  IInv'
  OBVIOUS
<1>1. Shapes'
  BY ShapesStep DEF IInv
<1>2. EntriesTracked' /\ Departures' /\ OffersOut'
  BY TrackedStep, DeparturesStep, OffersStep DEF IInv
<1>3. SeatInOrder' /\ Attended' /\ FirstStream'
  BY SeatsStep, AttendedStep, FirstStreamStep DEF IInv
<1>4. WorkBounded'
  BY <1>1, WorkStep DEF IInv
<1> QED BY <1>1, <1>2, <1>3, <1>4 DEF IInv

LEMMA IInvAlways == Spec => []IInv
BY IInvInit, IInvStep, PTL DEF Spec

\* Every task is of one of the three kinds.
LEMMA TasksCounted ==
  ASSUME NEW s \in Seq(Task)
  PROVE  Len(s) = Count(s, {"create"}) + Count(s, {"local"}) + Count(s, {"remote"})
<1> DEFINE C == {i \in 1..Len(s) : s[i] \in {"create"}}
           L == {i \in 1..Len(s) : s[i] \in {"local"}}
           R == {i \in 1..Len(s) : s[i] \in {"remote"}}
<1>1. IsFiniteSet(C) /\ IsFiniteSet(L) /\ IsFiniteSet(R)
  BY CountType
<1>2. \A i \in 1..Len(s) : s[i] \in {"create", "local", "remote"}
  BY DEF Task
<1> DEFINE B == C \cup L
<1>3. C \cap L = {} /\ B \cap R = {} /\ B \cup R = 1..Len(s)
  BY <1>2
<1>4. Len(s) \in Nat /\ Cardinality(1..Len(s)) = Len(s)
  <2>1. Len(s) \in Nat
    OBVIOUS
  <2>2. Cardinality(1..Len(s)) = IF 1 > Len(s) THEN 0 ELSE Len(s) - 1 + 1
    BY <2>1, FS_Interval
  <2> QED BY <2>1, <2>2
<1> HIDE DEF C, L, R
<1>5. IsFiniteSet(B) /\ Cardinality(B) = Cardinality(C) + Cardinality(L) - Cardinality({})
  BY <1>1, <1>3, FS_Union
<1> HIDE DEF B
<1>6. Cardinality(B \cup R) = Cardinality(B) + Cardinality(R) - Cardinality({})
  <2>1. IsFiniteSet(B) /\ IsFiniteSet(R)
    BY <1>1, <1>5
  <2>2. Cardinality(B \cup R) = Cardinality(B) + Cardinality(R) - Cardinality(B \cap R)
    BY <2>1, FS_Union
  <2> QED BY <2>2, <1>3
<1>7. Cardinality({}) = 0
  BY FS_EmptySet
<1>8. Cardinality(C) \in Nat /\ Cardinality(L) \in Nat /\ Cardinality(R) \in Nat
  BY <1>1, FS_CardinalityType
<1>9. Len(s) = Cardinality(C) + Cardinality(L) + Cardinality(R)
  <2>1. Cardinality(B) = Cardinality(C) + Cardinality(L)
    BY <1>5, <1>7, <1>8
  <2>2. Cardinality(B \cup R) = Cardinality(B) + Cardinality(R)
    BY <2>1, <1>6, <1>7, <1>8
  <2> QED BY <2>1, <2>2, <1>3, <1>4
<1> QED BY <1>9 DEF Count, C, L, R

\* Both parts of WorkBounded together bound the queue.
LEMMA QueuesBounded == Shapes /\ WorkBounded => \A v \in Serving : Len(entry[v].tasks) <= streams + 1
<1> SUFFICES ASSUME Shapes, WorkBounded, NEW v \in Serving
             PROVE  Len(entry[v].tasks) <= streams + 1
  OBVIOUS
<1>1. v \in Viewer /\ entry[v] \in Entry
  BY EntriesServing DEF Serving
<1>2. entry[v] # NoEntry /\ entry[v].tasks \in Seq(Task)
  BY <1>1, EntryFields
<1>3. PICK c, l, r, p \in Nat :
        /\ c = Count(entry[v].tasks, {"create"}) /\ l = Count(entry[v].tasks, {"local"})
        /\ r = Count(entry[v].tasks, {"remote"}) /\ p = Bit(entry[v].pending)
  <2>1. \A A : Count(entry[v].tasks, A) \in Nat
    BY <1>2, CountType
  <2>2. Bit(entry[v].pending) \in Nat
    BY BitType
  <2> QED BY <2>1, <2>2
<1>4. PICK n, m, a, u \in Nat :
        /\ n = Count(toHelper, Announcing(v)) /\ m = Count(toHelper, AnswersOf(v))
        /\ a = Count(toServer, {AttachRoom}) /\ u = Bit(~answered[v])
  BY <1>1, WorkParts
<1>5. PICK t, o \in Nat : t = Bit(tracked[v] = "todo") /\ o = Bit(page[v] = "outside" /\ seat)
  BY <1>1, WorkParts
<1>6. Work(entry[v]) = c + l + p /\ Back(entry[v]) = r
  BY <1>2, <1>3 DEF Work, Back
<1>7. (c + l + p) + t + n + a + o <= streams /\ r + m + u <= 1
  BY <1>1, <1>4, <1>5, <1>6 DEF WorkBounded, Due, Returns
<1>8. c + l <= streams /\ r <= 1 /\ streams \in Nat
  BY <1>7 DEF Shapes
<1>9. Len(entry[v].tasks) = c + l + r
  BY <1>2, <1>3, TasksCounted
<1> QED BY <1>8, <1>9

\* Nobody who is served has departed.
LEMMA SettledFirst == Shapes /\ EntriesTracked /\ OffersOut => OfferIsSettled
<1> SUFFICES ASSUME Shapes, EntriesTracked, OffersOut, NEW v \in Serving,
                    \/ \E i \in DOMAIN toServer : toServer[i] = Offer(v, session)
                    \/ \E i \in DOMAIN offers[v] : offers[v][i] = session
                    \/ \E i \in DOMAIN toHelper :
                         toHelper[i] = [type |-> "answer", peer |-> v, serial |-> session]
             PROVE  entry[v].signaling # "new"
  BY DEF OfferIsSettled, OfferOut, EntriesTracked
<1>1. v \in Viewer /\ entry[v] \in Entry
  BY EntriesServing DEF Serving
<1>2. session \in Serial
  BY <1>1, EntryFields DEF EntriesTracked
<1>3. /\ DOMAIN toServer = 1..Len(toServer) /\ DOMAIN toHelper = 1..Len(toHelper)
      /\ DOMAIN offers[v] = 1..Len(offers[v])
  BY <1>1 DEF Shapes
<1>4. Out(v, session)
  BY <1>3 DEF Out, Has, Answer
<1>5. Settled(v) \/ Departed(v)
  BY <1>1, <1>2, <1>4 DEF OffersOut
<1> QED BY <1>5 DEF Settled, Departed
-------------------------------------------------------------------------------
(* What holds of every helper.                                                *)

\* Every variable keeps its shape, and the queue of a webrtcbin never grows beyond an offer for
\* each stream and an answer, however many commands, refusals and departures there were.
THEOREM TypeCorrect == Spec => []TypeOK
<1>1. IInv => TypeOK
  <2> SUFFICES ASSUME IInv PROVE TypeOK
    OBVIOUS
  <2>1. streams \in Serial \cup {0} /\ session \in Serial \cup {0}
    BY StreamsAreSerials DEF IInv
  <2>2. OfferFrame \subseteq {Offer(v, n) : v \in Viewer, n \in Serial}
    BY DEF OfferFrame, Offer
  <2>3. \A v \in Serving : Len(entry[v].tasks) <= streams + 1
    BY QueuesBounded DEF IInv
  <2> QED BY <2>1, <2>2, <2>3 DEF IInv, Shapes, TypeOK
<1> QED BY <1>1, IInvAlways, PTL

\* App.viewers and session.viewers keep together: whoever has a webrtcbin is tracked, and its
\* webrtcbin is one of the running stream.
THEOREM EntriesAlwaysTracked == Spec => []EntriesTracked
BY IInvAlways, PTL DEF IInv

\* An offer of the running stream leaves the helper, and its answer comes back, only after the
\* webrtcbin has applied or refused it, late callbacks and restarts included.
THEOREM OffersAlwaysSettled == Spec => []OfferIsSettled
<1>1. IInv => OfferIsSettled
  BY SettledFirst DEF IInv
<1> QED BY <1>1, IInvAlways, PTL

\* Attaches and detaches reach the server in the order of the streams: when no frame is in
\* flight the helper has the seat exactly while it streams, unless it was refused.
THEOREM SeatAlwaysFollowsStream == Spec => []SeatFollowsStream
<1>1. IInv => SeatFollowsStream
  BY SeatSettled DEF IInv
<1> QED BY <1>1, IInvAlways, PTL

\* No viewer is overlooked between the joins and the attach-acks: when no frame is in flight a
\* seated helper serves the whole room, and during its first stream nobody else.
THEOREM AudienceAlwaysServed == Spec => []ServesAudience
<1>1. IInv => ServesAudience
  BY AudienceServed DEF IInv
<1> QED BY <1>1, IInvAlways, PTL
==============================================================================
