------------------------------ MODULE HelperRoom ------------------------------
(***************************************************************************)
(* A native helper streaming into one room: the GStreamer thread           *)
(* (helper/src/main.rs), its per-viewer webrtcbins (helper/src/pipeline.rs)*)
(* and, as far as they meet it, the server's seat for the room's host      *)
(* (module HelperHosting) and the viewer pages (web/src/pages/watch.ts).   *)
(*                                                                         *)
(* The thread handles one inbound frame at a time and between frames runs  *)
(* poll_negotiations; each webrtcbin works off its own queue of tasks on   *)
(* its own thread.  The connection is up throughout.  A page draws its     *)
(* peer id once and never joins twice.  The server ignores the room id of  *)
(* an offer.  ICE candidates change nothing here and are left out, and so  *)
(* is the immediate create-offer at the end of pipeline::add_viewer: the   *)
(* room id it tests is still empty when it runs.                           *)
(***************************************************************************)
EXTENDS Naturals, Sequences

CONSTANTS Viewer,       \* viewer pages
          NoEntry,      \* no entry in session.viewers
          LateCallbacks,\* a callback may still run when its webrtcbin has been torn down
          MaxCommands   \* bound: start and stop commands, and as many tray clicks

Serial == 1..(2 * MaxCommands)   \* streams, numbered in the order they start
Task == {"create", "local", "remote"}
Entry == [serial : Serial, tasks : Seq(Task), pending : BOOLEAN,
          signaling : {"new", "refused", "have-local-offer", "stable"}]
\* signaling is the webrtcbin's state; "refused" is its initial state once it has refused an offer.

ASSUME RoomAssumption == MaxCommands \in Nat /\ LateCallbacks \in BOOLEAN /\ NoEntry \notin Entry

VARIABLES
  page,      \* page[v]: the viewer page is outside the room, inside, or gone
  offers,    \* offers[v]: the offers on their way to v, by the stream they belong to
  answered,  \* answered[v]: watch.ts `answered`
  seat,      \* the server has this helper as the room's host
  refused,   \* the server refused the last attach-room
  toServer, toHelper,   \* frames in flight, in order
  asked,     \* commands sent, and tray clicks
  session,   \* App.session: the number of the stream, 0 for None
  streams,   \* streams started so far
  room,      \* App.current_room is Some
  tracked,   \* App.viewers: none, or offer_sent false (todo) or true (sent)
  entry,     \* session.viewers
  late,      \* set-local-description callbacks that outlive their entry
  failed     \* viewers whose webrtcbin could not be built, or gave no offer to send

viewers == <<page, offers, answered>>
server == <<seat, refused>>
stream == <<session, streams, room>>
vars == <<viewers, server, toServer, toHelper, asked, stream, tracked, entry, late, failed>>

Inside == {v \in Viewer : page[v] = "inside"}
Serving == {v \in Viewer : entry[v] # NoEntry}

Offer(v, n) == [type |-> "room-sdp", peer |-> v, serial |-> n]
Tell(frame) == toHelper' = IF seat THEN Append(toHelper, frame) ELSE toHelper

-------------------------------------------------------------------------------
(* The viewer pages.                                                           *)

Join(v) ==
  /\ page[v] = "outside"
  /\ page' = [page EXCEPT ![v] = "inside"]
  /\ Tell([type |-> "peer-joined", peer |-> v])
  /\ UNCHANGED <<offers, answered, server, toServer, asked, stream, tracked, entry, late, failed>>

Leave(v) ==
  /\ page[v] = "inside"
  /\ page' = [page EXCEPT ![v] = "gone"]
  /\ offers' = [offers EXCEPT ![v] = <<>>]
  /\ Tell([type |-> "peer-left", peer |-> v])
  /\ UNCHANGED <<answered, server, toServer, asked, stream, tracked, entry, late, failed>>

\* handleOffer: a page answers the first offer it can, and no other one after that.
handleOffer(v) ==
  /\ offers[v] # <<>>
  /\ offers' = [offers EXCEPT ![v] = Tail(@)]
  /\ \/ /\ ~answered[v]
        /\ answered' = [answered EXCEPT ![v] = TRUE]
        /\ Tell([type |-> "answer", peer |-> v, serial |-> Head(offers[v])])
     \/ UNCHANGED <<answered, toHelper>>      \* answered before, or the browser refused it
  /\ UNCHANGED <<page, server, toServer, asked, stream, tracked, entry, late, failed>>

-------------------------------------------------------------------------------
(* The server's side: the helper's frames, in the order they were sent.        *)

\* Mutant: the attach-ack does not list the viewers that were there first.
attachUnlisted ==
  /\ seat' = TRUE /\ refused' = FALSE
  /\ toHelper' = Append(toHelper, [type |-> "attach-ack", viewers |-> {}])
  /\ UNCHANGED offers

\* attach-room, accepted.
attachHelperToRoom ==
  /\ seat' = TRUE /\ refused' = FALSE
  /\ toHelper' = Append(toHelper, [type |-> "attach-ack", viewers |-> Inside])
  /\ UNCHANGED offers

\* The room is gone, belongs to somebody else or has another host; the helper only logs it.
refuseAttach ==
  /\ refused' = TRUE
  /\ UNCHANGED <<seat, toHelper, offers>>

relayOffer(v, n) ==
  /\ offers' = IF seat /\ v \in Inside THEN [offers EXCEPT ![v] = Append(@, n)] ELSE offers
  /\ UNCHANGED <<server, toHelper>>

ServerStep ==
  /\ toServer # <<>>
  /\ toServer' = Tail(toServer)
  /\ LET f == Head(toServer) IN
     \/ f.type = "attach-room" /\ (attachHelperToRoom \/ refuseAttach)
     \/ f.type = "detach-room" /\ seat' = FALSE /\ UNCHANGED <<refused, toHelper, offers>>
     \/ f.type = "room-sdp" /\ relayOffer(f.peer, f.serial)
  /\ UNCHANGED <<page, answered, asked, stream, tracked, entry, late, failed>>

\* The owner sends a command from the host page.
Command(command) ==
  /\ asked.commands < MaxCommands
  /\ asked' = [asked EXCEPT !.commands = @ + 1]
  /\ toHelper' = Append(toHelper, [type |-> command])
  /\ UNCHANGED <<viewers, server, toServer, stream, tracked, entry, late, failed>>

-------------------------------------------------------------------------------
(* The stream.                                                                 *)

\* Offers of the entries S that are being applied when S is dropped may still be sent.
Outlive(S) ==
  LET applying == {v \in S \cap Serving : \E i \in DOMAIN entry[v].tasks : entry[v].tasks[i] = "local"}
  IN late' = IF LateCallbacks THEN late \cup {Offer(v, entry[v].serial) : v \in applying} ELSE late

DropAll ==
  /\ entry' = [v \in Viewer |-> NoEntry]
  /\ tracked' = [v \in Viewer |-> IF session = 0 THEN tracked[v] ELSE "none"]
  /\ Outlive(Viewer)
  /\ failed' = IF session = 0 THEN failed ELSE {}

\* Mutant: a stop keeps the seat in the room.
stop_stream_silently ==
  /\ DropAll
  /\ session' = 0
  /\ UNCHANGED <<toServer, streams, room>>

stop_stream ==
  /\ DropAll
  /\ session' = 0
  /\ toServer' = IF session = 0 THEN toServer ELSE Append(toServer, [type |-> "detach-room"])
  /\ UNCHANGED <<streams, room>>

\* start_stream: a stream that runs is stopped first; building or playing the new one may fail.
start_stream ==
  LET before == IF session = 0 THEN toServer ELSE Append(toServer, [type |-> "detach-room"])
  IN
  /\ DropAll
  /\ \/ /\ session' = streams + 1 /\ streams' = streams + 1 /\ room' = TRUE
        /\ toServer' = Append(before, [type |-> "attach-room"])
     \/ /\ session' = 0 /\ UNCHANGED streams
        /\ room' \in {room, TRUE}
        /\ toServer' = before

\* The tray: it can start only once a room is known.
handle_local ==
  /\ asked.clicks < MaxCommands
  /\ asked' = [asked EXCEPT !.clicks = @ + 1]
  /\ (room /\ start_stream) \/ stop_stream
  /\ UNCHANGED <<viewers, server, toHelper>>

-------------------------------------------------------------------------------
(* The viewers of the stream.                                                  *)

NewEntry == [serial |-> session, tasks |-> <<>>, pending |-> FALSE, signaling |-> "new"]

\* Mutant: a viewer is tracked as if its offer had been sent.
add_viewers_sent(S) ==
  /\ tracked' = [v \in Viewer |-> IF v \in S THEN "sent" ELSE tracked[v]]
  /\ entry' = [v \in Viewer |-> IF session # 0 /\ v \in S \ Serving THEN NewEntry ELSE entry[v]]
  /\ failed' = failed \ S

\* add_viewer of each of S: tracked afresh, and given a webrtcbin unless it has one.  Without a
\* stream it is tracked only; if the webrtcbin cannot be built (B) it is not even that.
add_viewers(S) ==
  \E B \in SUBSET (IF session = 0 THEN {} ELSE S \ Serving) :
    /\ tracked' = [v \in Viewer |-> IF v \in B THEN "none" ELSE IF v \in S THEN "todo" ELSE tracked[v]]
    /\ entry' = [v \in Viewer |-> IF session # 0 /\ v \in S \ (Serving \cup B)
                                   THEN NewEntry ELSE entry[v]]
    /\ failed' = (failed \ S) \cup B

\* Mutant: the webrtcbin of a viewer that left is kept.
remove_viewer_half(v) ==
  /\ tracked' = [tracked EXCEPT ![v] = "none"]
  /\ failed' = failed \ {v}
  /\ UNCHANGED <<entry, late>>

remove_viewer(v) ==
  /\ tracked' = [tracked EXCEPT ![v] = "none"]
  /\ entry' = [entry EXCEPT ![v] = NoEntry]
  /\ Outlive({v})
  /\ failed' = failed \ {v}

Enqueue(v, task) == [entry EXCEPT ![v].tasks = Append(@, task)]

\* An inbound frame.
handle ==
  /\ toHelper # <<>>
  /\ toHelper' = Tail(toHelper)
  /\ LET f == Head(toHelper) IN
     \/ f.type = "start" /\ start_stream
     \/ f.type = "stop" /\ stop_stream
     \/ /\ f.type = "attach-ack" /\ add_viewers(f.viewers)
        /\ UNCHANGED <<toServer, stream, late>>
     \/ /\ f.type = "peer-joined" /\ add_viewers({f.peer})
        /\ UNCHANGED <<toServer, stream, late>>
     \/ /\ f.type = "peer-left" /\ remove_viewer(f.peer)
        /\ UNCHANGED <<toServer, stream>>
     \/ /\ f.type = "answer"
        /\ entry' = IF f.peer \in Serving THEN Enqueue(f.peer, "remote") ELSE entry
        /\ UNCHANGED <<toServer, stream, tracked, late, failed>>
  /\ UNCHANGED <<viewers, server, asked>>

NeedOffer == {v \in Serving : tracked[v] = "todo"}
Pending == {v \in Serving : entry[v].pending}

\* Mutant: an offer that was asked for is asked for again on the next tick.
poll_unmarked ==
  /\ NeedOffer \cup Pending # {}
  /\ entry' = [v \in Viewer |->
       IF v \notin NeedOffer \cup Pending THEN entry[v]
       ELSE [entry[v] EXCEPT !.pending = FALSE,
               !.tasks = @ \o (IF v \in NeedOffer THEN <<"create">> ELSE <<>>)
                           \o (IF v \in Pending THEN <<"local">> ELSE <<>>)]]
  /\ UNCHANGED <<viewers, server, toServer, toHelper, asked, stream, tracked, late, failed>>

\* Ask for the offers that are due, and apply those that have come.
poll_negotiations ==
  /\ NeedOffer \cup Pending # {}
  /\ entry' = [v \in Viewer |->
       IF v \notin NeedOffer \cup Pending THEN entry[v]
       ELSE [entry[v] EXCEPT !.pending = FALSE,
               !.tasks = @ \o (IF v \in NeedOffer THEN <<"create">> ELSE <<>>)
                           \o (IF v \in Pending THEN <<"local">> ELSE <<>>)]]
  /\ tracked' = [v \in Viewer |-> IF v \in NeedOffer THEN "sent" ELSE tracked[v]]
  /\ UNCHANGED <<viewers, server, toServer, toHelper, asked, stream, late, failed>>

\* Mutant: the offer goes out as soon as it is made.
createdSent(v, done) ==
  \/ /\ entry' = [entry EXCEPT ![v] = [done EXCEPT !.pending = TRUE]]
     /\ toServer' = Append(toServer, Offer(v, done.serial))
     /\ UNCHANGED failed
  \/ /\ entry' = [entry EXCEPT ![v] = done]
     /\ failed' = failed \cup {v}
     /\ UNCHANGED toServer

\* The callback of create-offer: the offer waits for the next tick.  It may also fail.
created(v, done) ==
  \/ /\ entry' = [entry EXCEPT ![v] = [done EXCEPT !.pending = TRUE]]
     /\ UNCHANGED <<toServer, failed>>
  \/ /\ entry' = [entry EXCEPT ![v] = done]
     /\ failed' = failed \cup {v}
     /\ UNCHANGED toServer

\* The callback of set-local-description sends the offer on any reply, which it does not read:
\* the offer is applied, or webrtcbin has refused it.  On an error there is no offer.
applied(v, done) ==
  \/ /\ \/ entry' = [entry EXCEPT ![v] = [done EXCEPT !.signaling = "have-local-offer"]]
        \/ entry' = [entry EXCEPT ![v] = [done EXCEPT !.signaling = IF @ = "new" THEN "refused" ELSE @]]
     /\ toServer' = Append(toServer, Offer(v, done.serial))
     /\ UNCHANGED failed
  \/ /\ entry' = [entry EXCEPT ![v] = done]
     /\ failed' = failed \cup {v}
     /\ UNCHANGED toServer

\* webrtcbin takes an answer in have-local-offer only; one it refuses is lost.
accepted(v, done) ==
  /\ \/ /\ done.signaling = "have-local-offer"
        /\ entry' = [entry EXCEPT ![v] = [done EXCEPT !.signaling = "stable"]]
     \/ entry' = [entry EXCEPT ![v] = done]
  /\ UNCHANGED <<toServer, failed>>

\* The webrtcbin of v works off its next task.
RunTask(v) ==
  /\ v \in Serving /\ entry[v].tasks # <<>>
  /\ LET done == [entry[v] EXCEPT !.tasks = Tail(@)]
         task == Head(entry[v].tasks)
     IN \/ task = "create" /\ created(v, done)
        \/ task = "local" /\ applied(v, done)
        \/ task = "remote" /\ accepted(v, done)
  /\ UNCHANGED <<viewers, server, toHelper, asked, stream, tracked, late>>

\* The callback of a webrtcbin that is being torn down sends its offer, or fails.
LateCallback(offer) ==
  /\ offer \in late
  /\ late' = late \ {offer}
  /\ toServer' \in {toServer, Append(toServer, offer)}
  /\ UNCHANGED <<viewers, server, toHelper, asked, stream, tracked, entry, failed>>

-------------------------------------------------------------------------------
Init ==
  /\ page = [v \in Viewer |-> "outside"]
  /\ offers = [v \in Viewer |-> <<>>]
  /\ answered = [v \in Viewer |-> FALSE]
  /\ seat = FALSE /\ refused = FALSE
  /\ toServer = <<>> /\ toHelper = <<>>
  /\ asked = [commands |-> 0, clicks |-> 0]
  /\ session = 0 /\ streams = 0 /\ room = FALSE
  /\ tracked = [v \in Viewer |-> "none"]
  /\ entry = [v \in Viewer |-> NoEntry]
  /\ late = {} /\ failed = {}

ViewerNext(v) == Join(v) \/ Leave(v) \/ handleOffer(v)

HelperNext ==
  \/ handle
  \/ handle_local
  \/ poll_negotiations
  \/ \E v \in Viewer : RunTask(v)
  \/ \E offer \in late : LateCallback(offer)

Next ==
  \/ \E v \in Viewer : ViewerNext(v)
  \/ ServerStep
  \/ \E command \in {"start", "stop"} : Command(command)
  \/ HelperNext

Spec == Init /\ [][Next]_vars

\* The threads of the helper keep running and frames arrive; nobody has to join, leave or ask.
Fairness ==
  /\ WF_vars(ServerStep) /\ WF_vars(handle) /\ WF_vars(poll_negotiations)
  /\ \A v \in Viewer : WF_vars(RunTask(v))

FairSpec == Spec /\ Fairness
-------------------------------------------------------------------------------
(* Properties.                                                                *)

Quiet == toServer = <<>> /\ toHelper = <<>>

\* Every variable has the shape the code gives it, and no webrtcbin has more work queued than
\* an offer for each stream started so far and an answer: the helper asks for an offer once each
\* time it is told of a viewer, and it is told once in each attachment.
TypeOK ==
  /\ page \in [Viewer -> {"outside", "inside", "gone"}]
  /\ offers \in [Viewer -> Seq(Serial)]
  /\ answered \in [Viewer -> BOOLEAN]
  /\ seat \in BOOLEAN /\ refused \in BOOLEAN /\ room \in BOOLEAN
  /\ session \in Serial \cup {0} /\ streams \in Serial \cup {0}
  /\ tracked \in [Viewer -> {"none", "todo", "sent"}]
  /\ entry \in [Viewer -> Entry \cup {NoEntry}]
  /\ late \subseteq {Offer(v, n) : v \in Viewer, n \in Serial}
  /\ failed \subseteq Viewer
  /\ \A v \in Serving : Len(entry[v].tasks) <= streams + 1

\* Once every frame has arrived, the helper holds the room's seat exactly while it streams,
\* unless it was refused: a stop frees the room for another host, a restart takes it again.
SeatFollowsStream == Quiet => (seat <=> session # 0 /\ ~refused)

\* Once every frame has arrived, a helper in its seat serves every viewer in the room that it
\* did not fail to build, whether the viewer or the stream came first and however often the
\* stream was restarted; and as long as there was no restart it serves nobody else.
ServesAudience ==
  Quiet /\ seat => /\ Inside \subseteq Serving \cup failed
                   /\ streams = 1 => Serving \subseteq Inside

\* App.viewers and session.viewers: whoever has a webrtcbin is tracked, so that
\* poll_negotiations will come to ask for its offer, and belongs to the running stream.
EntriesTracked ==
  \A v \in Serving : tracked[v] # "none" /\ entry[v].serial = session

\* The offer of the running stream to v is on its way, or the answer to it on the way back.
OfferOut(v) ==
  LET n == entry[v].serial IN
  \/ \E i \in DOMAIN toServer : toServer[i] = Offer(v, n)
  \/ \E i \in DOMAIN offers[v] : offers[v][i] = n
  \/ \E i \in DOMAIN toHelper : toHelper[i] = [type |-> "answer", peer |-> v, serial |-> n]

\* The order create, apply, send: while an offer of the running stream is on its way to the
\* viewer, or its answer on the way back, the webrtcbin is through with set-local-description: it
\* has applied the offer or refused it.
OfferIsSettled == \A v \in Serving : OfferOut(v) => entry[v].signaling # "new"

\* pipeline.rs: "Only now do we send the offer, so the viewer's answer can never arrive before
\* we are ready to accept it": no answer arrives while set-local-description has yet to be done.
AnswerNeverEarly ==
  \A v \in Serving :
    toHelper # <<>> /\ Head(toHelper).type = "answer" /\ Head(toHelper).peer = v
      => entry[v].signaling # "new"

\* Every viewer that is served is sent an offer, unless it leaves, or GStreamer reports that it
\* could not make the offer or not set it: nobody asks for that viewer's offer again.
OfferedEventually ==
  \A v \in Viewer : v \in Serving ~>
    v \notin Serving \/ v \in failed \/ entry[v].signaling # "new"
==============================================================================
