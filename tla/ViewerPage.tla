------------------------------ MODULE ViewerPage ------------------------------
(***************************************************************************)
(* A viewer's page (web/src/pages/watch.ts) on the retrying peers of       *)
(* web/src/webrtc.ts: offers and candidates come from the host, each offer *)
(* may wait for GET /ice-servers, the peer it gets answers it, and a peer  *)
(* that fails is replaced after a delay.                                   *)
(*                                                                         *)
(* A step is an event and what runs up to the next await that really waits.*)
(* A peer here is one call of createPeerWithRetry: its attempt, its timer  *)
(* and the RTCPeerConnection of that attempt.  close() fires no event.     *)
(***************************************************************************)
EXTENDS FiniteSets, Naturals, Sequences

CONSTANTS MaxOffers,    \* bound: offers that the page receives
          maxAttempts   \* attempts of one peer; watch.ts:329 says 2

ASSUME ViewerPageAssumption == MaxOffers \in Nat /\ maxAttempts \in Nat \ {0}

Offer == 1..MaxOffers
State == {"new", "connected", "disconnected", "failed"}
Step == {"none", "fetch", "applying", "answering", "answered", "ignored", "failed"}

\* offer: the remote description of the RTCPeerConnection, 0 for none.
Peer == [attempt : 1..maxAttempts, turn : BOOLEAN, timer : BOOLEAN, conn : State,
         offer : 0..MaxOffers, local : BOOLEAN, candidates : SUBSET Offer]

VARIABLES
  open,      \* the page is shown
  socket,    \* its WebSocket is open
  offers,    \* offers received so far
  iced,      \* the offers whose candidate has been received
  task,      \* task[o]: how far handleOffer has come with o, and its peer
  peers,     \* the peers built so far
  pc,        \* the page's peer, 0 for null
  answered,  \* the flag that lets one offer through
  iceQueue,  \* candidates that wait for a remote description
  sent,      \* the offers whose answer was sent
  media      \* the player: frames presented, reported live, check timer running

page == <<open, socket>>
vars == <<open, socket, offers, iced, task, peers, pc, answered, iceQueue, sent, media>>

-------------------------------------------------------------------------------
(* The player.  A frame is presented only by a connected peer.                 *)

startMediaCheck(m) ==
  IF m.check THEN m ELSE [m EXCEPT !.check = TRUE, !.live = @ \/ m.presented]

stopMediaCheck(m) == [m EXCEPT !.check = FALSE]

onTrack(m) == startMediaCheck([m EXCEPT !.live = FALSE])

Presented ==
  /\ open /\ \E p \in DOMAIN peers : peers[p].conn = "connected"
  /\ ~media.presented
  /\ media' = [media EXCEPT !.presented = TRUE]
  /\ UNCHANGED <<page, offers, iced, task, peers, pc, answered, iceQueue, sent>>

\* A tick of the check.
markMediaLive ==
  /\ open /\ media.check /\ ~media.live /\ media.presented
  /\ media' = [media EXCEPT !.live = TRUE, !.check = FALSE]
  /\ UNCHANGED <<page, offers, iced, task, peers, pc, answered, iceQueue, sent>>

-------------------------------------------------------------------------------
(* createPeerWithRetry.                                                        *)

createPeer(attempt, turn) ==
  [attempt |-> attempt, turn |-> turn, timer |-> FALSE, conn |-> "new",
   offer |-> 0, local |-> FALSE, candidates |-> {}]

\* A negotiated RTCPeerConnection changes state: ICE and DTLS decide how.
Changes(p, state) ==
  /\ peers[p].offer # 0 /\ peers[p].local
  /\ peers[p].conn \notin {"failed", state}

Down(state) == state \in {"disconnected", "failed"}

\* Mutant: only a lost connection is retried.
RetriesLost(p, state) ==
  state = "disconnected" /\ peers[p].attempt < maxAttempts /\ peers[p].turn

Retries(p, state) == Down(state) /\ peers[p].attempt < maxAttempts /\ peers[p].turn

\* Mutant: the media check starts with the track only.
onStateChangeUnchecked(p, state) ==
  /\ open /\ Changes(p, state)
  /\ peers' = [peers EXCEPT ![p] = [@ EXCEPT !.conn = state, !.timer = peers[p].timer \/ Retries(p, state)]]
  /\ media' = IF state = "connected" THEN media
              ELSE [stopMediaCheck(media) EXCEPT !.live = @ /\ state = "disconnected"]
  /\ UNCHANGED <<page, offers, iced, task, pc, answered, iceQueue, sent>>

\* A recovery leaves the timer as it is.
onStateChange(p, state) ==
  /\ open /\ Changes(p, state)
  /\ peers' = [peers EXCEPT ![p] = [@ EXCEPT !.conn = state, !.timer = peers[p].timer \/ Retries(p, state)]]
  /\ media' = IF state = "connected" THEN startMediaCheck(media)
              ELSE [stopMediaCheck(media) EXCEPT !.live = @ /\ state = "disconnected"]
  /\ UNCHANGED <<page, offers, iced, task, pc, answered, iceQueue, sent>>

\* The timer: the RTCPeerConnection is closed, whatever its state, and a fresh one
\* becomes the page's peer.  Nothing else of the page is reset.
Retry(p) ==
  /\ open /\ peers[p].timer
  /\ peers' = [peers EXCEPT ![p] = createPeer(@.attempt + 1, @.turn)]
  /\ pc' = p
  /\ UNCHANGED <<page, offers, iced, task, answered, iceQueue, sent, media>>

-------------------------------------------------------------------------------
(* handleSignal: offers and candidates of the host.                            *)

\* Mutant: the flag is set when the answer goes out, not before the awaits.
TakeLate(o, p) ==
  /\ task' = [task EXCEPT ![o] = [step |-> IF answered THEN "ignored" ELSE "applying", peer |-> p]]
  /\ answered' = (answered \/ \E q \in Offer : task[q].step = "answered")

\* The rest of handleOffer once ensurePeer gave it peer p.
Take(o, p) ==
  IF answered
  THEN /\ task' = [task EXCEPT ![o] = [step |-> "ignored", peer |-> p]]
       /\ UNCHANGED answered
  ELSE /\ task' = [task EXCEPT ![o] = [step |-> "applying", peer |-> p]]
       /\ answered' = TRUE

\* handleOffer up to its first wait: ensurePeer has a peer, or asks for ICE servers.
handleOffer(o) ==
  IF pc # 0 THEN Take(o, pc)
  ELSE task' = [task EXCEPT ![o].step = "fetch"] /\ UNCHANGED answered

ReceiveOffer ==
  /\ open /\ socket /\ offers < MaxOffers
  /\ offers' = offers + 1
  /\ handleOffer(offers + 1)
  /\ UNCHANGED <<page, iced, peers, pc, iceQueue, sent, media>>

queueCandidate(o) ==
  IF pc # 0 /\ peers[pc].offer # 0
  THEN peers' = [peers EXCEPT ![pc] = [@ EXCEPT !.candidates = peers[pc].candidates \cup {o}]] /\ UNCHANGED iceQueue
  ELSE iceQueue' = iceQueue \cup {o} /\ UNCHANGED peers

\* The host trickles the candidate of its last offer.
ReceiveIce ==
  /\ open /\ socket /\ offers > 0 /\ offers \notin iced
  /\ iced' = iced \cup {offers}
  /\ queueCandidate(offers)
  /\ UNCHANGED <<page, offers, task, pc, answered, sent, media>>

\* The ICE servers have come.  ensurePeer builds a peer also when it has got one meanwhile.
Fetched(o, turn) ==
  /\ open /\ task[o].step = "fetch"
  /\ peers' = Append(peers, createPeer(1, turn))
  /\ pc' = Len(peers')
  /\ Take(o, pc')
  /\ UNCHANGED <<page, offers, iced, iceQueue, sent, media>>

FetchFailed(o) ==
  /\ open /\ task[o].step = "fetch"
  /\ task' = [task EXCEPT ![o].step = "failed"]
  /\ UNCHANGED <<page, offers, iced, peers, pc, answered, iceQueue, sent, media>>

\* setRemoteDescription resolves, and the track is wired up.
Applied(o) ==
  /\ open /\ task[o].step = "applying"
  /\ task' = [task EXCEPT ![o].step = "answering"]
  /\ peers' = [peers EXCEPT ![task[o].peer] = [@ EXCEPT !.offer = o]]
  /\ media' = onTrack(media)
  /\ UNCHANGED <<page, offers, iced, pc, answered, iceQueue, sent>>

\* Mutant: nothing is flushed after the answer.
AnsweredUnflushed(o) ==
  LET p == task[o].peer IN
  /\ open /\ task[o].step = "answering"
  /\ task' = [task EXCEPT ![o].step = "answered"]
  /\ sent' = IF socket THEN sent \cup {o} ELSE sent
  /\ peers' = [peers EXCEPT ![p] = [@ EXCEPT !.local = TRUE]]
  /\ UNCHANGED <<page, offers, iced, pc, answered, iceQueue, media>>

\* setLocalDescription resolves: the answer is sent if it can be, and the queue flushed.
Answered(o) ==
  LET p == task[o].peer IN
  /\ open /\ task[o].step = "answering"
  /\ task' = [task EXCEPT ![o].step = "answered"]
  /\ sent' = IF socket THEN sent \cup {o} ELSE sent
  /\ peers' = [peers EXCEPT ![p] = [@ EXCEPT !.local = TRUE, !.candidates = peers[p].candidates \cup iceQueue]]
  /\ iceQueue' = {}
  /\ UNCHANGED <<page, offers, iced, pc, answered, media>>

\* One of the promises rejects.
OfferFailed(o) ==
  /\ open /\ task[o].step \in {"applying", "answering"}
  /\ task' = [task EXCEPT ![o].step = "failed"]
  /\ answered' = FALSE
  /\ UNCHANGED <<page, offers, iced, peers, pc, iceQueue, sent, media>>

-------------------------------------------------------------------------------
SocketClosed ==
  /\ open /\ socket
  /\ socket' = FALSE
  /\ UNCHANGED <<open, offers, iced, task, peers, pc, answered, iceQueue, sent, media>>

\* Mutant: the peers are forgotten while offers refer to them.
tearDownAll ==
  /\ open
  /\ open' = FALSE /\ socket' = FALSE
  /\ pc' = 0
  /\ peers' = <<>>
  /\ media' = stopMediaCheck(media)
  /\ UNCHANGED <<offers, iced, task, answered, iceQueue, sent>>

\* pagehide: timers are cleared, the peers closed, the socket left.
tearDown ==
  /\ open
  /\ open' = FALSE /\ socket' = FALSE
  /\ pc' = 0
  /\ peers' = [p \in DOMAIN peers |-> [peers[p] EXCEPT !.timer = FALSE]]
  /\ media' = stopMediaCheck(media)
  /\ UNCHANGED <<offers, iced, task, answered, iceQueue, sent>>

Init ==
  /\ open = TRUE /\ socket = TRUE
  /\ offers = 0 /\ iced = {} /\ sent = {}
  /\ task = [o \in Offer |-> [step |-> "none", peer |-> 0]]
  /\ peers = <<>> /\ pc = 0
  /\ answered = FALSE /\ iceQueue = {}
  /\ media = [presented |-> FALSE, live |-> FALSE, check |-> FALSE]

Promises ==
  \E o \in Offer : \/ \E turn \in BOOLEAN : Fetched(o, turn)
                   \/ FetchFailed(o) \/ Applied(o) \/ Answered(o) \/ OfferFailed(o)

Next ==
  \/ ReceiveOffer \/ ReceiveIce
  \/ Promises
  \/ \E p \in DOMAIN peers : Retry(p) \/ (\E state \in State \ {"new"} : onStateChange(p, state))
  \/ Presented \/ markMediaLive
  \/ SocketClosed \/ tearDown

\* Requests and promises end, timers fire; the host, ICE and the player owe nothing.
Fairness ==
  /\ WF_vars(Promises) /\ WF_vars(markMediaLive)
  /\ WF_vars(\E p \in DOMAIN peers : Retry(p))

Spec == Init /\ [][Next]_vars /\ Fairness

-------------------------------------------------------------------------------
\* Type correctness of the page, its peers and its offers.
TypeOK ==
  /\ open \in BOOLEAN /\ socket \in BOOLEAN /\ answered \in BOOLEAN
  /\ offers \in 0..MaxOffers /\ iced \subseteq Offer /\ sent \subseteq Offer
  /\ peers \in Seq(Peer) /\ pc \in 0..Len(peers)
  /\ task \in [Offer -> [step : Step, peer : 0..Len(peers)]]
  /\ iceQueue \subseteq Offer
  /\ media \in [presented : BOOLEAN, live : BOOLEAN, check : BOOLEAN]

\* However many offers wait for the ICE servers at once, the page negotiates and answers
\* one of them, and the flag that says so is never left behind by one that failed.
OneNegotiation ==
  LET taken == {o \in Offer : task[o].step \in {"applying", "answering", "answered"}} IN
  /\ Cardinality(taken) <= 1
  /\ answered <=> taken # {}

\* While the page has had one RTCPeerConnection, no candidate of the host stays in the
\* queue once the offer is answered: each is on the peer, also one that came before it.
CandidatesReachPeer ==
  \A o \in iced :
    Len(peers) = 1 /\ peers[1].attempt = 1 /\ peers[1].local => o \in peers[1].candidates

\* A failed connection with a TURN server and an attempt left gets its fresh peer.
RetryHappens ==
  \A p \in Offer, a \in 1..(maxAttempts - 1) :
    (/\ p \in DOMAIN peers /\ peers[p].conn = "failed"
     /\ peers[p].turn /\ peers[p].attempt = a) ~>
    (~open \/ (p \in DOMAIN peers /\ peers[p].attempt > a))

\* Frames on a connection that stays are reported as live media, also when the connection
\* was lost in between and the check had been stopped.
LiveReported ==
  (media.presented /\ \E p \in DOMAIN peers : peers[p].conn = "connected") ~>
  (media.live \/ ~open \/ ~\E p \in DOMAIN peers : peers[p].conn = "connected")

\* An offer that reaches the fresh peer of a retry is not ignored.
FreshPeerTakesOffer ==
  [][(/\ offers' > offers /\ pc # 0 /\ peers[pc].attempt > 1 /\ peers[pc].offer = 0)
     => task'[offers'].step # "ignored"]_vars

\* Only a connection that is down is replaced.
RecoveryEndsRetry ==
  [][\A p \in DOMAIN peers :
       peers'[p].attempt > peers[p].attempt => peers[p].conn # "connected"]_vars
==============================================================================
