--------------------------- MODULE ViewerPageProofs ---------------------------
(***************************************************************************)
(* Theorems about ViewerPage: of the offers that a page receives, however  *)
(* many wait for the ICE servers at once, one at a time is negotiated.     *)
(***************************************************************************)
EXTENDS ViewerPage, SequenceTheorems, FiniteSetTheorems, TLAPS

Media == [presented : BOOLEAN, live : BOOLEAN, check : BOOLEAN]

\* The retry timer of a peer runs only while it has an attempt left.
Retryable == {r \in Peer : r.timer => r.attempt < maxAttempts}

PageOK ==
  /\ open \in BOOLEAN /\ socket \in BOOLEAN
  /\ iced \subseteq Offer /\ sent \subseteq Offer /\ iceQueue \subseteq Offer
  /\ media \in Media

\* The peers, and who points to them: the page, and offers that got one.
PeersOK ==
  /\ peers \in Seq(Retryable) /\ pc \in 0..Len(peers)
  /\ task \in [Offer -> [step : Step, peer : 0..Len(peers)]]
  /\ \A o \in Offer : task[o].step \in {"applying", "answering"} => task[o].peer # 0

Taken(o) == task[o].step \in {"applying", "answering", "answered"}

\* An offer that has not come is untouched, one at most is taken, and the flag says so.
OffersOK ==
  /\ answered \in BOOLEAN /\ offers \in 0..MaxOffers
  /\ \A o \in Offer : o > offers => task[o].step = "none"
  /\ \A o, q \in Offer : Taken(o) /\ Taken(q) => o = q
  /\ answered <=> \E o \in Offer : Taken(o)

\* The inductive invariant.
Inv == PageOK /\ PeersOK /\ OffersOK

-------------------------------------------------------------------------------
(* Peers.                                                                      *)

\* A peer is replaced in place.
LEMMA ReplacePeer ==
  ASSUME NEW s \in Seq(Retryable), NEW p \in 1..Len(s), NEW r \in Retryable
  PROVE  [s EXCEPT ![p] = r] \in Seq(Retryable) /\ Len([s EXCEPT ![p] = r]) = Len(s)
BY ExceptSeq

LEMMA PeerGetsOffer ==
  ASSUME NEW r \in Retryable, NEW o \in 0..MaxOffers
  PROVE  [r EXCEPT !.offer = o] \in Retryable
BY DEF Peer, Retryable

LEMMA PeerGetsCandidates ==
  ASSUME NEW r \in Retryable, NEW S \in SUBSET Offer
  PROVE  /\ [r EXCEPT !.candidates = S] \in Retryable
         /\ [r EXCEPT !.local = TRUE, !.candidates = S] \in Retryable
BY DEF Peer, Retryable

LEMMA TimerCleared ==
  ASSUME NEW r \in Retryable
  PROVE  [r EXCEPT !.timer = FALSE] \in Retryable
BY DEF Peer, Retryable

LEMMA PeerChangesState ==
  ASSUME NEW r \in Retryable, NEW c \in State, NEW t \in BOOLEAN, t => r.attempt < maxAttempts
  PROVE  [r EXCEPT !.conn = c, !.timer = t] \in Retryable
BY DEF Peer, Retryable

LEMMA NewPeer ==
  ASSUME NEW a \in 1..maxAttempts, NEW t \in BOOLEAN
  PROVE  createPeer(a, t) \in Retryable
BY ViewerPageAssumption DEF createPeer, Peer, Retryable, State

\* Offers keep their peers while the number of peers does not fall.
LEMMA PeersKept ==
  ASSUME PeersOK, peers' \in Seq(Retryable), Len(peers) <= Len(peers'), UNCHANGED task,
         pc' \in 0..Len(peers')
  PROVE  PeersOK'
<1>1. Len(peers) \in Nat /\ Len(peers') \in Nat
  BY LenProperties DEF PeersOK
<1>2. 0..Len(peers) \subseteq 0..Len(peers')
  BY <1>1
<1> QED BY <1>2 DEF PeersOK

LEMMA OffersKept ==
  ASSUME OffersOK, UNCHANGED <<offers, task, answered>>
  PROVE  OffersOK'
BY DEF OffersOK, Taken

\* The p-th peer changes, and nothing else that the invariant is about.
LEMMA PeerStep ==
  ASSUME Inv, NEW p \in 1..Len(peers), NEW r, r \in Retryable,
         peers' = [peers EXCEPT ![p] = r], UNCHANGED task, pc' \in {pc, p}
  PROVE  PeersOK'
<1>1. peers \in Seq(Retryable) /\ pc \in 0..Len(peers) /\ Len(peers) \in Nat
  BY LenProperties DEF Inv, PeersOK
<1>2. peers' \in Seq(Retryable) /\ Len(peers') = Len(peers)
  BY <1>1, ReplacePeer
<1>3. pc' \in 0..Len(peers')
  BY <1>1, <1>2
<1> QED BY <1>1, <1>2, <1>3, PeersKept DEF Inv

LEMMA PeerIsTyped ==
  ASSUME Inv, NEW p \in DOMAIN peers
  PROVE  p \in 1..Len(peers) /\ peers[p] \in Retryable
BY LenProperties, ElementOfSeq DEF Inv, PeersOK

LEMMA MediaChanges ==
  ASSUME NEW m \in Media
  PROVE  startMediaCheck(m) \in Media /\ stopMediaCheck(m) \in Media /\ onTrack(m) \in Media
BY DEF Media, startMediaCheck, stopMediaCheck, onTrack

\* The timer of a peer fires.
LEMMA RetryStep ==
  ASSUME Inv, NEW p \in DOMAIN peers, Retry(p)
  PROVE  Inv'
<1>1. p \in 1..Len(peers) /\ peers[p] \in Retryable
  BY PeerIsTyped
<1>2. PICK r : r = createPeer(peers[p].attempt + 1, peers[p].turn)
  OBVIOUS
<1>3. /\ UNCHANGED <<page, offers, iced, task, answered, iceQueue, sent, media>> /\ pc' = p
      /\ peers' = [peers EXCEPT ![p] = r] /\ peers[p].timer
  BY <1>2 DEF Retry
<1>4. peers[p].attempt + 1 \in 1..maxAttempts /\ peers[p].turn \in BOOLEAN
  BY <1>1, <1>3, ViewerPageAssumption DEF Retryable, Peer
<1>5. r \in Retryable
  BY <1>2, <1>4, NewPeer
<1>6. PeersOK'
  BY <1>1, <1>3, <1>5, PeerStep
<1>7. PageOK' /\ OffersOK'
  BY <1>3, OffersKept DEF Inv, PageOK, page
<1> QED BY <1>6, <1>7 DEF Inv

\* onStateChange.
LEMMA StateChangeStep ==
  ASSUME Inv, NEW p \in DOMAIN peers, NEW state \in State, onStateChange(p, state)
  PROVE  Inv'
<1>1. p \in 1..Len(peers) /\ peers[p] \in Retryable
  BY PeerIsTyped
<1>2. PICK t \in BOOLEAN : t <=> (peers[p].timer \/ Retries(p, state))
  OBVIOUS
<1>3. t = (peers[p].timer \/ Retries(p, state))
  <2>1. peers[p].timer \in BOOLEAN
    BY <1>1 DEF Retryable, Peer
  <2> QED BY <1>2, <2>1
<1>4. PICK r : r = [peers[p] EXCEPT !.conn = state, !.timer = t]
  OBVIOUS
<1>5. /\ UNCHANGED <<page, offers, iced, task, pc, answered, iceQueue, sent>>
      /\ peers' = [peers EXCEPT ![p] = r]
      /\ media' = IF state = "connected" THEN startMediaCheck(media)
                  ELSE [stopMediaCheck(media) EXCEPT !.live = @ /\ state = "disconnected"]
  BY <1>3, <1>4 DEF onStateChange
<1>6. t => peers[p].attempt < maxAttempts
  BY <1>1, <1>2 DEF Retries, Retryable
<1>7. r \in Retryable
  BY <1>1, <1>4, <1>6, PeerChangesState
<1>8. PeersOK'
  BY <1>1, <1>5, <1>7, PeerStep
<1>9. media' \in Media
  <2>1. media \in Media
    BY DEF Inv, PageOK
  <2>2. CASE state = "connected"
    BY <1>5, <2>1, <2>2, MediaChanges
  <2>3. CASE state # "connected"
    <3>1. stopMediaCheck(media) \in Media
      BY <2>1, MediaChanges
    <3>2. (stopMediaCheck(media).live /\ state = "disconnected") \in BOOLEAN
      OBVIOUS
    <3> QED BY <1>5, <2>3, <3>1, <3>2 DEF Media
  <2> QED BY <2>2, <2>3
<1>10. PageOK' /\ OffersOK'
  BY <1>5, <1>9, OffersKept DEF Inv, PageOK, page
<1> QED BY <1>8, <1>10 DEF Inv

-------------------------------------------------------------------------------
(* Offers.                                                                     *)

\* The step of an offer that is not taken afterwards, or was before, changes nobody's turn.
LEMMA OfferMoves ==
  ASSUME Inv, NEW o \in Offer, o <= offers', offers' \in 0..MaxOffers, offers <= offers',
         NEW step \in Step, NEW p \in 0..Len(peers'),
         task' = [task EXCEPT ![o] = [step |-> step, peer |-> p]],
         step \in {"applying", "answering"} => p # 0,
         Taken(o)' <=> Taken(o), answered' = answered,
         peers' \in Seq(Retryable), Len(peers) <= Len(peers'), pc' \in 0..Len(peers')
  PROVE  PeersOK' /\ OffersOK'
<1>1. /\ task'[o] = [step |-> step, peer |-> p]
      /\ \A q \in Offer \ {o} : task'[q] = task[q]
  BY DEF Inv, PeersOK
<1>2. Len(peers) \in Nat /\ Len(peers') \in Nat /\ offers \in Nat /\ offers' \in Nat
  BY LenProperties DEF Inv, PeersOK, OffersOK
<1>3. \A q \in Offer : Taken(q)' <=> Taken(q)
  BY <1>1 DEF Taken
<1>4. OffersOK'
  <2>1. \A q \in Offer : q > offers' => task'[q].step = "none"
    BY <1>1, <1>2 DEF Inv, OffersOK, Offer
  <2> QED BY <1>3, <2>1 DEF Inv, OffersOK
<1>5. PeersOK'
  <2>1. 0..Len(peers) \subseteq 0..Len(peers')
    BY <1>2
  <2>2. task' \in [Offer -> [step : Step, peer : 0..Len(peers')]]
    BY <2>1 DEF Inv, PeersOK
  <2>3. \A q \in Offer : task'[q].step \in {"applying", "answering"} => task'[q].peer # 0
    BY <1>1 DEF Inv, PeersOK
  <2> QED BY <2>2, <2>3 DEF PeersOK
<1> QED BY <1>4, <1>5

\* The flag is raised for an offer that nobody else holds, or lowered by the one that did.
LEMMA OfferTurns ==
  ASSUME Inv, NEW o \in Offer, o <= offers', offers' \in 0..MaxOffers, offers <= offers',
         NEW step \in Step, NEW p \in 0..Len(peers'),
         task' = [task EXCEPT ![o] = [step |-> step, peer |-> p]],
         step \in {"applying", "answering"} => p # 0,
         answered' \in BOOLEAN, answered' <=> Taken(o)', answered => Taken(o),
         peers' \in Seq(Retryable), Len(peers) <= Len(peers'), pc' \in 0..Len(peers')
  PROVE  PeersOK' /\ OffersOK'
<1>1. /\ task'[o] = [step |-> step, peer |-> p]
      /\ \A q \in Offer \ {o} : task'[q] = task[q]
  BY DEF Inv, PeersOK
<1>2. Len(peers) \in Nat /\ Len(peers') \in Nat /\ offers \in Nat /\ offers' \in Nat
  BY LenProperties DEF Inv, PeersOK, OffersOK
<1>3. \A q \in Offer \ {o} : ~Taken(q)' /\ ~Taken(q)
  BY <1>1 DEF Taken, Inv, OffersOK
<1>4. OffersOK'
  <2>1. \A q \in Offer : q > offers' => task'[q].step = "none"
    BY <1>1, <1>2 DEF Inv, OffersOK, Offer
  <2> QED BY <1>3, <2>1 DEF Inv, OffersOK
<1>5. PeersOK'
  <2>1. 0..Len(peers) \subseteq 0..Len(peers')
    BY <1>2
  <2>2. task' \in [Offer -> [step : Step, peer : 0..Len(peers')]]
    BY <2>1 DEF Inv, PeersOK
  <2>3. \A q \in Offer : task'[q].step \in {"applying", "answering"} => task'[q].peer # 0
    BY <1>1 DEF Inv, PeersOK
  <2> QED BY <2>2, <2>3 DEF PeersOK
<1> QED BY <1>4, <1>5

LEMMA StepOnly ==
  ASSUME Inv, NEW o \in Offer, NEW step
  PROVE  [task EXCEPT ![o].step = step] = [task EXCEPT ![o] = [step |-> step, peer |-> task[o].peer]]
<1>1. task[o] \in [step : Step, peer : 0..Len(peers)]
  BY DEF Inv, PeersOK
<1>2. [task[o] EXCEPT !.step = step] = [step |-> step, peer |-> task[o].peer]
  BY <1>1
<1> QED BY <1>2

\* The rest of handleOffer, for an offer that has a peer by now.
LEMMA TakeStep ==
  ASSUME Inv, NEW o \in Offer, o <= offers', offers' \in 0..MaxOffers, offers <= offers',
         NEW p \in 0..Len(peers'), p # 0, ~Taken(o), Take(o, p),
         peers' \in Seq(Retryable), Len(peers) <= Len(peers'), pc' \in 0..Len(peers')
  PROVE  PeersOK' /\ OffersOK'
<1>1. task \in [Offer -> [step : Step, peer : 0..Len(peers)]] /\ answered \in BOOLEAN
  BY DEF Inv, PeersOK, OffersOK
<1>2. CASE answered
  <2>1. task' = [task EXCEPT ![o] = [step |-> "ignored", peer |-> p]] /\ answered' = answered
    BY <1>2 DEF Take
  <2>2. task'[o].step = "ignored"
    BY <1>1, <2>1
  <2>3. "ignored" \in Step /\ (Taken(o)' <=> Taken(o))
    BY <2>2 DEF Taken, Step
  <2> QED BY <2>1, <2>3, OfferMoves
<1>3. CASE ~answered
  <2>1. task' = [task EXCEPT ![o] = [step |-> "applying", peer |-> p]] /\ answered' = TRUE
    BY <1>3 DEF Take
  <2>2. task'[o].step = "applying"
    BY <1>1, <2>1
  <2>3. "applying" \in Step /\ Taken(o)' /\ answered' \in BOOLEAN
    BY <2>1, <2>2 DEF Taken, Step
  <2> QED BY <1>3, <2>1, <2>3, OfferTurns
<1> QED BY <1>2, <1>3

LEMMA PeersUnchanged ==
  ASSUME Inv, UNCHANGED <<peers, pc>>
  PROVE  /\ peers' \in Seq(Retryable) /\ Len(peers) <= Len(peers') /\ pc' \in 0..Len(peers')
         /\ Len(peers') \in Nat
BY LenProperties DEF Inv, PeersOK

LEMMA ReceiveOfferStep ==
  ASSUME Inv, ReceiveOffer
  PROVE  Inv'
<1>1. /\ offers < MaxOffers /\ offers' = offers + 1 /\ handleOffer(offers + 1)
      /\ UNCHANGED <<page, iced, peers, pc, iceQueue, sent, media>>
  BY DEF ReceiveOffer
<1>2. PICK o \in Offer : o = offers + 1 /\ o <= offers' /\ offers <= offers' /\ offers' \in 0..MaxOffers
  BY <1>1, ViewerPageAssumption DEF Inv, OffersOK, Offer
<1>3. task[o].step = "none" /\ ~Taken(o) /\ task[o].peer \in 0..Len(peers)
  BY <1>2 DEF Inv, OffersOK, PeersOK, Taken
<1>4. /\ peers' \in Seq(Retryable) /\ Len(peers) <= Len(peers') /\ pc' \in 0..Len(peers')
      /\ Len(peers') = Len(peers)
  BY <1>1, PeersUnchanged
<1>5. CASE pc # 0
  <2>1. PICK p \in 0..Len(peers') : p = pc
    BY <1>1, <1>4
  <2>2. Take(o, p) /\ p # 0
    BY <1>1, <1>2, <1>5, <2>1 DEF handleOffer
  <2>3. PeersOK' /\ OffersOK'
    BY <1>2, <1>3, <1>4, <2>2, TakeStep
  <2> QED BY <1>1, <2>3 DEF Inv, PageOK, page
<1>6. CASE pc = 0
  <2>1. PICK p \in 0..Len(peers') : p = task[o].peer
    BY <1>3, <1>4
  <2>2. task' = [task EXCEPT ![o] = [step |-> "fetch", peer |-> p]] /\ answered' = answered
    BY <1>1, <1>2, <1>6, <2>1, StepOnly DEF handleOffer
  <2>3. task'[o].step = "fetch"
    BY <2>2 DEF Inv, PeersOK
  <2>4. "fetch" \in Step /\ (Taken(o)' <=> Taken(o))
    BY <1>3, <2>3 DEF Taken, Step
  <2>5. PeersOK' /\ OffersOK'
    BY <1>2, <1>4, <2>2, <2>4, OfferMoves
  <2> QED BY <1>1, <2>5 DEF Inv, PageOK, page
<1> QED BY <1>5, <1>6

LEMMA FetchedStep ==
  ASSUME Inv, NEW o \in Offer, NEW turn \in BOOLEAN, Fetched(o, turn)
  PROVE  Inv'
<1>1. /\ task[o].step = "fetch" /\ pc' = Len(peers') /\ Take(o, pc')
      /\ peers' = Append(peers, createPeer(1, turn))
      /\ UNCHANGED <<page, offers, iced, iceQueue, sent, media>>
  BY DEF Fetched
<1>2. createPeer(1, turn) \in Retryable
  BY NewPeer, ViewerPageAssumption
<1>3. /\ peers' \in Seq(Retryable) /\ Len(peers') = Len(peers) + 1 /\ Len(peers) \in Nat
  BY <1>1, <1>2, AppendProperties, LenProperties DEF Inv, PeersOK
<1>4. PICK p \in 0..Len(peers') : p = pc' /\ p # 0
  BY <1>1, <1>3
<1>5. ~Taken(o) /\ o <= offers' /\ offers' \in 0..MaxOffers /\ offers <= offers'
  <2>1. ~(o > offers)
    BY <1>1 DEF Inv, OffersOK
  <2> QED BY <1>1, <2>1 DEF Taken, Inv, OffersOK, Offer
<1>6. Take(o, p)
  BY <1>1, <1>4
<1>7. Len(peers) <= Len(peers') /\ pc' \in 0..Len(peers')
  BY <1>3, <1>4
<1>8. PeersOK' /\ OffersOK'
  BY <1>3, <1>4, <1>5, <1>6, <1>7, TakeStep
<1> QED BY <1>1, <1>8 DEF Inv, PageOK, page

\* An offer goes on, or fails, with the peer that it has.
LEMMA StepStep ==
  ASSUME Inv, NEW o \in Offer, NEW step \in Step, task[o].step # "none",
         task' = [task EXCEPT ![o].step = step],
         step \in {"applying", "answering"} => Taken(o) /\ task[o].step # "answered",
         \/ (Taken(o)' <=> Taken(o)) /\ answered' = answered
         \/ Taken(o) /\ ~Taken(o)' /\ answered' = FALSE,
         offers' = offers, pc' = pc, peers' \in Seq(Retryable), Len(peers') = Len(peers)
  PROVE  PeersOK' /\ OffersOK'
<1>1. /\ task[o] \in [step : Step, peer : 0..Len(peers)] /\ pc \in 0..Len(peers)
      /\ Len(peers) \in Nat
      /\ task[o].step \in {"applying", "answering"} => task[o].peer # 0
      /\ Taken(o) => answered
  BY LenProperties DEF Inv, PeersOK, OffersOK
<1>2. PICK p \in 0..Len(peers') : p = task[o].peer
  BY <1>1
<1>3. /\ task' = [task EXCEPT ![o] = [step |-> step, peer |-> p]]
      /\ step \in {"applying", "answering"} => p # 0
  BY <1>1, <1>2, StepOnly DEF Taken
<1>4. o <= offers' /\ offers' \in 0..MaxOffers /\ offers <= offers'
  <2>1. ~(o > offers)
    BY DEF Inv, OffersOK
  <2> QED BY <2>1 DEF Inv, OffersOK, Offer
<1>5. Len(peers) <= Len(peers') /\ pc' \in 0..Len(peers')
  BY <1>1
<1>6. CASE (Taken(o)' <=> Taken(o)) /\ answered' = answered
  BY <1>2, <1>3, <1>4, <1>5, <1>6, OfferMoves
<1>7. CASE Taken(o) /\ ~Taken(o)' /\ answered' = FALSE
  <2>1. answered' \in BOOLEAN /\ (answered' <=> Taken(o)') /\ (answered => Taken(o))
    BY <1>7
  <2> QED BY <1>2, <1>3, <1>4, <1>5, <2>1, OfferTurns
<1> QED BY <1>6, <1>7

LEMMA NewStep ==
  ASSUME Inv, NEW o \in Offer, NEW step, task' = [task EXCEPT ![o].step = step]
  PROVE  task'[o].step = step
<1>1. task[o] \in [step : Step, peer : 0..Len(peers)] /\ task \in [Offer -> [step : Step, peer : 0..Len(peers)]]
  BY DEF Inv, PeersOK
<1>2. task'[o] = [task[o] EXCEPT !.step = step]
  BY <1>1
<1>3. [task[o] EXCEPT !.step = step].step = step
  BY <1>1
<1> QED BY <1>2, <1>3

\* A promise rejects.
LEMMA FailureSteps ==
  ASSUME Inv, NEW o \in Offer, FetchFailed(o) \/ OfferFailed(o)
  PROVE  Inv'
<1>1. /\ task' = [task EXCEPT ![o].step = "failed"]
      /\ UNCHANGED <<page, offers, iced, peers, pc, iceQueue, sent, media>>
      /\ \/ task[o].step = "fetch" /\ answered' = answered
         \/ task[o].step \in {"applying", "answering"} /\ answered' = FALSE
  BY DEF FetchFailed, OfferFailed
<1>2. task'[o].step = "failed"
  BY <1>1, NewStep
<1>3. /\ "failed" \in Step /\ task[o].step # "none"
      /\ \/ (Taken(o)' <=> Taken(o)) /\ answered' = answered
         \/ Taken(o) /\ ~Taken(o)' /\ answered' = FALSE
  BY <1>1, <1>2 DEF Taken, Step
<1>4. peers' \in Seq(Retryable) /\ Len(peers') = Len(peers) /\ offers' = offers /\ pc' = pc
  BY <1>1, PeersUnchanged
<1>5. PeersOK' /\ OffersOK'
  BY <1>1, <1>3, <1>4, StepStep
<1> QED BY <1>1, <1>5 DEF Inv, PageOK, page

\* setRemoteDescription, then setLocalDescription, resolve.
LEMMA NegotiationSteps ==
  ASSUME Inv, NEW o \in Offer, Applied(o) \/ Answered(o)
  PROVE  Inv'
<1>1. PICK step \in {"answering", "answered"} :
        /\ task' = [task EXCEPT ![o].step = step]
        /\ \/ step = "answering" /\ Applied(o)
           \/ step = "answered" /\ Answered(o)
  BY DEF Applied, Answered
<1>2. /\ task[o].step \in {"applying", "answering"}
      /\ UNCHANGED <<page, offers, iced, pc, answered>>
  BY DEF Applied, Answered
<1>3. PICK p \in 1..Len(peers) : p = task[o].peer
  BY <1>2, LenProperties DEF Inv, PeersOK
<1>4. peers \in Seq(Retryable) /\ peers[p] \in Retryable /\ media \in Media
  BY ElementOfSeq DEF Inv, PeersOK, PageOK
<1>5. PICK r \in Retryable : peers' = [peers EXCEPT ![p] = r]
  <2>1. CASE Applied(o)
    <3>1. o \in 0..MaxOffers
      BY ViewerPageAssumption DEF Offer
    <3>2. PICK r : r = [peers[p] EXCEPT !.offer = o]
      OBVIOUS
    <3>3. r \in Retryable
      BY <1>4, <3>1, <3>2, PeerGetsOffer
    <3> QED BY <1>3, <2>1, <3>2, <3>3 DEF Applied
  <2>2. CASE Answered(o)
    <3>1. PICK r : r = [peers[p] EXCEPT !.local = TRUE, !.candidates = peers[p].candidates \cup iceQueue]
      OBVIOUS
    <3>2. peers[p].candidates \cup iceQueue \in SUBSET Offer
      BY <1>4 DEF Retryable, Peer, Inv, PageOK
    <3>3. r \in Retryable
      BY <1>4, <3>1, <3>2, PeerGetsCandidates
    <3> QED BY <1>3, <2>2, <3>1, <3>3 DEF Answered
  <2> QED BY <2>1, <2>2
<1>6. peers' \in Seq(Retryable) /\ Len(peers') = Len(peers)
  BY <1>4, <1>5, ReplacePeer
<1>7. task'[o].step = step
  BY <1>1, NewStep
<1>8. /\ step \in Step /\ task[o].step # "none" /\ Taken(o) /\ Taken(o)' /\ task[o].step # "answered"
      /\ offers' = offers /\ pc' = pc /\ answered' = answered
  BY <1>1, <1>2, <1>7 DEF Taken, Step
<1>9. PeersOK' /\ OffersOK'
  BY <1>1, <1>6, <1>8, StepStep
<1>10. PageOK'
  <2>1. CASE Applied(o)
    BY <1>4, <2>1, MediaChanges DEF Applied, Inv, PageOK, page
  <2>2. CASE Answered(o)
    BY <2>2 DEF Answered, Inv, PageOK, page
  <2> QED BY <2>1, <2>2
<1> QED BY <1>9, <1>10 DEF Inv

-------------------------------------------------------------------------------
(* Candidates, the player and the end of the page.                             *)

LEMMA ReceiveIceStep ==
  ASSUME Inv, ReceiveIce
  PROVE  Inv'
<1>1. /\ offers > 0 /\ iced' = iced \cup {offers} /\ queueCandidate(offers)
      /\ UNCHANGED <<page, offers, task, pc, answered, sent, media>>
  BY DEF ReceiveIce
<1>2. offers \in Offer
  BY <1>1 DEF Inv, OffersOK, Offer
<1>3. PageOK'
  BY <1>1, <1>2 DEF Inv, PageOK, page, queueCandidate
<1>4. PeersOK'
  <2>1. CASE UNCHANGED peers
    BY <1>1, <2>1, PeersUnchanged, PeersKept DEF Inv
  <2>2. CASE /\ pc # 0
             /\ peers' = [peers EXCEPT ![pc] = [peers[pc] EXCEPT !.candidates = peers[pc].candidates \cup {offers}]]
    <3>1. PICK p \in 1..Len(peers) : p = pc
      BY <2>2, LenProperties DEF Inv, PeersOK
    <3>2. peers[p] \in Retryable
      BY ElementOfSeq DEF Inv, PeersOK
    <3>3. peers[p].candidates \cup {offers} \in SUBSET Offer
      BY <1>2, <3>2 DEF Retryable, Peer
    <3>4. PICK r : r = [peers[p] EXCEPT !.candidates = peers[p].candidates \cup {offers}]
      OBVIOUS
    <3>5. r \in Retryable
      BY <3>2, <3>3, <3>4, PeerGetsCandidates
    <3>6. peers' = [peers EXCEPT ![p] = r]
      BY <2>2, <3>1, <3>4
    <3>7. task' = task /\ pc' = pc
      BY <1>1
    <3> QED BY <3>5, <3>6, <3>7, PeerStep
  <2> QED BY <1>1, <2>1, <2>2 DEF queueCandidate
<1>5. OffersOK'
  BY <1>1, OffersKept DEF Inv
<1> QED BY <1>3, <1>4, <1>5 DEF Inv

LEMMA PlayerSteps ==
  ASSUME Inv, Presented \/ markMediaLive \/ SocketClosed
  PROVE  Inv'
<1>1. UNCHANGED <<offers, iced, task, peers, pc, answered, iceQueue, sent>> /\ open' = open
  BY DEF Presented, markMediaLive, SocketClosed, page
<1>2. socket' \in BOOLEAN /\ media' \in Media
  BY DEF Presented, markMediaLive, SocketClosed, page, Media, Inv, PageOK
<1>3. PeersOK'
  BY <1>1, PeersUnchanged, PeersKept DEF Inv
<1>4. PageOK' /\ OffersOK'
  BY <1>1, <1>2, OffersKept DEF Inv, PageOK
<1> QED BY <1>3, <1>4 DEF Inv

LEMMA TearDownStep ==
  ASSUME Inv, tearDown
  PROVE  Inv'
<1>1. /\ open' = FALSE /\ socket' = FALSE /\ pc' = 0 /\ media' = stopMediaCheck(media)
      /\ peers' = [p \in DOMAIN peers |-> [peers[p] EXCEPT !.timer = FALSE]]
      /\ UNCHANGED <<offers, iced, task, answered, iceQueue, sent>>
  BY DEF tearDown
<1>2. /\ Len(peers) \in Nat /\ DOMAIN peers = 1..Len(peers)
      /\ \A p \in 1..Len(peers) : peers[p] \in Retryable
  BY LenProperties, ElementOfSeq DEF Inv, PeersOK
<1>3. \A p \in 1..Len(peers) : [peers[p] EXCEPT !.timer = FALSE] \in Retryable
  BY <1>2, TimerCleared
<1>4. peers' \in [1..Len(peers) -> Retryable]
  BY <1>1, <1>2, <1>3
<1>5. peers' \in Seq(Retryable) /\ Len(peers') = Len(peers)
  BY <1>2, <1>4
<1>6. PeersOK'
  BY <1>1, <1>2, <1>5, PeersKept DEF Inv
<1>7. PageOK' /\ OffersOK'
  BY <1>1, MediaChanges, OffersKept DEF Inv, PageOK
<1> QED BY <1>6, <1>7 DEF Inv

-------------------------------------------------------------------------------
(* The theorems.                                                               *)

LEMMA InitHolds == Init => Inv
<1> SUFFICES ASSUME Init PROVE Inv
  OBVIOUS
<1>1. peers \in Seq(Retryable) /\ Len(peers) = 0
  BY EmptySeq DEF Init
<1>2. PageOK
  BY DEF Init, PageOK, Media
<1>3. PeersOK
  BY <1>1 DEF Init, PeersOK, Step
<1>4. OffersOK
  <2>1. \A o \in Offer : task[o].step = "none" /\ ~Taken(o)
    BY DEF Init, Taken
  <2>2. answered = FALSE /\ offers = 0 /\ offers \in 0..MaxOffers
    BY ViewerPageAssumption DEF Init
  <2> QED BY <2>1, <2>2 DEF OffersOK
<1> QED BY <1>2, <1>3, <1>4 DEF Inv

LEMMA StepHolds == Inv /\ [Next]_vars => Inv'
<1>1. ASSUME Inv, Next PROVE Inv'
  <2>1. CASE Promises
    BY <1>1, <2>1, FetchedStep, FailureSteps, NegotiationSteps DEF Promises
  <2>2. CASE \E p \in DOMAIN peers : Retry(p) \/ \E state \in State \ {"new"} : onStateChange(p, state)
    BY <1>1, <2>2, RetryStep, StateChangeStep
  <2> QED BY <1>1, <2>1, <2>2, ReceiveOfferStep, ReceiveIceStep, PlayerSteps, TearDownStep DEF Next
<1>2. ASSUME Inv, UNCHANGED vars PROVE Inv'
  <2>1. /\ UNCHANGED <<open, socket, iced, sent, iceQueue, media>>
        /\ UNCHANGED <<offers, task, answered>> /\ UNCHANGED <<peers, pc>>
    BY <1>2 DEF vars, page
  <2>2. PeersOK'
    BY <1>2, <2>1, PeersUnchanged, PeersKept DEF Inv
  <2> QED BY <1>2, <2>1, <2>2, OffersKept DEF Inv, PageOK
<1> QED BY <1>1, <1>2

LEMMA InvHolds == Spec => []Inv
BY InitHolds, StepHolds, PTL DEF Spec

\* The page, its peers, its offers and the player's flags are well formed, for any number of
\* offers and any number of attempts.
THEOREM TypeCorrect == Spec => []TypeOK
<1>1. Inv => TypeOK
  <2>1. Retryable \subseteq Peer
    BY DEF Retryable
  <2>2. ASSUME Inv PROVE peers \in Seq(Peer)
    BY <2>1, <2>2, SeqMonotonic DEF Inv, PeersOK
  <2> QED BY <2>2 DEF Inv, PageOK, PeersOK, OffersOK, TypeOK, Media
<1> QED BY <1>1, InvHolds, PTL

\* Of all the offers that wait for the ICE servers or arrive later, the page negotiates one at
\* a time, and a failed one gives the flag back: for any number of offers and attempts.
THEOREM NegotiatesOnce == Spec => []OneNegotiation
<1>1. ASSUME Inv PROVE OneNegotiation
  <2> DEFINE taken == {o \in Offer : Taken(o)}
  <2>1. Cardinality(taken) <= 1
    <3>1. CASE taken = {}
      BY <3>1, FS_EmptySet
    <3>2. CASE taken # {}
      <4>1. PICK o : taken = {o}
        BY <1>1, <3>2 DEF Inv, OffersOK
      <4>2. Cardinality(taken) = 1
        BY <4>1, FS_Singleton
      <4> QED BY <4>2
    <3> QED BY <3>1, <3>2
  <2>2. answered <=> taken # {}
    BY <1>1 DEF Inv, OffersOK
  <2> QED BY <2>1, <2>2 DEF OneNegotiation, Taken
<1> QED BY <1>1, InvHolds, PTL
-------------------------------------------------------------------------------
(* Candidates.  One that is not on the first peer waits in the queue until the *)
(* answer flushes it; from then on the peer has a remote description, so none  *)
(* is queued any more.                                                         *)

CandidatesOK ==
  /\ Len(peers) = 0 => iced \subseteq iceQueue
  /\ open /\ Len(peers) > 0 => pc # 0
  /\ Len(peers) = 1 /\ peers[1].attempt = 1 =>
       /\ iced \subseteq iceQueue \cup peers[1].candidates
       /\ peers[1].local => iced \subseteq peers[1].candidates /\ peers[1].offer # 0
       /\ \A o \in Offer : task[o].step = "answering" => peers[1].offer # 0

\* What concerns candidates about a peer.
SameCandidates(q, r) == q.local = r.local /\ q.offer = r.offer /\ q.candidates = r.candidates

\* Most steps touch neither candidates nor what decides where the next one goes.
LEMMA CandidatesKept ==
  ASSUME CandidatesOK, UNCHANGED <<iced, iceQueue>>,
         Len(peers') = Len(peers),
         Len(peers) = 1 /\ peers'[1].attempt = 1 =>
           peers[1].attempt = 1 /\ SameCandidates(peers'[1], peers[1]),
         open' /\ Len(peers') > 0 => pc' # 0,
         \A o \in Offer : task'[o].step = "answering" => task[o].step = "answering"
  PROVE  CandidatesOK'
BY DEF CandidatesOK, SameCandidates

LEMMA TaskSteps ==
  ASSUME Inv, CandidatesOK, NEW o \in Offer, NEW t, t.step # "answering",
         task' = [task EXCEPT ![o] = t],
         UNCHANGED <<open, iced, iceQueue, peers, pc>>
  PROVE  CandidatesOK'
<1>1. \A q \in Offer : task'[q].step = "answering" => task[q].step = "answering"
  BY DEF Inv, PeersOK
<1> QED BY <1>1, CandidatesKept DEF SameCandidates, CandidatesOK

\* An offer that is received or fails is not being answered.
LEMMA OtherTaskSteps ==
  ASSUME Inv, CandidatesOK,
         ReceiveOffer \/ \E o \in Offer : FetchFailed(o) \/ OfferFailed(o)
  PROVE  CandidatesOK'
<1>1. UNCHANGED <<open, iced, iceQueue, peers, pc>>
  BY DEF ReceiveOffer, FetchFailed, OfferFailed, page
<1>2. PICK o \in Offer : \E t : t.step # "answering" /\ task' = [task EXCEPT ![o] = t]
  <2>1. CASE ReceiveOffer
    <3>1. offers + 1 \in Offer
      BY <2>1, ViewerPageAssumption DEF ReceiveOffer, Inv, OffersOK, Offer
    <3>2. \A p : /\ [step |-> "ignored", peer |-> p].step # "answering"
                 /\ [step |-> "applying", peer |-> p].step # "answering"
                 /\ [step |-> "fetch", peer |-> p].step # "answering"
      OBVIOUS
    <3>3. CASE pc # 0
      BY <2>1, <3>1, <3>2, <3>3 DEF ReceiveOffer, handleOffer, Take
    <3>4. CASE pc = 0
      <4>1. task' = [task EXCEPT ![offers + 1] = [step |-> "fetch", peer |-> task[offers + 1].peer]]
        BY <2>1, <3>1, <3>4, StepOnly DEF ReceiveOffer, handleOffer
      <4> QED BY <3>1, <3>2, <4>1
    <3> QED BY <3>3, <3>4
  <2>2. ASSUME NEW o \in Offer, FetchFailed(o) \/ OfferFailed(o)
        PROVE  \E t : t.step # "answering" /\ task' = [task EXCEPT ![o] = t]
    <3>1. task' = [task EXCEPT ![o] = [step |-> "failed", peer |-> task[o].peer]]
      BY <2>2, StepOnly DEF FetchFailed, OfferFailed
    <3>2. [step |-> "failed", peer |-> task[o].peer].step # "answering"
      OBVIOUS
    <3> QED BY <3>1, <3>2
  <2> QED BY <2>1, <2>2
<1> QED BY <1>1, <1>2, TaskSteps

\* The first peer is built while everything is in the queue, and nothing is being answered.
LEMMA FirstPeer ==
  ASSUME Inv, CandidatesOK, NEW o \in Offer, NEW turn \in BOOLEAN, Fetched(o, turn)
  PROVE  CandidatesOK'
<1>1. /\ peers' = Append(peers, createPeer(1, turn)) /\ pc' = Len(peers') /\ Take(o, pc')
      /\ UNCHANGED <<open, iced, iceQueue>>
  BY DEF Fetched, page
<1>2. peers \in Seq(Retryable) /\ createPeer(1, turn) \in Retryable
  BY NewPeer, ViewerPageAssumption DEF Inv, PeersOK
<1>3. Len(peers) \in Nat /\ Len(peers') = Len(peers) + 1 /\ peers'[Len(peers) + 1] = createPeer(1, turn)
  BY <1>1, <1>2, AppendProperties, LenProperties
<1>4. Len(peers') # 0 /\ pc' # 0
  BY <1>1, <1>3
<1>5. ASSUME Len(peers') = 1
      PROVE  /\ Len(peers) = 0
             /\ peers'[1].candidates = {} /\ peers'[1].local = FALSE
             /\ \A q \in Offer : task'[q].step # "answering"
  <2>1. Len(peers) = 0 /\ peers'[1] = createPeer(1, turn)
    <3>1. \A n \in Nat : n + 1 = 1 => n = 0
      OBVIOUS
    <3>2. Len(peers) + 1 = 1
      BY <1>3, <1>5
    <3>3. Len(peers) = 0
      BY <1>3, <3>1, <3>2
    <3> QED BY <1>3, <3>2, <3>3
  <2>2. \A q \in Offer : task[q].step # "answering"
    BY <2>1 DEF Inv, PeersOK
  <2>3. \A q \in Offer : task'[q].step # "answering"
    <3>1. PICK t : t.step # "answering" /\ task' = [task EXCEPT ![o] = t]
      <4>1. \A p : /\ [step |-> "ignored", peer |-> p].step # "answering"
                   /\ [step |-> "applying", peer |-> p].step # "answering"
        OBVIOUS
      <4> QED BY <1>1, <4>1 DEF Take
    <3> QED BY <2>2, <3>1 DEF Inv, PeersOK
  <2> QED BY <2>1, <2>3 DEF createPeer
<1> QED BY <1>1, <1>4, <1>5 DEF CandidatesOK

\* A peer that has answered has a remote description, and had the queue flushed to it.
LEMMA AnswerSteps ==
  ASSUME Inv, CandidatesOK, NEW o \in Offer, Applied(o) \/ Answered(o)
  PROVE  CandidatesOK'
<1>1. /\ UNCHANGED <<open, iced, pc>> /\ task[o].step \in {"applying", "answering"}
      /\ \E step \in {"answering", "answered"} : task' = [task EXCEPT ![o].step = step]
  BY DEF Applied, Answered, page
<1>2. PICK p \in 1..Len(peers) : p = task[o].peer
  BY <1>1, LenProperties DEF Inv, PeersOK
<1>3. peers \in Seq(Retryable) /\ peers[p] \in Retryable /\ Len(peers) \in Nat
  BY ElementOfSeq, LenProperties DEF Inv, PeersOK
<1>4. \A q \in Offer : q # o => task'[q] = task[q]
  BY <1>1 DEF Inv, PeersOK
<1>5. CASE Applied(o)
  <2>1. PICK r : r = [peers[p] EXCEPT !.offer = o]
    OBVIOUS
  <2>2. o \in 0..MaxOffers /\ o # 0
    BY ViewerPageAssumption DEF Offer
  <2>3. /\ r \in Retryable /\ r.offer = o /\ r.candidates = peers[p].candidates
        /\ r.local = peers[p].local /\ r.attempt = peers[p].attempt
    BY <1>3, <2>1, <2>2, PeerGetsOffer DEF Retryable, Peer
  <2>4. peers' = [peers EXCEPT ![p] = r] /\ iceQueue' = iceQueue
    BY <1>2, <1>5, <2>1 DEF Applied
  <2>5. Len(peers') = Len(peers) /\ (Len(peers) = 1 => p = 1 /\ peers'[1] = r)
    BY <1>2, <1>3, <2>3, <2>4, ReplacePeer, ExceptSeq
  <2> QED BY <1>1, <1>4, <2>2, <2>3, <2>4, <2>5 DEF CandidatesOK
<1>6. CASE Answered(o)
  <2>1. PICK r : r = [peers[p] EXCEPT !.local = TRUE, !.candidates = peers[p].candidates \cup iceQueue]
    OBVIOUS
  <2>2. peers[p].candidates \cup iceQueue \in SUBSET Offer
    BY <1>3 DEF Retryable, Peer, Inv, PageOK
  <2>3. /\ r \in Retryable /\ r.offer = peers[p].offer /\ r.attempt = peers[p].attempt
        /\ r.candidates = peers[p].candidates \cup iceQueue
    BY <1>3, <2>1, <2>2, PeerGetsCandidates DEF Retryable, Peer
  <2>4. peers' = [peers EXCEPT ![p] = r] /\ iceQueue' = {} /\ task[o].step = "answering"
    BY <1>2, <1>6, <2>1 DEF Answered
  <2>5. Len(peers') = Len(peers) /\ (Len(peers) = 1 => p = 1 /\ peers'[1] = r)
    BY <1>2, <1>3, <2>3, <2>4, ReplacePeer, ExceptSeq
  <2>6. Len(peers) = 1 /\ peers[1].attempt = 1 => peers[1].offer # 0
    BY <2>4 DEF CandidatesOK
  <2> QED BY <1>1, <2>3, <2>4, <2>5, <2>6 DEF CandidatesOK
<1> QED BY <1>5, <1>6

\* A candidate goes to the peer that has a remote description, else to the queue.
LEMMA CandidateArrives ==
  ASSUME Inv, CandidatesOK, ReceiveIce
  PROVE  CandidatesOK'
<1>1. /\ open /\ iced' = iced \cup {offers} /\ queueCandidate(offers)
      /\ UNCHANGED <<open, task, pc>> /\ offers \in Offer
  BY DEF ReceiveIce, page, Inv, OffersOK, Offer
<1>2. peers \in Seq(Retryable) /\ pc \in 0..Len(peers) /\ Len(peers) \in Nat
  BY LenProperties DEF Inv, PeersOK
<1>3. CASE pc # 0 /\ peers[pc].offer # 0
  <2>1. PICK r : r = [peers[pc] EXCEPT !.candidates = peers[pc].candidates \cup {offers}]
    OBVIOUS
  <2>2. pc \in 1..Len(peers)
    BY <1>2, <1>3
  <2>3. peers[pc] \in Retryable
    BY <1>2, <2>2, ElementOfSeq
  <2>4. peers[pc].candidates \cup {offers} \in SUBSET Offer
    BY <1>1, <2>3 DEF Retryable, Peer
  <2>5. /\ r \in Retryable /\ r.offer = peers[pc].offer /\ r.attempt = peers[pc].attempt
        /\ r.local = peers[pc].local /\ r.candidates = peers[pc].candidates \cup {offers}
    BY <2>1, <2>3, <2>4, PeerGetsCandidates DEF Retryable, Peer
  <2>6. peers' = [peers EXCEPT ![pc] = r] /\ iceQueue' = iceQueue
    BY <1>1, <1>3, <2>1 DEF queueCandidate
  <2>7. Len(peers') = Len(peers) /\ (Len(peers) = 1 => pc = 1 /\ peers'[1] = r)
    BY <1>2, <2>2, <2>5, <2>6, ReplacePeer, ExceptSeq
  <2> QED BY <1>1, <1>2, <1>3, <2>2, <2>5, <2>6, <2>7 DEF CandidatesOK
<1>4. CASE ~(pc # 0 /\ peers[pc].offer # 0)
  <2>1. iceQueue' = iceQueue \cup {offers} /\ peers' = peers
    BY <1>1, <1>4 DEF queueCandidate
  <2>2. Len(peers) = 1 => pc = 1 /\ peers[1].offer = 0
    BY <1>1, <1>2, <1>4 DEF CandidatesOK
  <2> QED BY <1>1, <2>1, <2>2 DEF CandidatesOK
<1> QED BY <1>3, <1>4

\* A retry builds a peer of a later attempt; a change of state leaves the candidates alone.
LEMMA PeerSteps ==
  ASSUME Inv, CandidatesOK, NEW p \in DOMAIN peers,
         Retry(p) \/ \E state \in State \ {"new"} : onStateChange(p, state)
  PROVE  CandidatesOK'
<1>1. peers \in Seq(Retryable) /\ Len(peers) \in Nat /\ p \in 1..Len(peers) /\ pc \in 0..Len(peers)
  BY LenProperties DEF Inv, PeersOK
<1>2. peers[p] \in Retryable
  BY <1>1, ElementOfSeq
<1>3. UNCHANGED <<open, iced, iceQueue, task>>
  BY DEF Retry, onStateChange, page
<1>4. CASE Retry(p)
  <2>1. PICK r : r = createPeer(peers[p].attempt + 1, peers[p].turn)
    OBVIOUS
  <2>2. peers' = [peers EXCEPT ![p] = r] /\ pc' = p
    BY <1>4, <2>1 DEF Retry
  <2>3. peers[p].attempt \in Nat /\ peers[p].attempt >= 1
    BY <1>2, ViewerPageAssumption DEF Retryable, Peer
  <2>4. r.attempt # 1
    BY <2>1, <2>3 DEF createPeer
  <2>5. Len(peers') = Len(peers) /\ (Len(peers) = 1 => peers'[1] = r)
    BY <1>1, <2>2
  <2> QED BY <1>1, <1>3, <2>2, <2>4, <2>5, CandidatesKept
<1>5. ASSUME NEW state \in State \ {"new"}, onStateChange(p, state)
      PROVE  CandidatesOK'
  <2>1. PICK r : r = [peers[p] EXCEPT !.conn = state, !.timer = peers[p].timer \/ Retries(p, state)]
    OBVIOUS
  <2>2. SameCandidates(r, peers[p]) /\ r.attempt = peers[p].attempt
    BY <1>2, <2>1 DEF SameCandidates, Retryable, Peer
  <2>3. peers' = [peers EXCEPT ![p] = r] /\ pc' = pc
    BY <1>5, <2>1 DEF onStateChange
  <2>4. Len(peers') = Len(peers) /\ (Len(peers) = 1 => p = 1 /\ peers'[1] = r)
    BY <1>1, <2>3
  <2> QED BY <1>1, <1>3, <2>2, <2>3, <2>4, CandidatesKept DEF CandidatesOK
<1> QED BY <1>4, <1>5

LEMMA RestSteps ==
  ASSUME Inv, CandidatesOK, Presented \/ markMediaLive \/ SocketClosed \/ tearDown \/ UNCHANGED vars
  PROVE  CandidatesOK'
<1>1. UNCHANGED <<iced, iceQueue, task>>
  BY DEF Presented, markMediaLive, SocketClosed, tearDown, vars
<1>2. CASE tearDown
  <2>1. /\ open' = FALSE
        /\ peers' = [p \in DOMAIN peers |-> [peers[p] EXCEPT !.timer = FALSE]]
    BY <1>2 DEF tearDown
  <2>2. Len(peers) \in Nat /\ DOMAIN peers = 1..Len(peers)
    BY LenProperties DEF Inv, PeersOK
  <2>3. \A p \in 1..Len(peers) : peers[p] \in Retryable
    BY ElementOfSeq DEF Inv, PeersOK
  <2>4. /\ Len(peers') = Len(peers)
        /\ Len(peers) = 1 => peers'[1] = [peers[1] EXCEPT !.timer = FALSE] /\ peers[1] \in Retryable
    <3>1. \A p \in 1..Len(peers) : [peers[p] EXCEPT !.timer = FALSE] \in Retryable
      BY <2>3, TimerCleared
    <3>2. peers' \in [1..Len(peers) -> Retryable]
      BY <2>1, <2>2, <3>1
    <3>3. Len(peers') = Len(peers)
      BY <2>2, <3>2
    <3>4. \A p \in 1..Len(peers) : peers'[p] = [peers[p] EXCEPT !.timer = FALSE]
      BY <2>1, <2>2
    <3> QED BY <2>3, <3>3, <3>4
  <2>5. Len(peers) = 1 => SameCandidates(peers'[1], peers[1]) /\ peers'[1].attempt = peers[1].attempt
    BY <2>4 DEF SameCandidates, Retryable, Peer
  <2> QED BY <1>1, <2>1, <2>4, <2>5, CandidatesKept
<1>3. CASE Presented \/ markMediaLive \/ SocketClosed \/ UNCHANGED vars
  <2>1. UNCHANGED <<open, peers, pc>>
    BY <1>3 DEF Presented, markMediaLive, SocketClosed, vars, page
  <2> QED BY <1>1, <2>1, CandidatesKept DEF CandidatesOK, SameCandidates
<1> QED BY <1>2, <1>3

\* While the page has had one RTCPeerConnection, every candidate of the host is on it as soon
\* as its answer is applied, also one that came before it: for any number of offers.
THEOREM CandidatesAlwaysReachPeer == Spec => []CandidatesReachPeer
<1>1. Init => CandidatesOK
  BY DEF Init, CandidatesOK
<1>2. Inv /\ CandidatesOK /\ [Next]_vars => CandidatesOK'
  <2> SUFFICES ASSUME Inv, CandidatesOK, [Next]_vars PROVE CandidatesOK'
    OBVIOUS
  <2>1. CASE Promises
    BY <2>1, OtherTaskSteps, FirstPeer, AnswerSteps DEF Promises
  <2>2. CASE \E p \in DOMAIN peers : Retry(p) \/ \E state \in State \ {"new"} : onStateChange(p, state)
    BY <2>2, PeerSteps
  <2>3. CASE ReceiveOffer \/ ReceiveIce
    BY <2>3, OtherTaskSteps, CandidateArrives
  <2>4. CASE Presented \/ markMediaLive \/ SocketClosed \/ tearDown \/ UNCHANGED vars
    BY <2>4, RestSteps
  <2> QED BY <2>1, <2>2, <2>3, <2>4 DEF Next
<1>3. CandidatesOK => CandidatesReachPeer
  BY DEF CandidatesOK, CandidatesReachPeer
<1> QED BY <1>1, <1>2, <1>3, InvHolds, PTL DEF Spec
==============================================================================
