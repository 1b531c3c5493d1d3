# GoLive: a TLA+ verification project

GoLive lets a signed-in user open a room, stream a screen into it, either from a
browser tab or from a native Windows helper, and hand out a link that anybody can
watch. Media flows peer to peer; the server only introduces peers, keeps track of
who is where, and passes commands to helpers. What can go wrong is therefore mostly
a matter of *bookkeeping under interleaving*: maps that must agree, sockets that
close at the wrong moment, timers that race frames, frames of an old attachment
that arrive in a new one. That is what these modules are about.

Contents: [the system](#1-the-system) · [the modules](#2-modules-and-their-code) ·
[the runs](#3-what-is-checked) · [the proofs](#4-what-is-proved) ·
[findings](#5-findings) · [limits](#6-what-is-not-modelled) · [the plan](#7-plan)

Run a model with `tlc -config MCSignaling.cfg MCSignaling`, check a proof with
`tlapm SignalingProofs.tla`.

## 1. The system

| component | code | state it keeps | operations | what makes it correct |
|---|---|---|---|---|
| Room signaling registry | `server/src/signaling.ts` | `byRoom`, `byId` | join, leave, relay sdp/ice | the maps agree; one host per room, its owner; a host's idea of its audience is exact; signals stay between host and viewer of one room |
| Room store | `server/src/store.ts`, `routes/rooms.ts` | `rooms` (mirror of the database) | create, read (deletes an expired room), sweep, TURN settings | nobody enters a room that is not live; expiry under the members' feet is harmless |
| Browser endpoint | `server/src/index.ts` `/ws` | one closure per socket | join, sdp, ice, leave, close, `fail` | a refused or closed socket leaves nothing behind |
| Helper registry | `server/src/helperRegistry.ts` | `helpers`, `pendingHelpers`, `pendingAcks`, `lastCommandResults` | hello, status, ack, command, heartbeat, sweep | one helper per account, supersession, no ghost and no orphan, acks credited to the right command |
| Helper endpoint | `server/src/index.ts` `/ws/helper`, `helperSignaling.ts` | `registered`, `attachedRooms` | attach, detach, room-sdp, room-ice, close | the endpoint's map, the room registry and presence agree |
| HTTP API | `routes/*.ts`, `http.ts` | none | rooms, pairing, tokens, TURN, commands | checks are still true when they are used |
| Sessions, tokens, persistence | `sessions.ts`, `tokens.ts`, `store.ts`, `db/` | in-memory mirrors, pairing codes | issue, use, revoke, reload at start | a restart brings back nothing older than what was settled; a code brings one device, to its account |
| Rate limiter | `rateLimit.ts` | `buckets` | take, prune | bounded requests per window, bounded memory |
| Helper: stream and viewers | `helper/src/main.rs`, `pipeline.rs` | `App`, `StreamSession`, one webrtcbin per viewer | start, stop, attach-ack, peers, answers, poll | everybody in the room gets an offer; an offer is sent once its webrtcbin is through with it; the seat is held exactly while streaming |
| Helper: connection | `helper/src/ws.rs` | outgoing queue, back-off | connect, pump, retry | frames are not lost silently; a revoked token ends the retries |
| Viewer page | `web/src/pages/watch.ts`, `webrtc.ts` | peer, candidate queue, `answered` | offer, ice, retry | one peer at a time; candidates go to the peer they belong to |
| Browser host | `web/src/host-session.ts` | a peer per viewer | connect, answer, drop | no peer of a viewer that left; no page uses it at this commit |
| Host page | `web/src/pages/host.ts` | `pendingToggle`, `lastStatus`, `lastSentId`, the button | toggle, poll, time out | a toggle ends; the button shows and sends what the helper is doing |
| Outside the models | Discord sign-in, STUN/NAT probes, tray, statistics, UI | | | see section 6 |

How they interact. The server is **one JavaScript thread**; a handler that does not
await is atomic, so everything hard happens *between* handlers: sockets interleave,
timers fire, a `ws.close()` only *asks* for a close whose `onClose` runs later. A
browser talks to `/ws`, a helper to `/ws/helper`; both end up as members of the same
room registry, the helper through a translating socket. The HTTP API reaches a helper
by a command frame and learns the outcome by an ack frame. The helper runs two
threads (websocket, GStreamer) joined by unbounded queues, plus one thread per
webrtcbin whose callbacks return between the ticks of the main loop. A page awaits
browser APIs in almost every handler.

The hazards, each at its line and with the properties that would catch it, are listed
in `PROJECT.json`.

## 2. Modules and their code

| module | models | composed of |
|---|---|---|
| `RoomHosting` | the promise of room signaling: seats, audiences, and hosts that know their audience | |
| `Signaling` | `signaling.ts`, `store.ts`, the `/ws` endpoint; implements `RoomHosting` | |
| `HelperRegistry` | `helperRegistry.ts` and its use in `/ws/helper` | |
| `HelperHosting` | the whole signaling server: both endpoints on one room registry; implements `RoomHosting` and `HelperRegistry` | `Signaling`, `HelperRegistry` |
| `HelperRoom` | the helper's GStreamer thread, its webrtcbins, the server's seat and the viewers' pages | |
| `DurableStore` | the promise of a stored row: used once, gone once removed, never older after a restart than what was settled | |
| `Persistence` | `sessions.ts`, `tokens.ts`, `store.ts`, the routes of sign-in, pairing, rooms and TURN, the start-up; implements `DurableStore` | |
| `ViewerPage` | `watch.ts` on the retrying peers of `webrtc.ts` | |
| `HostPage` | the start/stop button of `host.ts`, its commands, polls and timers | |
| `SignalingProofs`, `HelperRegistryProofs`, `PersistenceProofs`, `ViewerPageProofs`, `HostPageProofs`, `HelperRoomProofs` | theorems about the module each is named for | |
| `HelperHostingProofs` | theorems about `HelperHosting` | instances of `SignalingProofs`, `HelperRegistryProofs` |
| `MC*` | instances for TLC | |

Definitions keep the names of the source (`joinSignaling`'s acceptance is
`enterRoom`, its checks are `RefusedBecause` and `Admissible`; `leaveSignaling`,
`sweepStaleHelpers`, `handleHelperAck`, `poll_negotiations` ... are themselves).
`PROJECT.json` maps every definition to its lines.

**Signaling.** `byId` and `byRoom` are kept apart, as in the code, so that they *can*
disagree. `wire[d]` holds the frames the last step sent to `d`, in order, and
`roster[d]` what the frames sent since `d` joined add up to: what a host believes of
its room (`joined` lists viewers, `peer-joined` and `peer-left` change the list).
Joining again leaves the previous room first, so one step may send somebody two
frames. Closing a socket from the server (`fail`) is a step, the `onClose` handler
another. A room is live, expired (its TTL has passed, nobody looked), or deleted (by
the first read or by the sweep); its owner is remembered so that hosts of deleted
rooms can be talked about. A connection's `peerId` is a UUID its page draws, so peer
ids are identified with connections; room ids are never drawn twice.

**HelperRegistry.** Time is counted in ticks. `pending[c]` is the age of the handshake
timer, `helpers[u].age` the time since the entry was last heard, `phase` the time
since the last heartbeat. A timer that is due runs before time moves on, before or
after the frames of the same moment. `sent` is the history of relayed commands, with
which acks are compared. Helpers ack a command at most once, possibly on a later
connection than the one it came by.

**HelperHosting.** Every frame of a greeted helper is `Reg!Status` (it refreshes the
staleness clock) together with what the frame does in the rooms; `HelperClose` is
`Reg!Close` together with `leaveSignaling`. The endpoint's own map `attachedRooms` is
a variable of this module and is changed where the code changes it. A helper's `room-sdp`
and `room-ice` may name any connection or none (`index.ts` passes the id on unchecked).

**HelperRoom.** `tracked` is `App.viewers` (none, offer not sent, offer sent) and
`entry` is `session.viewers`: a serial number that says which stream the webrtcbin
belongs to, its queue of tasks, the slot for an offer that is not set yet, and its
signaling state. `toServer` and `toHelper` are the frames in flight, in order. The
helper asks for an offer and sets the ones that have come (`poll_negotiations`), a
webrtcbin works off its tasks (`RunTask`) and calls back. A page answers one offer and
ignores all later ones (`answered`). Attaches may be refused, pipelines and webrtcbins
may fail to build, create-offer may fail. So may set-local-description (`applied`), in two
ways: a webrtcbin that refuses the offer still replies, and the callback sends the offer
without reading the reply (signaling state `refused`, if it had none before); without a reply
nothing is sent, and nobody asks for that viewer's offer again (`failed`). An
offer whose webrtcbin is being torn down may still be sent (`late`); whether GStreamer does
that is the constant `LateCallbacks`.

**Persistence.** `mirror` is the three in-memory maps, keyed by session, device token or
room; `table` is the rows of the database, and `writes[k]` the inserts, updates and
deletes of `k` that were issued and not awaited. Any of them may be committed or fail at
any time, in any order. A restart loses the writes that are under way, the pairing codes
and the requests, and rebuilds the mirrors from the tables. Handlers are single steps
except `POST /turn`, which awaits its body between its check of the room (`TurnChecked`)
and its write (`TurnBody`). `recent` and `shaken` are history, for `DurableStore`:
`recent[k]` holds the rows that `k` had since the database last caught up with it, and
`k` is shaken once one of its writes failed or was overtaken. `minted` and `devices` are
history too: who a code was for, and the tokens it brought.

**ViewerPage.** A step is an event and what runs until the next await that really waits.
`task[o]` is how far `handleOffer` has come with offer `o` and which peer it got;
`peers` are the calls of `createPeerWithRetry`, of which `pc` is the page's. An offer that
comes while the ICE servers are being fetched builds a peer of its own (`Fetched`), as the
code does. What RTCPeerConnection reports and whether a frame is presented is up to the
browser; whether the room has a TURN server is learnt with each fetch.

**HostPage.** The page is modelled in full for its button: what it last heard
(`lastStatus`), what it waits for (`pendingToggle`, `toggleTimeout`, `lastSentId`) and
what it draws (`button`). A command is relayed (`Relay`), handled (`HelperActs`) and
acknowledged, in steps of their own; a poll takes the status when the server handles it
(`Ask`) and is applied when its answer comes (`refreshHelper`), so answers overtake each
other. The server is reduced to what a status says; `HelperRegistry` has the rest. The
`!res.delivered` branch of `sendCommand` cannot be reached, because the server answers 409
then and `api.ts` throws; it would do what `PostFailed` does.

## 3. What is checked

| run | shows | bounds |
|---|---|---|
| `signaling` | the two maps agree, dead sockets are no members, one host, hosts own their room, exact rosters, signals in pairs; refines `RoomHosting` | 3 connections, 2 rooms, 2 accounts and a guest |
| `helper_registry` | one helper per account, timed handshakes, silence noticed within a heartbeat, talkers never dropped, acks credited correctly; every handshake ends | 2 connections, 2 accounts, 2 commands, timers 2/6/2 |
| `helper_hosting` | `attachedRooms`, rooms and presence agree; hosting helpers are current; signals stay in pairs across the two endpoints; refines `RoomHosting` and `HelperRegistry`; a silent host loses its seat | 1 browser, 2 helpers, 1 room, 1 account, timers 1/1/1, no commands |
| `helper_room` | nobody in the room is forgotten, nobody is served twice or for nothing before a restart, no offer travels before set-local-description is done, the seat follows the stream; every served viewer is sent an offer unless GStreamer reports an error | 2 viewers, 1 command and 1 tray click |
| `persistence` | a pairing code brings at most one device, to its account; refines `DurableStore` | 2 users, 1 session, 2 tokens, 1 room, 1 code, 2 writes under way, 1 restart |
| `viewer_page` | one negotiation at a time, candidates reach their peer, failures are retried, live media is reported | 3 offers, 2 attempts |
| `host_page` | a toggle ends, the button ends up showing what the helper does | 2 commands, 2 polls at a time, 2 other changes |
| `helper_registry_names` | finding 1 (violation) | 1 helper, 2 commands |
| `helper_room_early_answer` | finding 2 (violation) | 1 viewer, 1 command and 1 tray click |
| `viewer_page_retry`, `viewer_page_recovery` | findings 3 and 4 (violations) | 2 offers, 2 attempts |
| `host_page_click` | finding 5 (violation) | as `host_page` |

**Why these bounds are enough.** *signaling*: three connections are a host, a viewer
and a rival for either place, and two rooms and two accounts let a member change rooms,
roles and owners; every handler names one connection, at most one other by target, and
one room besides the one it leaves. The set of connections is opened once each, but
joins and leaves are unbounded. *helper_registry*: two connections supersede each
other, of the same or of different accounts; two commands are what it takes to confuse
acks; the ratio 10 s / 30 s / 10 s of the code is kept as 2/6/2, and the smallest
granularity at which a frame falls strictly inside, or exactly on, a window. *helper_hosting*
only adds the relation of the parts, which two helpers and one browser competing for
one seat exercise; its timers are the shortest possible. Commands are left out of that
run (`MaxCommands = 0`) because they do not touch rooms; `helper_registry` has them. Its one
room leaves out the helper that changes rooms without a detach, which the theorems on
`HelperHosting` cover.
*helper_room*: a command and a click start, stop and restart the stream, which is what
frames of an old attachment need; a single viewer with twice as many commands and
clicks gives the same results. *persistence*: keys do not meet except through the room
of a request and the user of a session, so one of each kind will do, with a second user
whose device a code must not become, and a second token
for the cap and for a code that is tried twice; two writes under way are what it takes to
commit in another order. Tokens are drawn at random and accounts are alike, so both are
symmetric. *viewer_page*: three offers are one
that is taken, one that races it and one that meets the fresh peer of a retry; two
attempts is the code's own number. *host_page*: two commands confuse acknowledgements,
two polls overtake each other, and each change the host did not ask for (the stream ends,
the helper leaves or returns, a room is created or left, a poll fails) can meet both.
`CHECK_DEADLOCK FALSE` stands where the modelled actors may all be done: every connection
was opened and closed, every page left, every command spent, or every key used up.

**Properties worth reading first.** `RosterExact` (what a host was told adds up to who
is there), `KeepsHostingPromise` (the refinement), `NoOrphanHelper` and `TalkersStay`
(supersession hits the right socket), `AttachedAgrees` (two maps, two modules),
`SilentHostLosesSeat` (sweep, close and onClose chained), `ServesAudience` (attach-ack
and peer frames across restarts), `OfferIsSettled` (the order create, set, send),
`ImplementsStore` (what restarts and unawaited writes may do to a row),
`PairsOneDevice` (a code that is tried twice, expires, or meets a restart),
`OneNegotiation` and `CandidatesReachPeer` (offers and candidates during awaits and
retries), `ButtonConverges` (polls that overtake each other, acks drawn over statuses).

**Fairness.** `HelperRegistry` and `HelperHosting` assume that time passes, that due
timers fire (`setInterval`, `setTimeout`), and that a socket the *server* closed
reports its close, which the websocket runtime guarantees. Nothing makes a helper send
a frame, answer a ping or close by itself. `HelperRoom` assumes that the server and
the GStreamer thread keep handling frames and ticks (`gst_thread` is a loop without a
blocking call) and that each webrtcbin works off its tasks; nobody is assumed to join,
to leave, to answer or to give a command, and a `late` callback need never run.
`ViewerPage` assumes that the promises a page awaits are settled one way or the other,
that the media check ticks (`setInterval`) and that a retry timer fires; the host need
not offer, ICE need not connect and no frame need ever be presented. `HostPage` assumes
that the toggle's timer fires, that a POST ends and that polls are made and answered
(`setInterval` and `fetch`). Failed polls are among the bounded changes, so that polls
get through in the end. The helper owes nothing, not even its acknowledgements. `Signaling` and `Persistence` have
no liveness property: nothing in them must eventually happen by itself, a write least.

Each property comes with a mutant of the code (marked `Mutant:` in the modules, listed
in `PROJECT.json`) that violates it under the run's own bounds: a dropped check, a half
done cleanup, a wrong receiver, an offer sent too soon.

## 4. What is proved

TLAPS checks the following for **every** value of the constants, that is any number of
connections, rooms, accounts, helpers and commands, any timer settings, any number of
stored rows, of writes under way and of restarts, and any number of viewers, streams,
offers, attempts, clicks and polls. Every invariant that a run checks is among them.
The only assumptions are the named ones of the modules: absent values (`Guest`,
`NoMember`, `NoHelper`, `None`, ...) are not values of the sort they are absent from,
timer settings and bounds are natural numbers, browsers and helpers are different
connections, and sessions, device tokens and rooms have different keys.

**SignalingProofs** (`Spec` of `Signaling`): `TypeCorrect`, `MapsAlwaysAgree`,
`MembersAlwaysLive`, `OneHostAlways`, `HostAlwaysOwner`, `RosterAlwaysExact`,
`SignalsAlwaysInPair`, `OnlyLiveRoomsEntered`, `ImplementsRoomHosting`. None of the
invariants is inductive alone: that a leave frame reaches the right host needs both
maps to agree, that a roster stays exact needs one host per room, that a host stays
the owner needs rooms in use to keep their owner. `IInv` is their conjunction with the
fact that a member's room was created. The argument has two layers. Every step leaves
the registry alone, or removes one connection, or places one in a room with its checks
passed (`NextCases`); and removal and placement are shown, once each and on the bare
values of the three maps, to keep `RegistryOK` (`RegistryLeave`, `RegistryEnter`). A
join is both in a row, and the lemmas compose. The refinement theorem follows the same
split: leaving is `Depart`, entering is `TakeSeat` or `Watch`, everything else stutters.

**HelperRegistryProofs** (`Spec` of `HelperRegistry`): `TypeCorrect`, `NeverOrphaned`,
`EntriesAlwaysLive`, `HandshakeAlwaysTimed`, `AlwaysHeardRecently`,
`TalkersAlwaysStay`, `ResultsAlwaysAcked`, `PendingAlwaysNewest`. The invariant on
presence adds that a socket never opened owes nothing and that whoever is open has an
account (`Admitted`), and turns the window into one that moves with the heartbeat: an
entry is at most `StaleAfter + phase` old (`FreshAtHeartbeat`), which is inductive and
gives the bound of one heartbeat. The invariant on commands rests on the one on
presence: an ack handled while its sender is *not* the account's entry would mark a
command acked and leave it pending, and `NoOrphanHelper` says that never happens.

**HelperHostingProofs** (`Spec` of `HelperHosting`): `ImplementsHelperRegistry`, that
every behaviour of the composed server is one of `HelperRegistry`, so that what is
proved of presence holds of helpers that host; `AttachedAlwaysAgrees`, from the
strengthening that only greeted helpers with an unclosed socket are members
(`HostsAreGreeted`); `HostingAlwaysCurrent`, which is that strengthening together with
`NoOrphanHelper`, taken over from `HelperRegistryProofs` through the first theorem;
`TypeCorrect`; and `RoomsAlwaysInOrder`, `SignalsAlwaysInPair` and `ImplementsRoomHosting`,
what `Signaling` promises for browsers, now for hosts on either endpoint. The module
instantiates `SignalingProofs` and cites its lemmas. What it can take over is
`Placement`, the registry's maps and their types, and the removal and placement lemmas,
which speak of the three maps only. It cannot take over `Signaling`'s whole invariant, since
the model's `conn` is about `/ws` and a helper's socket is not in it. So each step of
`/ws/helper` is shown to be a removal, a placement or neither (`RegistryStepOfAll`), and
each of `/ws` to be a step of `Signaling` (`SignalingStepIsNext`).

**HelperRoomProofs** (`Spec` of `HelperRoom`): `TypeCorrect`, `EntriesAlwaysTracked`,
`OffersAlwaysSettled`, `SeatAlwaysFollowsStream`, `AudienceAlwaysServed`. Four threads meet
through two queues here, and what a property says of a quiet system has to be said of every
mixture of frames under way. `IInv` does so by which frames are in a queue, in which
order, and how many of them:

- `SeatInOrder`: attaches and detaches alternate in what the helper has sent, starting with
  what the seat calls for and ending with what the stream calls for. On an empty queue this
  is `SeatFollowsStream`. One step of the helper may append both (a restart), so
  appending and taking are lemmas on any sequence (`AttachQueued`, `DetachQueued`,
  `OfferQueued`, `FrameHandled`).
- `Departures`: behind a `peer-left` there is no frame that would add the viewer again.
  This is what makes the server's snapshot in an attach-ack safe.
- `Attended`: while the helper will keep its seat, everybody inside is served, failed, or
  announced by a frame under way. `FirstStream`: until the first stream ends, whoever is
  served or announced and not inside has a `peer-left` under way. On empty queues the two
  are `ServesAudience`; that the second says nothing of later streams is the reason why
  neither does the property.
- `OffersOut`: an offer of the running stream that is anywhere outside its webrtcbin (late
  callback, either queue, the page, or as its answer) was applied or refused by that
  webrtcbin, or its viewer is gone for good and will not be added again. The alternative is
  needed because a departed viewer's offer may outlive its entry; that it does not come back is `Departures`.
- `WorkBounded` counts, for each viewer, whatever will make the helper ask for another offer
  (tasks, the slot of a made offer, the untold entry, announcing frames, an attach under
  way, a viewer who may still join), and shows that the sum never exceeds the number of
  streams; and likewise one answer in all. It is what bounds a webrtcbin's queue in
  `TypeOK`. The sum is moved from one place to another by almost every step, and raised only
  by a start.

**PersistenceProofs** (`Spec` of `Persistence`): `TypeCorrect`, `OneDevicePerCode`,
`ImplementsDurableStore`. All three rest on one predicate on a single key, `Good`, which
relates its row in the mirror, its row in the table, the writes between the two and the
rows it had recently: everything in sight is a recent row; recent rows have one owner; as
long as no write was lost or overtaken, each write is the one whose result its row is when
the ones before it had their turn (`InOrder`), and the last of them is what the mirror
holds; so a key with no write under way has nothing recent but what it shows. `InOrder`
is the heart of it: a commit out of order breaks it, which is why `shaken` remembers that
one did. Four lemmas say what a new write, a commit, a failure and a restart do to a
`Good` key (`GoodStore`, `GoodCommit`, `GoodFail`, `GoodRestart`); the effects on all keys
and the refinement step follow from them (`StoresStep`). `PairingOK` then needs of the
stores only that the owner of a key never changes, which `Good` has: whatever rows come
back, a token stays its user's.

**ViewerPageProofs** (`Spec` of `ViewerPage`): `TypeCorrect`, `NegotiatesOnce` and
`CandidatesAlwaysReachPeer`. The
invariant counts the offers that were taken (`Taken`): at most one is, and `answered` is
set exactly then; an offer that has not come is untouched. For the types a retry timer
runs only with an attempt left (`Retryable`), or the count of attempts would pass its
bound. The peers that offers and the page point to are peers that exist, which every step
that builds or replaces one has to keep. For the candidates the invariant says where each
of them is while there has been one peer: on the peer once the answer is applied, and
before that on it or in the page's queue, which the answer flushes.

**HostPageProofs** (`Spec` of `HostPage`): `TypeCorrect`. The shapes are inductive: the
button is drawn from a status or a pending toggle, both of which have to be well formed,
and the ids in requests, in the helper's queue, in acknowledgements and in `lastSentId` are
those of clicks.

`EntersLiveRoomsOnly` and `EntriesAreLive` are proved and no longer checked by a run: the
first follows from one guard, the second is a part of the invariant on presence.

**Only model-checked:** what must eventually happen (`HandshakeEnds`,
`SilentHostLosesSeat`, `OfferedEventually`, `RetryHappens`, `LiveReported`, `ButtonSettles`,
`ButtonConverges`), because fairness and `ENABLED` are out of the prover's reach, and the
violations of section 5. The inductive invariant of `HelperRoom` was checked by TLC, with
two viewers and a command and with one viewer and two commands, before it was proved.

## 5. Findings

1. **A command's name is lost when two are in flight** (`helper_registry_names`).
   `docs/signaling.md` says `lastCommand` is "joined by id", and the comment on
   `pendingAcks` says "id → what we sent", but the map is keyed by account
   (`helperRegistry.ts:171`). A second command overwrites the record of the first,
   whose ack is then reported under its bare id. What does hold, and is proved: it is
   never reported under *another* command's name (`ResultsAreAcked`).
2. **An answer can arrive before the helper is ready** (`helper_room_early_answer`).
   `pipeline.rs:502-504` promises that it cannot, because offers are sent only once
   applied. Across a restart of the stream it can: offers and answers do not say which
   stream they belong to, so the answer to the old offer reaches the viewer's new
   webrtcbin, which refuses it. The page has set `answered` and ignores the new offer.
   What does hold: within one stream no offer leaves, and so no answer comes back, before
   set-local-description is done (`OfferIsSettled`); it may have been refused, see below.

3. **The second attempt of a viewer's connection cannot succeed** (`viewer_page_retry`).
   `webrtc.ts:40` and `project.md:163` promise a retry over TURN with a fresh peer. The
   fresh peer is built and its timer counts the attempt, but `answered` stays set
   (`watch.ts:363`), so every later offer is ignored and the fresh peer never gets a
   description. What does hold: the retry itself always happens (`RetryHappens`), and
   never two negotiations at a time (`OneNegotiation`).
4. **A retry can close a healthy connection** (`viewer_page_recovery`). The timer is
   armed by `disconnected` as well as by `failed`, and a connection that recovers does not
   cancel it (`webrtc.ts:75`): it is closed when the timer fires, and finding 3 follows.
5. **The button can say one thing and do another** (`host_page_click`). An acknowledgement
   is drawn over the status of the same poll without changing `lastStatus`
   (`host.ts:482`), which is what a click goes by: the button says Stop, the click sends
   start. It lasts until the next poll (`ButtonConverges`).

An offer that was refused is sent all the same. The comment at `pipeline.rs:502` says that
webrtcbin is in `have-local-offer` there, but `Ok(_)` only says that set-local-description
was replied to; webrtcbin reports an error in the reply, which is not read (the callback of
create-offer does read its own). The viewer's answer to such an offer is refused in turn, and
the page ignores every later one. `HelperRoom` has this as a step of `applied`; there is no
run for it, because the step alone is the counterexample.

`ServesAudience` claims that nobody but the room's viewers is served only before the
first restart. After one it does not hold: the attach-ack of the first attachment may
list a viewer that leaves while the helper is between two seats, so that no
`peer-left` is ever sent to it. The webrtcbin stays until the stream ends.

## 6. What is not modelled

- **Data**: the text of SDP, ICE candidates' contents, helper versions, state and
  detail strings, viewer counts. They are passed on and decide nothing in these parts.
- **Malformed frames**: ignored by the code without a state change.
- **The transport**: frames between a helper and the server arrive in order while the
  connection is up. Its loss is a close in the server's modules, where a helper may come
  back on a new connection and never attach again; `HelperRoom` assumes the connection
  stays up. The helper's side of it (`ws.rs`: queue and back-off) is not modelled.
- **The browser host** (`host-session.ts`): no page constructs `TestHost` at this commit,
  so nothing it does can happen in the running system. `Signaling` models the host of a
  room by the frames it may send and takes from `TestHost` only how a host adds up its
  roster (`Hear`). The cached settings of `iceConfig` in `webrtc.ts` have no reader.
- **The rate limiter**: one synchronous function on one map, whose branches its unit tests
  reach. A route that is refused changes nothing, and the requests of the models need
  not come.
- **Sign-in with Discord**: the session it ends with is in `Persistence`, the redirect and
  its state cookie are not: its logic is Discord's and the cookie's.
- **The forms** for pairing a helper and for TURN settings in `host.ts`: requests without
  state of their own. Their routes are in `Persistence`.
- **STUN and NAT probes, tray, configuration files, statistics, quality presets,
  translations, page shell, tools**: no state shared between steps, or presentation. So
  are the statistics line and the player's controls of `watch.ts`. The tray's commands are
  inputs of `HelperRoom`.
- **Hooks for tests** (`resetTokensForTests` and the like).

## 7. Plan

In this order; the most important behaviour came first.

1. *Done*: `RoomHosting`, `Signaling`, `HelperRegistry`, `HelperHosting`, `HelperRoom`
   with their runs, and the proofs of the server's modules.
2. *Done*: `DurableStore` and `Persistence`, with pairing, device tokens and the TURN
   route, and their proofs; `ViewerPage`, with the retrying peers of `webrtc.ts`, and its
   proofs; `HostPage`.
3. *Done*: the invariants that only TLC had checked, for `HelperHosting`, with its
   refinement of `RoomHosting`, for `HelperRoom`, `ViewerPage` and `HostPage`.
4. `HelperConnect` (`ws.rs`, `main.rs`): frames lost on a failed write, the reconnect
   that does not attach again, the back-off that restarts for a refused token. Bounds: 2
   connections, 2 frames in the queue.
