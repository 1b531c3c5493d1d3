------------------------------- MODULE HostPage -------------------------------
(***************************************************************************)
(* The host's page (web/src/pages/host.ts): its start/stop button, the     *)
(* commands it posts, the polls of the helper's status that may answer out *)
(* of order, and the timeout that gives a command up.                      *)
(*                                                                         *)
(* The server and the helper behind it are reduced to what a status says:  *)
(* whether a helper is connected, its state, and the last acknowledgement. *)
(* HelperRegistry models them in full.                                     *)
(***************************************************************************)
EXTENDS FiniteSets, Naturals, Sequences

CONSTANTS MaxClicks,   \* bound: commands clicked
          MaxPolls,    \* bound: status requests under way at a time
          MaxChanges   \* bound: changes that the host did not ask for

ASSUME HostPageAssumption == MaxClicks \in Nat /\ MaxPolls \in Nat /\ MaxChanges \in Nat

Command == {"start", "stop", "nat-test"}
HelperState == {"idle", "live"}
Status == [connected : BOOLEAN, state : HelperState \cup {"null"}]
Ack == [id : 0..MaxClicks, state : HelperState]   \* id 0: none yet
Poll == [asked : BOOLEAN, status : Status, last : Ack]

VARIABLES
  room,           \* the page has a room
  polling,        \* pollTimer is set
  pendingToggle,  \* "starting" or "stopping" while one is in flight
  toggleTimeout,  \* its timer is set
  lastSentId,     \* the command whose acknowledgement is awaited, 0 for null
  lastStatus,     \* what the last poll said
  button,         \* the label of the button, is it enabled, are the NAT buttons
  clicks,         \* commands clicked so far; its value names the newest one
  posts,          \* POST /helper/command under way
  polls,          \* GET /helper/status under way
  helper,         \* the server's entry: connected, its state
  ack,            \* the server's last command result
  queue,          \* commands relayed to the helper and not handled yet
  changes

page == <<room, polling, pendingToggle, toggleTimeout, lastSentId, lastStatus, button>>
server == <<helper, ack, queue>>
vars == <<page, clicks, posts, polls, server, changes>>

-------------------------------------------------------------------------------
(* The button.                                                                 *)

Shown(label, enabled) == [label |-> label, enabled |-> enabled]

applyToggleButton(s, pending) ==
  IF pending # "none" THEN Shown(pending, FALSE)
  ELSE IF s.state = "live" THEN Shown("stop", TRUE)
  ELSE Shown("start", s.connected)

Apply(toggle) == button' = [button EXCEPT !.toggle = toggle]

clearPendingToggle == pendingToggle' = "none" /\ toggleTimeout' = FALSE

\* Mutant: the toggle is not timed.
armNothing == UNCHANGED toggleTimeout

armToggleTimeout == toggleTimeout' = TRUE

\* Mutant: the name of the command for that of the progress.
ProgressRaw(command) == command

Progress(command) == IF command = "stop" THEN "stopping" ELSE "starting"

\* The page is drawn anew: its buttons wait for the next poll.
render == button' = [toggle |-> Shown("start", FALSE), nat |-> FALSE]

-------------------------------------------------------------------------------
(* Clicks, and the requests that carry them.                                   *)

sendCommand(command) ==
  /\ clicks < MaxClicks
  /\ clicks' = clicks + 1
  /\ posts' = posts \cup {[id |-> clicks + 1, command |-> command, relayed |-> FALSE]}

Toggled == IF pendingToggle = "stopping" \/ lastStatus.state = "live" THEN "stop" ELSE "start"

ClickToggle ==
  /\ button.toggle.enabled
  /\ Toggled = "stop" \/ room
  /\ sendCommand(Toggled)
  /\ pendingToggle' = Progress(Toggled)
  /\ armToggleTimeout
  /\ Apply(applyToggleButton(lastStatus, pendingToggle'))
  /\ UNCHANGED <<room, polling, lastSentId, lastStatus, polls, server, changes>>

ClickNat ==
  /\ button.nat
  /\ sendCommand("nat-test")
  /\ UNCHANGED <<page, polls, server, changes>>

\* The server relays the command of a request to a helper that is connected.
Relay(p) ==
  /\ ~p.relayed /\ helper.connected
  /\ posts' = (posts \ {p}) \cup {[p EXCEPT !.relayed = TRUE]}
  /\ queue' = Append(queue, [id |-> p.id, command |-> p.command])
  /\ UNCHANGED <<page, clicks, polls, helper, ack, changes>>

\* The page hears that the command was relayed.
PostAnswered(p) ==
  /\ p.relayed
  /\ posts' = posts \ {p}
  /\ lastSentId' = p.id
  /\ UNCHANGED <<room, polling, pendingToggle, toggleTimeout, lastStatus, button, clicks, polls, server, changes>>

\* helper_offline (409 is an ApiError) or a network failure: the toggle is given up.
PostFailed(p) ==
  /\ posts' = posts \ {p}
  /\ clearPendingToggle
  /\ Apply(applyToggleButton(lastStatus, "none"))
  /\ UNCHANGED <<room, polling, lastSentId, lastStatus, clicks, polls, server, changes>>

ToggleTimeout ==
  /\ toggleTimeout
  /\ clearPendingToggle
  /\ Apply(applyToggleButton(lastStatus, "none"))
  /\ UNCHANGED <<room, polling, lastSentId, lastStatus, clicks, posts, polls, server, changes>>

-------------------------------------------------------------------------------
(* Polls.                                                                      *)

helperStatus ==
  [connected |-> helper.connected, state |-> IF helper.connected THEN helper.state ELSE "null"]

\* A poll of the timer, or of the page that becomes visible, gets its status from the server.
Ask(i) ==
  /\ polling /\ ~polls[i].asked
  /\ polls' = [polls EXCEPT ![i] = [asked |-> TRUE, status |-> helperStatus, last |-> ack]]
  /\ UNCHANGED <<page, clicks, posts, server, changes>>

NoPoll ==
  [asked |-> FALSE, status |-> [connected |-> FALSE, state |-> "null"], last |-> [id |-> 0, state |-> "idle"]]

\* Is this the result of the command that was sent?
Ours(last) == last.id # 0 /\ last.id = lastSentId

\* The acknowledgement of our command ends the toggle, and its state is shown at once.
TakeAck(last, s) ==
  /\ lastSentId' = 0
  /\ clearPendingToggle
  /\ button' = [toggle |-> applyToggleButton([connected |-> TRUE, state |-> last.state], "none"),
                nat |-> s.connected]

\* Mutant: the button is drawn only when the status is not the one seen last.
refreshChanged(i) ==
  LET s == polls[i].status IN
  /\ polls[i].asked
  /\ polls' = [polls EXCEPT ![i] = NoPoll]
  /\ lastStatus' = s
  /\ IF Ours(polls[i].last) THEN TakeAck(polls[i].last, s)
     ELSE /\ button' = IF s = lastStatus THEN button
                       ELSE [toggle |-> applyToggleButton(s, pendingToggle), nat |-> s.connected]
          /\ UNCHANGED <<lastSentId, pendingToggle, toggleTimeout>>
  /\ UNCHANGED <<room, polling, clicks, posts, server, changes>>

refreshHelper(i) ==
  LET s == polls[i].status IN
  /\ polls[i].asked
  /\ polls' = [polls EXCEPT ![i] = NoPoll]
  /\ lastStatus' = s
  /\ IF Ours(polls[i].last) THEN TakeAck(polls[i].last, s)
     ELSE /\ button' = [toggle |-> applyToggleButton(s, pendingToggle), nat |-> s.connected]
          /\ UNCHANGED <<lastSentId, pendingToggle, toggleTimeout>>
  /\ UNCHANGED <<room, polling, clicks, posts, server, changes>>

-------------------------------------------------------------------------------
(* The helper handles its commands in order and acknowledges each with its     *)
(* state; a start may fail to go live.                                         *)

HelperActs ==
  /\ queue # <<>>
  /\ \E state \in CASE Head(queue).command = "start" -> HelperState
                    [] Head(queue).command = "stop" -> {"idle"}
                    [] OTHER -> {helper.state} :
       /\ helper' = [helper EXCEPT !.state = state]
       /\ ack' = [id |-> Head(queue).id, state |-> state]
  /\ queue' = Tail(queue)
  /\ UNCHANGED <<page, clicks, posts, polls, changes>>

Change == changes < MaxChanges /\ changes' = changes + 1

\* A status frame: the stream ended, or was started from the tray.
HelperStatus ==
  /\ Change
  /\ helper.connected
  /\ \E state \in HelperState \ {helper.state} : helper' = [helper EXCEPT !.state = state]
  /\ UNCHANGED <<page, clicks, posts, polls, ack, queue>>

HelperGone ==
  /\ Change
  /\ helper.connected
  /\ helper' = [helper EXCEPT !.connected = FALSE]
  /\ queue' = <<>>
  /\ UNCHANGED <<page, clicks, posts, polls, ack>>

\* A hello: the new entry is idle.
HelperCame ==
  /\ Change
  /\ ~helper.connected
  /\ helper' = [connected |-> TRUE, state |-> "idle"]
  /\ UNCHANGED <<page, clicks, posts, polls, ack, queue>>

PollFailed(i) ==
  /\ Change
  /\ polls[i].asked
  /\ polls' = [polls EXCEPT ![i] = NoPoll]
  /\ UNCHANGED <<page, clicks, posts, server>>

\* POST /rooms has succeeded, and polling (re)starts.
CreateRoom ==
  /\ Change
  /\ ~room
  /\ room' = TRUE /\ polling' = TRUE
  /\ render
  /\ UNCHANGED <<pendingToggle, toggleTimeout, lastSentId, lastStatus, clicks, posts, polls, server>>

LeaveRoom ==
  /\ Change
  /\ room
  /\ room' = FALSE
  /\ render
  /\ UNCHANGED <<polling, pendingToggle, toggleTimeout, lastSentId, lastStatus, clicks, posts, polls, server>>

\* Boot: ?room= names a live room, and is polled, or does not.
Init ==
  /\ room \in BOOLEAN /\ polling = room
  /\ pendingToggle = "none" /\ toggleTimeout = FALSE /\ lastSentId = 0
  /\ lastStatus = NoPoll.status
  /\ button = [toggle |-> Shown("start", FALSE), nat |-> FALSE]
  /\ clicks = 0 /\ posts = {} /\ changes = 0
  /\ polls = [i \in 1..MaxPolls |-> NoPoll]
  /\ helper \in [connected : BOOLEAN, state : {"idle"}]
  /\ ack = NoPoll.last /\ queue = <<>>

PostEnds == \E p \in posts : PostAnswered(p) \/ PostFailed(p)

Next ==
  \/ ClickToggle \/ ClickNat \/ ToggleTimeout
  \/ PostEnds \/ \E p \in posts : Relay(p)
  \/ \E i \in 1..MaxPolls : Ask(i) \/ refreshHelper(i) \/ PollFailed(i)
  \/ HelperActs \/ HelperStatus \/ HelperGone \/ HelperCame
  \/ CreateRoom \/ LeaveRoom

\* Timers fire and requests end; the helper owes nothing, not even its acknowledgements.
Fairness ==
  /\ WF_vars(ToggleTimeout) /\ WF_vars(PostEnds)
  /\ \A i \in 1..MaxPolls : WF_vars(Ask(i)) /\ WF_vars(refreshHelper(i))

Spec == Init /\ [][Next]_vars /\ Fairness

-------------------------------------------------------------------------------
\* Type correctness of the page, its requests and the status behind them.
TypeOK ==
  /\ room \in BOOLEAN /\ polling \in BOOLEAN /\ toggleTimeout \in BOOLEAN
  /\ pendingToggle \in {"none", "starting", "stopping"}
  /\ lastSentId \in 0..MaxClicks /\ lastStatus \in Status
  /\ button \in [toggle : [label : {"start", "stop", "starting", "stopping"}, enabled : BOOLEAN],
                 nat : BOOLEAN]
  /\ clicks \in 0..MaxClicks /\ changes \in 0..MaxChanges
  /\ posts \subseteq [id : 1..MaxClicks, command : Command, relayed : BOOLEAN]
  /\ polls \in [1..MaxPolls -> Poll]
  /\ helper \in [connected : BOOLEAN, state : HelperState] /\ ack \in Ack
  /\ queue \in Seq([id : 1..MaxClicks, command : Command])

\* A toggle never stays in progress, also when its acknowledgement is lost, belongs to
\* another command, or its command was never relayed.
ButtonSettles == pendingToggle # "none" ~> pendingToggle = "none"

ButtonAgrees == button.toggle = applyToggleButton(helperStatus, "none")

\* Once nothing changes any more, a page that polls shows what the helper is doing, however
\* the polls and the acknowledgements before were ordered.
ButtonConverges == <>[](polling => ButtonAgrees)

\* A click on the button sends the command that the button names.
ClickSendsItsLabel ==
  [][\A p \in posts' \ posts :
       p.id > clicks /\ p.command # "nat-test" => p.command = button.toggle.label]_vars
==============================================================================
