---------------------------- MODULE HostPageProofs ----------------------------
(***************************************************************************)
(* Theorems about HostPage: type correctness, for any number of clicks,    *)
(* polls under way and changes behind the page's back.  The shapes depend  *)
(* on each other: the id that the page waits for comes from a request, the *)
(* one a request carries from a click, and what the page draws from what   *)
(* the polls brought.                                                      *)
(***************************************************************************)
EXTENDS HostPage, SequenceTheorems, TLAPS

Label == {"start", "stop", "starting", "stopping"}
Button == [toggle : [label : Label, enabled : BOOLEAN], nat : BOOLEAN]
Queued == [id : 1..MaxClicks, command : Command]
Post == [id : 1..MaxClicks, command : Command, relayed : BOOLEAN]

\* What the page holds, what is on its way, and what the server holds.
PageOK ==
  /\ room \in BOOLEAN /\ polling \in BOOLEAN /\ toggleTimeout \in BOOLEAN
  /\ pendingToggle \in {"none", "starting", "stopping"}
  /\ lastSentId \in 0..MaxClicks /\ lastStatus \in Status /\ button \in Button

RequestsOK ==
  /\ clicks \in 0..MaxClicks
  /\ posts \subseteq Post
  /\ polls \in [1..MaxPolls -> Poll]

ServerOK ==
  /\ changes \in 0..MaxChanges
  /\ helper \in [connected : BOOLEAN, state : HelperState] /\ ack \in Ack
  /\ queue \in Seq(Queued)

LEMMA Parts == TypeOK <=> PageOK /\ RequestsOK /\ ServerOK
BY DEF TypeOK, PageOK, RequestsOK, ServerOK, Label, Button, Queued, Post

\* The button always has one of its four labels.
LEMMA ToggleType ==
  ASSUME NEW s, s.connected \in BOOLEAN, NEW pending \in {"none", "starting", "stopping"}
  PROVE  applyToggleButton(s, pending) \in [label : Label, enabled : BOOLEAN]
BY DEF applyToggleButton, Shown, Label

LEMMA ButtonType ==
  ASSUME PageOK, NEW s, s.connected \in BOOLEAN, NEW pending \in {"none", "starting", "stopping"},
         Apply(applyToggleButton(s, pending))
  PROVE  button' \in Button
BY ToggleType DEF Apply, PageOK, Button

\* The drawings that do not show a status: an acknowledgement, and a new page.
LEMMA DrawnTypes ==
  /\ \A state : applyToggleButton([connected |-> TRUE, state |-> state], "none")
                 \in [label : Label, enabled : BOOLEAN]
  /\ [toggle |-> Shown("start", FALSE), nat |-> FALSE] \in Button
BY DEF applyToggleButton, Shown, Label, Button

LEMMA PollTypes ==
  /\ NoPoll \in Poll /\ NoPoll.status \in Status /\ NoPoll.last \in Ack
  /\ \A poll \in Poll : poll.status \in Status /\ poll.last \in Ack
  /\ \A s \in Status : s.connected \in BOOLEAN
BY HostPageAssumption DEF NoPoll, Poll, Status, Ack, HelperState

LEMMA Commands == {"start", "stop", "nat-test"} = Command
BY DEF Command

\* A command is posted under the number of its click.
LEMMA SendType ==
  ASSUME RequestsOK, NEW command \in Command, sendCommand(command)
  PROVE  clicks' \in 0..MaxClicks /\ posts' \subseteq Post
<1>1. clicks + 1 \in 1..MaxClicks
  BY HostPageAssumption DEF sendCommand, RequestsOK
<1>2. [id |-> clicks + 1, command |-> command, relayed |-> FALSE] \in Post
  BY <1>1 DEF Post
<1>3. clicks' \in 0..MaxClicks
  BY <1>1, HostPageAssumption DEF sendCommand
<1>4. posts' \subseteq Post
  BY <1>2 DEF sendCommand, RequestsOK
<1> QED BY <1>3, <1>4

-------------------------------------------------------------------------------
(* The page's steps.                                                           *)

LEMMA ClickSteps ==
  ASSUME PageOK, RequestsOK, ServerOK, ClickToggle \/ ClickNat
  PROVE  PageOK' /\ RequestsOK' /\ ServerOK'
<1>1. CASE ClickToggle
  <2>1. Toggled \in Command /\ Progress(Toggled) \in {"none", "starting", "stopping"}
    BY DEF Toggled, Progress, Command
  <2>2. clicks' \in 0..MaxClicks /\ posts' \subseteq Post
    BY <1>1, <2>1, SendType DEF ClickToggle
  <2>3. pendingToggle' \in {"none", "starting", "stopping"} /\ toggleTimeout' = TRUE
    BY <1>1, <2>1 DEF ClickToggle, armToggleTimeout
  <2>4. button' \in Button
    BY <1>1, <2>3, ButtonType, PollTypes DEF ClickToggle, PageOK
  <2> QED BY <1>1, <2>2, <2>3, <2>4 DEF ClickToggle, PageOK, RequestsOK, ServerOK, server
<1>2. CASE ClickNat
  <2>1. clicks' \in 0..MaxClicks /\ posts' \subseteq Post
    BY <1>2, SendType DEF ClickNat, Command
  <2> QED BY <1>2, <2>1 DEF ClickNat, PageOK, RequestsOK, ServerOK, page, server
<1> QED BY <1>1, <1>2

LEMMA PostSteps ==
  ASSUME PageOK, RequestsOK, ServerOK, NEW p \in posts,
         Relay(p) \/ PostAnswered(p) \/ PostFailed(p)
  PROVE  PageOK' /\ RequestsOK' /\ ServerOK'
<1>1. p \in Post
  BY DEF RequestsOK
<1>2. CASE Relay(p)
  <2>1. [p EXCEPT !.relayed = TRUE] \in Post /\ [id |-> p.id, command |-> p.command] \in Queued
    BY <1>1 DEF Post, Queued
  <2>2. queue' \in Seq(Queued)
    BY <1>2, <2>1, AppendProperties DEF Relay, ServerOK
  <2> QED BY <1>2, <2>1, <2>2 DEF Relay, PageOK, RequestsOK, ServerOK, page
<1>3. CASE PostAnswered(p)
  <2>1. p.id \in 0..MaxClicks
    BY <1>1 DEF Post
  <2> QED BY <1>3, <2>1 DEF PostAnswered, PageOK, RequestsOK, ServerOK, server
<1>4. CASE PostFailed(p)
  <2>1. button' \in Button
    BY <1>4, ButtonType, PollTypes DEF PostFailed, PageOK
  <2> QED
    BY <1>4, <2>1 DEF PostFailed, clearPendingToggle, PageOK, RequestsOK, ServerOK, server
<1> QED BY <1>2, <1>3, <1>4

LEMMA TimeoutStep ==
  ASSUME PageOK, RequestsOK, ServerOK, ToggleTimeout
  PROVE  PageOK' /\ RequestsOK' /\ ServerOK'
<1>1. button' \in Button
  BY ButtonType, PollTypes DEF ToggleTimeout, PageOK
<1> QED BY <1>1 DEF ToggleTimeout, clearPendingToggle, PageOK, RequestsOK, ServerOK, server

LEMMA PollSteps ==
  ASSUME PageOK, RequestsOK, ServerOK, NEW i \in 1..MaxPolls,
         Ask(i) \/ refreshHelper(i) \/ PollFailed(i)
  PROVE  PageOK' /\ RequestsOK' /\ ServerOK'
<1>1. CASE Ask(i)
  <2>1. [asked |-> TRUE, status |-> helperStatus, last |-> ack] \in Poll
    BY DEF helperStatus, ServerOK, Poll, Status
  <2> QED BY <1>1, <2>1 DEF Ask, PageOK, RequestsOK, ServerOK, page, server
<1>2. CASE refreshHelper(i)
  <2>1. polls[i].status \in Status /\ polls[i].last \in Ack /\ polls[i].status.connected \in BOOLEAN
    BY PollTypes DEF RequestsOK
  <2>2. polls' \in [1..MaxPolls -> Poll]
    BY <1>2, PollTypes DEF refreshHelper, RequestsOK
  <2>3. button' \in Button /\ lastSentId' \in 0..MaxClicks /\ toggleTimeout' \in BOOLEAN
        /\ pendingToggle' \in {"none", "starting", "stopping"}
    <3>1. CASE Ours(polls[i].last)
      <4>1. /\ lastSentId' = 0 /\ pendingToggle' = "none" /\ toggleTimeout' = FALSE
            /\ button' = [toggle |-> applyToggleButton([connected |-> TRUE,
                                                       state |-> polls[i].last.state], "none"),
                          nat |-> polls[i].status.connected]
        BY <1>2, <3>1 DEF refreshHelper, TakeAck, clearPendingToggle
      <4>2. button' \in Button
        BY <2>1, <4>1, DrawnTypes DEF Button
      <4>3. lastSentId' \in 0..MaxClicks
        BY <4>1, HostPageAssumption
      <4> QED BY <4>1, <4>2, <4>3
    <3>2. CASE ~Ours(polls[i].last)
      <4>1. applyToggleButton(polls[i].status, pendingToggle) \in [label : Label, enabled : BOOLEAN]
        BY <2>1, ToggleType DEF PageOK
      <4> QED BY <1>2, <2>1, <3>2, <4>1 DEF refreshHelper, Button, PageOK
    <3> QED BY <3>1, <3>2
  <2> QED BY <1>2, <2>1, <2>2, <2>3 DEF refreshHelper, PageOK, RequestsOK, ServerOK, server
<1>3. CASE PollFailed(i)
  BY <1>3, PollTypes, HostPageAssumption
     DEF PollFailed, Change, PageOK, RequestsOK, ServerOK, page, server
<1> QED BY <1>1, <1>2, <1>3

LEMMA RoomSteps ==
  ASSUME PageOK, RequestsOK, ServerOK, CreateRoom \/ LeaveRoom
  PROVE  PageOK' /\ RequestsOK' /\ ServerOK'
<1>1. button' \in Button
  BY DrawnTypes DEF CreateRoom, LeaveRoom, render
<1>2. changes' \in 0..MaxChanges
  BY HostPageAssumption DEF CreateRoom, LeaveRoom, Change, ServerOK
<1> QED BY <1>1, <1>2 DEF CreateRoom, LeaveRoom, PageOK, RequestsOK, ServerOK, server

-------------------------------------------------------------------------------
(* The steps of the helper and its server.                                     *)

LEMMA HelperSteps ==
  ASSUME PageOK, RequestsOK, ServerOK, HelperActs \/ HelperStatus \/ HelperGone \/ HelperCame
  PROVE  PageOK' /\ RequestsOK' /\ ServerOK'
<1>1. UNCHANGED <<page, clicks, posts, polls>>
  BY DEF HelperActs, HelperStatus, HelperGone, HelperCame
<1>2. CASE HelperActs
  <2>1. Head(queue) \in Queued /\ queue' \in Seq(Queued)
    BY <1>2, HeadTailProperties DEF HelperActs, ServerOK
  <2>2. \E state \in HelperState : /\ helper' = [helper EXCEPT !.state = state]
                                   /\ ack' = [id |-> Head(queue).id, state |-> state]
    BY <1>2 DEF HelperActs, HelperState, ServerOK
  <2>3. Head(queue).id \in 0..MaxClicks
    BY <2>1 DEF Queued
  <2>4. helper' \in [connected : BOOLEAN, state : HelperState] /\ ack' \in Ack
    BY <2>2, <2>3 DEF Ack, ServerOK
  <2> QED BY <1>1, <1>2, <2>1, <2>4 DEF HelperActs, PageOK, RequestsOK, ServerOK, page
<1>3. CASE HelperStatus \/ HelperGone \/ HelperCame
  <2>1. changes' \in 0..MaxChanges /\ ack' = ack
    BY <1>3, HostPageAssumption DEF HelperStatus, HelperGone, HelperCame, Change, ServerOK
  <2>2. helper' \in [connected : BOOLEAN, state : HelperState]
    <3>1. CASE HelperStatus
      BY <3>1 DEF HelperStatus, HelperState, ServerOK
    <3>2. CASE HelperGone
      BY <3>2 DEF HelperGone, ServerOK
    <3>3. CASE HelperCame
      BY <3>3 DEF HelperCame, HelperState
    <3> QED BY <1>3, <3>1, <3>2, <3>3
  <2>3. queue' \in Seq(Queued)
    BY <1>3, EmptySeq DEF HelperStatus, HelperGone, HelperCame, ServerOK
  <2> QED BY <1>1, <2>1, <2>2, <2>3 DEF PageOK, RequestsOK, ServerOK, page
<1> QED BY <1>2, <1>3

-------------------------------------------------------------------------------
\* The page, its requests and the status behind them are well formed: the button has one of its
\* four labels, and every id the page waits for or the helper acknowledges is that of a click.
THEOREM TypeCorrect == Spec => []TypeOK
<1>1. Init => TypeOK
  <2> SUFFICES ASSUME Init PROVE PageOK /\ RequestsOK /\ ServerOK
    BY Parts
  <2>1. PageOK
    <3>1. button \in Button /\ lastStatus \in Status
      BY DrawnTypes, PollTypes DEF Init
    <3>2. lastSentId \in 0..MaxClicks
      BY HostPageAssumption DEF Init
    <3> QED BY <3>1, <3>2 DEF Init, PageOK
  <2>2. RequestsOK
    BY PollTypes, HostPageAssumption DEF Init, RequestsOK
  <2>3. ServerOK
    BY PollTypes, HostPageAssumption, EmptySeq DEF Init, ServerOK, HelperState
  <2> QED BY <2>1, <2>2, <2>3
<1>2. TypeOK /\ [Next]_vars => TypeOK'
  <2>1. ASSUME PageOK, RequestsOK, ServerOK, Next PROVE PageOK' /\ RequestsOK' /\ ServerOK'
    BY <2>1, ClickSteps, PostSteps, TimeoutStep, PollSteps, HelperSteps, RoomSteps
       DEF Next, PostEnds
  <2>2. ASSUME TypeOK, UNCHANGED vars PROVE TypeOK'
    BY <2>2 DEF vars, page, server, TypeOK
  <2>3. TypeOK' <=> PageOK' /\ RequestsOK' /\ ServerOK'
    BY Parts, PTL
  <2> QED BY <2>1, <2>2, <2>3, Parts
<1> QED BY <1>1, <1>2, PTL DEF Spec
==============================================================================
