---------------------------- MODULE HelperRegistry ----------------------------
(***************************************************************************)
(* Helper presence and commands: server/src/helperRegistry.ts and the part *)
(* of the /ws/helper endpoint (server/src/index.ts) that drives it.        *)
(*                                                                         *)
(* Handlers and timer callbacks run on one thread and do not await, so     *)
(* each is a step.  Time is counted in ticks: PingInterval, StaleAfter and *)
(* HelloTimeout stand for 10 s, 30 s and 10 s, and a timer that is due     *)
(* runs before the clock moves on, before or after the frames that arrive  *)
(* at the same time.  The state, detail and version a helper reports are   *)
(* stored and passed on but decide nothing; they are left out.             *)
(***************************************************************************)
EXTENDS Naturals, Sequences

CONSTANTS Agent,         \* helper connections, each opened once
          User,          \* accounts
          Guest,         \* the user of a connection with no valid token or session
          Command,       \* command names
          NoHelper, NoAck, NoResult,   \* absent map entries
          PingInterval, StaleAfter, HelloTimeout,
          MaxCommands    \* bound: commands sent in a behaviour

Ids == 1..MaxCommands
Entry == [connId : Agent, age : Nat]
Pending == [id : Ids, command : Command]
Result == [id : Ids, command : Command \cup Ids]
Relayed == [userId : User, command : Command, acked : BOOLEAN]

ASSUME HelperAssumption ==
  /\ Guest \notin User
  /\ PingInterval \in Nat \ {0} /\ HelloTimeout \in Nat \ {0} /\ StaleAfter \in Nat
  /\ MaxCommands \in Nat
  /\ Command \cap Nat = {}
  /\ NoHelper \notin Entry /\ NoAck \notin Pending /\ NoResult \notin Result

VARIABLES
  conn,        \* the state of each connection
  userOf,      \* the user read at the upgrade
  registered,  \* the flag of the connection's closure: hello has been handled
  pending,     \* pendingHelpers: ticks since the connection opened
  helpers,     \* helpers: account -> connection and ticks since its last frame
  phase,       \* ticks since the heartbeat interval last ran
  pendingAcks, \* pendingAcks: account -> the last command relayed and not acked
  results,     \* lastCommandResults: account -> the last ack recorded
  sent         \* the commands relayed so far, by id, and whether the helper has acked

presence == <<conn, userOf, registered, pending, helpers, phase>>
commands == <<pendingAcks, results, sent>>
vars == <<conn, userOf, registered, pending, helpers, phase, pendingAcks, results, sent>>

NotPending == HelloTimeout + 1

Open(c) == conn[c] = "open"
isStale(entry) == entry.age > StaleAfter
Connected(u) == helpers[u] # NoHelper /\ ~isStale(helpers[u])
Registered(u, c) == helpers[u] # NoHelper /\ helpers[u].connId = c

\* ws.close on the connections of C: no further frame of them is handled, onClose follows.
CloseAll(C) == [c \in Agent |-> IF c \in C /\ Open(c) THEN "closing" ELSE conn[c]]

clearPending(c) == pending' = [pending EXCEPT ![c] = NotPending]

\* touchHelper: any frame after the handshake resets the staleness clock of its own entry.
touchHelper(u, c) ==
  helpers' = IF Registered(u, c) THEN [helpers EXCEPT ![u].age = 0] ELSE helpers

-------------------------------------------------------------------------------
(* The connection.                                                             *)

\* The upgrade and onOpen: without a user the socket is closed, else it is pending.
Connect(c, u) ==
  /\ conn[c] = "idle"
  /\ userOf' = [userOf EXCEPT ![c] = u]
  /\ conn' = [conn EXCEPT ![c] = IF u = Guest THEN "closing" ELSE "open"]
  /\ pending' = [pending EXCEPT ![c] = IF u = Guest THEN @ ELSE 0]
  /\ UNCHANGED <<registered, helpers, phase, commands>>

\* Mutant: the first hello leaves the handshake timer running.
HelloKeepsTimer(c) ==
  LET u == userOf[c] IN
  /\ Open(c) /\ ~registered[c]
  /\ registered' = [registered EXCEPT ![c] = TRUE]
  /\ conn' = CloseAll({d \in Agent : Registered(u, d)} \ {c})
  /\ helpers' = [helpers EXCEPT ![u] = [connId |-> c, age |-> 0]]
  /\ UNCHANGED <<userOf, pending, phase, commands>>

\* Mutant: last registration wins, but the prior connection is not closed.
HelloKeepsPrior(c) ==
  LET u == userOf[c] IN
  /\ Open(c) /\ ~registered[c]
  /\ registered' = [registered EXCEPT ![c] = TRUE]
  /\ clearPending(c)
  /\ helpers' = [helpers EXCEPT ![u] = [connId |-> c, age |-> 0]]
  /\ UNCHANGED <<conn, userOf, phase, commands>>

\* A valid hello.  The first one registers the connection; an older one is superseded.
Hello(c) ==
  LET u == userOf[c] IN
  /\ Open(c)
  /\ IF registered[c] THEN UNCHANGED <<conn, registered, pending, helpers>>
     ELSE /\ registered' = [registered EXCEPT ![c] = TRUE]
          /\ clearPending(c)
          /\ conn' = CloseAll({d \in Agent : Registered(u, d)} \ {c})
          /\ helpers' = [helpers EXCEPT ![u] = [connId |-> c, age |-> 0]]
  /\ UNCHANGED <<userOf, phase, commands>>

\* A hello without a version, or any other frame before hello.
BadHello(c) ==
  /\ Open(c)
  /\ conn' = CloseAll({c})
  /\ UNCHANGED <<userOf, registered, pending, helpers, phase, commands>>

\* A status frame, which answers the heartbeat.
Status(c) ==
  /\ Open(c) /\ registered[c]
  /\ touchHelper(userOf[c], c)
  /\ UNCHANGED <<conn, userOf, registered, pending, phase, commands>>

\* Mutant: the entry of the account goes, whichever connection it belongs to.
unregisterAny(u, c) == helpers' = [helpers EXCEPT ![u] = NoHelper]

\* unregisterHelper removes the entry only while it is this connection's.
unregisterHelper(u, c) ==
  helpers' = IF Registered(u, c) THEN [helpers EXCEPT ![u] = NoHelper] ELSE helpers

Close(c) ==
  /\ conn[c] \in {"open", "closing"}
  /\ conn' = [conn EXCEPT ![c] = "closed"]
  /\ IF userOf[c] = Guest THEN UNCHANGED <<pending, helpers>>
     ELSE /\ clearPending(c)
          /\ IF registered[c] THEN unregisterHelper(userOf[c], c) ELSE UNCHANGED helpers
  /\ UNCHANGED <<userOf, registered, phase, commands>>

-------------------------------------------------------------------------------
(* Timers.                                                                     *)

\* Mutant: the timer forgets the connection and does not close it.
HelloTimerNoClose(c) ==
  /\ pending[c] = HelloTimeout
  /\ clearPending(c)
  /\ UNCHANGED <<conn, userOf, registered, helpers, phase, commands>>

\* The handshake timer of pendHelper; it fires on a socket that is closing as well.
HelloTimer(c) ==
  /\ pending[c] = HelloTimeout
  /\ clearPending(c)
  /\ conn' = CloseAll({c})
  /\ UNCHANGED <<userOf, registered, helpers, phase, commands>>

\* Mutant: the sweep waits for one more heartbeat.
sweepOneLate ==
  LET stale == {u \in User : helpers[u] # NoHelper /\ helpers[u].age > StaleAfter + PingInterval} IN
  /\ helpers' = [u \in User |-> IF u \in stale THEN NoHelper ELSE helpers[u]]
  /\ conn' = CloseAll({helpers[u].connId : u \in stale})

\* The heartbeat interval: ping everybody, then drop the stale ones.
sweepStaleHelpers ==
  LET stale == {u \in User : helpers[u] # NoHelper /\ isStale(helpers[u])} IN
  /\ helpers' = [u \in User |-> IF u \in stale THEN NoHelper ELSE helpers[u]]
  /\ conn' = CloseAll({helpers[u].connId : u \in stale})

Heartbeat ==
  /\ phase = PingInterval
  /\ phase' = 0
  /\ sweepStaleHelpers
  /\ UNCHANGED <<userOf, registered, pending, commands>>

Tick ==
  /\ phase < PingInterval
  /\ \A c \in Agent : pending[c] # HelloTimeout
  /\ phase' = phase + 1
  /\ pending' = [c \in Agent |-> IF pending[c] < HelloTimeout THEN pending[c] + 1 ELSE pending[c]]
  /\ helpers' = [u \in User |-> IF helpers[u] = NoHelper THEN NoHelper
                                ELSE [helpers[u] EXCEPT !.age = @ + 1]]
  /\ UNCHANGED <<conn, userOf, registered, commands>>

-------------------------------------------------------------------------------
(* Commands.  A command id is a fresh UUID: ids count up from 1 here.          *)

\* Mutant: the record of the command in flight is kept until it is acked.
sendCommandKeepsFirst(u, command) ==
  LET id == Len(sent) + 1 IN
  /\ id <= MaxCommands
  /\ Connected(u)
  /\ sent' = Append(sent, [userId |-> u, command |-> command, acked |-> FALSE])
  /\ pendingAcks' = [pendingAcks EXCEPT ![u] =
                       IF @ = NoAck THEN [id |-> id, command |-> command] ELSE @]
  /\ UNCHANGED <<presence, results>>

\* Mutant: the id is recorded where the command name belongs.
sendCommandSwapped(u, command) ==
  LET id == Len(sent) + 1 IN
  /\ id <= MaxCommands
  /\ Connected(u)
  /\ sent' = Append(sent, [userId |-> u, command |-> command, acked |-> FALSE])
  /\ pendingAcks' = [pendingAcks EXCEPT ![u] = [id |-> id, command |-> id]]
  /\ UNCHANGED <<presence, results>>

\* POST /api/helper/command: relayed unless there is no helper or it is stale.
sendCommand(u, command) ==
  LET id == Len(sent) + 1 IN
  /\ id <= MaxCommands
  /\ Connected(u)
  /\ sent' = Append(sent, [userId |-> u, command |-> command, acked |-> FALSE])
  /\ pendingAcks' = [pendingAcks EXCEPT ![u] = [id |-> id, command |-> command]]
  /\ UNCHANGED <<presence, results>>

\* Mutant: the ack is taken for the command in flight without comparing ids.
handleAckUnjoined(c, id) ==
  LET u == userOf[c] IN
  /\ Open(c) /\ registered[c]
  /\ sent[id].userId = u /\ ~sent[id].acked
  /\ sent' = [sent EXCEPT ![id].acked = TRUE]
  /\ touchHelper(u, c)
  /\ results' = [results EXCEPT ![u] =
       [id |-> id, command |-> IF pendingAcks[u] # NoAck THEN pendingAcks[u].command ELSE id]]
  /\ pendingAcks' = [pendingAcks EXCEPT ![u] = NoAck]
  /\ UNCHANGED <<conn, userOf, registered, pending, phase>>

\* An ack from the helper, for a command it was sent on this connection or an earlier one (its
\* queue of outgoing frames outlives a connection).  Each command is acked at most once.
handleHelperAck(c, id) ==
  LET u == userOf[c]
      pendingId == pendingAcks[u] # NoAck /\ pendingAcks[u].id = id
  IN
  /\ Open(c) /\ registered[c]
  /\ sent[id].userId = u /\ ~sent[id].acked
  /\ sent' = [sent EXCEPT ![id].acked = TRUE]
  /\ touchHelper(u, c)
  /\ IF Registered(u, c)
     THEN /\ results' = [results EXCEPT ![u] =
                [id |-> id, command |-> IF pendingId THEN pendingAcks[u].command ELSE id]]
          /\ pendingAcks' = IF pendingId THEN [pendingAcks EXCEPT ![u] = NoAck] ELSE pendingAcks
     ELSE UNCHANGED <<results, pendingAcks>>
  /\ UNCHANGED <<conn, userOf, registered, pending, phase>>

-------------------------------------------------------------------------------
Init ==
  /\ conn = [c \in Agent |-> "idle"]
  /\ userOf = [c \in Agent |-> Guest]
  /\ registered = [c \in Agent |-> FALSE]
  /\ pending = [c \in Agent |-> NotPending]
  /\ helpers = [u \in User |-> NoHelper]
  /\ phase = 0
  /\ pendingAcks = [u \in User |-> NoAck]
  /\ results = [u \in User |-> NoResult]
  /\ sent = <<>>

AgentNext(c) ==
  \/ \E u \in User \cup {Guest} : Connect(c, u)
  \/ Hello(c) \/ BadHello(c) \/ Status(c)
  \/ \E id \in DOMAIN sent : handleHelperAck(c, id)

TimerNext == (\E c \in Agent : HelloTimer(c)) \/ Heartbeat \/ Tick

CommandNext == \E u \in User, command \in Command : sendCommand(u, command)

Next == (\E c \in Agent : AgentNext(c) \/ Close(c)) \/ TimerNext \/ CommandNext

Spec == Init /\ [][Next]_vars

\* Time passes, timers fire, and a socket the server has closed reports its close.  Nothing
\* makes a helper send a frame or close by itself.
Fairness ==
  /\ WF_vars(Tick)
  /\ WF_vars(Heartbeat)
  /\ \A c \in Agent : WF_vars(HelloTimer(c)) /\ WF_vars(conn[c] = "closing" /\ Close(c))

FairSpec == Spec /\ Fairness

-------------------------------------------------------------------------------
(* Properties.                                                                *)

\* Every variable has the shape the code gives it.
TypeOK ==
  /\ conn \in [Agent -> {"idle", "open", "closing", "closed"}]
  /\ userOf \in [Agent -> User \cup {Guest}]
  /\ registered \in [Agent -> BOOLEAN]
  /\ pending \in [Agent -> 0..NotPending]
  /\ helpers \in [User -> Entry \cup {NoHelper}]
  /\ phase \in 0..PingInterval
  /\ pendingAcks \in [User -> Pending \cup {NoAck}]
  /\ results \in [User -> Result \cup {NoResult}]
  /\ sent \in Seq(Relayed)

\* "One helper per host account": a connection that has said hello and is still open is the
\* entry of its account.  None is left talking to a server that no longer counts it.
NoOrphanHelper ==
  \A c \in Agent : Open(c) /\ registered[c] => Registered(userOf[c], c)

\* An entry belongs to a connection of that account that said hello and whose onClose has not run.
EntriesAreLive ==
  \A u \in User : helpers[u] # NoHelper =>
    LET c == helpers[u].connId IN
    userOf[c] = u /\ registered[c] /\ conn[c] \in {"open", "closing"}

\* The handshake timer runs for exactly the connections that owe a hello: no open socket stays
\* silent for free, and no timer is left to close a connection that did say hello.
HandshakeIsTimed ==
  \A c \in Agent :
    /\ Open(c) /\ ~registered[c] => pending[c] # NotPending
    /\ pending[c] # NotPending => ~registered[c] /\ conn[c] \in {"open", "closing"}

\* A helper that falls silent is out of the registry one heartbeat after the staleness window.
HeardRecently ==
  \A u \in User : helpers[u] # NoHelper => helpers[u].age <= StaleAfter + PingInterval

\* A helper that keeps talking is never dropped: its entry goes away with its own socket or for
\* a newer connection of the account, and never for what another connection does.
TalkersStay ==
  [][\A u \in User :
       helpers[u] # NoHelper /\ ~isStale(helpers[u]) /\ helpers'[u] = NoHelper
         => conn'[helpers[u].connId] = "closed"]_vars

\* What lastCommand reports is a command of that account the helper did ack, and its name is
\* never that of another command (it may be the bare id).
ResultsAreAcked ==
  \A u \in User : results[u] # NoResult =>
    LET s == sent[results[u].id] IN
    s.userId = u /\ s.acked /\ results[u].command \in {s.command, results[u].id}

\* The pending ack of an account is its newest command, and has not been acked yet.
PendingIsNewest ==
  \A u \in User : pendingAcks[u] # NoAck =>
    LET s == sent[pendingAcks[u].id] IN
    /\ s.userId = u /\ s.command = pendingAcks[u].command /\ ~s.acked
    /\ \A id \in DOMAIN sent : sent[id].userId = u => id <= pendingAcks[u].id

\* docs/signaling.md: lastCommand is joined by id, so it names the command that was sent under
\* that id, however many commands are in flight.
ResultNamesItsCommand ==
  \A u \in User : results[u] # NoResult =>
    results[u].command = sent[results[u].id].command

\* Every connection says hello or is closed: the server does not wait for ever.
HandshakeEnds ==
  \A c \in Agent : Open(c) /\ ~registered[c] ~> registered[c] \/ conn[c] = "closed"
==============================================================================
