------------------------- MODULE HelperRegistryProofs -------------------------
(***************************************************************************)
(* Theorems about HelperRegistry, for any helpers, accounts, commands and  *)
(* timer settings.  The inductive invariant has a part about presence and  *)
(* a part about commands; presence does not depend on commands, and the    *)
(* only command step that touches presence is an ack, which refreshes a    *)
(* staleness clock as a status frame does.                                 *)
(***************************************************************************)
EXTENDS HelperRegistry, TLAPS

USE HelperAssumption DEF Entry

\* The shape of the presence variables and of the command variables.
PresenceType ==
  /\ conn \in [Agent -> {"idle", "open", "closing", "closed"}]
  /\ userOf \in [Agent -> User \cup {Guest}]
  /\ registered \in [Agent -> BOOLEAN]
  /\ pending \in [Agent -> 0..NotPending]
  /\ helpers \in [User -> Entry \cup {NoHelper}]
  /\ phase \in 0..PingInterval

CommandType ==
  /\ pendingAcks \in [User -> Pending \cup {NoAck}]
  /\ results \in [User -> Result \cup {NoResult}]
  /\ sent \in Seq(Relayed)

\* A connection that was never opened owes nothing, and whoever is open, registered or on the
\* handshake timer has an account.
Admitted ==
  \A c \in Agent :
    /\ conn[c] = "idle" => ~registered[c] /\ pending[c] = NotPending
    /\ Open(c) \/ registered[c] \/ pending[c] # NotPending => userOf[c] \in User

\* Since the last heartbeat an entry has aged by the time passed since then at most.
FreshAtHeartbeat ==
  \A u \in User : helpers[u] # NoHelper => helpers[u].age <= StaleAfter + phase

PresenceInv ==
  /\ PresenceType
  /\ Admitted
  /\ NoOrphanHelper
  /\ EntriesAreLive
  /\ HandshakeIsTimed
  /\ FreshAtHeartbeat

\* A frame of a registered helper, as far as presence is concerned.
Touch(c) ==
  /\ Open(c) /\ registered[c]
  /\ touchHelper(userOf[c], c)
  /\ UNCHANGED <<conn, userOf, registered, pending, phase>>

\* Every step is one of these.
LEMMA NextCases ==
  ASSUME [Next]_vars
  PROVE  \/ \E c \in Agent : \/ \E u \in User \cup {Guest} : Connect(c, u)
                             \/ Hello(c) \/ BadHello(c) \/ Touch(c) \/ Close(c) \/ HelloTimer(c)
         \/ Heartbeat \/ Tick
         \/ UNCHANGED presence
<1>1. CASE UNCHANGED vars
  BY <1>1 DEF vars, presence
<1>2. CASE \E c \in Agent : AgentNext(c) \/ Close(c)
  BY <1>2 DEF AgentNext, Status, handleHelperAck, Touch
<1>3. CASE TimerNext
  BY <1>3 DEF TimerNext
<1>4. CASE CommandNext
  BY <1>4 DEF CommandNext, sendCommand, presence
<1> QED BY <1>1, <1>2, <1>3, <1>4 DEF Next

LEMMA PresenceInit == Init => PresenceInv
BY DEF Init, PresenceInv, PresenceType, Admitted, NoOrphanHelper, EntriesAreLive,
       HandshakeIsTimed, FreshAtHeartbeat, NotPending, Open

LEMMA ConnectKeeps ==
  ASSUME PresenceInv, NEW c \in Agent, NEW u \in User \cup {Guest}, Connect(c, u)
  PROVE  PresenceInv'
<1> USE DEF PresenceInv, PresenceType, Connect, NotPending
<1>1. PresenceType'
  OBVIOUS
<1>2. Admitted'
  BY DEF Admitted, Open
<1>3. NoOrphanHelper'
  BY DEF NoOrphanHelper, Admitted, Registered, Open
<1>4. EntriesAreLive'
  BY DEF EntriesAreLive, Admitted
<1>5. HandshakeIsTimed'
  BY DEF HandshakeIsTimed, Admitted, Open
<1>6. FreshAtHeartbeat'
  BY DEF FreshAtHeartbeat
<1> QED BY <1>1, <1>2, <1>3, <1>4, <1>5, <1>6

\* Registration: the new connection gets the entry, and the one that had it is closed.
LEMMA HelloKeeps ==
  ASSUME PresenceInv, NEW c \in Agent, Hello(c)
  PROVE  PresenceInv'
<1>1. CASE registered[c]
  <2>1. UNCHANGED presence
    BY <1>1 DEF Hello, presence
  <2> QED BY <2>1 DEF PresenceInv, PresenceType, Admitted, NoOrphanHelper, EntriesAreLive, presence,
                      HandshakeIsTimed, FreshAtHeartbeat, Registered, Open
<1>2. CASE ~registered[c]
  <2> DEFINE u == userOf[c]
  <2>1. u \in User /\ Open(c)
    BY DEF Hello, PresenceInv, Admitted
  <2>2. /\ registered' = [registered EXCEPT ![c] = TRUE]
        /\ pending' = [pending EXCEPT ![c] = NotPending]
        /\ conn' = CloseAll({d \in Agent : Registered(u, d)} \ {c})
        /\ helpers' = [helpers EXCEPT ![u] = [connId |-> c, age |-> 0]]
        /\ UNCHANGED <<userOf, phase>>
    BY <1>2 DEF Hello, clearPending
  <2> USE DEF PresenceInv, PresenceType, NotPending
  <2>3. \A d \in Agent : conn'[d] = IF d # c /\ Registered(u, d) /\ Open(d) THEN "closing" ELSE conn[d]
    BY <2>2 DEF CloseAll
  <2>4. PresenceType'
    <3>1. conn' \in [Agent -> {"idle", "open", "closing", "closed"}]
      BY <2>2 DEF CloseAll
    <3> QED BY <2>1, <2>2, <3>1
  <2>5. Admitted'
    BY <2>1, <2>2, <2>3 DEF Admitted, Open
  <2>6. NoOrphanHelper'
    <3> SUFFICES ASSUME NEW d \in Agent, Open(d)', registered'[d]
                 PROVE  Registered(userOf[d], d)'
      BY DEF NoOrphanHelper
    <3>1. CASE d = c
      BY <2>1, <2>2, <3>1 DEF Registered
    <3>2. CASE d # c
      <4>1. Open(d) /\ registered[d]
        BY <2>2, <2>3, <3>2 DEF Open
      <4>2. Registered(userOf[d], d)
        BY <4>1 DEF NoOrphanHelper
      <4>3. userOf[d] # u
        BY <2>3, <3>2, <4>1, <4>2 DEF Open
      <4> QED BY <2>1, <2>2, <4>1, <4>2, <4>3 DEF Registered, Admitted
    <3> QED BY <3>1, <3>2
  <2>7. EntriesAreLive'
    <3> SUFFICES ASSUME NEW w \in User, helpers'[w] # NoHelper
                 PROVE  LET d == helpers'[w].connId IN
                        userOf'[d] = w /\ registered'[d] /\ conn'[d] \in {"open", "closing"}
      BY DEF EntriesAreLive
    <3>1. CASE w = u
      BY <2>1, <2>2, <2>3, <3>1 DEF Open
    <3>2. CASE w # u
      <4>1. helpers'[w] = helpers[w] /\ helpers[w].connId \in Agent
        BY <2>2, <3>2
      <4> QED BY <2>2, <2>3, <4>1 DEF EntriesAreLive, Open
    <3> QED BY <3>1, <3>2
  <2>8. HandshakeIsTimed'
    BY <2>2, <2>3 DEF HandshakeIsTimed, Open
  <2>9. FreshAtHeartbeat'
    BY <2>1, <2>2 DEF FreshAtHeartbeat
  <2> QED BY <2>4, <2>5, <2>6, <2>7, <2>8, <2>9
<1> QED BY <1>1, <1>2

LEMMA BadHelloKeeps ==
  ASSUME PresenceInv, NEW c \in Agent, BadHello(c)
  PROVE  PresenceInv'
BY DEF PresenceInv, PresenceType, Admitted, NoOrphanHelper, EntriesAreLive, HandshakeIsTimed,
       FreshAtHeartbeat, BadHello, CloseAll, Registered, Open

\* Only the age of the entry changes.
LEMMA TouchKeeps ==
  ASSUME PresenceInv, NEW c \in Agent, Touch(c)
  PROVE  PresenceInv'
<1>1. userOf[c] \in User
  BY DEF PresenceInv, Admitted, Touch
<1>2. /\ helpers' \in [User -> Entry \cup {NoHelper}]
      /\ \A u \in User : /\ helpers'[u] = NoHelper <=> helpers[u] = NoHelper
                         /\ helpers[u] # NoHelper => /\ helpers'[u].connId = helpers[u].connId
                                                     /\ helpers'[u].age \in {0, helpers[u].age}
  BY <1>1 DEF PresenceInv, PresenceType, Touch, touchHelper, Registered
<1>3. UNCHANGED <<conn, userOf, registered, pending, phase>>
  BY DEF Touch
<1> USE DEF PresenceInv, PresenceType
<1>4. Admitted' /\ HandshakeIsTimed'
  BY <1>3 DEF Admitted, HandshakeIsTimed, Open
<1>5. NoOrphanHelper'
  BY <1>2, <1>3 DEF NoOrphanHelper, Admitted, Registered, Open
<1>6. EntriesAreLive'
  BY <1>2, <1>3 DEF EntriesAreLive
<1>7. FreshAtHeartbeat'
  BY <1>2, <1>3 DEF FreshAtHeartbeat
<1> QED BY <1>2, <1>3, <1>4, <1>5, <1>6, <1>7

\* onClose: the entry goes only if it is this connection's.
LEMMA CloseKeeps ==
  ASSUME PresenceInv, NEW c \in Agent, Close(c)
  PROVE  PresenceInv'
<1>1. /\ conn[c] \in {"open", "closing"}
      /\ conn' = [conn EXCEPT ![c] = "closed"]
      /\ pending' = [pending EXCEPT ![c] = NotPending]
      /\ UNCHANGED <<userOf, registered, phase>>
  BY DEF Close, clearPending, PresenceInv, PresenceType, Admitted, NotPending
<1>2. helpers' = IF registered[c] /\ Registered(userOf[c], c)
                 THEN [helpers EXCEPT ![userOf[c]] = NoHelper] ELSE helpers
  BY DEF Close, unregisterHelper, PresenceInv, Admitted
<1>3. registered[c] => userOf[c] \in User
  BY DEF PresenceInv, Admitted
<1> USE DEF PresenceInv, PresenceType, NotPending
<1>4. PresenceType'
  BY <1>1, <1>2, <1>3
<1>5. Admitted'
  BY <1>1 DEF Admitted, Open
<1>6. NoOrphanHelper'
  BY <1>1, <1>2, <1>3 DEF NoOrphanHelper, Registered, Admitted, Open
<1>7. EntriesAreLive'
  BY <1>1, <1>2, <1>3 DEF EntriesAreLive, Registered
<1>8. HandshakeIsTimed'
  BY <1>1 DEF HandshakeIsTimed, Open
<1>9. FreshAtHeartbeat'
  BY <1>1, <1>2, <1>3 DEF FreshAtHeartbeat
<1> QED BY <1>4, <1>5, <1>6, <1>7, <1>8, <1>9

LEMMA HelloTimerKeeps ==
  ASSUME PresenceInv, NEW c \in Agent, HelloTimer(c)
  PROVE  PresenceInv'
<1> USE DEF PresenceInv, PresenceType, HelloTimer, clearPending, CloseAll, NotPending
<1>1. PresenceType'
  OBVIOUS
<1>2. Admitted'
  BY DEF Admitted, Open
<1>3. NoOrphanHelper'
  BY DEF NoOrphanHelper, Registered, Open
<1>4. EntriesAreLive'
  BY DEF EntriesAreLive, Open
<1>5. HandshakeIsTimed'
  BY DEF HandshakeIsTimed, Open
<1>6. FreshAtHeartbeat'
  BY DEF FreshAtHeartbeat
<1> QED BY <1>1, <1>2, <1>3, <1>4, <1>5, <1>6

\* The sweep closes the sockets of exactly the entries it removes.
LEMMA HeartbeatKeeps ==
  ASSUME PresenceInv, Heartbeat
  PROVE  PresenceInv'
<1> DEFINE stale == {u \in User : helpers[u] # NoHelper /\ isStale(helpers[u])}
<1>1. /\ phase' = 0
      /\ helpers' = [u \in User |-> IF u \in stale THEN NoHelper ELSE helpers[u]]
      /\ conn' = CloseAll({helpers[u].connId : u \in stale})
      /\ UNCHANGED <<userOf, registered, pending>>
  BY DEF Heartbeat, sweepStaleHelpers
<1> USE DEF PresenceInv, PresenceType
<1>2. /\ conn' \in [Agent -> {"idle", "open", "closing", "closed"}]
      /\ \A d \in Agent : conn'[d] = IF (\E u \in stale : helpers[u].connId = d) /\ Open(d)
                                     THEN "closing" ELSE conn[d]
  BY <1>1 DEF CloseAll
<1>3. \A u \in User : helpers'[u] # NoHelper =>
        helpers'[u] = helpers[u] /\ helpers[u].connId \in Agent /\ helpers[u].age <= StaleAfter
  BY <1>1 DEF isStale
<1>4. PresenceType'
  BY <1>1, <1>2
<1>5. Admitted'
  BY <1>1, <1>2 DEF Admitted, Open
<1>6. NoOrphanHelper'
  <2> SUFFICES ASSUME NEW d \in Agent, Open(d)', registered'[d]
               PROVE  Registered(userOf[d], d)'
    BY DEF NoOrphanHelper
  <2>1. Open(d) /\ registered[d] /\ userOf[d] \in User
    BY <1>1, <1>2 DEF Open, Admitted
  <2>2. Registered(userOf[d], d)
    BY <2>1 DEF NoOrphanHelper
  <2>3. userOf[d] \notin stale
    BY <1>2, <2>1, <2>2 DEF Open, Registered
  <2> QED BY <1>1, <2>1, <2>2, <2>3 DEF Registered
<1>7. EntriesAreLive'
  BY <1>1, <1>2, <1>3 DEF EntriesAreLive, Open
<1>8. HandshakeIsTimed'
  BY <1>1, <1>2 DEF HandshakeIsTimed, Open
<1>9. FreshAtHeartbeat'
  BY <1>1, <1>3 DEF FreshAtHeartbeat
<1> QED BY <1>4, <1>5, <1>6, <1>7, <1>8, <1>9

LEMMA TickKeeps ==
  ASSUME PresenceInv, Tick
  PROVE  PresenceInv'
<1> USE DEF PresenceInv, PresenceType
<1>1. /\ phase' = phase + 1 /\ phase < PingInterval
      /\ UNCHANGED <<conn, userOf, registered>>
      /\ \A c \in Agent : pending[c] # HelloTimeout
      /\ pending' = [c \in Agent |-> IF pending[c] < HelloTimeout THEN pending[c] + 1 ELSE pending[c]]
  BY DEF Tick
<1>2. /\ helpers' \in [User -> Entry \cup {NoHelper}]
      /\ \A u \in User : /\ helpers'[u] = NoHelper <=> helpers[u] = NoHelper
                         /\ helpers[u] # NoHelper => /\ helpers'[u].connId = helpers[u].connId
                                                     /\ helpers'[u].age = helpers[u].age + 1
  BY DEF Tick
<1>3. PresenceType'
  BY <1>1, <1>2 DEF NotPending
<1>4. \A c \in Agent : pending'[c] = NotPending <=> pending[c] = NotPending
  BY <1>1 DEF NotPending
<1>5. Admitted' /\ HandshakeIsTimed'
  BY <1>1, <1>4 DEF Admitted, HandshakeIsTimed, Open
<1>6. NoOrphanHelper'
  BY <1>1, <1>2 DEF NoOrphanHelper, Admitted, Registered, Open
<1>7. EntriesAreLive'
  BY <1>1, <1>2 DEF EntriesAreLive
<1>8. FreshAtHeartbeat'
  BY <1>1, <1>2 DEF FreshAtHeartbeat
<1> QED BY <1>3, <1>5, <1>6, <1>7, <1>8

LEMMA PresenceStep ==
  ASSUME PresenceInv, [Next]_vars
  PROVE  PresenceInv'
<1>1. CASE \E c \in Agent : \/ \E u \in User \cup {Guest} : Connect(c, u)
                            \/ Hello(c) \/ BadHello(c) \/ Touch(c) \/ Close(c) \/ HelloTimer(c)
  BY <1>1, ConnectKeeps, HelloKeeps, BadHelloKeeps, TouchKeeps, CloseKeeps, HelloTimerKeeps
<1>2. CASE Heartbeat \/ Tick
  BY <1>2, HeartbeatKeeps, TickKeeps
<1>3. CASE UNCHANGED presence
  BY <1>3 DEF PresenceInv, PresenceType, Admitted, NoOrphanHelper, EntriesAreLive, presence,
              HandshakeIsTimed, FreshAtHeartbeat, Registered, Open
<1> QED BY <1>1, <1>2, <1>3, NextCases

\* The presence part of the inductive invariant holds in every reachable state.
THEOREM PresenceHolds == Spec => []PresenceInv
BY PresenceInit, PresenceStep, PTL DEF Spec

\* "One helper per host account": an open connection that has said hello is the entry of its
\* account, whatever hellos, supersessions, sweeps and closes came before.
THEOREM NeverOrphaned == Spec => []NoOrphanHelper
BY PresenceHolds, PTL DEF PresenceInv

\* An entry belongs to a connection of its account that said hello and has not reported its close.
THEOREM EntriesAlwaysLive == Spec => []EntriesAreLive
BY PresenceHolds, PTL DEF PresenceInv

\* The handshake timer runs for exactly the open connections that owe a hello.
THEOREM HandshakeAlwaysTimed == Spec => []HandshakeIsTimed
BY PresenceHolds, PTL DEF PresenceInv

\* For any timer settings, no entry outlives the staleness window by more than one heartbeat.
THEOREM AlwaysHeardRecently == Spec => []HeardRecently
<1>1. PresenceInv => HeardRecently
  BY DEF PresenceInv, PresenceType, FreshAtHeartbeat, HeardRecently
<1> QED BY <1>1, PresenceHolds, PTL

\* A helper that keeps talking is dropped by its own close only.
THEOREM TalkersAlwaysStay == Spec => TalkersStay
<1>1. PresenceInv /\ [Next]_vars =>
        [\A u \in User :
           helpers[u] # NoHelper /\ ~isStale(helpers[u]) /\ helpers'[u] = NoHelper
             => conn'[helpers[u].connId] = "closed"]_vars
  <2> SUFFICES ASSUME PresenceInv, [Next]_vars, NEW u \in User,
                      helpers[u] # NoHelper, ~isStale(helpers[u]), helpers'[u] = NoHelper
               PROVE  conn'[helpers[u].connId] = "closed"
    OBVIOUS
  <2> USE DEF PresenceInv, PresenceType
  <2>1. ASSUME NEW c \in Agent, Close(c)
        PROVE  conn'[helpers[u].connId] = "closed"
    BY <2>1 DEF Close, unregisterHelper, Registered
  <2>2. ASSUME NEW c \in Agent, Hello(c)
        PROVE  FALSE
    BY <2>2 DEF Hello
  <2>3. ASSUME NEW c \in Agent, Touch(c)
        PROVE  FALSE
    BY <2>3 DEF Touch, touchHelper, Registered
  <2>4. CASE Heartbeat
    BY <2>4 DEF Heartbeat, sweepStaleHelpers
  <2>5. CASE Tick
    BY <2>5 DEF Tick
  <2>6. CASE UNCHANGED helpers
    BY <2>6
  <2>7. \/ \E c \in Agent : Close(c) \/ Hello(c) \/ Touch(c)
        \/ Heartbeat \/ Tick \/ UNCHANGED helpers
    BY NextCases DEF Connect, BadHello, HelloTimer, presence
  <2> QED BY <2>1, <2>2, <2>3, <2>4, <2>5, <2>6, <2>7
<1> QED BY <1>1, PresenceHolds, PTL DEF Spec, TalkersStay

-------------------------------------------------------------------------------
(* Commands and their acks.                                                    *)

\* The ids that are recorded are those of commands that were sent.
RecordedWereSent ==
  \A u \in User : /\ results[u] # NoResult => results[u].id \in DOMAIN sent
                  /\ pendingAcks[u] # NoAck => pendingAcks[u].id \in DOMAIN sent

CommandInv ==
  /\ CommandType
  /\ Len(sent) <= MaxCommands
  /\ RecordedWereSent
  /\ ResultsAreAcked
  /\ PendingIsNewest

LEMMA CommandInit == Init => CommandInv
BY DEF Init, CommandInv, CommandType, RecordedWereSent, ResultsAreAcked, PendingIsNewest

\* The new command gets the next id, so it is the newest, and nothing is known of it yet.
LEMMA SendKeeps ==
  ASSUME CommandInv, NEW u \in User, NEW command \in Command, sendCommand(u, command)
  PROVE  CommandInv'
<1> DEFINE id == Len(sent) + 1
           new == [userId |-> u, command |-> command, acked |-> FALSE]
<1> USE DEF CommandInv, CommandType
<1>1. /\ id \in Ids /\ new \in Relayed
      /\ sent' = Append(sent, new)
      /\ pendingAcks' = [pendingAcks EXCEPT ![u] = [id |-> id, command |-> command]]
      /\ results' = results
  BY DEF sendCommand, Ids, Relayed
<1>2. /\ sent' \in Seq(Relayed) /\ Len(sent') = id /\ sent'[id] = new
      /\ \A i \in DOMAIN sent : i \in DOMAIN sent' /\ sent'[i] = sent[i]
      /\ \A i \in DOMAIN sent' : i = id \/ i \in DOMAIN sent
      /\ \A i \in DOMAIN sent' : i <= id
  BY <1>1
<1> HIDE DEF id, new
<1>3. CommandType' /\ Len(sent') <= MaxCommands
  BY <1>1, <1>2 DEF Pending, Ids
<1>4. id \in DOMAIN sent'
  BY <1>2 DEF id
<1>5. RecordedWereSent' /\ ResultsAreAcked'
  BY <1>1, <1>2, <1>4 DEF RecordedWereSent, ResultsAreAcked
<1>6. PendingIsNewest'
  <2> SUFFICES ASSUME NEW w \in User, pendingAcks'[w] # NoAck
               PROVE  LET s == sent'[pendingAcks'[w].id] IN
                      /\ s.userId = w /\ s.command = pendingAcks'[w].command /\ ~s.acked
                      /\ \A i \in DOMAIN sent' : sent'[i].userId = w => i <= pendingAcks'[w].id
    BY DEF PendingIsNewest
  <2>1. CASE w = u
    BY <1>1, <1>2, <2>1 DEF new
  <2>2. CASE w # u
    BY <1>1, <1>2, <2>2 DEF PendingIsNewest, RecordedWereSent, new
  <2> QED BY <2>1, <2>2
<1> QED BY <1>3, <1>5, <1>6

\* The ack of a command touches the records of its own account only, and comes from the helper
\* that the account is known to have (NoOrphanHelper).
LEMMA AckKeeps ==
  ASSUME PresenceInv, CommandInv, NEW c \in Agent, NEW id \in DOMAIN sent, handleHelperAck(c, id)
  PROVE  CommandInv'
<1> DEFINE u == userOf[c]
           pendingId == pendingAcks[u] # NoAck /\ pendingAcks[u].id = id
<1> USE DEF CommandInv, CommandType
<1>1. Open(c) /\ registered[c] /\ sent[id].userId = u /\ ~sent[id].acked
  BY DEF handleHelperAck
<1>2. Registered(u, c) /\ u \in User
  BY <1>1 DEF PresenceInv, NoOrphanHelper, Admitted
<1>3. /\ sent' = [sent EXCEPT ![id].acked = TRUE]
      /\ results' = [results EXCEPT ![u] =
                       [id |-> id, command |-> IF pendingId THEN pendingAcks[u].command ELSE id]]
      /\ pendingAcks' = IF pendingId THEN [pendingAcks EXCEPT ![u] = NoAck] ELSE pendingAcks
  BY <1>2 DEF handleHelperAck
<1>4. /\ sent' \in Seq(Relayed) /\ Len(sent') = Len(sent) /\ DOMAIN sent' = DOMAIN sent
      /\ sent'[id].acked
      /\ \A i \in DOMAIN sent : /\ sent'[i].userId = sent[i].userId
                                /\ sent'[i].command = sent[i].command
                                /\ sent[i].acked => sent'[i].acked
                                /\ i # id => sent'[i] = sent[i]
  <2> DEFINE acked == [sent[id] EXCEPT !.acked = TRUE]
  <2>1. sent[id] \in Relayed
    OBVIOUS
  <2>2. /\ acked \in Relayed /\ acked.acked
        /\ acked.userId = sent[id].userId /\ acked.command = sent[id].command
    BY <2>1 DEF Relayed
  <2>3. sent' = [sent EXCEPT ![id] = acked]
    BY <1>3
  <2> HIDE DEF acked
  <2>4. /\ sent' \in Seq(Relayed) /\ Len(sent') = Len(sent) /\ DOMAIN sent' = DOMAIN sent
        /\ \A i \in DOMAIN sent : sent'[i] = IF i = id THEN acked ELSE sent[i]
    BY <2>2, <2>3
  <2> QED BY <2>2, <2>4
<1>5. id \in Ids
  BY DEF Ids
<1>6. pendingId => pendingAcks[u].command = sent[id].command
  BY <1>2 DEF PendingIsNewest
<1>7. results' \in [User -> Result \cup {NoResult}]
  BY <1>2, <1>3, <1>5 DEF Result, Pending
<1>8. pendingAcks' \in [User -> Pending \cup {NoAck}]
  BY <1>2, <1>3
<1>9. RecordedWereSent'
  BY <1>2, <1>3, <1>4 DEF RecordedWereSent
<1>10. ResultsAreAcked'
  <2> SUFFICES ASSUME NEW w \in User, results'[w] # NoResult
               PROVE  LET s == sent'[results'[w].id] IN
                      s.userId = w /\ s.acked /\ results'[w].command \in {s.command, results'[w].id}
    BY DEF ResultsAreAcked
  <2>1. CASE w = u
    BY <1>1, <1>2, <1>3, <1>4, <1>6, <2>1
  <2>2. CASE w # u
    BY <1>2, <1>3, <1>4, <2>2 DEF ResultsAreAcked, RecordedWereSent
  <2> QED BY <2>1, <2>2
<1>11. PendingIsNewest'
  <2> SUFFICES ASSUME NEW w \in User, pendingAcks'[w] # NoAck
               PROVE  LET s == sent'[pendingAcks'[w].id] IN
                      /\ s.userId = w /\ s.command = pendingAcks'[w].command /\ ~s.acked
                      /\ \A i \in DOMAIN sent' : sent'[i].userId = w => i <= pendingAcks'[w].id
    BY DEF PendingIsNewest
  <2>1. pendingAcks'[w] = pendingAcks[w] /\ pendingAcks[w].id \in DOMAIN sent
    BY <1>2, <1>3 DEF RecordedWereSent
  <2>2. pendingAcks[w].id # id
    BY <1>1, <1>2, <1>3, <2>1 DEF PendingIsNewest
  <2> QED BY <1>4, <2>1, <2>2 DEF PendingIsNewest
<1> QED BY <1>4, <1>7, <1>8, <1>9, <1>10, <1>11

LEMMA CommandStep ==
  ASSUME PresenceInv, CommandInv, [Next]_vars
  PROVE  CommandInv'
<1>1. CASE UNCHANGED commands
  BY <1>1 DEF CommandInv, CommandType, RecordedWereSent, ResultsAreAcked, PendingIsNewest, commands
<1>2. CASE CommandNext
  BY <1>2, SendKeeps DEF CommandNext
<1>3. CASE \E c \in Agent, id \in DOMAIN sent : handleHelperAck(c, id)
  BY <1>3, AckKeeps
<1>4. \/ UNCHANGED commands \/ CommandNext
      \/ \E c \in Agent, id \in DOMAIN sent : handleHelperAck(c, id)
  BY DEF Next, AgentNext, TimerNext, Connect, Hello, BadHello, Status, Close, HelloTimer, Heartbeat,
         Tick, vars, commands
<1> QED BY <1>1, <1>2, <1>3, <1>4

\* The whole inductive invariant holds in every reachable state.
THEOREM CommandsHold == Spec => [](PresenceInv /\ CommandInv)
BY PresenceInit, CommandInit, PresenceStep, CommandStep, PTL DEF Spec

\* Every variable keeps its shape, for any helpers, accounts, commands and timer settings.
THEOREM TypeCorrect == Spec => []TypeOK
<1>1. PresenceInv /\ CommandInv => TypeOK
  BY DEF PresenceInv, PresenceType, CommandInv, CommandType, TypeOK
<1> QED BY <1>1, CommandsHold, PTL

\* What lastCommand reports was sent to that account and acked, and is never named after
\* another command, however acks and commands cross.
THEOREM ResultsAlwaysAcked == Spec => []ResultsAreAcked
BY CommandsHold, PTL DEF CommandInv

\* The pending ack of an account is its newest command, and has not been acked.
THEOREM PendingAlwaysNewest == Spec => []PendingIsNewest
BY CommandsHold, PTL DEF CommandInv
==============================================================================
