----------------------------- MODULE Persistence -----------------------------
(***************************************************************************)
(* Sessions, device tokens and rooms: maps that requests read and change   *)
(* synchronously (server/src/sessions.ts, tokens.ts, store.ts), the        *)
(* database tables that follow them by writes nobody awaits, the HTTP      *)
(* routes that use them, and the start-up that rebuilds them.              *)
(*                                                                         *)
(* A handler is a step up to its first await.  A write is committed or     *)
(* fails (which is only logged) at any later time, in any order: Turso     *)
(* gets each by a request of its own.  A restart drops the writes that are *)
(* still under way.  Keys and codes are random and never drawn twice.      *)
(***************************************************************************)
EXTENDS FiniteSets, Naturals, SequencesExt

CONSTANTS User, Session, Token, Room, Code,
          Turn,        \* TURN settings a host may choose
          None,        \* no row, no settings, no user
          MAX_HELPER_TOKENS_PER_USER,
          MaxWrites,   \* bound: writes under way at a time
          MaxRequests, \* bound: requests that await their bodies
          MaxBoots     \* bound: restarts

Key == Session \cup Token \cup Room
Row == [owner : User, turn : Turn \cup {None}]
Write == [op : {"insert", "update"}, row : Row] \cup [op : {"delete"}, row : {None}]

ASSUME PersistenceAssumption ==
  /\ None \notin User \cup Turn \cup Row
  /\ Session \cap Token = {} /\ (Session \cup Token) \cap Room = {}
  /\ MAX_HELPER_TOKENS_PER_USER \in Nat /\ MaxWrites \in Nat
  /\ MaxRequests \in Nat /\ MaxBoots \in Nat

VARIABLES
  mirror,   \* sessions, helperTokens and rooms: what requests see
  table,    \* the rows of the database
  writes,   \* the writes under way for each key, in the order they were issued
  expired,  \* sessions, rooms and codes whose expiresAt has passed
  used,     \* the keys given out so far
  codes,    \* pairingCodes: the user of each code that can be redeemed
  minted,   \* who each code was minted for
  devices,  \* the tokens that were issued for it
  turning,  \* POST /turn requests past their checks, awaiting their bodies
  boots,    \* restarts so far
  shaken,   \* keys of which a write failed or was overtaken since the start
  recent    \* the rows of each key since the database last caught up with it

stores == <<mirror, table, writes, shaken, recent, boots>>
pairing == <<codes, minted, devices>>
vars == <<mirror, table, writes, expired, used, codes, minted, devices, turning, boots, shaken, recent>>

-------------------------------------------------------------------------------
(* The mirrors and the writes behind them.                                     *)

\* The row that w leaves where there was row: inserts do nothing on a conflict.
Written(row, w) ==
  CASE w.op = "insert" -> IF row = None THEN w.row ELSE row
    [] w.op = "update" -> IF row = None THEN None ELSE [row EXCEPT !.turn = w.row.turn]
    [] w.op = "delete" -> None

\* The database has caught up with k, and every write of k had its turn.
CaughtUp(k) == writes[k] = <<>> /\ k \notin shaken

Remember ==
  recent' = [k \in Key |-> IF CaughtUp(k)' THEN {mirror'[k]} ELSE recent[k] \cup {mirror'[k]}]

UnderWay == FoldFunction(LAMBDA ws, n : n + Len(ws), 0, writes)

\* A handler changes the mirror's row of each key in K and issues a write for it.
Store(K, row, op) ==
  /\ UnderWay + Cardinality(K) <= MaxWrites
  /\ mirror' = [k \in Key |-> IF k \in K THEN row ELSE mirror[k]]
  /\ writes' = [k \in Key |-> IF k \in K THEN Append(writes[k], [op |-> op, row |-> row])
                                          ELSE writes[k]]
  /\ UNCHANGED <<table, shaken, boots>>
  /\ Remember

Insert(k, row) ==
  /\ k \notin used
  /\ used' = used \cup {k}
  /\ Store({k}, row, "insert")

\* Mutant: the rows leave the mirror only.
DeleteMirror(K) ==
  /\ mirror' = [k \in Key |-> IF k \in K THEN None ELSE mirror[k]]
  /\ UNCHANGED <<table, writes, shaken, boots>>
  /\ Remember

Delete(K) == Store(K, None, "delete")

\* The i-th write of k takes effect, possibly before an earlier one.
Commit(k, i) ==
  /\ table' = [table EXCEPT ![k] = Written(@, writes[k][i])]
  /\ writes' = [writes EXCEPT ![k] = RemoveAt(@, i)]
  /\ shaken' = IF i > 1 THEN shaken \cup {k} ELSE shaken
  /\ UNCHANGED <<mirror, boots>>
  /\ Remember

Fail(k, i) ==
  /\ writes' = [writes EXCEPT ![k] = RemoveAt(@, i)]
  /\ shaken' = shaken \cup {k}
  /\ UNCHANGED <<mirror, table, boots>>
  /\ Remember

Database ==
  /\ \E k \in Key : \E i \in DOMAIN writes[k] : Commit(k, i) \/ Fail(k, i)
  /\ UNCHANGED <<expired, used, pairing, turning>>

loadSessions == [s \in Session |-> table[s]]
loadHelperTokens == [t \in Token |-> table[t]]
loadRooms == [r \in Room |-> table[r]]

\* The process ends and starts again: startDatabase loads the tables before it serves.
Restart ==
  /\ boots < MaxBoots
  /\ boots' = boots + 1
  /\ mirror' = [k \in Key |-> IF k \in Session THEN loadSessions[k]
                             ELSE IF k \in Token THEN loadHelperTokens[k] ELSE loadRooms[k]]
  /\ writes' = [k \in Key |-> <<>>]
  /\ shaken' = {}
  /\ recent' = [k \in Key |-> {table[k]}]
  /\ codes' = [c \in Code |-> None]
  /\ turning' = {}
  /\ UNCHANGED <<table, expired, used, minted, devices>>

-------------------------------------------------------------------------------
(* Sessions.                                                                   *)

\* A key without a row anywhere does nothing any more.
Stored(k) == mirror[k] # None \/ table[k] # None

Live(k) == mirror[k] # None /\ k \notin expired

\* requireUser: the session of the request's cookie is that of u.
Authorized(s, u) == Live(s) /\ mirror[s].owner = u

\* An accepted sign-in: POST /auth/dev or the OAuth callback.
createSession(u, s) ==
  /\ Insert(s, [owner |-> u, turn |-> None])
  /\ UNCHANGED <<expired, pairing, turning>>

\* A request with an expired session: it is rejected and cleaned up.
getSession(s) ==
  /\ mirror[s] # None /\ s \in expired
  /\ Delete({s})
  /\ UNCHANGED <<expired, used, pairing, turning>>

\* POST /auth/logout with the cookie s, which the mirror may have lost.
destroySession(s) ==
  /\ Stored(s)
  /\ Delete({s})
  /\ UNCHANGED <<expired, used, pairing, turning>>

-------------------------------------------------------------------------------
(* Pairing and device tokens.                                                  *)

helperTokensFor(u) == {t \in Token : mirror[t] # None /\ mirror[t].owner = u}

createPairingCode(u, c) ==
  /\ minted[c] = None
  /\ codes' = [codes EXCEPT ![c] = u]
  /\ minted' = [minted EXCEPT ![c] = u]
  /\ UNCHANGED <<stores, expired, used, devices, turning>>

consumePairingCode(c) ==
  /\ codes[c] # None
  /\ codes' = [codes EXCEPT ![c] = None]

\* The cap holds, or the code is spent for nothing (too_many_devices).
issueHelperToken(u, c, t) ==
  IF Cardinality(helperTokensFor(u)) >= MAX_HELPER_TOKENS_PER_USER
  THEN UNCHANGED <<stores, used, devices>>
  ELSE /\ Insert(t, [owner |-> u, turn |-> None])
       /\ devices' = [devices EXCEPT ![c] = @ \cup {t}]

\* Mutant: the code goes only when it has expired.
exchangeKept(c, t) ==
  /\ codes[c] # None
  /\ codes' = IF c \in expired THEN [codes EXCEPT ![c] = None] ELSE codes
  /\ IF c \in expired THEN UNCHANGED <<stores, used, devices>>
     ELSE issueHelperToken(codes[c], c, t)
  /\ UNCHANGED <<expired, minted, turning>>

\* Mutant: the code's user is read after the code was taken.
exchangeBlind(c, t) ==
  /\ consumePairingCode(c)
  /\ IF c \in expired THEN UNCHANGED <<stores, used, devices>>
     ELSE issueHelperToken(codes'[c], c, t)
  /\ UNCHANGED <<expired, minted, turning>>

\* POST /pair/exchange: the code goes on the first attempt, whatever comes of it.
exchange(c, t) ==
  /\ consumePairingCode(c)
  /\ IF c \in expired THEN UNCHANGED <<stores, used, devices>>
     ELSE issueHelperToken(codes[c], c, t)
  /\ UNCHANGED <<expired, minted, turning>>

\* DELETE /pair/tokens/:id: a user removes one of its devices.
revokeHelperToken(u, t) ==
  /\ t \in helperTokensFor(u)
  /\ Delete({t})
  /\ UNCHANGED <<expired, used, pairing, turning>>

\* POST /pair/revoke: the device unpairs itself.
revokeBearerToken(t) ==
  /\ mirror[t] # None
  /\ Delete({t})
  /\ UNCHANGED <<expired, used, pairing, turning>>

-------------------------------------------------------------------------------
(* Rooms.                                                                      *)

createRoom(u, r) ==
  /\ Insert(r, [owner |-> u, turn |-> None])
  /\ UNCHANGED <<expired, pairing, turning>>

\* A read of an expired room deletes it.
getRoom(r) ==
  /\ mirror[r] # None /\ r \in expired
  /\ Delete({r})
  /\ UNCHANGED <<expired, used, pairing, turning>>

Overdue == {r \in Room : mirror[r] # None /\ r \in expired}

sweepExpiredRooms ==
  /\ Overdue # {}
  /\ Delete(Overdue)
  /\ UNCHANGED <<expired, used, pairing, turning>>

\* POST /rooms/:id/turn up to its await: the owner of a live room.
TurnChecked(u, r, t) ==
  /\ Live(r) /\ mirror[r].owner = u
  /\ Cardinality(turning) < MaxRequests
  /\ turning' = turning \cup {[room |-> r, turn |-> t]}
  /\ UNCHANGED <<stores, expired, used, pairing>>

\* The room may be gone by now.
setRoomTurn(r, t) ==
  IF mirror[r] = None THEN UNCHANGED stores
  ELSE Store({r}, [mirror[r] EXCEPT !.turn = t], "update")

\* The body has come, is valid, and is answered with ok whether or not it was stored.
TurnBody(q) ==
  /\ turning' = turning \ {q}
  /\ setRoomTurn(q.room, q.turn)
  /\ UNCHANGED <<expired, used, pairing>>

\* It is not JSON, or names no valid server.
TurnBodyRefused(q) ==
  /\ turning' = turning \ {q}
  /\ UNCHANGED <<stores, expired, used, pairing>>

-------------------------------------------------------------------------------
Expire(k) ==
  /\ k \notin expired
  /\ expired' = expired \cup {k}
  /\ UNCHANGED <<stores, used, pairing, turning>>

\* A database with the devices that u paired before, if any, and nothing else.
Init ==
  /\ \E u \in User, K \in SUBSET Token :
       /\ Cardinality(K) <= MAX_HELPER_TOKENS_PER_USER
       /\ table = [k \in Key |-> IF k \in K THEN [owner |-> u, turn |-> None] ELSE None]
       /\ used = K
  /\ mirror = table
  /\ writes = [k \in Key |-> <<>>]
  /\ expired = {} /\ turning = {} /\ shaken = {}
  /\ codes = [c \in Code |-> None]
  /\ minted = [c \in Code |-> None]
  /\ devices = [c \in Code |-> {}]
  /\ boots = 0
  /\ recent = [k \in Key |-> {table[k]}]

SessionNext ==
  \E s \in Session :
    \/ \E u \in User : createSession(u, s)
    \/ getSession(s)
    \/ destroySession(s)

PairingNext ==
  \/ \E s \in Session, u \in User, c \in Code : Authorized(s, u) /\ createPairingCode(u, c)
  \/ \E c \in Code, t \in Token : exchange(c, t)
  \/ \E s \in Session, u \in User, t \in Token : Authorized(s, u) /\ revokeHelperToken(u, t)
  \/ \E t \in Token : revokeBearerToken(t)

RoomNext ==
  \/ \E s \in Session, u \in User, r \in Room :
       /\ Authorized(s, u)
       /\ createRoom(u, r) \/ \E t \in Turn \cup {None} : TurnChecked(u, r, t)
  \/ \E r \in Room : getRoom(r)
  \/ sweepExpiredRooms
  \/ \E q \in turning : TurnBody(q) \/ TurnBodyRefused(q)

Next ==
  \/ SessionNext \/ PairingNext \/ RoomNext
  \/ Database \/ Restart
  \/ \E k \in Session \cup Room : Stored(k) /\ Expire(k)
  \/ \E c \in Code : codes[c] # None /\ Expire(c)

Spec == Init /\ [][Next]_vars

-------------------------------------------------------------------------------
\* Type correctness of the mirrors, the tables and the pairing codes.
TypeOK ==
  /\ mirror \in [Key -> Row \cup {None}] /\ table \in [Key -> Row \cup {None}]
  /\ writes \in [Key -> Seq(Write)]
  /\ used \subseteq Key /\ expired \subseteq used \cup Code
  /\ codes \in [Code -> User \cup {None}] /\ minted \in [Code -> User \cup {None}]
  /\ devices \in [Code -> SUBSET Token]
  /\ turning \subseteq [room : Room, turn : Turn \cup {None}]
  /\ boots \in 0..MaxBoots /\ shaken \subseteq Key
  /\ recent \in [Key -> SUBSET (Row \cup {None})]

\* A pairing code brings at most one device, and only to the account it was minted for,
\* also when that device's row comes back from the database after a restart.
PairsOneDevice ==
  \A c \in Code :
    /\ Cardinality(devices[c]) <= 1
    /\ \A t \in devices[c] : mirror[t] # None => mirror[t].owner = minted[c]

\* Un-awaited writes, reordered, failed or cut off by a restart: a row never turns into an
\* older one than those since the database last caught up, and what is gone stays gone
\* until a restart.
Store_ == INSTANCE DurableStore WITH Row <- Row, NoRow <- None, kept <- mirror
ImplementsStore == Store_!Spec
==============================================================================
