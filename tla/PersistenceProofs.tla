-------------------------- MODULE PersistenceProofs --------------------------
(***************************************************************************)
(* Theorems about Persistence: it implements DurableStore, and a pairing   *)
(* code brings at most one device, to its own account.                     *)
(*                                                                         *)
(* Everything rests on what holds of one key: Good relates its row in the  *)
(* mirror, its row in the table, the writes between the two, and the rows  *)
(* that it had since the database last caught up.  The first lemmas say    *)
(* what a new write, a commit, a failed write and a restart do to a key.   *)
(***************************************************************************)
EXTENDS Persistence, SequenceTheorems, FiniteSetTheorems, TLAPS

\* Every write of ws is the one whose result its row is, when all before it had their turn.
InOrder(m, tb, ws) ==
  /\ \A i \in 1..Len(ws) : Written(IF i = 1 THEN tb ELSE ws[i-1].row, ws[i]) = ws[i].row
  /\ m = IF ws = <<>> THEN tb ELSE ws[Len(ws)].row

\* Mirror m, table tb, writes ws, shaken or not, and the recent rows rc of one key.
Good(m, tb, ws, sh, rc) ==
  /\ rc \subseteq Row \cup {None} /\ m \in rc /\ tb \in rc
  /\ ws \in Seq(Write) /\ \A i \in 1..Len(ws) : ws[i].row \in rc
  /\ \A x, y \in rc \ {None} : x.owner = y.owner
  /\ ws = <<>> /\ ~sh => rc = {m}
  /\ ~sh => InOrder(m, tb, ws)

GoodKey(k) == Good(mirror[k], table[k], writes[k], k \in shaken, recent[k])

StoresOK ==
  /\ mirror \in [Key -> Row \cup {None}] /\ table \in [Key -> Row \cup {None}]
  /\ writes \in [Key -> Seq(Write)] /\ recent \in [Key -> SUBSET (Row \cup {None})]
  /\ shaken \subseteq Key /\ boots \in 0..MaxBoots
  /\ \A k \in Key : GoodKey(k)

\* A key that was not given out has left no trace.
Fresh == \A k \in Key \ used : recent[k] = {None} /\ writes[k] = <<>>

RequestsOK ==
  /\ used \subseteq Key /\ expired \subseteq used \cup Code
  /\ turning \subseteq [room : Room, turn : Turn \cup {None}]

\* A code that can be redeemed has brought no device; the rows of a device are its user's.
GoodCode(c) ==
  /\ codes[c] # None => codes[c] = minted[c] /\ devices[c] = {}
  /\ minted[c] = None => devices[c] = {}
  /\ \A s, t \in devices[c] : s = t
  /\ \A t \in devices[c] :
       t \in used /\ \A x \in recent[t] \ {None} : x.owner = minted[c]

PairingOK ==
  /\ codes \in [Code -> User \cup {None}] /\ minted \in [Code -> User \cup {None}]
  /\ devices \in [Code -> SUBSET Token]
  /\ \A c \in Code : GoodCode(c)

\* The inductive invariant.
Inv == StoresOK /\ Fresh /\ RequestsOK /\ PairingOK

\* What every step does to the stores.
OwnersKept ==
  \A k \in used : \A x \in recent'[k] \ {None} : \E y \in recent[k] \ {None} : x.owner = y.owner

StoresStep ==
  /\ StoresOK' /\ Fresh' /\ used \subseteq used' /\ used' \subseteq Key
  /\ OwnersKept
  /\ [Store_!Next]_(Store_!vars)

-------------------------------------------------------------------------------
(* Sequences and single writes.                                                *)

\* RemoveAt of the community modules drops the i-th element and moves up the ones after it.
LEMMA RemoveAtProperties ==
  ASSUME NEW S, NEW s \in Seq(S), NEW i \in 1..Len(s)
  PROVE  /\ RemoveAt(s, i) \in Seq(S)
         /\ Len(RemoveAt(s, i)) = Len(s) - 1
         /\ \A j \in 1..(Len(s) - 1) : RemoveAt(s, i)[j] = IF j < i THEN s[j] ELSE s[j+1]
<1> DEFINE a == SubSeq(s, 1, i-1)
           b == SubSeq(s, i+1, Len(s))
<1>0. /\ Len(s) \in Nat /\ \A j \in 1..Len(s) : s[j] \in S
  BY LenProperties, ElementOfSeq
<1>1. /\ a \in Seq(S) /\ Len(a) = i-1 /\ \A j \in 1..(i-1) : a[j] = s[j]
  <2>1. \A j \in 1..(i-1) : s[j] \in S
    BY <1>0
  <2>2. /\ a \in Seq(S) /\ Len(a) = (IF 1 <= i-1 THEN (i-1)-1+1 ELSE 0)
        /\ \A j \in 1..((i-1)-1+1) : a[j] = s[1+j-1]
    BY <1>0, <2>1, SubSeqProperties
  <2> HIDE DEF a
  <2> QED BY <1>0, <2>2
<1>2. /\ b \in Seq(S) /\ Len(b) = Len(s)-i /\ \A j \in 1..(Len(s)-i) : b[j] = s[i+j]
  <2>1. \A j \in (i+1)..Len(s) : s[j] \in S
    BY <1>0
  <2>2. /\ b \in Seq(S) /\ Len(b) = (IF i+1 <= Len(s) THEN Len(s)-(i+1)+1 ELSE 0)
        /\ \A j \in 1..(Len(s)-(i+1)+1) : b[j] = s[(i+1)+j-1]
    BY <1>0, <2>1, SubSeqProperties
  <2> HIDE DEF b
  <2> QED BY <1>0, <2>2
<1>3. RemoveAt(s, i) = a \o b
  BY DEF RemoveAt
<1> HIDE DEF a, b
<1>4. /\ a \o b \in Seq(S) /\ Len(a \o b) = Len(a) + Len(b)
      /\ \A j \in 1..(Len(a) + Len(b)) : (a \o b)[j] = IF j <= Len(a) THEN a[j] ELSE b[j - Len(a)]
  BY <1>1, <1>2, ConcatProperties
<1>5. ASSUME NEW j \in 1..(Len(s) - 1)
      PROVE  (a \o b)[j] = IF j < i THEN s[j] ELSE s[j+1]
  <2>1. j \in 1..(Len(a) + Len(b)) /\ j - Len(a) \in Int
    BY <1>0, <1>1, <1>2
  <2>2. (a \o b)[j] = IF j <= Len(a) THEN a[j] ELSE b[j - Len(a)]
    BY <1>4, <2>1
  <2>3. CASE j < i
    <3>1. j \in 1..(i-1) /\ j <= Len(a)
      BY <1>1, <2>3
    <3> QED BY <1>1, <2>2, <2>3, <3>1
  <2>4. CASE ~(j < i)
    <3>1. ~(j <= Len(a)) /\ j - Len(a) \in 1..(Len(s) - i) /\ i + (j - Len(a)) = j + 1
      BY <1>0, <1>1, <2>4
    <3> QED BY <1>2, <2>2, <2>4, <3>1
  <2> QED BY <2>3, <2>4
<1> QED BY <1>0, <1>1, <1>2, <1>3, <1>4, <1>5

\* Two rows of one account that agree on their TURN settings are one row.
LEMMA RowsDifferInTurn ==
  ASSUME NEW x \in Row, NEW y \in Row, x.owner = y.owner
  PROVE  [x EXCEPT !.turn = y.turn] = y
BY DEF Row

LEMMA TurnKeepsOwner ==
  ASSUME NEW x \in Row, NEW t \in Turn \cup {None}
  PROVE  [x EXCEPT !.turn = t] \in Row /\ [x EXCEPT !.turn = t].owner = x.owner
BY DEF Row

LEMMA NoneIsNoRow == None \notin Row
BY PersistenceAssumption

\* A write leaves its own row, the row that was there, or none when there was none.
LEMMA WrittenFrom ==
  ASSUME NEW rc \in SUBSET (Row \cup {None}), \A x, y \in rc \ {None} : x.owner = y.owner,
         NEW row \in rc, NEW w \in Write, w.row \in rc
  PROVE  Written(row, w) \in {row, w.row}
<1>1. CASE w.op = "insert"
  BY <1>1 DEF Written
<1>2. CASE w.op = "delete"
  BY <1>2 DEF Written, Write
<1>3. CASE w.op = "update"
  <2>1. w.row \in Row
    BY <1>3 DEF Write
  <2>2. CASE row = None
    BY <1>3, <2>2 DEF Written
  <2>3. CASE row # None
    <3>1. row \in Row /\ row.owner = w.row.owner
      BY <2>1, <2>3, NoneIsNoRow
    <3> QED BY <1>3, <2>1, <2>3, <3>1, RowsDifferInTurn DEF Written
  <2> QED BY <2>2, <2>3
<1> QED BY <1>1, <1>2, <1>3 DEF Write

-------------------------------------------------------------------------------
(* What happens to one key.                                                    *)

\* A handler writes row to the mirror and issues the write w of it, which fits what is there.
LEMMA GoodStore ==
  ASSUME NEW m, NEW tb, NEW ws, NEW sh, NEW rc, Good(m, tb, ws, sh, rc),
         NEW w \in Write, ~sh => Written(m, w) = w.row,
         \A x \in rc : x # None /\ w.row # None => x.owner = w.row.owner
  PROVE  Good(w.row, tb, Append(ws, w), sh, rc \cup {w.row})
<1> DEFINE ws2 == Append(ws, w)
<1>1. /\ ws \in Seq(Write) /\ Len(ws) \in Nat /\ \A i \in 1..Len(ws) : ws[i] \in Write
  BY LenProperties, ElementOfSeq DEF Good
<1>2. /\ ws2 \in Seq(Write) /\ ws2 # <<>> /\ Len(ws2) = Len(ws) + 1
      /\ \A i \in 1..Len(ws) : ws2[i] = ws[i]
      /\ ws2[Len(ws)+1] = w
  BY <1>1, AppendProperties
<1> HIDE DEF ws2
<1>3. w.row \in Row \cup {None}
  BY DEF Write
<1>4. \A i \in 1..Len(ws2) : ws2[i].row \in rc \cup {w.row}
  BY <1>1, <1>2 DEF Good
<1>5. \A x, y \in (rc \cup {w.row}) \ {None} : x.owner = y.owner
  BY DEF Good
<1>6. ASSUME ~sh PROVE InOrder(w.row, tb, ws2)
  <2>1. InOrder(m, tb, ws)
    BY <1>6 DEF Good
  <2>2. w.row = ws2[Len(ws2)].row
    BY <1>1, <1>2
  <2>3. ASSUME NEW i \in 1..Len(ws2)
        PROVE  Written(IF i = 1 THEN tb ELSE ws2[i-1].row, ws2[i]) = ws2[i].row
    <3>1. CASE i \in 1..Len(ws)
      <4>1. i # 1 => ws2[i-1] = ws[i-1]
        BY <1>1, <1>2, <3>1
      <4>2. ws2[i] = ws[i]
        BY <1>2, <3>1
      <4>3. (IF i = 1 THEN tb ELSE ws2[i-1].row) = (IF i = 1 THEN tb ELSE ws[i-1].row)
        BY <4>1
      <4> QED BY <2>1, <3>1, <4>2, <4>3 DEF InOrder
    <3>2. CASE i = Len(ws) + 1
      <4>1. ws2[i] = w
        BY <1>2, <3>2
      <4>2. (IF i = 1 THEN tb ELSE ws2[i-1].row) = m
        <5>1. CASE ws = <<>>
          BY <1>1, <2>1, <3>2, <5>1 DEF InOrder
        <5>2. CASE ws # <<>>
          <6>1. Len(ws) \in 1..Len(ws) /\ i # 1 /\ i - 1 = Len(ws)
            BY <1>1, <3>2, <5>2, EmptySeq
          <6> QED BY <1>2, <2>1, <5>2, <6>1 DEF InOrder
        <5> QED BY <5>1, <5>2
      <4> QED BY <1>6, <4>1, <4>2
    <3> QED BY <1>1, <1>2, <3>1, <3>2
  <2> QED BY <1>2, <2>2, <2>3 DEF InOrder
<1>7. w.row \in rc \cup {w.row} /\ tb \in rc \cup {w.row} /\ rc \cup {w.row} \subseteq Row \cup {None}
  BY <1>3 DEF Good
<1>8. Good(w.row, tb, ws2, sh, rc \cup {w.row})
  BY <1>2, <1>4, <1>5, <1>6, <1>7 DEF Good
<1> QED BY <1>8 DEF ws2

\* The i-th write leaves the queue without an effect.
LEMMA GoodFail ==
  ASSUME NEW m, NEW tb, NEW ws, NEW sh, NEW rc, Good(m, tb, ws, sh, rc), NEW i \in 1..Len(ws)
  PROVE  Good(m, tb, RemoveAt(ws, i), TRUE, rc)
<1>1. /\ RemoveAt(ws, i) \in Seq(Write) /\ Len(RemoveAt(ws, i)) = Len(ws) - 1
      /\ \A j \in 1..(Len(ws) - 1) : RemoveAt(ws, i)[j] = IF j < i THEN ws[j] ELSE ws[j+1]
  BY RemoveAtProperties DEF Good
<1>2. Len(ws) \in Nat
  BY LenProperties DEF Good
<1> DEFINE s == RemoveAt(ws, i)
<1> HIDE DEF s
<1>3. ASSUME NEW j \in 1..Len(s) PROVE s[j].row \in rc
  <2>1. j \in 1..Len(ws) /\ j+1 \in 1..Len(ws) /\ j \in 1..(Len(ws) - 1)
    BY <1>1, <1>2 DEF s
  <2>2. s[j] \in {ws[j], ws[j+1]}
    BY <1>1, <2>1 DEF s
  <2> QED BY <2>1, <2>2 DEF Good
<1>4. Good(m, tb, s, TRUE, rc)
  BY <1>1, <1>3 DEF Good, s
<1> QED BY <1>4 DEF s

\* Its row may also come to the table.
LEMMA GoodCommit ==
  ASSUME NEW m, NEW tb, NEW ws, NEW sh, NEW rc, Good(m, tb, ws, sh, rc), NEW i \in 1..Len(ws)
  PROVE  Good(m, Written(tb, ws[i]), RemoveAt(ws, i), TRUE, rc)
<1>1. /\ Len(ws) \in Nat /\ ws[i] \in Write /\ ws[i].row \in rc
  BY LenProperties, ElementOfSeq DEF Good
<1>2. Written(tb, ws[i]) \in rc
  BY <1>1, WrittenFrom DEF Good
<1>3. Good(m, tb, RemoveAt(ws, i), TRUE, rc)
  BY GoodFail
<1> QED BY <1>2, <1>3 DEF Good

\* Writes that are committed in their order stay in order, and end with the mirror's row.
LEMMA GoodCommitFirst ==
  ASSUME NEW m, NEW tb, NEW ws, NEW rc, Good(m, tb, ws, FALSE, rc), 1 \in 1..Len(ws)
  PROVE  /\ RemoveAt(ws, 1) # <<>> => Good(m, Written(tb, ws[1]), RemoveAt(ws, 1), FALSE, rc)
         /\ RemoveAt(ws, 1) = <<>> => Good(m, Written(tb, ws[1]), RemoveAt(ws, 1), FALSE, {m})
<1> DEFINE s == RemoveAt(ws, 1)
           tb2 == Written(tb, ws[1])
<1>1. Len(ws) \in Nat
  BY LenProperties DEF Good
<1>2. /\ s \in Seq(Write) /\ Len(s) = Len(ws) - 1
      /\ \A j \in 1..(Len(ws) - 1) : s[j] = IF j < 1 THEN ws[j] ELSE ws[j+1]
  BY RemoveAtProperties DEF Good
<1>3. Good(m, tb2, s, TRUE, rc)
  BY GoodCommit
<1>4. InOrder(m, tb2, s)
  <2>1. InOrder(m, tb, ws)
    BY DEF Good
  <2>2. tb2 = ws[1].row
    BY <2>1 DEF InOrder
  <2> HIDE DEF s, tb2
  <2>3. \A j \in 1..Len(s) : s[j] = ws[j+1] /\ j+1 \in 1..Len(ws)
    BY <1>1, <1>2
  <2>4. ASSUME NEW j \in 1..Len(s)
        PROVE  Written(IF j = 1 THEN tb2 ELSE s[j-1].row, s[j]) = s[j].row
    <3>1. (IF j = 1 THEN tb2 ELSE s[j-1].row) = ws[j].row
      <4>1. CASE j = 1
        BY <2>2, <4>1
      <4>2. CASE j # 1
        <5>1. j-1 \in 1..Len(s) /\ (j-1)+1 = j
          BY <1>1, <1>2, <4>2
        <5> QED BY <2>3, <4>2, <5>1
      <4> QED BY <4>1, <4>2
    <3>2. j+1 # 1 /\ (j+1)-1 = j
      BY <1>1, <1>2
    <3>3. Written(ws[j].row, ws[j+1]) = ws[j+1].row
      BY <2>1, <2>3, <3>2 DEF InOrder
    <3> QED BY <2>3, <3>1, <3>3
  <2>5. m = IF s = <<>> THEN tb2 ELSE s[Len(s)].row
    <3>1. ws # <<>> /\ m = ws[Len(ws)].row
      BY <1>1, <2>1, EmptySeq DEF InOrder
    <3>2. CASE s = <<>>
      <4>1. Len(ws) = 1
        BY <1>1, <1>2, <3>2
      <4> QED BY <2>2, <3>1, <3>2, <4>1
    <3>3. CASE s # <<>>
      <4>1. Len(s) \in 1..Len(s) /\ Len(s) + 1 = Len(ws)
        BY <1>1, <1>2, <3>3, EmptySeq
      <4> QED BY <2>3, <3>1, <3>3, <4>1
    <3> QED BY <3>2, <3>3
  <2> QED BY <2>2, <2>4, <2>5 DEF InOrder
<1> HIDE DEF s, tb2
<1>5. ASSUME s # <<>> PROVE Good(m, tb2, s, FALSE, rc)
  BY <1>3, <1>4, <1>5 DEF Good
<1>6. ASSUME s = <<>> PROVE Good(m, tb2, s, FALSE, {m})
  <2>1. m = tb2 /\ Len(s) = 0
    BY <1>4, <1>6 DEF InOrder
  <2> QED BY <1>3, <1>4, <1>6, <2>1 DEF Good
<1> QED BY <1>5, <1>6 DEF s, tb2

\* A key comes back from the table as it is there.
LEMMA GoodRestart ==
  ASSUME NEW row \in Row \cup {None}
  PROVE  Good(row, row, <<>>, FALSE, {row})
<1>1. <<>> \in Seq(Write) /\ Len(<<>>) = 0
  BY EmptySeq
<1> QED BY <1>1 DEF Good, InOrder

-------------------------------------------------------------------------------
(* What a handler, the database and a restart do to the stores.                *)

\* Remember only adds the new row of a key that was not written in this step.
LEMMA StoreEffect ==
  ASSUME Inv, NEW K \in SUBSET Key, NEW row, NEW op, [op |-> op, row |-> row] \in Write,
         Store(K, row, op), used \subseteq used', K \subseteq used',
         \A k \in K : /\ k \notin shaken => Written(mirror[k], [op |-> op, row |-> row]) = row
                     /\ \A x \in recent[k] : x # None /\ row # None => x.owner = row.owner
  PROVE  /\ StoresOK' /\ Fresh'
         /\ mirror' = [k \in Key |-> IF k \in K THEN row ELSE mirror[k]]
         /\ recent' = [k \in Key |-> recent[k] \cup {mirror'[k]}]
         /\ \A k \in Key : recent'[k] = IF k \in K THEN recent[k] \cup {row} ELSE recent[k]
<1> DEFINE w == [op |-> op, row |-> row]
<1>1. /\ mirror' = [k \in Key |-> IF k \in K THEN row ELSE mirror[k]]
      /\ writes' = [k \in Key |-> IF k \in K THEN Append(writes[k], w) ELSE writes[k]]
      /\ table' = table /\ shaken' = shaken /\ boots' = boots
      /\ recent' = [k \in Key |-> IF writes'[k] = <<>> /\ k \notin shaken'
                                  THEN {mirror'[k]} ELSE recent[k] \cup {mirror'[k]}]
  BY DEF Store, Remember, CaughtUp
<1>2. w \in Write /\ w.row = row /\ w.op = op /\ row \in Row \cup {None}
  BY DEF Write
<1> HIDE DEF w
<1>3. ASSUME NEW k \in Key
      PROVE  GoodKey(k) /\ writes[k] \in Seq(Write) /\ mirror[k] \in recent[k]
  BY DEF Inv, StoresOK, GoodKey, Good
<1>4. ASSUME NEW k \in K
      PROVE  recent'[k] = recent[k] \cup {row} /\ GoodKey(k)'
  <2>1. k \in Key /\ writes'[k] = Append(writes[k], w) /\ mirror'[k] = row
    BY <1>1
  <2>2. writes'[k] # <<>>
    BY <1>2, <1>3, <2>1, AppendProperties
  <2>3. recent'[k] = recent[k] \cup {row}
    BY <1>1, <2>1, <2>2
  <2>4. /\ Good(mirror[k], table[k], writes[k], k \in shaken, recent[k])
        /\ k \notin shaken => Written(mirror[k], w) = w.row
        /\ \A x \in recent[k] : x # None /\ w.row # None => x.owner = w.row.owner
    BY <1>2, <1>3, <2>1 DEF GoodKey, w
  <2>5. Good(w.row, table[k], Append(writes[k], w), k \in shaken, recent[k] \cup {w.row})
    BY <1>2, <2>4, GoodStore
  <2> QED BY <1>1, <1>2, <2>1, <2>3, <2>5 DEF GoodKey
<1>5. ASSUME NEW k \in Key \ K
      PROVE  recent'[k] = recent[k] /\ mirror'[k] = mirror[k] /\ GoodKey(k)'
  <2>1. /\ mirror'[k] = mirror[k] /\ writes'[k] = writes[k] /\ table'[k] = table[k]
        /\ k \in shaken' <=> k \in shaken
        /\ recent'[k] = IF writes[k] = <<>> /\ k \notin shaken
                        THEN {mirror[k]} ELSE recent[k] \cup {mirror[k]}
    BY <1>1
  <2>2. recent'[k] = recent[k]
    <3>1. Good(mirror[k], table[k], writes[k], k \in shaken, recent[k])
      BY <1>3 DEF GoodKey
    <3>2. /\ mirror[k] \in recent[k]
          /\ writes[k] = <<>> /\ k \notin shaken => recent[k] = {mirror[k]}
      BY <3>1 DEF Good
    <3> QED BY <2>1, <3>2
  <2> QED BY <1>1, <1>3, <2>1, <2>2 DEF GoodKey
<1>6. \A k \in Key : recent'[k] = IF k \in K THEN recent[k] \cup {row} ELSE recent[k]
  BY <1>4, <1>5
<1>7. recent' = [k \in Key |-> recent[k] \cup {mirror'[k]}]
  <2>1. \A k \in Key : recent'[k] = recent[k] \cup {mirror'[k]}
    BY <1>1, <1>3, <1>4, <1>5
  <2> QED BY <1>1, <2>1
<1>8. StoresOK'
  <2>1. \A k \in Key : GoodKey(k)'
    BY <1>4, <1>5
  <2>2. mirror' \in [Key -> Row \cup {None}]
    BY <1>1, <1>2 DEF Inv, StoresOK
  <2>3. writes' \in [Key -> Seq(Write)]
    BY <1>1, <1>2, <1>3, AppendProperties
  <2>4. recent' \in [Key -> SUBSET (Row \cup {None})]
    BY <1>2, <1>6, <1>7 DEF Inv, StoresOK
  <2> QED BY <1>1, <2>1, <2>2, <2>3, <2>4 DEF Inv, StoresOK
<1>9. Fresh'
  BY <1>1, <1>6 DEF Inv, Fresh
<1> QED BY <1>1, <1>6, <1>7, <1>8, <1>9

\* A random key gets its first row.
LEMMA InsertEffect ==
  ASSUME Inv, NEW k \in Key, NEW row \in Row, Insert(k, row)
  PROVE  StoresStep /\ used' = used \cup {k} /\ k \notin used /\ recent'[k] = {None, row}
<1>1. /\ k \notin used /\ used' = used \cup {k} /\ Store({k}, row, "insert")
      /\ recent[k] = {None} /\ mirror[k] = None
  BY DEF Insert, Inv, Fresh, StoresOK, GoodKey, Good
<1>2. [op |-> "insert", row |-> row] \in Write /\ Written(None, [op |-> "insert", row |-> row]) = row
  BY DEF Write, Written
<1>3. /\ StoresOK' /\ Fresh'
      /\ mirror' = [j \in Key |-> IF j \in {k} THEN row ELSE mirror[j]]
      /\ recent' = [j \in Key |-> recent[j] \cup {mirror'[j]}]
      /\ \A j \in Key : recent'[j] = IF j \in {k} THEN recent[j] \cup {row} ELSE recent[j]
  <2> DEFINE K == {k}
  <2>1. /\ K \in SUBSET Key /\ used \subseteq used' /\ K \subseteq used'
        /\ Store(K, row, "insert")
        /\ \A j \in K :
             /\ j \notin shaken => Written(mirror[j], [op |-> "insert", row |-> row]) = row
             /\ \A x \in recent[j] : x # None /\ row # None => x.owner = row.owner
    BY <1>1, <1>2
  <2> HIDE DEF K
  <2>2. /\ StoresOK' /\ Fresh'
        /\ mirror' = [j \in Key |-> IF j \in K THEN row ELSE mirror[j]]
        /\ recent' = [j \in Key |-> recent[j] \cup {mirror'[j]}]
        /\ \A j \in Key : recent'[j] = IF j \in K THEN recent[j] \cup {row} ELSE recent[j]
    BY <1>2, <2>1, StoreEffect
  <2> QED BY <2>2 DEF K
<1>4. mirror' = [mirror EXCEPT ![k] = row] /\ boots' = boots
  BY <1>1, <1>3 DEF Store, Inv, StoresOK
<1>5. Store_!Next
  BY <1>1, <1>3, <1>4 DEF Store_!Next, Store_!Add, Store_!Remember
<1>6. OwnersKept
  BY <1>1, <1>3 DEF OwnersKept, Inv, RequestsOK
<1> QED BY <1>1, <1>3, <1>5, <1>6 DEF StoresStep, Inv, RequestsOK

\* Rows go for good.
LEMMA DeleteEffect ==
  ASSUME Inv, NEW K \in SUBSET used, Delete(K), UNCHANGED used
  PROVE  StoresStep
<1>1. K \in SUBSET Key /\ Store(K, None, "delete") /\ boots' = boots
  BY DEF Delete, Store, Inv, RequestsOK
<1>2. /\ [op |-> "delete", row |-> None] \in Write
      /\ \A m : Written(m, [op |-> "delete", row |-> None]) = None
  BY DEF Write, Written
<1>3. /\ StoresOK' /\ Fresh'
      /\ mirror' = [j \in Key |-> IF j \in K THEN None ELSE mirror[j]]
      /\ recent' = [j \in Key |-> recent[j] \cup {mirror'[j]}]
      /\ \A j \in Key : recent'[j] = IF j \in K THEN recent[j] \cup {None} ELSE recent[j]
  BY <1>1, <1>2, StoreEffect
<1>4. Store_!Next
  BY <1>1, <1>3 DEF Store_!Next, Store_!Remove, Store_!Remember
<1>5. OwnersKept
  BY <1>3 DEF OwnersKept, Inv, RequestsOK
<1> QED BY <1>3, <1>4, <1>5 DEF StoresStep, Inv, RequestsOK

\* A room's TURN settings change, and nothing else of its row.
LEMMA TurnEffect ==
  ASSUME Inv, NEW r \in Room, NEW row \in Row, mirror[r] # None, row.owner = mirror[r].owner,
         Store({r}, row, "update"), UNCHANGED used
  PROVE  StoresStep
<1>1. r \in Key /\ GoodKey(r) /\ mirror[r] \in Row /\ mirror[r] \in recent[r] /\ r \in used
  <2>1. r \in Key
    BY DEF Key
  <2> QED BY <2>1 DEF Inv, StoresOK, GoodKey, Good, Fresh
<1>2. [op |-> "update", row |-> row] \in Write
  BY DEF Write
<1>3. Written(mirror[r], [op |-> "update", row |-> row]) = row
  BY <1>1, RowsDifferInTurn DEF Written
<1>4. \A x \in recent[r] : x # None => x.owner = row.owner
  BY <1>1 DEF GoodKey, Good
<1>5. /\ StoresOK' /\ Fresh'
      /\ mirror' = [j \in Key |-> IF j \in {r} THEN row ELSE mirror[j]]
      /\ recent' = [j \in Key |-> recent[j] \cup {mirror'[j]}]
      /\ \A j \in Key : recent'[j] = IF j \in {r} THEN recent[j] \cup {row} ELSE recent[j]
  <2> DEFINE K == {r}
  <2>1. /\ K \in SUBSET Key /\ used \subseteq used' /\ K \subseteq used'
        /\ Store(K, row, "update")
        /\ \A j \in K :
             /\ j \notin shaken => Written(mirror[j], [op |-> "update", row |-> row]) = row
             /\ \A x \in recent[j] : x # None /\ row # None => x.owner = row.owner
    BY <1>1, <1>2, <1>3, <1>4
  <2> HIDE DEF K
  <2>2. /\ StoresOK' /\ Fresh'
        /\ mirror' = [j \in Key |-> IF j \in K THEN row ELSE mirror[j]]
        /\ recent' = [j \in Key |-> recent[j] \cup {mirror'[j]}]
        /\ \A j \in Key : recent'[j] = IF j \in K THEN recent[j] \cup {row} ELSE recent[j]
    BY <1>2, <2>1, StoreEffect
  <2> QED BY <2>2 DEF K
<1>6. mirror' = [mirror EXCEPT ![r] = row] /\ boots' = boots
  BY <1>5 DEF Store, Inv, StoresOK
<1>7. Store_!Next
  BY <1>1, <1>5, <1>6 DEF Store_!Next, Store_!Change, Store_!Remember
<1>8. OwnersKept
  BY <1>1, <1>5 DEF OwnersKept, Inv, RequestsOK
<1> QED BY <1>5, <1>7, <1>8 DEF StoresStep, Inv, RequestsOK

\* A write is committed, in its turn or not, or fails.
LEMMA DatabaseEffect ==
  ASSUME Inv, Database
  PROVE  StoresStep
<1>1. PICK k \in Key : \E i \in DOMAIN writes[k] : Commit(k, i) \/ Fail(k, i)
  BY DEF Database
<1>2. PICK i \in 1..Len(writes[k]) : Commit(k, i) \/ Fail(k, i)
  BY <1>1 DEF Inv, StoresOK
<1> DEFINE s == RemoveAt(writes[k], i)
<1>3. /\ \A j \in Key : GoodKey(j) /\ mirror[j] \in recent[j]
      /\ \A j \in Key : writes[j] = <<>> /\ j \notin shaken => recent[j] = {mirror[j]}
  BY DEF Inv, StoresOK, GoodKey, Good
<1>4. /\ mirror' = mirror /\ boots' = boots /\ used' = used
      /\ writes' = [writes EXCEPT ![k] = s]
      /\ \A j \in Key \ {k} : table'[j] = table[j] /\ writes'[j] = writes[j]
                            /\ (j \in shaken' <=> j \in shaken)
      /\ recent' = [j \in Key |-> IF writes'[j] = <<>> /\ j \notin shaken'
                                  THEN {mirror'[j]} ELSE recent[j] \cup {mirror'[j]}]
      /\ writes'[k] = s
  BY <1>2 DEF Database, Commit, Fail, Remember, CaughtUp, Inv, StoresOK
<1> HIDE DEF s
<1>5. ASSUME NEW j \in Key \ {k} PROVE GoodKey(j)' /\ recent'[j] = recent[j]
  <2>1. recent'[j] = recent[j]
    BY <1>3, <1>4
  <2> QED BY <1>3, <1>4, <2>1 DEF GoodKey
<1>6. /\ GoodKey(k)'
      /\ recent'[k] = recent[k] \/ recent'[k] = {mirror[k]}
      /\ table' \in [Key -> Row \cup {None}] /\ shaken' \subseteq Key
  <2>1. CASE Fail(k, i)
    <3>1. table' = table /\ shaken' = shaken \cup {k}
      BY <2>1 DEF Fail
    <3>2. recent'[k] = recent[k]
      BY <1>3, <1>4, <3>1
    <3>3. Good(mirror[k], table[k], s, TRUE, recent[k])
      BY <1>3, GoodFail DEF GoodKey, s
    <3>4. k \in shaken'
      BY <3>1
    <3>5. GoodKey(k)'
      BY <1>4, <3>1, <3>2, <3>3, <3>4 DEF GoodKey, Good
    <3> QED BY <3>1, <3>2, <3>5 DEF Inv, StoresOK
  <2>2. CASE Commit(k, i)
    <3> DEFINE tb2 == Written(table[k], writes[k][i])
    <3>1. table' = [table EXCEPT ![k] = tb2] /\ table'[k] = tb2
      BY <2>2 DEF Commit, Inv, StoresOK
    <3>2. shaken' = IF i > 1 THEN shaken \cup {k} ELSE shaken
      BY <2>2 DEF Commit
    <3>3. Good(mirror[k], tb2, s, TRUE, recent[k])
      BY <1>3, GoodCommit DEF GoodKey, s
    <3>6. ASSUME i = 1, k \notin shaken
          PROVE  /\ s # <<>> => Good(mirror[k], tb2, s, FALSE, recent[k])
                 /\ s = <<>> => Good(mirror[k], tb2, s, FALSE, {mirror[k]})
      <4>1. Good(mirror[k], table[k], writes[k], FALSE, recent[k])
        BY <1>3, <3>6 DEF GoodKey, Good
      <4> QED BY <3>6, <4>1, GoodCommitFirst DEF s
    <3> HIDE DEF tb2
    <3>4. CASE k \in shaken'
      <4>1. recent'[k] = recent[k]
        BY <1>3, <1>4, <3>4
      <4>2. GoodKey(k)'
        BY <1>4, <3>1, <3>3, <3>4, <4>1 DEF GoodKey, Good
      <4>3. tb2 \in Row \cup {None}
        BY <3>3 DEF Good
      <4> QED BY <3>1, <3>2, <4>1, <4>2, <4>3 DEF Inv, StoresOK
    <3>5. CASE k \notin shaken'
      <4>1. i = 1 /\ k \notin shaken
        BY <3>2, <3>5
      <4>2. recent'[k] = (IF s = <<>> THEN {mirror[k]} ELSE recent[k])
        BY <1>3, <1>4, <3>5
      <4>3. GoodKey(k)'
        BY <1>4, <3>1, <3>5, <3>6, <4>1, <4>2 DEF GoodKey, Good
      <4>4. tb2 \in Row \cup {None}
        BY <3>3 DEF Good
      <4> QED BY <3>1, <3>2, <4>2, <4>3, <4>4 DEF Inv, StoresOK
    <3> QED BY <3>4, <3>5
  <2> QED BY <1>2, <2>1, <2>2
<1>7. StoresOK'
  <2>1. writes' \in [Key -> Seq(Write)]
    BY <1>4, <1>6 DEF Inv, StoresOK, GoodKey, Good
  <2>2. recent' \in [Key -> SUBSET (Row \cup {None})]
    BY <1>4 DEF Inv, StoresOK
  <2> QED BY <1>4, <1>5, <1>6, <2>1, <2>2 DEF Inv, StoresOK
<1>8. k \in used
  <2>1. Len(writes[k]) # 0
    BY <1>2
  <2> QED BY <2>1, EmptySeq DEF Inv, Fresh
<1>9. Fresh'
  BY <1>4, <1>5, <1>8 DEF Inv, Fresh
<1>10. OwnersKept
  BY <1>3, <1>5, <1>6 DEF OwnersKept, Inv, RequestsOK
<1>11. [Store_!Next]_(Store_!vars)
  <2>1. CASE recent'[k] = recent[k]
    <3>1. recent' = recent
      BY <1>4, <1>5, <2>1 DEF Inv, StoresOK
    <3> QED BY <1>4, <3>1 DEF Store_!vars
  <2>2. CASE recent'[k] = {mirror[k]}
    <3>1. recent' = [recent EXCEPT ![k] = {mirror[k]}]
      BY <1>4, <1>5, <2>2 DEF Inv, StoresOK
    <3> QED BY <1>4, <3>1 DEF Store_!Next, Store_!Settle
  <2> QED BY <1>6, <2>1, <2>2
<1> QED BY <1>4, <1>7, <1>9, <1>10, <1>11 DEF StoresStep, Inv, RequestsOK

\* What the tables hold is what the mirrors start from.
LEMMA RestartEffect ==
  ASSUME Inv, Restart
  PROVE  StoresStep
<1>1. /\ mirror' = [k \in Key |-> table[k]]
      /\ table' = table /\ used' = used /\ boots' = boots + 1 /\ boots < MaxBoots
      /\ writes' = [k \in Key |-> <<>>] /\ shaken' = {}
      /\ recent' = [k \in Key |-> {table[k]}]
  BY DEF Restart, loadSessions, loadHelperTokens, loadRooms, Key
<1>2. \A k \in Key : table[k] \in Row \cup {None} /\ table[k] \in recent[k]
  BY DEF Inv, StoresOK, GoodKey, Good
<1>3. ASSUME NEW k \in Key PROVE GoodKey(k)'
  <2>1. Good(table[k], table[k], <<>>, FALSE, {table[k]})
    BY <1>2, GoodRestart
  <2>2. k \notin shaken' /\ mirror'[k] = table[k] /\ writes'[k] = <<>> /\ recent'[k] = {table[k]}
    BY <1>1
  <2> QED BY <1>1, <2>1, <2>2 DEF GoodKey, Good
<1>4. StoresOK'
  <2>1. <<>> \in Seq(Write)
    BY EmptySeq
  <2>2. boots' \in 0..MaxBoots
    BY <1>1, PersistenceAssumption DEF Inv, StoresOK
  <2> QED BY <1>1, <1>2, <1>3, <2>1, <2>2 DEF Inv, StoresOK
<1>5. Fresh'
  BY <1>1, <1>2 DEF Inv, Fresh
<1>6. OwnersKept
  BY <1>1, <1>2 DEF OwnersKept, Inv, RequestsOK
<1>7. Store_!Next
  BY <1>1, <1>2 DEF Store_!Next, Store_!Restart
<1> QED BY <1>1, <1>4, <1>5, <1>6, <1>7 DEF StoresStep, Inv, RequestsOK

\* A request that stores nothing.
LEMMA NoEffect ==
  ASSUME Inv, UNCHANGED <<stores, used>>
  PROVE  StoresStep
<1>1. StoresOK' /\ Fresh' /\ used' = used /\ recent' = recent
  BY DEF stores, Inv, StoresOK, Fresh, GoodKey
<1>2. UNCHANGED Store_!vars
  BY DEF stores, Store_!vars
<1> QED BY <1>1, <1>2 DEF StoresStep, OwnersKept, Inv, RequestsOK

-------------------------------------------------------------------------------
(* The handlers.                                                               *)

\* The devices of a code keep their user, whatever becomes of their rows.
LEMMA PairingKept ==
  ASSUME Inv, StoresStep, UNCHANGED <<minted, devices>>,
         codes' \in [Code -> User \cup {None}], \A c \in Code : codes'[c] \in {codes[c], None}
  PROVE  PairingOK'
<1>1. ASSUME NEW c \in Code PROVE GoodCode(c)'
  <2>1. GoodCode(c)
    BY DEF Inv, PairingOK
  <2>2. ASSUME NEW t \in devices[c]
        PROVE  t \in used' /\ \A x \in recent'[t] \ {None} : x.owner = minted[c]
    BY <2>1 DEF GoodCode, StoresStep, OwnersKept
  <2> QED BY <2>1, <2>2 DEF GoodCode
<1> QED BY <1>1 DEF Inv, PairingOK

\* Most requests change a store and nothing else.
LEMMA OnlyStores ==
  ASSUME Inv, StoresStep, UNCHANGED <<expired, pairing, turning>>
  PROVE  Inv'
<1>1. PairingOK'
  <2>1. codes' = codes /\ codes \in [Code -> User \cup {None}] /\ UNCHANGED <<minted, devices>>
    BY DEF pairing, Inv, PairingOK
  <2> QED BY <2>1, PairingKept
<1>2. RequestsOK'
  BY DEF StoresStep, Inv, RequestsOK
<1> QED BY <1>1, <1>2 DEF StoresStep, Inv

\* What is in a mirror or a table was given out.
LEMMA StoredIsUsed ==
  ASSUME Inv, NEW k \in Key, Stored(k)
  PROVE  k \in used
BY DEF Stored, Inv, Fresh, StoresOK, GoodKey, Good

LEMMA RowIsTyped ==
  ASSUME NEW u \in User, NEW t \in Turn \cup {None}
  PROVE  [owner |-> u, turn |-> t] \in Row
BY DEF Row

LEMMA SessionStep ==
  ASSUME Inv, SessionNext
  PROVE  Inv' /\ StoresStep
<1>1. PICK s \in Session : \/ \E u \in User : createSession(u, s)
                          \/ getSession(s) \/ destroySession(s)
  BY DEF SessionNext
<1>2. s \in Key
  BY DEF Key
<1>3. CASE \E u \in User : createSession(u, s)
  <2>1. PICK u \in User : createSession(u, s)
    BY <1>3
  <2>2. Insert(s, [owner |-> u, turn |-> None]) /\ [owner |-> u, turn |-> None] \in Row
    BY <2>1, RowIsTyped DEF createSession
  <2>3. StoresStep
    BY <1>2, <2>2, InsertEffect
  <2> QED BY <2>1, <2>3, OnlyStores DEF createSession
<1>4. CASE getSession(s) \/ destroySession(s)
  <2>1. Stored(s) /\ Delete({s}) /\ UNCHANGED <<expired, used, pairing, turning>>
    BY <1>4 DEF getSession, destroySession, Stored
  <2>2. {s} \in SUBSET used
    BY <1>2, <2>1, StoredIsUsed
  <2>3. StoresStep
    BY <2>1, <2>2, DeleteEffect
  <2> QED BY <2>1, <2>3, OnlyStores
<1> QED BY <1>1, <1>3, <1>4

\* POST /pair/exchange is where a code meets a device.
LEMMA ExchangeStep ==
  ASSUME Inv, NEW c \in Code, NEW t \in Token, exchange(c, t)
  PROVE  Inv' /\ StoresStep
<1>1. /\ codes[c] # None /\ codes' = [codes EXCEPT ![c] = None]
      /\ UNCHANGED <<expired, minted, turning>>
      /\ t \in Key
  BY DEF exchange, consumePairingCode, Key
<1>2. /\ codes' \in [Code -> User \cup {None}] /\ codes'[c] = None
      /\ \A d \in Code : codes'[d] \in {codes[d], None}
  BY <1>1 DEF Inv, PairingOK
<1>3. GoodCode(c) /\ codes[c] \in User /\ codes[c] = minted[c] /\ devices[c] = {}
  BY <1>1 DEF Inv, PairingOK, GoodCode
<1>4. CASE UNCHANGED <<stores, used, devices>>
  <2>1. StoresStep
    BY <1>4, NoEffect
  <2>2. PairingOK'
    BY <1>1, <1>2, <1>4, <2>1, PairingKept
  <2>3. RequestsOK'
    BY <1>1, <1>4 DEF Inv, RequestsOK
  <2> QED BY <2>1, <2>2, <2>3 DEF Inv, StoresStep
<1>5. CASE /\ Insert(t, [owner |-> codes[c], turn |-> None])
           /\ devices' = [devices EXCEPT ![c] = @ \cup {t}]
  <2>1. PICK u \in User : u = codes[c]
    BY <1>3
  <2>2. Insert(t, [owner |-> u, turn |-> None]) /\ [owner |-> u, turn |-> None] \in Row
    BY <1>5, <2>1, RowIsTyped
  <2>3. /\ StoresStep /\ used' = used \cup {t} /\ t \notin used
        /\ recent'[t] = {None, [owner |-> u, turn |-> None]}
    BY <1>1, <2>2, InsertEffect
  <2>4. devices' \in [Code -> SUBSET Token] /\ devices'[c] = {t}
        /\ \A d \in Code \ {c} : devices'[d] = devices[d] /\ codes'[d] = codes[d]
    BY <1>1, <1>3, <1>5 DEF Inv, PairingOK
  <2>5. GoodCode(c)'
    BY <1>1, <1>2, <1>3, <2>1, <2>3, <2>4 DEF GoodCode
  <2>6. ASSUME NEW d \in Code \ {c} PROVE GoodCode(d)'
    <3>1. GoodCode(d)
      BY DEF Inv, PairingOK
    <3>2. ASSUME NEW e \in devices[d]
          PROVE  e \in used' /\ \A x \in recent'[e] \ {None} : x.owner = minted[d]
      BY <2>3, <3>1 DEF GoodCode, StoresStep, OwnersKept
    <3> QED BY <1>1, <2>4, <3>1, <3>2 DEF GoodCode
  <2>7. PairingOK'
    BY <1>1, <1>2, <2>4, <2>5, <2>6 DEF Inv, PairingOK
  <2>8. RequestsOK'
    BY <1>1, <2>3 DEF Inv, RequestsOK
  <2> QED BY <2>3, <2>7, <2>8 DEF Inv, StoresStep
<1> QED BY <1>4, <1>5 DEF exchange, issueHelperToken

LEMMA PairingStep ==
  ASSUME Inv, PairingNext
  PROVE  Inv' /\ StoresStep
<1>1. CASE \E s \in Session, u \in User, c \in Code : Authorized(s, u) /\ createPairingCode(u, c)
  <2>1. PICK u \in User, c \in Code : createPairingCode(u, c)
    BY <1>1
  <2>2. /\ minted[c] = None /\ UNCHANGED <<stores, expired, used, devices, turning>>
        /\ codes' = [codes EXCEPT ![c] = u] /\ minted' = [minted EXCEPT ![c] = u]
    BY <2>1 DEF createPairingCode
  <2>3. StoresStep
    BY <2>2, NoEffect
  <2>4. /\ codes' \in [Code -> User \cup {None}] /\ minted' \in [Code -> User \cup {None}]
        /\ codes'[c] = u /\ minted'[c] = u /\ devices[c] = {}
        /\ \A d \in Code \ {c} : codes'[d] = codes[d] /\ minted'[d] = minted[d]
    BY <2>2 DEF Inv, PairingOK, GoodCode
  <2>5. u # None
    BY PersistenceAssumption
  <2>6. GoodCode(c)'
    BY <2>2, <2>4, <2>5 DEF GoodCode
  <2>7. recent' = recent
    BY <2>2 DEF stores
  <2>8. ASSUME NEW d \in Code \ {c} PROVE GoodCode(d)'
    BY <2>2, <2>4, <2>7 DEF GoodCode, Inv, PairingOK
  <2>9. PairingOK'
    BY <2>2, <2>4, <2>6, <2>8 DEF Inv, PairingOK
  <2>10. RequestsOK'
    BY <2>2 DEF Inv, RequestsOK
  <2> QED BY <2>3, <2>9, <2>10 DEF Inv, StoresStep
<1>2. CASE \E c \in Code, t \in Token : exchange(c, t)
  BY <1>2, ExchangeStep
<1>3. CASE \/ \E s \in Session, u \in User, t \in Token : Authorized(s, u) /\ revokeHelperToken(u, t)
           \/ \E t \in Token : revokeBearerToken(t)
  <2>1. PICK t \in Token : /\ mirror[t] # None /\ Delete({t})
                           /\ UNCHANGED <<expired, used, pairing, turning>>
    BY <1>3 DEF revokeHelperToken, revokeBearerToken, helperTokensFor
  <2>2. {t} \in SUBSET used
    BY <2>1, StoredIsUsed DEF Stored, Key
  <2>3. StoresStep
    BY <2>1, <2>2, DeleteEffect
  <2> QED BY <2>1, <2>3, OnlyStores
<1> QED BY <1>1, <1>2, <1>3 DEF PairingNext

\* POST /rooms/:id/turn once its body has come.
LEMMA TurnBodyStep ==
  ASSUME Inv, NEW q \in turning, TurnBody(q) \/ TurnBodyRefused(q)
  PROVE  Inv' /\ StoresStep
<1>1. /\ q.room \in Room /\ q.turn \in Turn \cup {None}
      /\ turning' = turning \ {q} /\ UNCHANGED <<expired, used, pairing>>
  BY DEF Inv, RequestsOK, TurnBody, TurnBodyRefused
<1>2. StoresStep
  <2>1. CASE UNCHANGED stores
    BY <1>1, <2>1, NoEffect
  <2>2. CASE /\ mirror[q.room] # None
             /\ Store({q.room}, [mirror[q.room] EXCEPT !.turn = q.turn], "update")
    <3>1. PICK r \in Room : r = q.room
      BY <1>1
    <3>2. mirror[r] \in Row
      BY <2>2, <3>1 DEF Inv, StoresOK, Key
    <3>3. PICK row \in Row : /\ row = [mirror[r] EXCEPT !.turn = q.turn]
                             /\ row.owner = mirror[r].owner
      BY <1>1, <3>2, TurnKeepsOwner
    <3>4. Store({r}, row, "update") /\ mirror[r] # None
      BY <2>2, <3>1, <3>3
    <3> QED BY <1>1, <3>3, <3>4, TurnEffect
  <2> QED BY <2>1, <2>2 DEF TurnBody, TurnBodyRefused, setRoomTurn
<1>3. PairingOK'
  BY <1>1, <1>2, PairingKept DEF pairing, Inv, PairingOK
<1>4. RequestsOK'
  BY <1>1 DEF Inv, RequestsOK
<1> QED BY <1>2, <1>3, <1>4 DEF Inv, StoresStep

LEMMA RoomStep ==
  ASSUME Inv, RoomNext
  PROVE  Inv' /\ StoresStep
<1>1. CASE \E u \in User, r \in Room : createRoom(u, r)
  <2>1. PICK u \in User, r \in Room : createRoom(u, r)
    BY <1>1
  <2>2. /\ Insert(r, [owner |-> u, turn |-> None]) /\ [owner |-> u, turn |-> None] \in Row
        /\ r \in Key /\ UNCHANGED <<expired, pairing, turning>>
    BY <2>1, RowIsTyped DEF createRoom, Key
  <2> QED BY <2>2, InsertEffect, OnlyStores
<1>2. CASE \E u \in User, r \in Room, t \in Turn \cup {None} : TurnChecked(u, r, t)
  <2>1. PICK r \in Room, t \in Turn \cup {None} :
          /\ turning' = turning \cup {[room |-> r, turn |-> t]}
          /\ UNCHANGED <<stores, expired, used, pairing>>
    BY <1>2 DEF TurnChecked
  <2>2. StoresStep
    BY <2>1, NoEffect
  <2>3. RequestsOK'
    BY <2>1 DEF Inv, RequestsOK
  <2>4. PairingOK'
    BY <2>1, <2>2, PairingKept DEF pairing, Inv, PairingOK
  <2> QED BY <2>2, <2>3, <2>4 DEF Inv, StoresStep
<1>3. CASE (\E r \in Room : getRoom(r)) \/ sweepExpiredRooms
  <2>1. PICK K \in SUBSET Room : /\ \A r \in K : mirror[r] # None
                                 /\ Delete(K)
                                 /\ UNCHANGED <<expired, used, pairing, turning>>
    <3>1. CASE \E r \in Room : getRoom(r)
      <4>1. PICK r \in Room : getRoom(r)
        BY <3>1
      <4>2. {r} \in SUBSET Room
        OBVIOUS
      <4> QED BY <4>1, <4>2 DEF getRoom
    <3>2. CASE sweepExpiredRooms
      <4>1. PICK K \in SUBSET Room : K = Overdue
        BY DEF Overdue
      <4>2. \A r \in K : mirror[r] # None
        BY <4>1 DEF Overdue
      <4> QED BY <3>2, <4>1, <4>2 DEF sweepExpiredRooms
    <3> QED BY <1>3, <3>1, <3>2
  <2>2. K \in SUBSET used
    BY <2>1, StoredIsUsed DEF Stored, Key
  <2>3. StoresStep
    BY <2>1, <2>2, DeleteEffect
  <2> QED BY <2>1, <2>3, OnlyStores
<1>4. CASE \E q \in turning : TurnBody(q) \/ TurnBodyRefused(q)
  BY <1>4, TurnBodyStep
<1> QED BY <1>1, <1>2, <1>3, <1>4 DEF RoomNext

LEMMA RestartStep ==
  ASSUME Inv, Restart
  PROVE  Inv' /\ StoresStep
<1>1. StoresStep
  BY RestartEffect
<1>2. /\ codes' = [c \in Code |-> None] /\ turning' = {}
      /\ UNCHANGED <<expired, used, minted, devices>>
  BY DEF Restart
<1>3. PairingOK'
  BY <1>1, <1>2, PairingKept
<1>4. RequestsOK'
  BY <1>2 DEF Inv, RequestsOK
<1> QED BY <1>1, <1>3, <1>4 DEF Inv, StoresStep

LEMMA ExpireStep ==
  ASSUME Inv, \/ \E k \in Session \cup Room : Stored(k) /\ Expire(k)
              \/ \E c \in Code : codes[c] # None /\ Expire(c)
  PROVE  Inv' /\ StoresStep
<1>1. PICK k : k \in used \cup Code /\ Expire(k)
  BY StoredIsUsed DEF Key
<1>2. expired' = expired \cup {k} /\ UNCHANGED <<stores, used, pairing, turning>>
  BY <1>1 DEF Expire
<1>3. StoresStep
  BY <1>2, NoEffect
<1>4. PairingOK'
  BY <1>2, <1>3, PairingKept DEF pairing, Inv, PairingOK
<1>5. RequestsOK'
  BY <1>1, <1>2 DEF Inv, RequestsOK
<1> QED BY <1>3, <1>4, <1>5 DEF Inv, StoresStep

-------------------------------------------------------------------------------
(* The theorems.                                                               *)

LEMMA InitHolds == Init => Inv /\ Store_!Init
<1> SUFFICES ASSUME Init PROVE Inv /\ Store_!Init
  OBVIOUS
<1>1. PICK u \in User, K \in SUBSET Token :
        /\ table = [k \in Key |-> IF k \in K THEN [owner |-> u, turn |-> None] ELSE None]
        /\ used = K
  BY DEF Init
<1>2. /\ mirror = table /\ writes = [k \in Key |-> <<>>]
      /\ expired = {} /\ turning = {} /\ shaken = {} /\ boots = 0
      /\ codes = [c \in Code |-> None] /\ minted = [c \in Code |-> None]
      /\ devices = [c \in Code |-> {}]
      /\ recent = [k \in Key |-> {table[k]}]
  BY DEF Init
<1>3. [owner |-> u, turn |-> None] \in Row
  BY RowIsTyped
<1>4. \A k \in Key : table[k] \in Row \cup {None} /\ (k \notin K => table[k] = None)
  BY <1>1, <1>3
<1>5. table \in [Key -> Row \cup {None}]
  BY <1>1, <1>3
<1>6. ASSUME NEW k \in Key PROVE GoodKey(k)
  <2>1. Good(table[k], table[k], <<>>, FALSE, {table[k]})
    BY <1>4, GoodRestart
  <2> QED BY <1>2, <2>1 DEF GoodKey, Good
<1>7. StoresOK
  <2>1. <<>> \in Seq(Write)
    BY EmptySeq
  <2> QED BY <1>2, <1>4, <1>5, <1>6, <2>1, PersistenceAssumption DEF StoresOK
<1>8. Fresh /\ RequestsOK
  BY <1>1, <1>2, <1>4 DEF Fresh, RequestsOK, Key
<1>9. PairingOK
  BY <1>2 DEF PairingOK, GoodCode
<1>10. Store_!Init
  <2>1. \A k \in Key : k \in K <=> mirror[k] # None
    BY <1>1, <1>2, <1>3, NoneIsNoRow
  <2>2. used = {k \in Key : mirror[k] # None}
    BY <1>1, <2>1 DEF Key
  <2> QED BY <1>2, <1>5, <2>2 DEF Store_!Init
<1> QED BY <1>7, <1>8, <1>9, <1>10 DEF Inv

LEMMA StepHolds == Inv /\ [Next]_vars => Inv' /\ [Store_!Next]_(Store_!vars)
<1>1. ASSUME Inv, Next PROVE Inv' /\ StoresStep
  <2>1. CASE Database
    BY <1>1, <2>1, DatabaseEffect, OnlyStores DEF Database
  <2> QED BY <1>1, <2>1, SessionStep, PairingStep, RoomStep, RestartStep, ExpireStep DEF Next
<1>2. ASSUME Inv, UNCHANGED vars PROVE Inv' /\ StoresStep
  <2>1. UNCHANGED <<stores, used>> /\ UNCHANGED <<expired, pairing, turning>>
    BY <1>2 DEF vars, stores, pairing
  <2> QED BY <1>2, <2>1, NoEffect, OnlyStores
<1> QED BY <1>1, <1>2 DEF StoresStep

LEMMA InvHolds == Spec => []Inv
BY InitHolds, StepHolds, PTL DEF Spec

\* The mirrors, the tables, the writes between them and the pairing codes are well formed,
\* for any number of users, keys, codes, writes under way and restarts.
THEOREM TypeCorrect == Spec => []TypeOK
<1>1. Inv => TypeOK
  BY DEF Inv, StoresOK, RequestsOK, PairingOK, TypeOK
<1> QED BY <1>1, InvHolds, PTL

\* A pairing code brings at most one device, to the account it was minted for, whatever
\* becomes of the device's row in the database.
THEOREM OneDevicePerCode == Spec => []PairsOneDevice
<1>1. ASSUME Inv, NEW c \in Code
      PROVE  /\ Cardinality(devices[c]) <= 1
             /\ \A t \in devices[c] : mirror[t] # None => mirror[t].owner = minted[c]
  <2>1. GoodCode(c)
    BY <1>1 DEF Inv, PairingOK
  <2>2. Cardinality(devices[c]) <= 1
    <3>1. CASE devices[c] = {}
      BY <3>1, FS_EmptySet
    <3>2. CASE devices[c] # {}
      <4>1. PICK t : devices[c] = {t}
        BY <2>1, <3>2 DEF GoodCode
      <4>2. Cardinality(devices[c]) = 1
        BY <4>1, FS_Singleton
      <4> QED BY <4>2
    <3> QED BY <3>1, <3>2
  <2>3. \A t \in devices[c] : mirror[t] \in recent[t]
    BY <1>1 DEF Inv, PairingOK, StoresOK, GoodKey, Good, Key
  <2> QED BY <2>1, <2>2, <2>3 DEF GoodCode
<1>2. Inv => PairsOneDevice
  BY <1>1 DEF PairsOneDevice
<1> QED BY <1>2, InvHolds, PTL

\* However the database reorders, loses or fails the writes that nobody awaits, the server's
\* stores do what module DurableStore promises.
THEOREM ImplementsDurableStore == Spec => ImplementsStore
BY InitHolds, StepHolds, InvHolds, PTL DEF Spec, ImplementsStore, Store_!Spec
==============================================================================
