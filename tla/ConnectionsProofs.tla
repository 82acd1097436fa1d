------------------------- MODULE ConnectionsProofs -------------------------
(***************************************************************************)
(* Proofs about the table of client connections, for any number of slots,  *)
(* addresses, services and connections allowed to one address.             *)
(***************************************************************************)
EXTENDS Connections, RankingProofs

ConnType ==
  [open : BOOLEAN, index : Slots, ip : Addresses \cup {Unset},
   service : Services \cup {Unset}, connected : 0 .. Never]

InService(cs, b) == {s \in Slots : cs[s].service = b}
OpenIn(cs) == {s \in Slots : cs[s].open}
FromIn(cs, ip) == {s \in Slots : cs[s].open /\ cs[s].ip = ip}

\* A connected client's record names its own slot and carries a date.
Dated(cs) == \A s \in Slots : cs[s].open => cs[s].index = s /\ cs[s].connected < Never

\* A block counts every slot that bears its name.  More than the clients it
\* has: a slot closed while its client was being let in keeps the name.
Counted(cs, n) == \A b \in Blocks : n[b] >= Cardinality(InService(cs, b))

\* What only the login server keeps: every client is listed, no address has
\* more than its share, and a slot without client carries no date.
Complete(cs, l) ==
  /\ OpenIn(cs) \subseteq ToSet(l)
  /\ \A ip \in Addresses : Cardinality(FromIn(cs, ip)) <= Limit
  /\ \A s \in Slots : ~cs[s].open => cs[s].connected = Never

Sound(cs, l) == ToSet(l) \subseteq OpenIn(cs) /\ Distinct(l)

TableInv ==
  /\ TableTypeOK
  /\ Sound(connections, serverConnectionList)
  /\ Dated(connections)
  /\ Counted(connections, block_count)
  /\ ~IsShip => Complete(connections, serverConnectionList) /\ ~blockConnections

\* The invariant, in terms of the four parts a step changes.
InvOf(cs, l, n) ==
  /\ cs \in [Slots -> ConnType] /\ l \in Seq(Slots) /\ n \in [Blocks -> Int]
  /\ Sound(cs, l) /\ Dated(cs) /\ Counted(cs, n)
  /\ ~IsShip => Complete(cs, l)

LEMMA TableInvIs ==
  TableInv <=> /\ InvOf(connections, serverConnectionList, block_count)
               /\ blockConnections \in BOOLEAN /\ servertime \in 0 .. MaxTime
               /\ ~IsShip => ~blockConnections
BY DEF TableInv, InvOf, TableTypeOK, ConnType

LEMMA TableInvIsNext ==
  TableInv' <=> /\ InvOf(connections', serverConnectionList', block_count')
                /\ blockConnections' \in BOOLEAN /\ servertime' \in 0 .. MaxTime
                /\ ~IsShip => ~blockConnections'
BY DEF TableInv, InvOf, TableTypeOK, ConnType, Sound, OpenIn, Dated, Counted, InService,
       Complete, FromIn

LEMMA SlotsFinite ==
  /\ IsFiniteSet(Slots) /\ Slots \subseteq Nat /\ 0 \in Slots
  /\ Never \in Nat /\ MaxTime < Never /\ 0 .. MaxTime \subseteq 0 .. Never
<1>1. MaxConnections \in Nat \ {0} /\ MaxTime \in Nat BY ConnectionsAssumption
<1>2. 0 \in Int /\ MaxConnections - 1 \in Int BY <1>1
<1>3. IsFiniteSet(0 .. MaxConnections - 1) BY <1>2, FS_Interval
<1> QED BY <1>1, <1>3 DEF Slots, Never

LEMMA ClosedIs ==
  /\ Closed \in ConnType /\ ~Closed.open /\ Closed.index = 0
  /\ Closed.service = Unset /\ Unset \notin Blocks /\ Unset \notin Addresses /\ Closed.ip = Unset
  /\ ~IsShip => Closed.connected = Never
<1>1. Unset \notin Addresses \cup Services /\ Blocks \subseteq Services BY ConnectionsAssumption
<1>2. 0 \in 0 .. Never /\ Never \in 0 .. Never BY SlotsFinite
<1>3. Closed \in ConnType BY <1>2, SlotsFinite DEF Closed, ConnType
<1>4. /\ ~Closed.open /\ Closed.index = 0 /\ Closed.service = Unset /\ Closed.ip = Unset
      /\ ~IsShip => Closed.connected = Never
  BY DEF Closed
<1> QED BY <1>1, <1>3, <1>4

----------------------------------------------------------------------------
(* Operators                                                               *)

LEMMA UnlistedIs ==
  ASSUME NEW l \in Seq(Slots), NEW i
  PROVE  /\ Unlisted(l, i) \in Seq(Slots) /\ ToSet(Unlisted(l, i)) = ToSet(l) \ {i}
         /\ Distinct(l) => Distinct(Unlisted(l, i))
<1> DEFINE K == {k \in 1 .. Len(l) : l[k] # i}
           G == {i}
<1>1. K \in SUBSET (1 .. Len(l)) /\ \A k \in 1 .. Len(l) : k \in K <=> l[k] \notin G OBVIOUS
<1>2. Unlisted(l, i) = Kept(l, K) BY DEF Unlisted
<1> HIDE DEF K, G
<1>3. /\ Kept(l, K) \in Seq(Slots) /\ ToSet(Kept(l, K)) = ToSet(l) \ G
      /\ Distinct(l) => Distinct(Kept(l, K))
  BY <1>1, KeptOut
<1> QED BY <1>2, <1>3 DEF G

LEMMA FreeConnection ==
  ASSUME FreeSlots # {}
  PROVE  free_connection \in Slots /\ ~connections[free_connection].open
<1> DEFINE f == [t \in Slots |-> t]
<1>1. \A t \in FreeSlots : t \in Slots /\ f[t] \in Nat /\ f[t] = t BY SlotsFinite DEF FreeSlots
<1> HIDE DEF f
<1>2. \E s \in FreeSlots : \A t \in FreeSlots : f[s] <= f[t] BY <1>1, LeastBy
<1>3. \E s \in FreeSlots : \A t \in FreeSlots : s <= t BY <1>1, <1>2
<1>4. free_connection \in FreeSlots BY <1>3 DEF free_connection
<1> QED BY <1>4 DEF FreeSlots

\* Whoever start_encryption closes has been connected from the address, since
\* the earliest date of all that have; and if there are too many, and one of
\* them carries a date, it closes one.
LEMMA OldestIs ==
  ASSUME NEW l \in Seq(Slots), NEW cs \in [Slots -> ConnType], NEW ip,
         NEW same, same = {t \in ToSet(l) : cs[t].open /\ cs[t].ip = ip},
         NEW dated, dated = {t \in same : cs[t].connected < Never}
  PROVE  /\ Oldest(l, cs, ip) \subseteq dated
         /\ \A t \in Oldest(l, cs, ip), u \in dated : cs[t].connected <= cs[u].connected
         /\ Cardinality(same) > Limit /\ dated # {} => Oldest(l, cs, ip) # {}
<1> DEFINE K == {k \in 1 .. Len(l) : cs[l[k]].open /\ cs[l[k]].ip = ip}
           D == {k \in K : cs[l[k]].connected < Never}
           first == {k \in D : \A j \in D :
                       \/ cs[l[k]].connected < cs[l[j]].connected
                       \/ cs[l[k]].connected = cs[l[j]].connected /\ k <= j}
<1>1. Oldest(l, cs, ip) = IF Cardinality(K) > Limit THEN {l[k] : k \in first} ELSE {}
  BY DEF Oldest
<1>2. /\ \A k \in 1 .. Len(l) : l[k] \in ToSet(l) /\ l[k] \in Slots
      /\ \A t \in ToSet(l) : \E k \in 1 .. Len(l) : t = l[k]
  BY DEF ToSet
<1>3. \A t \in Slots : cs[t].connected \in Nat
  <2>1. \A t \in Slots : cs[t].connected \in 0 .. Never BY DEF ConnType
  <2> QED BY <2>1, SlotsFinite
<1>4. first \subseteq D /\ D \subseteq K /\ K \subseteq 1 .. Len(l) OBVIOUS
<1>5. \A k \in D : l[k] \in dated /\ l[k] \in same BY <1>2
<1>6. \A t \in dated : \E k \in D : t = l[k] BY <1>2
<1>7. \A k \in first, j \in D : cs[l[k]].connected <= cs[l[j]].connected BY <1>2, <1>3
<1>8. ASSUME dated # {} PROVE first # {}
  <2> DEFINE since == [k \in D |-> cs[l[k]].connected]
             E == {k \in D : \A j \in D : since[k] <= since[j]}
             place == [k \in E |-> k]
  <2>1. D # {} BY <1>6, <1>8
  <2>2. \A k \in D : since[k] \in Nat /\ since[k] = cs[l[k]].connected BY <1>2, <1>3
  <2> HIDE DEF since
  <2>3. \E k \in D : \A j \in D : since[k] <= since[j]
    <3> HIDE DEF K, D, E, first, place
    <3>1. \A k \in D : since[k] \in Nat BY <2>2
    <3> QED BY <2>1, <3>1, LeastBy
  <2>4. E # {} BY <2>3
  <2>8. \A k \in D : k \in Nat
    <3>1. 1 .. Len(l) \subseteq Nat OBVIOUS
    <3> HIDE DEF K, D
    <3> QED BY <1>4, <3>1
  <2>5. \A k \in E : place[k] \in Nat /\ place[k] = k
    <3> HIDE DEF K, D
    <3> QED BY <2>8
  <2> HIDE DEF place
  <2>9. \E k \in E : \A j \in E : place[k] <= place[j]
    <3> HIDE DEF K, D, E, first
    <3>1. \A k \in E : place[k] \in Nat BY <2>5
    <3> QED BY <2>4, <3>1, LeastBy
  <2>6. PICK k \in E : \A j \in E : place[k] <= place[j] BY <2>9
  <2>7. ASSUME NEW j \in D
        PROVE  \/ cs[l[k]].connected < cs[l[j]].connected
               \/ cs[l[k]].connected = cs[l[j]].connected /\ k <= j
    <3>1. since[k] <= since[j] /\ since[k] \in Nat /\ since[j] \in Nat BY <2>2, <2>6
    <3>2. CASE since[k] < since[j] BY <2>2, <2>6, <3>2
    <3>3. CASE since[k] = since[j]
      <4>1. j \in E BY <2>2, <2>6, <3>3
      <4>2. k <= j BY <2>5, <2>6, <4>1
      <4> QED BY <2>2, <2>6, <3>3, <4>2
    <3> QED BY <3>1, <3>2, <3>3
  <2> QED BY <2>6, <2>7
<1>9. Cardinality(same) <= Cardinality(K) /\ Cardinality(same) \in Nat /\ Cardinality(K) \in Nat
  <2> DEFINE f == [k \in K |-> l[k]]
  <2>1. \A n \in Nat : IsFiniteSet(1 .. n)
    <3>1. ASSUME NEW n \in Nat PROVE IsFiniteSet(1 .. n) BY FS_Interval
    <3> QED BY <3>1
  <2>2. IsFiniteSet(K)
    <3>1. IsFiniteSet(1 .. Len(l)) BY <2>1
    <3> QED BY <3>1, <1>4, FS_Subset
  <2>3. f \in [K -> same] BY <1>2
  <2>4. \A t \in same : \E k \in K : f[k] = t BY <1>2
  <2>5. f \in Surjection(K, same) BY <2>3, <2>4 DEF Surjection
  <2>6. IsFiniteSet(same) /\ Cardinality(same) <= Cardinality(K) BY <2>2, <2>5, FS_Surjection
  <2> QED BY <2>2, <2>6, FS_CardinalityType
<1> HIDE DEF K, D, first
<1>10. Oldest(l, cs, ip) \subseteq dated BY <1>1, <1>4, <1>5
<1>11. \A t \in Oldest(l, cs, ip), u \in dated : cs[t].connected <= cs[u].connected
  <2>1. ASSUME NEW t \in Oldest(l, cs, ip), NEW u \in dated
        PROVE  cs[t].connected <= cs[u].connected
    <3>0. Oldest(l, cs, ip) = {l[k] : k \in first} BY <1>1
    <3>1. PICK k \in first : t = l[k] BY <3>0
    <3>2. PICK j \in D : u = l[j] BY <1>6
    <3> QED BY <1>7, <3>1, <3>2
  <2> QED BY <2>1
<1>12. Cardinality(same) > Limit /\ dated # {} => Oldest(l, cs, ip) # {}
  <2>1. Limit \in Nat BY ConnectionsAssumption
  <2>2. ASSUME Cardinality(same) > Limit, dated # {} PROVE Oldest(l, cs, ip) # {}
    <3>1. Cardinality(K) > Limit BY <1>9, <2>1, <2>2
    <3>2. PICK k \in first : TRUE BY <1>8, <2>2
    <3>3. l[k] \in Oldest(l, cs, ip) BY <1>1, <3>1, <3>2
    <3> QED BY <3>3
  <2> QED BY <2>2
<1> QED BY <1>10, <1>11, <1>12

----------------------------------------------------------------------------
(* Closing a connection                                                    *)

\* Its block's count follows, and the other slots are as they were.
LEMMA ClosedSlot ==
  ASSUME NEW cs \in [Slots -> ConnType], NEW n \in [Blocks -> Int], NEW s \in Slots,
         Counted(cs, n)
  PROVE  LET ct == [cs EXCEPT ![s] = Closed]
             m == Left(n, cs[s].service)
         IN  /\ ct \in [Slots -> ConnType] /\ m \in [Blocks -> Int] /\ Counted(ct, m)
             /\ OpenIn(ct) = OpenIn(cs) \ {s}
             /\ \A ip : FromIn(ct, ip) = FromIn(cs, ip) \ {s}
<1> DEFINE ct == [cs EXCEPT ![s] = Closed]
           m == Left(n, cs[s].service)
<1>1. ct \in [Slots -> ConnType] BY ClosedIs
<1>2. m \in [Blocks -> Int] BY DEF Left
<1>3. ASSUME NEW b \in Blocks PROVE m[b] >= Cardinality(InService(ct, b))
  <2>1. InService(ct, b) = InService(cs, b) \ {s} BY ClosedIs DEF InService
  <2>2. IsFiniteSet(InService(cs, b)) BY SlotsFinite, FS_Subset DEF InService
  <2>3. n[b] >= Cardinality(InService(cs, b)) /\ n[b] \in Int BY DEF Counted
  <2>4. Cardinality(InService(cs, b)) \in Nat BY <2>2, FS_CardinalityType
  <2>5. CASE s \in InService(cs, b)
    <3>1. m[b] = n[b] - 1 BY <2>5 DEF InService, Left
    <3>2. Cardinality(InService(ct, b)) = Cardinality(InService(cs, b)) - 1
      BY <2>1, <2>2, <2>5, FS_RemoveElement
    <3> QED BY <2>3, <2>4, <3>1, <3>2
  <2>6. CASE s \notin InService(cs, b)
    <3>1. m[b] = n[b] BY <2>6 DEF InService, Left
    <3>2. InService(ct, b) = InService(cs, b) BY <2>1, <2>6
    <3> QED BY <2>3, <3>1, <3>2
  <2> QED BY <2>5, <2>6
<1>4. OpenIn(ct) = OpenIn(cs) \ {s} BY ClosedIs DEF OpenIn
<1>5. ASSUME NEW ip PROVE FromIn(ct, ip) = FromIn(cs, ip) \ {s} BY ClosedIs DEF FromIn
<1> HIDE DEF ct, m
<1>6. Counted(ct, m) BY <1>3 DEF Counted
<1> QED BY <1>1, <1>2, <1>4, <1>5, <1>6 DEF ct, m

\* Closing the slot s, whose record names slot i: the slot itself, or a free
\* slot on the ship.
LEMMA CloseOne ==
  ASSUME NEW cs \in [Slots -> ConnType], NEW l \in Seq(Slots), NEW n \in [Blocks -> Int],
         InvOf(cs, l, n), NEW s \in Slots, NEW i,
         IF cs[s].open THEN i = s ELSE IsShip
  PROVE  InvOf([cs EXCEPT ![s] = Closed], Unlisted(l, i), Left(n, cs[s].service))
<1> DEFINE ct == [cs EXCEPT ![s] = Closed]
           k == Unlisted(l, i)
           m == Left(n, cs[s].service)
<1>1. Sound(cs, l) /\ Dated(cs) /\ Counted(cs, n) /\ (~IsShip => Complete(cs, l)) BY DEF InvOf
<1>2. /\ ct \in [Slots -> ConnType] /\ m \in [Blocks -> Int] /\ Counted(ct, m)
      /\ OpenIn(ct) = OpenIn(cs) \ {s}
      /\ \A ip : FromIn(ct, ip) = FromIn(cs, ip) \ {s}
  BY <1>1, ClosedSlot
<1>3. k \in Seq(Slots) /\ ToSet(k) = ToSet(l) \ {i} /\ (Distinct(l) => Distinct(k))
  BY UnlistedIs
<1>4. \A t \in Slots : ct[t] = IF t = s THEN Closed ELSE cs[t] OBVIOUS
<1> HIDE DEF ct, k, m
<1>5. Sound(ct, k)
  <2>1. ToSet(k) \subseteq OpenIn(ct)
    <3>1. CASE cs[s].open BY <1>1, <1>2, <1>3, <3>1 DEF Sound
    <3>2. CASE ~cs[s].open
      <4>1. s \notin OpenIn(cs) BY <3>2 DEF OpenIn
      <4> QED BY <1>1, <1>2, <1>3, <4>1 DEF Sound
    <3> QED BY <3>1, <3>2
  <2> QED BY <1>1, <1>3, <2>1 DEF Sound
<1>6. Dated(ct) BY <1>1, <1>4, ClosedIs DEF Dated
<1>7. ASSUME ~IsShip PROVE Complete(ct, k)
  <2>1. Complete(cs, l) /\ i = s BY <1>1, <1>7
  <2>2. OpenIn(ct) \subseteq ToSet(k) BY <1>2, <1>3, <2>1 DEF Complete
  <2>3. ASSUME NEW ip \in Addresses PROVE Cardinality(FromIn(ct, ip)) <= Limit
    <3>1. IsFiniteSet(FromIn(cs, ip)) BY SlotsFinite, FS_Subset DEF FromIn
    <3>2. FromIn(ct, ip) \in SUBSET FromIn(cs, ip) BY <1>2
    <3>3. Cardinality(FromIn(ct, ip)) <= Cardinality(FromIn(cs, ip)) BY <3>1, <3>2, FS_Subset
    <3>4. Cardinality(FromIn(ct, ip)) \in Nat /\ Cardinality(FromIn(cs, ip)) \in Nat
      BY <3>1, <3>2, FS_Subset, FS_CardinalityType
    <3>5. Cardinality(FromIn(cs, ip)) <= Limit /\ Limit \in Nat
      BY <2>1, ConnectionsAssumption DEF Complete
    <3> QED BY <3>3, <3>4, <3>5
  <2>4. \A t \in Slots : ~ct[t].open => ct[t].connected = Never
    BY <1>4, <1>7, <2>1, ClosedIs DEF Complete
  <2> QED BY <2>2, <2>3, <2>4 DEF Complete
<1> QED BY <1>2, <1>3, <1>5, <1>6, <1>7 DEF InvOf, ct, k, m

----------------------------------------------------------------------------
(* Letting a client in                                                     *)

\* What Accept does, slot by slot: the client from ip gets slot s, and the
\* connections in "gone" are closed.
Admits(ip, service, s, gone) ==
  /\ s \in Slots /\ ~connections[s].open
  /\ gone \subseteq {t \in ToSet(serverConnectionList) : connections[t].ip = ip} \cup {s}
  /\ connections' \in [Slots -> ConnType]
  /\ \A t \in Slots \ {s} : connections'[t] = IF t \in gone THEN Closed ELSE connections[t]
  /\ connections'[s].service = service /\ connections'[s].connected = servertime
  /\ connections'[s].open <=> s \notin gone
  /\ connections'[s].open => connections'[s].index = s /\ connections'[s].ip = ip
  /\ serverConnectionList' \in Seq(Slots) /\ Distinct(serverConnectionList')
  /\ ToSet(serverConnectionList') = (ToSet(serverConnectionList) \cup {s}) \ gone
  /\ block_count' \in [Blocks -> Int]
  /\ \A b \in Blocks :
       block_count'[b] = block_count[b] - Cardinality({t \in gone : connections[t].service = b})
                           + (IF b = service THEN 1 ELSE 0)

\* On the login server: the newcomer stays, and if its address now has too
\* many, the connection of the earliest date goes.
MakesRoom(ip, s, gone) ==
  LET same == FromIn(connections, ip) IN
  /\ s \notin gone
  /\ \A t \in gone, u \in same : connections[t].connected <= connections[u].connected
  /\ Cardinality(same \cup {s}) > Limit => gone # {}

LEMMA AcceptIs ==
  ASSUME TableInv, NEW ip \in Addresses, NEW service \in Services, Accept(ip, service)
  PROVE  \E gone : /\ Admits(ip, service, free_connection, gone)
                   /\ ~IsShip => MakesRoom(ip, free_connection, gone)
<1> DEFINE s == free_connection
           listed == Append(serverConnectionList, s)
           came == [connections EXCEPT ![s] = [@ EXCEPT !.open = TRUE, !.index = s, !.ip = ip]]
           gone == Oldest(listed, came, ip)
           kept == [t \in Slots |-> IF t \in gone THEN Closed ELSE came[t]]
           left == [b \in Blocks |->
                      block_count[b] - Cardinality({t \in gone : came[t].service = b})]
           K == {k \in 1 .. Len(listed) : listed[k] \notin gone}
           same == {t \in ToSet(listed) : came[t].open /\ came[t].ip = ip}
           dated == {t \in same : came[t].connected < Never}
           tkept == [kept EXCEPT ![s].connected = servertime, ![s].service = service]
<1>1. /\ FreeSlots # {}
      /\ connections' = tkept
      /\ serverConnectionList' = Kept(listed, K) /\ block_count' = Came(left, service)
  BY DEF Accept
<1>2. /\ connections \in [Slots -> ConnType] /\ serverConnectionList \in Seq(Slots)
      /\ block_count \in [Blocks -> Int] /\ servertime \in 0 .. MaxTime
      /\ Sound(connections, serverConnectionList) /\ Dated(connections)
      /\ ~IsShip => Complete(connections, serverConnectionList)
  BY TableInvIs DEF InvOf
<1>3. s \in Slots /\ ~connections[s].open BY <1>1, FreeConnection
<1>4. /\ came \in [Slots -> ConnType]
      /\ \A t \in Slots \ {s} : came[t] = connections[t]
      /\ came[s].open /\ came[s].index = s /\ came[s].ip = ip
      /\ \A t \in Slots : /\ came[t].service = connections[t].service
                          /\ came[t].connected = connections[t].connected
  <2> DEFINE new == [connections[s] EXCEPT !.open = TRUE, !.index = s, !.ip = ip]
  <2>1. connections[s] \in ConnType BY <1>2, <1>3
  <2>2. /\ new \in ConnType /\ new.open /\ new.index = s /\ new.ip = ip
        /\ new.service = connections[s].service /\ new.connected = connections[s].connected
    BY <1>3, <2>1 DEF ConnType
  <2>3. came = [connections EXCEPT ![s] = new] OBVIOUS
  <2> HIDE DEF came, new, s
  <2>4. came[s] = new /\ \A t \in Slots \ {s} : came[t] = connections[t] BY <1>2, <1>3, <2>3
  <2>5. came \in [Slots -> ConnType] BY <1>2, <1>3, <2>2, <2>3
  <2> QED BY <2>2, <2>4, <2>5
<1>5. /\ listed \in Seq(Slots) /\ Len(listed) = Len(serverConnectionList) + 1
      /\ \A k \in 1 .. Len(serverConnectionList) : listed[k] = serverConnectionList[k]
      /\ listed[Len(serverConnectionList) + 1] = s
  BY <1>2, <1>3, AppendProperties
<1>6. DOMAIN tkept = Slots /\ \A t \in Slots \ {s} : tkept[t] = IF t \in gone THEN Closed ELSE came[t]
  OBVIOUS
<1>7. tkept[s] = [(IF s \in gone THEN Closed ELSE came[s]) EXCEPT !.connected = servertime,
                                                                  !.service = service]
  BY <1>3
<1>8. \A b \in Blocks : left[b] = block_count[b] - Cardinality({t \in gone : came[t].service = b})
  OBVIOUS
<1>9. K \in SUBSET (1 .. Len(listed)) /\ \A k \in 1 .. Len(listed) : k \in K <=> listed[k] \notin gone
  OBVIOUS
<1>10. /\ gone \subseteq dated
       /\ \A t \in gone, u \in dated : came[t].connected <= came[u].connected
       /\ Cardinality(same) > Limit /\ dated # {} => gone # {}
  <2>1. listed \in Seq(Slots) /\ came \in [Slots -> ConnType] BY <1>4, <1>5
  <2> HIDE DEF came, listed
  <2>2. /\ same = {t \in ToSet(listed) : came[t].open /\ came[t].ip = ip}
        /\ dated = {t \in same : came[t].connected < Never}
    OBVIOUS
  <2> HIDE DEF same, dated
  <2> QED BY <2>1, <2>2, OldestIs
<1>11. left \in [Blocks -> Int]
  <2>1. IsFiniteSet(gone)
    <3>0. ToSet(listed) \subseteq Slots BY <1>5 DEF ToSet
    <3> HIDE DEF gone, listed, came
    <3>1. gone \in SUBSET Slots BY <1>10, <3>0
    <3> QED BY <3>1, SlotsFinite, FS_Subset
  <2>2. ASSUME NEW b \in Blocks
        PROVE  block_count[b] - Cardinality({t \in gone : came[t].service = b}) \in Int
    <3> HIDE DEF gone, came
    <3>1. Cardinality({t \in gone : came[t].service = b}) \in Nat
      BY <2>1, FS_Subset, FS_CardinalityType
    <3> QED BY <1>2, <3>1
  <2> QED BY <2>2
<1> HIDE DEF s, listed, came, gone, kept, left, K, tkept, same, dated
<1>12. ToSet(listed) = ToSet(serverConnectionList) \cup {s}
  <2>1. /\ DOMAIN listed = 1 .. Len(serverConnectionList) + 1
        /\ DOMAIN serverConnectionList = 1 .. Len(serverConnectionList)
        /\ Len(serverConnectionList) \in Nat
    BY <1>2, <1>5
  <2>2. ToSet(listed) \subseteq ToSet(serverConnectionList) \cup {s}
    <3>1. ASSUME NEW k \in 1 .. Len(serverConnectionList) + 1
          PROVE  listed[k] \in ToSet(serverConnectionList) \cup {s}
      <4>1. CASE k = Len(serverConnectionList) + 1 BY <1>5, <4>1
      <4>2. CASE k # Len(serverConnectionList) + 1
        <5>1. k \in 1 .. Len(serverConnectionList) BY <2>1, <4>2
        <5> QED BY <1>5, <2>1, <5>1 DEF ToSet
      <4> QED BY <4>1, <4>2
    <3> QED BY <2>1, <3>1 DEF ToSet
  <2>3. ToSet(serverConnectionList) \subseteq ToSet(listed)
    <3>1. ASSUME NEW k \in 1 .. Len(serverConnectionList)
          PROVE  serverConnectionList[k] \in ToSet(listed)
      <4>1. k \in 1 .. Len(serverConnectionList) + 1 BY <2>1
      <4> QED BY <1>5, <2>1, <4>1 DEF ToSet
    <3> QED BY <2>1, <3>1 DEF ToSet
  <2>4. s \in ToSet(listed)
    <3>1. Len(serverConnectionList) + 1 \in 1 .. Len(serverConnectionList) + 1 BY <2>1
    <3> QED BY <1>5, <2>1, <3>1 DEF ToSet
  <2> QED BY <2>2, <2>3, <2>4
<1>13. s \notin ToSet(serverConnectionList) /\ ToSet(serverConnectionList) \subseteq Slots
  BY <1>2, <1>3 DEF Sound, OpenIn
<1>14. Distinct(listed)
  <2>1. /\ Len(serverConnectionList) \in Nat /\ Distinct(serverConnectionList)
        /\ \A k \in 1 .. Len(serverConnectionList) : listed[k] # s
    BY <1>2, <1>5, <1>13 DEF ToSet, Sound
  <2>2. ASSUME NEW i \in 1 .. Len(listed), NEW j \in 1 .. Len(listed), listed[i] = listed[j]
        PROVE  i = j
    <3>1. \A k \in 1 .. Len(listed) :
            k \in 1 .. Len(serverConnectionList) \/ k = Len(serverConnectionList) + 1
      BY <1>5, <2>1
    <3> QED BY <1>5, <2>1, <2>2, <3>1 DEF Distinct
  <2> QED BY <2>2 DEF Distinct
<1>15. /\ serverConnectionList' \in Seq(Slots) /\ Distinct(serverConnectionList')
       /\ ToSet(serverConnectionList') = (ToSet(serverConnectionList) \cup {s}) \ gone
  <2>1. /\ Kept(listed, K) \in Seq(Slots) /\ ToSet(Kept(listed, K)) = ToSet(listed) \ gone
        /\ Distinct(listed) => Distinct(Kept(listed, K))
    BY <1>5, <1>9, KeptOut
  <2> QED BY <1>1, <1>12, <1>14, <2>1
<1>16. same = (FromIn(connections, ip) \cap ToSet(serverConnectionList)) \cup {s}
  BY <1>3, <1>4, <1>12, <1>13 DEF same, FromIn
<1>17. gone \subseteq {t \in ToSet(serverConnectionList) : connections[t].ip = ip} \cup {s}
  BY <1>10, <1>13, <1>16 DEF FromIn, dated
<1>18. /\ tkept[s].service = service /\ tkept[s].connected = servertime
       /\ tkept[s].open <=> s \notin gone
       /\ tkept[s].open => tkept[s].index = s /\ tkept[s].ip = ip
       /\ tkept[s] \in ConnType
  <2>1. servertime \in 0 .. Never BY <1>2, SlotsFinite
  <2>2. CASE s \in gone
    <3>1. tkept[s] = [Closed EXCEPT !.connected = servertime, !.service = service]
      BY <1>7, <2>2
    <3> QED BY <2>1, <2>2, <3>1, ClosedIs DEF ConnType
  <2>3. CASE s \notin gone
    <3>1. tkept[s] = [came[s] EXCEPT !.connected = servertime, !.service = service]
      BY <1>7, <2>3
    <3>2. came[s] \in ConnType BY <1>3, <1>4
    <3> DEFINE r == came[s]
               n == tkept[s]
    <3>3. r.open /\ r.index = s /\ r.ip = ip BY <1>4
    <3>4. r \in ConnType /\ n = [r EXCEPT !.connected = servertime, !.service = service] BY <3>1, <3>2
    <3> HIDE DEF r, n
    <3>5. /\ n.connected = servertime /\ n.service = service
          /\ n.open = r.open /\ n.index = r.index /\ n.ip = r.ip
      BY <3>4 DEF ConnType
    <3>6. n \in ConnType BY <2>1, <3>4 DEF ConnType
    <3> QED BY <2>3, <3>3, <3>5, <3>6 DEF n
  <2> QED BY <2>2, <2>3
<1>19. connections' \in [Slots -> ConnType]
  <2>1. \A t \in Slots : tkept[t] \in ConnType BY <1>2, <1>4, <1>6, <1>18, ClosedIs
  <2>2. tkept = [t \in Slots |-> tkept[t]] BY <1>6 DEF tkept
  <2> QED BY <1>1, <2>1, <2>2
<1>20. \A t \in Slots \ {s} : connections'[t] = IF t \in gone THEN Closed ELSE connections[t]
  BY <1>1, <1>4, <1>6
<1>21. /\ block_count' \in [Blocks -> Int]
       /\ \A b \in Blocks :
            block_count'[b] = block_count[b] - Cardinality({t \in gone : connections[t].service = b})
                                + (IF b = service THEN 1 ELSE 0)
  <2>1. ASSUME NEW b \in Blocks
        PROVE  {t \in gone : came[t].service = b} = {t \in gone : connections[t].service = b}
    BY <1>3, <1>4, <1>13, <1>17
  <2>2. \A b \in Blocks : left[b] = block_count[b] - Cardinality({t \in gone : connections[t].service = b})
    BY <1>8, <2>1
  <2>3. block_count' = IF service \in Blocks THEN [left EXCEPT ![service] = left[service] + 1] ELSE left
    BY <1>1 DEF Came
  <2>4. block_count' \in [Blocks -> Int] BY <1>11, <2>3
  <2>5. \A b \in Blocks : block_count'[b] = left[b] + (IF b = service THEN 1 ELSE 0)
    BY <1>11, <2>3
  <2> QED BY <2>2, <2>4, <2>5
<1>22. ASSUME ~IsShip PROVE MakesRoom(ip, s, gone)
  <2> DEFINE mine == FromIn(connections, ip)
  <2>1. /\ OpenIn(connections) \subseteq ToSet(serverConnectionList)
        /\ \A t \in Slots : ~connections[t].open => connections[t].connected = Never
    BY <1>2, <1>22 DEF Complete
  <2>2. mine \subseteq ToSet(serverConnectionList) BY <2>1 DEF FromIn, OpenIn
  <2>3. same = mine \cup {s} BY <1>16, <2>2
  <2>4. came[s].connected = Never BY <1>3, <1>4, <2>1
  <2>5. mine \subseteq Slots /\ s \notin mine /\ \A u \in mine : connections[u].connected < Never
    BY <1>2, <1>3 DEF Dated, FromIn
  <2>6. dated = mine
    <3>1. s \notin dated BY <2>4, SlotsFinite DEF dated
    <3>2. mine \subseteq dated BY <1>3, <1>4, <2>3, <2>5 DEF dated
    <3> QED BY <2>3, <3>1, <3>2 DEF dated
  <2> HIDE DEF mine
  <2>7. s \notin gone /\ \A t \in gone, u \in mine : connections[t].connected <= connections[u].connected
    BY <1>3, <1>4, <1>10, <2>5, <2>6
  <2>8. ASSUME Cardinality(mine \cup {s}) > Limit PROVE gone # {}
    <3>1. mine # {}
      <4>1. ASSUME mine = {} PROVE FALSE
        <5>1. mine \cup {s} = {s} BY <4>1
        <5>2. Cardinality({s}) = 1 BY FS_Singleton
        <5>3. Limit \in Nat \ {0} BY ConnectionsAssumption
        <5> QED BY <2>8, <5>1, <5>2, <5>3
      <4> QED BY <4>1
    <3> QED BY <1>10, <2>3, <2>6, <2>8, <3>1
  <2> QED BY <2>7, <2>8 DEF MakesRoom, mine
<1>23. Admits(ip, service, s, gone)
  BY <1>1, <1>3, <1>15, <1>17, <1>18, <1>19, <1>20, <1>21 DEF Admits
<1> QED BY <1>22, <1>23 DEF s

\* The slots a block counts, once a client has been let in.
LEMMA AcceptCounted ==
  ASSUME TableInv, NEW ip \in Addresses, NEW service \in Services, NEW s, NEW gone,
         Admits(ip, service, s, gone)
  PROVE  Counted(connections', block_count')
<1> DEFINE ct == connections'
<1>1. /\ s \in Slots /\ gone \subseteq Slots /\ Counted(connections, block_count)
      /\ block_count \in [Blocks -> Int]
      /\ \A t \in Slots \ {s} : ct[t] = IF t \in gone THEN Closed ELSE connections[t]
      /\ ct[s].service = service
  <2>1. ToSet(serverConnectionList) \subseteq Slots
    BY TableInvIs DEF InvOf, Sound, OpenIn
  <2> QED BY <2>1, TableInvIs DEF InvOf, Admits
<1>2. ASSUME NEW b \in Blocks PROVE block_count'[b] >= Cardinality(InService(ct, b))
  <2> DEFINE A == InService(connections, b)
             B == {t \in gone : connections[t].service = b}
             C == InService(ct, b)
  <2>1. block_count'[b] = block_count[b] - Cardinality(B) + (IF b = service THEN 1 ELSE 0)
    BY DEF Admits
  <2>2. B \subseteq A /\ A \subseteq Slots /\ C \subseteq Slots BY <1>1 DEF InService
  <2>3. C \subseteq (A \ B) \cup {s} BY <1>1, ClosedIs DEF InService
  <2>4. b # service => C \subseteq A \ B BY <1>1, ClosedIs DEF InService
  <2>5. block_count[b] >= Cardinality(A) /\ block_count[b] \in Int BY <1>1 DEF Counted
  <2> HIDE DEF A, B, C
  <2>6. IsFiniteSet(A) /\ IsFiniteSet(B) /\ IsFiniteSet(C)
    <3>1. IsFiniteSet(A) /\ IsFiniteSet(C) BY <2>2, SlotsFinite, FS_Subset
    <3> QED BY <2>2, <3>1, FS_Subset
  <2>7. IsFiniteSet(A \ B) /\ Cardinality(A \ B) = Cardinality(A) - Cardinality(B)
    <3>1. A \cap B = B BY <2>2
    <3> QED BY <2>6, <3>1, FS_Difference
  <2>8. Cardinality(A) \in Nat /\ Cardinality(B) \in Nat /\ Cardinality(C) \in Nat
    BY <2>6, FS_CardinalityType
  <2>9. ASSUME b = service PROVE block_count'[b] >= Cardinality(C)
    <3>1. /\ IsFiniteSet((A \ B) \cup {s})
          /\ Cardinality((A \ B) \cup {s}) \in {Cardinality(A \ B), Cardinality(A \ B) + 1}
      BY <2>7, FS_AddElement
    <3>2. Cardinality(C) <= Cardinality((A \ B) \cup {s}) BY <2>3, <3>1, FS_Subset
    <3>3. block_count'[b] = block_count[b] - Cardinality(B) + 1 BY <2>1, <2>9
    <3> QED BY <2>5, <2>7, <2>8, <3>1, <3>2, <3>3
  <2>10. ASSUME b # service PROVE block_count'[b] >= Cardinality(C)
    <3>1. Cardinality(C) <= Cardinality(A \ B) BY <2>4, <2>7, <2>10, FS_Subset
    <3>2. block_count'[b] = block_count[b] - Cardinality(B) BY <2>1, <2>5, <2>8, <2>10
    <3> QED BY <2>5, <2>7, <2>8, <3>1, <3>2
  <2> QED BY <2>9, <2>10 DEF C
<1> QED BY <1>2 DEF Counted

LEMMA AcceptComplete ==
  ASSUME TableInv, ~IsShip, NEW ip \in Addresses, NEW service \in Services, NEW s, NEW gone,
         Admits(ip, service, s, gone), MakesRoom(ip, s, gone)
  PROVE  Complete(connections', serverConnectionList')
<1> DEFINE ct == connections'
<1>1. /\ s \in Slots /\ ~connections[s].open /\ s \notin gone /\ ct[s].open /\ ct[s].ip = ip
      /\ gone \subseteq {t \in ToSet(serverConnectionList) : connections[t].ip = ip} \cup {s}
      /\ \A t \in Slots \ {s} : ct[t] = IF t \in gone THEN Closed ELSE connections[t]
      /\ ToSet(serverConnectionList') = (ToSet(serverConnectionList) \cup {s}) \ gone
  BY DEF Admits, MakesRoom
<1>2. /\ Complete(connections, serverConnectionList) /\ Sound(connections, serverConnectionList)
  BY TableInvIs DEF InvOf
<1>3. gone \subseteq FromIn(connections, ip) BY <1>1, <1>2 DEF Sound, OpenIn, FromIn
<1>4. OpenIn(ct) \subseteq ToSet(serverConnectionList')
  BY <1>1, <1>2, ClosedIs DEF Complete, OpenIn
<1>5. \A t \in Slots : ~ct[t].open => ct[t].connected = Never
  BY <1>1, <1>2, ClosedIs DEF Complete
<1>6. ASSUME NEW q \in Addresses PROVE Cardinality(FromIn(ct, q)) <= Limit
  <2> DEFINE mine == FromIn(connections, q)
             now == FromIn(ct, q)
  <2>0. Limit \in Nat \ {0} /\ Cardinality(mine) <= Limit
    BY <1>2, ConnectionsAssumption DEF Complete
  <2>1. IsFiniteSet(mine) BY SlotsFinite, FS_Subset DEF FromIn
  <2>2. q # ip => now = mine BY <1>1, <1>3, ClosedIs DEF FromIn
  <2>3. q = ip => now = (mine \cup {s}) \ gone BY <1>1, <1>3, ClosedIs DEF FromIn
  <2>4. q = ip => gone \subseteq mine BY <1>3
  <2>5. q = ip /\ Cardinality(mine \cup {s}) > Limit => gone # {} BY DEF MakesRoom
  <2> HIDE DEF mine, now
  <2>6. CASE q = ip
    <3> DEFINE U == mine \cup {s}
    <3>1. IsFiniteSet(U) /\ Cardinality(U) <= Cardinality(mine) + 1
      <4>1. Cardinality(mine) \in Nat BY <2>1, FS_CardinalityType
      <4> QED BY <2>1, <4>1, FS_AddElement
    <3>2. now \in SUBSET U BY <2>3, <2>6
    <3> HIDE DEF U
    <3>3. /\ Cardinality(now) <= Cardinality(U) /\ (Cardinality(U) = Cardinality(now) => U = now)
          /\ Cardinality(now) \in Nat /\ Cardinality(U) \in Nat /\ Cardinality(mine) \in Nat
      BY <2>1, <3>1, <3>2, FS_Subset, FS_CardinalityType
    <3>4. Cardinality(U) > Limit => U # now BY <2>3, <2>4, <2>5, <2>6 DEF U
    <3>5. Cardinality(now) <= Limit BY <2>0, <3>1, <3>3, <3>4
    <3> QED BY <3>5 DEF now
  <2>7. CASE q # ip BY <2>0, <2>2, <2>7 DEF mine, now
  <2> QED BY <2>6, <2>7
<1> QED BY <1>4, <1>5, <1>6 DEF Complete

LEMMA AcceptInv ==
  ASSUME TableInv, NEW ip \in Addresses, NEW service \in Services, Accept(ip, service)
  PROVE  TableInv'
<1> DEFINE s == free_connection
           ct == connections'
<1>1. PICK gone : Admits(ip, service, s, gone) /\ (~IsShip => MakesRoom(ip, s, gone))
  BY AcceptIs
<1>2. /\ s \in Slots /\ ct \in [Slots -> ConnType]
      /\ serverConnectionList' \in Seq(Slots) /\ Distinct(serverConnectionList')
      /\ ToSet(serverConnectionList') = (ToSet(serverConnectionList) \cup {s}) \ gone
      /\ block_count' \in [Blocks -> Int]
      /\ \A t \in Slots \ {s} : ct[t] = IF t \in gone THEN Closed ELSE connections[t]
      /\ ct[s].open <=> s \notin gone
      /\ ct[s].open => ct[s].index = s
      /\ ct[s].connected = servertime
  BY <1>1 DEF Admits
<1>3. Sound(connections, serverConnectionList) /\ Dated(connections) /\ servertime \in 0 .. MaxTime
  BY TableInvIs DEF InvOf
<1> HIDE DEF s, ct
<1>4. Sound(ct, serverConnectionList')
  <2>1. ASSUME NEW t \in ToSet(serverConnectionList') PROVE t \in OpenIn(ct)
    <3>1. t \notin gone /\ (t = s \/ t \in OpenIn(connections)) BY <1>2, <1>3, <2>1 DEF Sound
    <3> QED BY <1>2, <3>1 DEF OpenIn
  <2> QED BY <1>2, <2>1 DEF Sound
<1>5. Dated(ct)
  <2>1. ASSUME NEW t \in Slots, ct[t].open PROVE ct[t].index = t /\ ct[t].connected < Never
    <3>1. CASE t = s
      <4>1. servertime < Never /\ servertime \in Nat BY <1>3, ConnectionsAssumption DEF Never
      <4> QED BY <1>2, <2>1, <3>1, <4>1
    <3>2. CASE t # s BY <1>2, <1>3, <2>1, <3>2, ClosedIs DEF Dated
    <3> QED BY <3>1, <3>2
  <2> QED BY <2>1 DEF Dated
<1>6. Counted(ct, block_count') BY <1>1, AcceptCounted DEF ct
<1>7. ~IsShip => Complete(ct, serverConnectionList') BY <1>1, AcceptComplete DEF ct
<1>8. InvOf(ct, serverConnectionList', block_count') BY <1>2, <1>4, <1>5, <1>6, <1>7 DEF InvOf
<1>9. blockConnections' = blockConnections /\ servertime' = servertime BY DEF Accept
<1> QED BY <1>8, <1>9, TableInvIs, TableInvIsNext DEF ct

----------------------------------------------------------------------------
(* The table                                                               *)

LEMMA TableInvInit == TableInit => TableInv
<1> SUFFICES ASSUME TableInit PROVE TableInv OBVIOUS
<1>1. /\ connections \in [Slots -> ConnType] /\ \A s \in Slots : connections[s] = Closed
      /\ serverConnectionList = <<>> /\ block_count = [b \in Blocks |-> 0]
      /\ ~blockConnections /\ blockConnections \in BOOLEAN /\ servertime = 1
  BY ClosedIs DEF TableInit
<1>2. ToSet(serverConnectionList) = {} /\ Distinct(serverConnectionList)
  BY <1>1 DEF ToSet, Distinct
<1>3. OpenIn(connections) = {} /\ \A ip : FromIn(connections, ip) = {}
  BY <1>1, ClosedIs DEF OpenIn, FromIn
<1>4. \A b \in Blocks : InService(connections, b) = {} BY <1>1, ClosedIs DEF InService
<1>5. Cardinality({}) = 0 /\ Limit \in Nat /\ MaxTime \in Nat \ {0}
  BY FS_EmptySet, ConnectionsAssumption
<1>6. Sound(connections, serverConnectionList) BY <1>2, <1>3 DEF Sound
<1>7. Dated(connections) BY <1>1, ClosedIs DEF Dated
<1>8. Counted(connections, block_count)
  <2>1. \A b \in Blocks : block_count[b] = 0 /\ Cardinality(InService(connections, b)) = 0
    BY <1>1, <1>4, <1>5
  <2> QED BY <2>1 DEF Counted
<1>9. ASSUME ~IsShip PROVE Complete(connections, serverConnectionList)
  <2>1. OpenIn(connections) \subseteq ToSet(serverConnectionList) BY <1>3
  <2>2. ASSUME NEW ip \in Addresses PROVE Cardinality(FromIn(connections, ip)) <= Limit
    <3>1. Cardinality(FromIn(connections, ip)) = 0 BY <1>3, <1>5
    <3> QED BY <1>5, <3>1
  <2>3. \A s \in Slots : ~connections[s].open => connections[s].connected = Never
    BY <1>1, <1>9, ClosedIs
  <2> QED BY <2>1, <2>2, <2>3 DEF Complete
<1>10. InvOf(connections, serverConnectionList, block_count)
  BY <1>1, <1>6, <1>7, <1>8, <1>9 DEF InvOf
<1>11. servertime \in 0 .. MaxTime BY <1>1, <1>5
<1> QED BY <1>1, <1>10, <1>11, TableInvIs

\* A step that closes one connection.
LEMMA FreedInv ==
  ASSUME TableInv, NEW s \in Slots, NEW i, IF connections[s].open THEN i = s ELSE IsShip,
         connections' = [connections EXCEPT ![s] = Closed],
         serverConnectionList' = Unlisted(serverConnectionList, i),
         block_count' = Left(block_count, connections[s].service),
         UNCHANGED <<blockConnections, servertime>>
  PROVE  TableInv'
<1>1. InvOf(connections, serverConnectionList, block_count) BY TableInvIs
<1>2. /\ connections \in [Slots -> ConnType] /\ serverConnectionList \in Seq(Slots)
      /\ block_count \in [Blocks -> Int]
  BY <1>1 DEF InvOf
<1>3. InvOf(connections', serverConnectionList', block_count') BY <1>1, <1>2, CloseOne
<1> QED BY <1>3, TableInvIs, TableInvIsNext

LEMMA TableInvNext == TableInv /\ [TableNext]_tableVars => TableInv'
<1> SUFFICES ASSUME TableInv, [TableNext]_tableVars PROVE TableInv' OBVIOUS
<1>1. /\ InvOf(connections, serverConnectionList, block_count)
      /\ Dated(connections) /\ Sound(connections, serverConnectionList)
      /\ blockConnections \in BOOLEAN /\ servertime \in 0 .. MaxTime
      /\ ~IsShip => ~blockConnections
  BY TableInvIs DEF InvOf
<1>2. ASSUME UNCHANGED <<connections, serverConnectionList, block_count>>,
             blockConnections' \in BOOLEAN, servertime' \in 0 .. MaxTime,
             ~IsShip => ~blockConnections'
      PROVE  TableInv'
  BY <1>1, <1>2, TableInvIsNext
<1>3. CASE UNCHANGED tableVars BY <1>1, <1>2, <1>3 DEF tableVars
<1>4. ASSUME NEW ip \in Addresses, NEW service \in Services, Accept(ip, service) PROVE TableInv'
  BY <1>4, AcceptInv
<1>5. CASE RefuseNew
  <2>1. IsShip BY <1>1, <1>5 DEF RefuseNew
  <2> QED BY <1>5, <2>1, FreeConnection, FreedInv DEF RefuseNew
<1>6. ASSUME NEW s \in ToSet(serverConnectionList), Freed(s),
             UNCHANGED <<blockConnections, servertime>>
      PROVE  TableInv'
  <2>1. s \in Slots /\ connections[s].open /\ connections[s].index = s
    BY <1>1 DEF Sound, OpenIn, Dated
  <2> QED BY <1>6, <2>1, FreedInv DEF Freed
<1>7. ASSUME NEW s \in Slots, CloseConnection(s) PROVE TableInv'
  BY <1>6, <1>7 DEF CloseConnection
<1>8. ASSUME NEW s \in Slots, dcall(s) PROVE TableInv' BY <1>1, <1>2, <1>8 DEF dcall
<1>9. CASE KickFirst
  <2>1. serverConnectionList \in Seq(Slots) /\ serverConnectionList # <<>>
    BY <1>1, <1>9 DEF InvOf, KickFirst
  <2>2. Head(serverConnectionList) \in ToSet(serverConnectionList)
    <3>1. 1 \in DOMAIN serverConnectionList /\ Head(serverConnectionList) = serverConnectionList[1]
      BY <2>1
    <3> QED BY <3>1 DEF ToSet
  <2> QED BY <1>6, <1>9, <2>2 DEF KickFirst
<1>10. CASE Unblock BY <1>1, <1>2, <1>10 DEF Unblock
<1>11. CASE Second
  <2>1. MaxTime \in Nat BY ConnectionsAssumption
  <2>2. servertime' \in 0 .. MaxTime BY <1>1, <1>11, <2>1 DEF Second
  <2> QED BY <1>1, <1>2, <1>11, <2>2 DEF Second
<1> QED BY <1>3, <1>4, <1>5, <1>7, <1>8, <1>9, <1>10, <1>11 DEF TableNext

----------------------------------------------------------------------------
(* What follows                                                            *)

LEMMA TableInvGives ==
  TableInv => /\ TableTypeOK /\ ListSound /\ CountNeverShort
              /\ ~IsShip => ListComplete /\ AddressCap
<1> SUFFICES ASSUME TableInv
             PROVE  /\ TableTypeOK /\ ListSound /\ CountNeverShort
                    /\ ~IsShip => ListComplete /\ AddressCap
  OBVIOUS
<1>1. TableTypeOK BY DEF TableInv
<1>2. ListSound BY DEF TableInv, Sound, Distinct, OpenIn, Open, ListSound
<1>3. CountNeverShort
  <2>1. ASSUME NEW b \in Blocks
        PROVE  block_count[b] >= Cardinality({s \in Open : connections[s].service = b})
    <3> DEFINE A == InService(connections, b)
               B == {s \in Open : connections[s].service = b}
    <3>1. block_count[b] >= Cardinality(A) /\ block_count[b] \in Int
      BY DEF TableInv, Counted, TableTypeOK
    <3>2. B \subseteq A /\ A \subseteq Slots BY DEF InService, Open
    <3> HIDE DEF A, B
    <3>3. IsFiniteSet(A) BY <3>2, SlotsFinite, FS_Subset
    <3>4. Cardinality(B) <= Cardinality(A) /\ IsFiniteSet(B) BY <3>2, <3>3, FS_Subset
    <3>5. Cardinality(A) \in Nat /\ Cardinality(B) \in Nat BY <3>3, <3>4, FS_CardinalityType
    <3>6. block_count[b] >= Cardinality(B) BY <3>1, <3>4, <3>5
    <3> QED BY <3>6 DEF B
  <2> QED BY <2>1 DEF CountNeverShort
<1>4. ASSUME ~IsShip PROVE ListComplete /\ AddressCap
  <2>1. \A ip : From(ip) = FromIn(connections, ip) BY DEF From, Open, FromIn
  <2> QED BY <1>4, <2>1 DEF TableInv, Complete, OpenIn, Open, ListComplete, AddressCap
<1> QED BY <1>1, <1>2, <1>3, <1>4

\* On the login server the newcomer is let in, and only the oldest connection
\* of its address goes for it.
LEMMA RoomMade ==
  ASSUME TableInv, ~IsShip, NEW ip \in Addresses, NEW service \in Services, Accept(ip, service)
  PROVE  /\ connections'[free_connection].open
         /\ \A s \in Open : ~connections'[s].open =>
              \A t \in From(ip) : s \in From(ip) /\ connections[s].connected <= connections[t].connected
<1> DEFINE new == free_connection
<1>1. PICK gone : Admits(ip, service, new, gone) /\ MakesRoom(ip, new, gone) BY AcceptIs
<1>2. connections'[new].open BY <1>1 DEF Admits, MakesRoom
<1>3. ASSUME NEW s \in Open, ~connections'[s].open, NEW t \in From(ip)
      PROVE  s \in From(ip) /\ connections[s].connected <= connections[t].connected
  <2>1. s # new /\ s \in Slots BY <1>1, <1>3 DEF Admits, Open
  <2>2. s \in gone BY <1>1, <1>3, <2>1 DEF Admits, Open
  <2>3. s \in From(ip) BY <1>1, <1>3, <2>1, <2>2 DEF Admits, From
  <2> QED BY <1>1, <1>3, <2>2, <2>3 DEF MakesRoom, FromIn, From, Open
<1> QED BY <1>2, <1>3

\* The table of either server keeps its invariant.
THEOREM TableAlwaysSound == TableSpec => []TableInv
<1>1. TableInit => TableInv BY TableInvInit
<1>2. TableInv /\ [TableNext]_tableVars => TableInv' BY TableInvNext
<1> QED BY <1>1, <1>2, PTL DEF TableSpec
=============================================================================
