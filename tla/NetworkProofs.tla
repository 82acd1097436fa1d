--------------------------- MODULE NetworkProofs ---------------------------
(***************************************************************************)
(* Proofs about characters that are loaded and saved (CharSave), and about *)
(* the servers' sockets together: what holds of the ship's                 *)
(* table, of the login server's, of the characters that travel between     *)
(* the two and of the links they travel on holds of the network.           *)
(***************************************************************************)
EXTENDS Network, ConnectionsProofs, ShipLinkProofs

CharConn ==
  [on : BOOLEAN, login : Nat, guildcard : BOOLEAN, gotchardata : BOOLEAN,
   released : BOOLEAN, told : BOOLEAN, mode : BOOLEAN, char : SUBSET Gains]

UpPackets ==
  [type : {"0B_auth"}, login : Nat] \cup [type : {"04/00_load"}, conn : Conns]
    \cup [type : {"04/02_save"}, char : SUBSET Gains]

DownPackets ==
  [type : {"0B_ok", "0B_fail", "04/03_saved", "08/00_kick"}]
    \cup [type : {"04/01_data"}, conn : Conns, char : SUBSET Gains]

\* The sockets that are open.
OpenSockets(cs) == {c \in Conns : cs[c].on}

SaveTypes ==
  /\ conn \in [Conns -> CharConn]
  /\ list \in Seq(Conns) /\ ToSet(list) = OpenSockets(conn)
  /\ up \in Seq(UpPackets) /\ down \in Seq(DownPackets)
  /\ link \in BOOLEAN /\ missed \in BOOLEAN
  /\ stored \in SUBSET Gains /\ sent \in SUBSET Gains /\ gained \in SUBSET Gains
  /\ logins \in Nat /\ losses \in Nat

\* Packets of a type are on their way, at these places.
At(q, t) == {i \in 1 .. Len(q) : q[i].type = t}
Verdicts == At(down, "0B_ok") \cup At(down, "0B_fail")

Waits(c) == conn[c].on /\ ~conn[c].guildcard

\* What holds whatever has been missed.
SaveSteps ==
  /\ \A c \in Conns :
       /\ conn[c].guildcard => conn[c].on
       /\ conn[c].gotchardata => conn[c].guildcard
       /\ conn[c].login <= logins
  /\ ~link => up = <<>> /\ down = <<>>
  /\ losses = 0 /\ ~link => \A c \in Conns : ~conn[c].guildcard

\* One client at a time asks to be let in.
Door ==
  /\ \A c, d \in Conns : Waits(c) /\ Waits(d) => c = d
  /\ \A i, j \in At(up, "0B_auth") : i = j
  /\ \A i, j \in Verdicts : i = j
  /\ At(up, "0B_auth") = {} \/ Verdicts = {}
  /\ \A i \in At(up, "0B_auth"), c \in Conns :
       /\ Waits(c) => conn[c].login = up[i].login
       /\ conn[c].guildcard => conn[c].login # up[i].login
  /\ At(down, "0B_ok") # {} => \A c \in Conns : conn[c].guildcard => conn[c].login < logins

\* One character at a time is on its way to the ship, and its client was let
\* in before the next one asks.
Loading ==
  /\ \A i, j \in At(up, "04/00_load") : i = j
  /\ \A i, j \in At(down, "04/01_data") : i = j
  /\ At(up, "04/00_load") = {} \/ At(down, "04/01_data") = {}
  /\ \A i \in At(up, "04/00_load"), j \in At(up, "0B_auth") : i < j
  /\ At(down, "0B_ok") # {} => At(up, "04/00_load") = {}
  /\ \A i \in At(down, "04/01_data"), j \in At(down, "0B_ok") : i < j

\* No kick was lost, or the link never.
Held == losses = 0 \/ ~missed

\* Whoever logged on before the last login is about to be kicked, and before
\* anybody else is let in.
Kicks ==
  /\ \A c, d \in Conns : conn[c].guildcard /\ conn[d].guildcard => c = d
  /\ \A c \in Conns : conn[c].guildcard /\ conn[c].login < logins =>
       \E i \in At(down, "08/00_kick") : \A j \in At(down, "0B_ok") : i < j
  /\ \A c \in Conns : Waits(c) /\ conn[c].login < logins =>
       \A j \in At(down, "0B_ok") : \E i \in At(down, "08/00_kick") : j < i

\* No character is loaded while one is played, nor ahead of a save.
Played ==
  /\ \A c \in Conns : conn[c].gotchardata => At(up, "04/00_load") = {} /\ At(down, "04/01_data") = {}
  /\ \A i \in At(up, "04/00_load"), j \in At(up, "04/02_save") : j < i
  /\ \A i \in At(down, "04/01_data") : At(up, "04/02_save") = {} /\ down[i].char = stored

\* What is stored, the saves on their way and the character that is played,
\* each contain the one before.
Grows ==
  /\ \A i \in At(up, "04/02_save") : stored \subseteq up[i].char
  /\ \A i, j \in At(up, "04/02_save") : i < j => up[i].char \subseteq up[j].char
  /\ \A c \in Conns : conn[c].gotchardata =>
       /\ stored \subseteq conn[c].char
       /\ \A i \in At(up, "04/02_save") : up[i].char \subseteq conn[c].char

\* Everything ever sent is in the last save, and in the character played.
LastSave ==
  /\ \A c \in Conns : conn[c].gotchardata => sent \subseteq conn[c].char
  /\ At(up, "04/02_save") = {} => sent \subseteq stored
  /\ \A i \in At(up, "04/02_save") : (\A j \in At(up, "04/02_save") : j <= i) => sent \subseteq up[i].char

CharInv ==
  /\ SaveTypes /\ SaveSteps /\ Door /\ Loading
  /\ Held => Kicks /\ Played /\ Grows
  /\ losses = 0 => LastSave

----------------------------------------------------------------------------
(* Queues                                                                  *)

\* Queue r is q without its first k packets and with the one of new, if any.
Goes(q, r, k, new) ==
  /\ k \in 0 .. Len(q)
  /\ new = {} => Len(r) = Len(q) - k
  /\ new # {} => Len(r) = Len(q) - k + 1
  /\ \A i \in 1 .. Len(q) - k : r[i] = q[i + k]
  /\ \A p \in new : r[Len(q) - k + 1] = p

\* Where the packets are after a step, and where they were before it.
LEMMA GoesAt ==
  ASSUME NEW S, NEW q \in Seq(S), NEW T, NEW r \in Seq(T), NEW k, NEW new, Goes(q, r, k, new)
  PROVE  /\ k \in Nat /\ Len(q) \in Nat
         /\ \A t : \A i \in At(q, t) : i \in Nat /\ i >= 1 /\ i <= Len(q)
         /\ \A t : \A i \in At(r, t) :
              /\ i \in Nat /\ i >= 1 /\ i <= Len(q) - k + 1
              /\ \/ i + k \in At(q, t) /\ r[i] = q[i + k]
                 \/ i = Len(q) - k + 1 /\ \E p \in new : p.type = t /\ r[i] = p
         /\ \A t : \A i \in At(q, t) : i > k => i - k \in At(r, t) /\ r[i - k] = q[i]
         /\ \A p \in new : Len(q) - k + 1 \in At(r, p.type) /\ r[Len(q) - k + 1] = p
<1>1. k \in Nat /\ Len(q) \in Nat /\ k <= Len(q) /\ Len(r) \in Nat BY DEF Goes
<1>2. \A t : \A i \in At(q, t) : i \in Nat /\ i >= 1 /\ i <= Len(q) BY <1>1 DEF At
<1>3. ASSUME NEW t, NEW i \in At(r, t)
      PROVE  /\ i \in Nat /\ i >= 1 /\ i <= Len(q) - k + 1
             /\ \/ i + k \in At(q, t) /\ r[i] = q[i + k]
                \/ i = Len(q) - k + 1 /\ \E p \in new : p.type = t /\ r[i] = p
  <2>1. i \in Nat /\ i >= 1 /\ i <= Len(r) /\ r[i].type = t BY <1>1 DEF At
  <2>2. CASE i <= Len(q) - k
    <3>1. i \in 1 .. Len(q) - k /\ i + k \in 1 .. Len(q) BY <1>1, <2>1, <2>2
    <3> QED BY <1>1, <2>1, <2>2, <3>1 DEF Goes, At
  <2>3. CASE ~(i <= Len(q) - k)
    <3>1. new # {} /\ i = Len(q) - k + 1 BY <1>1, <2>1, <2>3 DEF Goes
    <3> QED BY <1>1, <2>1, <3>1 DEF Goes
  <2> QED BY <2>2, <2>3
<1>4. ASSUME NEW t, NEW i \in At(q, t), i > k PROVE i - k \in At(r, t) /\ r[i - k] = q[i]
  <2>1. i \in Nat /\ i <= Len(q) /\ q[i].type = t BY <1>2 DEF At
  <2>2. i - k \in 1 .. Len(q) - k /\ (i - k) + k = i BY <1>1, <1>4, <2>1
  <2>3. r[i - k] = q[i] BY <2>2 DEF Goes
  <2>4. i - k \in 1 .. Len(r) BY <1>1, <2>2 DEF Goes
  <2> QED BY <2>1, <2>3, <2>4 DEF At
<1>5. ASSUME NEW p \in new
      PROVE  Len(q) - k + 1 \in At(r, p.type) /\ r[Len(q) - k + 1] = p
  <2>1. Len(r) = Len(q) - k + 1 /\ r[Len(q) - k + 1] = p BY <1>5 DEF Goes
  <2>2. Len(q) - k + 1 \in 1 .. Len(r) BY <1>1, <2>1
  <2> QED BY <2>1, <2>2 DEF At
<1> QED BY <1>1, <1>2, <1>3, <1>4, <1>5

LEMMA GoesSame == ASSUME NEW S, NEW q \in Seq(S) PROVE Goes(q, q, 0, {})
BY DEF Goes

LEMMA GoesPush ==
  ASSUME NEW S, NEW q \in Seq(S), NEW p \in S
  PROVE  Append(q, p) \in Seq(S) /\ Goes(q, Append(q, p), 0, {p})
<1>1. /\ Append(q, p) \in Seq(S) /\ Len(Append(q, p)) = Len(q) + 1 /\ Len(q) \in Nat
      /\ \A i \in 1 .. Len(q) : Append(q, p)[i] = q[i]
      /\ Append(q, p)[Len(q) + 1] = p
  BY AppendProperties
<1> QED BY <1>1 DEF Goes

LEMMA GoesPop ==
  ASSUME NEW S, NEW q \in Seq(S), q # <<>>
  PROVE  /\ Tail(q) \in Seq(S) /\ Goes(q, Tail(q), 1, {})
         /\ Head(q) = q[1] /\ q[1] \in S /\ 1 \in At(q, q[1].type)
<1>1. /\ Tail(q) \in Seq(S) /\ Len(Tail(q)) = Len(q) - 1 /\ Len(q) \in Nat /\ Len(q) >= 1
      /\ \A i \in 1 .. Len(q) - 1 : Tail(q)[i] = q[i + 1]
      /\ Head(q) = q[1] /\ q[1] \in S
  OBVIOUS
<1>2. Goes(q, Tail(q), 1, {}) BY <1>1 DEF Goes
<1> QED BY <1>1, <1>2 DEF At

LEMMA GoesEmpty ==
  ASSUME NEW S, NEW q \in Seq(S)
  PROVE  <<>> \in Seq(S) /\ Goes(q, <<>>, Len(q), {})
BY DEF Goes

\* The same, without arithmetic: f[i] is where the packet at i was before.
Follows(q, r, k, new, f) ==
  /\ \A t : \A i \in At(r, t) :
       \/ f[i] \in At(q, t) /\ r[i] = q[f[i]]
       \/ f[i] = Len(q) + 1 /\ \E p \in new : p.type = t /\ r[i] = p
  /\ \A t : At(r, t) \subseteq Nat /\ At(q, t) \subseteq Nat
  /\ \A i \in Nat : f[i] \in Nat
  /\ \A i, j \in Nat : (i < j <=> f[i] < f[j]) /\ (f[i] = f[j] => i = j)
  /\ \A t : \A i \in At(q, t) :
       /\ i < Len(q) + 1
       /\ i > k => \E j \in At(r, t) : f[j] = i /\ r[j] = q[i]
  /\ \A p \in new : \E j \in At(r, p.type) : f[j] = Len(q) + 1 /\ r[j] = p
  /\ \A t : \A i \in At(r, t) : f[i] > k

LEMMA Followed ==
  ASSUME NEW S, NEW q \in Seq(S), NEW T, NEW r \in Seq(T), NEW k, NEW new, Goes(q, r, k, new)
  PROVE  \E f : Follows(q, r, k, new, f)
<1> DEFINE f == [i \in Nat |-> i + k]
<1>1. /\ k \in Nat /\ Len(q) \in Nat
      /\ \A t : \A i \in At(q, t) : i \in Nat /\ i >= 1 /\ i <= Len(q)
      /\ \A t : \A i \in At(r, t) :
           /\ i \in Nat /\ i >= 1 /\ i <= Len(q) - k + 1
           /\ \/ i + k \in At(q, t) /\ r[i] = q[i + k]
              \/ i = Len(q) - k + 1 /\ \E p \in new : p.type = t /\ r[i] = p
      /\ \A t : \A i \in At(q, t) : i > k => i - k \in At(r, t) /\ r[i - k] = q[i]
      /\ \A p \in new : Len(q) - k + 1 \in At(r, p.type) /\ r[Len(q) - k + 1] = p
  BY GoesAt
<1>2. \A i \in Nat : f[i] = i + k /\ f[i] \in Nat BY <1>1
<1>3. \A i, j \in Nat : (i < j <=> f[i] < f[j]) /\ (f[i] = f[j] => i = j)
  <2>1. ASSUME NEW i \in Nat, NEW j \in Nat
        PROVE  (i < j <=> f[i] < f[j]) /\ (f[i] = f[j] => i = j)
    <3>1. f[i] = i + k /\ f[j] = j + k BY <1>2
    <3> HIDE DEF f
    <3> QED BY <1>1, <3>1
  <2> QED BY <2>1
<1> HIDE DEF f
<1>4. ASSUME NEW t, NEW i \in At(r, t)
      PROVE  /\ i \in Nat
             /\ \/ f[i] \in At(q, t) /\ r[i] = q[f[i]]
                \/ f[i] = Len(q) + 1 /\ \E p \in new : p.type = t /\ r[i] = p
  <2>1. i \in Nat /\ f[i] = i + k BY <1>1, <1>2
  <2>2. ASSUME i = Len(q) - k + 1 PROVE f[i] = Len(q) + 1 BY <1>1, <2>1, <2>2
  <2>3. \/ i + k \in At(q, t) /\ r[i] = q[i + k]
        \/ i = Len(q) - k + 1 /\ \E p \in new : p.type = t /\ r[i] = p
    BY <1>1
  <2> QED BY <2>1, <2>2, <2>3
<1>5. ASSUME NEW t, NEW i \in At(q, t)
      PROVE  /\ i \in Nat /\ i < Len(q) + 1
             /\ i > k => \E j \in At(r, t) : f[j] = i /\ r[j] = q[i]
  <2>1. i \in Nat /\ i < Len(q) + 1 BY <1>1
  <2>2. ASSUME i > k PROVE \E j \in At(r, t) : f[j] = i /\ r[j] = q[i]
    <3>1. i - k \in Nat /\ (i - k) + k = i BY <1>1, <2>1, <2>2
    <3>2. i - k \in At(r, t) /\ r[i - k] = q[i] BY <1>1, <2>2
    <3> QED BY <1>2, <3>1, <3>2
  <2> QED BY <2>1, <2>2
<1>6. ASSUME NEW p \in new
      PROVE  \E j \in At(r, p.type) : f[j] = Len(q) + 1 /\ r[j] = p
  <2>1. Len(q) - k + 1 \in At(r, p.type) /\ r[Len(q) - k + 1] = p BY <1>1
  <2>2. f[Len(q) - k + 1] = Len(q) + 1
    <3>1. Len(q) - k + 1 \in Nat /\ (Len(q) - k + 1) + k = Len(q) + 1 BY <1>1, <2>1
    <3> QED BY <1>2, <3>1
  <2> QED BY <2>1, <2>2
<1>7. \A t : At(r, t) \subseteq Nat /\ At(q, t) \subseteq Nat BY <1>4, <1>5
<1>8. ASSUME NEW t, NEW i \in At(r, t) PROVE f[i] > k
  <2>1. i \in Nat /\ i >= 1 /\ f[i] = i + k BY <1>1, <1>2
  <2> QED BY <1>1, <2>1
<1>9. Follows(q, r, k, new, f) BY <1>2, <1>3, <1>4, <1>5, <1>6, <1>7, <1>8 DEF Follows
<1> QED BY <1>9

\* Packets of a type that is not added were there before, in the same order.
LEMMA Whence ==
  ASSUME NEW q, NEW r, NEW k, NEW new, NEW f, Follows(q, r, k, new, f),
         NEW t, \A p \in new : p.type # t
  PROVE  \A i \in At(r, t) : i \in Nat /\ f[i] \in Nat /\ f[i] \in At(q, t) /\ r[i] = q[f[i]]
<1>1. \A i \in At(r, t) : f[i] \in At(q, t) /\ r[i] = q[f[i]] BY DEF Follows
<1>2. At(r, t) \subseteq Nat /\ \A i \in Nat : f[i] \in Nat BY DEF Follows
<1> QED BY <1>1, <1>2

LEMMA WhenceAdded ==
  ASSUME NEW q, NEW r, NEW k, NEW new, NEW f, Follows(q, r, k, new, f), NEW t
  PROVE  \A i \in At(r, t) :
           /\ i \in Nat /\ f[i] \in Nat
           /\ \/ f[i] \in At(q, t) /\ r[i] = q[f[i]]
              \/ f[i] = Len(q) + 1 /\ \E p \in new : p.type = t /\ r[i] = p
<1>1. \A i \in At(r, t) :
        \/ f[i] \in At(q, t) /\ r[i] = q[f[i]]
        \/ f[i] = Len(q) + 1 /\ \E p \in new : p.type = t /\ r[i] = p
  BY DEF Follows
<1>2. At(r, t) \subseteq Nat /\ \A i \in Nat : f[i] \in Nat BY DEF Follows
<1> QED BY <1>1, <1>2

LEMMA Whither ==
  ASSUME NEW q, NEW r, NEW k, NEW new, NEW f, Follows(q, r, k, new, f), NEW t
  PROVE  /\ \A i \in At(q, t) : i \in Nat /\ i < Len(q) + 1
         /\ \A i \in At(q, t) : i > k => \E j \in At(r, t) : j \in Nat /\ f[j] = i /\ r[j] = q[i]
<1>1. \A i \in At(q, t) : /\ i < Len(q) + 1
                          /\ i > k => \E j \in At(r, t) : f[j] = i /\ r[j] = q[i]
  BY DEF Follows
<1>2. At(r, t) \subseteq Nat /\ At(q, t) \subseteq Nat BY DEF Follows
<1> QED BY <1>1, <1>2

LEMMA Beyond ==
  ASSUME NEW q, NEW r, NEW k, NEW new, NEW f, Follows(q, r, k, new, f), NEW t
  PROVE  \A i \in At(r, t) : f[i] > k
BY DEF Follows

LEMMA OrderKept ==
  ASSUME NEW q, NEW r, NEW k, NEW new, NEW f, Follows(q, r, k, new, f)
  PROVE  /\ \A i, j \in Nat : f[i] < f[j] => i < j
         /\ \A i, j \in Nat : i < j => f[i] < f[j]
         /\ \A i, j \in Nat : f[i] = f[j] => i = j
BY DEF Follows

LEMMA FollowsUp ==
  ASSUME up \in Seq(UpPackets), up' \in Seq(UpPackets), NEW k, NEW new, Goes(up, up', k, new)
  PROVE  \E f : Follows(up, up', k, new, f)
BY Followed

LEMMA FollowsDown ==
  ASSUME down \in Seq(DownPackets), down' \in Seq(DownPackets), NEW k, NEW new, Goes(down, down', k, new)
  PROVE  \E f : Follows(down, down', k, new, f)
BY Followed

LEMMA UpPacketsAre ==
  /\ \A k \in Nat : Auth(k) \in UpPackets /\ Auth(k).type = "0B_auth" /\ Auth(k).login = k
  /\ \A c \in Conns : Load(c) \in UpPackets /\ Load(c).type = "04/00_load"
  /\ \A x \in SUBSET Gains : Save(x) \in UpPackets /\ Save(x).type = "04/02_save" /\ Save(x).char = x
<1>1. \A k \in Nat : Auth(k) \in UpPackets /\ Auth(k).type = "0B_auth" /\ Auth(k).login = k
  BY DEF Auth, UpPackets
<1>2. \A c \in Conns : Load(c) \in UpPackets /\ Load(c).type = "04/00_load"
  BY DEF Load, UpPackets
<1>3. \A x \in SUBSET Gains : Save(x) \in UpPackets /\ Save(x).type = "04/02_save" /\ Save(x).char = x
  BY DEF Save, UpPackets
<1> QED BY <1>1, <1>2, <1>3

LEMMA UpPacketHas ==
  ASSUME NEW p \in UpPackets
  PROVE  /\ p.type = "0B_auth" => p.login \in Nat
         /\ p.type = "04/00_load" => p.conn \in Conns
         /\ p.type = "04/02_save" => p.char \in SUBSET Gains
BY DEF UpPackets

LEMMA DownPacketsAre ==
  /\ AuthOK \in DownPackets /\ AuthOK.type = "0B_ok"
  /\ AuthFail \in DownPackets /\ AuthFail.type = "0B_fail"
  /\ Saved \in DownPackets /\ Saved.type = "04/03_saved"
  /\ Kick \in DownPackets /\ Kick.type = "08/00_kick"
  /\ \A c \in Conns, x \in SUBSET Gains :
       Data(c, x) \in DownPackets /\ Data(c, x).type = "04/01_data" /\ Data(c, x).char = x
<1>1. /\ AuthOK \in DownPackets /\ AuthOK.type = "0B_ok"
      /\ AuthFail \in DownPackets /\ AuthFail.type = "0B_fail"
      /\ Saved \in DownPackets /\ Saved.type = "04/03_saved"
      /\ Kick \in DownPackets /\ Kick.type = "08/00_kick"
  BY DEF AuthOK, AuthFail, Saved, Kick, DownPackets
<1>2. \A c \in Conns, x \in SUBSET Gains :
        Data(c, x) \in DownPackets /\ Data(c, x).type = "04/01_data" /\ Data(c, x).char = x
  BY DEF Data, DownPackets
<1> QED BY <1>1, <1>2

LEMMA DownPacketHas ==
  ASSUME NEW p \in DownPackets
  PROVE  /\ p.type = "04/01_data" => p.conn \in Conns /\ p.char \in SUBSET Gains
         /\ p.type = "08/00_kick" => p = Kick
BY DEF DownPackets, Kick

----------------------------------------------------------------------------
(* Steps that leave a part of the invariant alone                          *)

\* Nobody comes to the door, nobody is let in.
Calm ==
  \A c \in Conns :
    /\ conn'[c].guildcard => conn[c].guildcard /\ conn'[c].login = conn[c].login
    /\ conn'[c].on /\ ~conn'[c].guildcard =>
         Waits(c) /\ conn'[c].login = conn[c].login

\* Nobody gets a character, and none shrinks.
Tame ==
  \A c \in Conns : conn'[c].gotchardata =>
    conn[c].gotchardata /\ conn[c].char \subseteq conn'[c].char

\* The queues are sequences of packets, before the step and after it.
Queues == up \in Seq(UpPackets) /\ down \in Seq(DownPackets)
          /\ up' \in Seq(UpPackets) /\ down' \in Seq(DownPackets)

LEMMA DoorKept ==
  ASSUME Queues, Door, Calm, logins \in Nat, logins' \in Nat, logins <= logins',
         \A c \in Conns : conn[c].login \in Nat,
         NEW ku, NEW nu, Goes(up, up', ku, nu), \A p \in nu : p.type # "0B_auth",
         NEW kd, NEW nd, Goes(down, down', kd, nd), \A p \in nd : p.type \notin {"0B_ok", "0B_fail"}
  PROVE  Door'
<1>1. PICK f : Follows(up, up', ku, nu, f) BY FollowsUp DEF Queues
<1>2. PICK g : Follows(down, down', kd, nd, g) BY FollowsDown DEF Queues
<1>3. \A i \in At(up', "0B_auth") : i \in Nat /\ f[i] \in At(up, "0B_auth") /\ up'[i] = up[f[i]]
  BY <1>1, Whence
<1>4. /\ \A i \in At(down', "0B_ok") : i \in Nat /\ g[i] \in At(down, "0B_ok")
      /\ \A i \in At(down', "0B_fail") : i \in Nat /\ g[i] \in At(down, "0B_fail")
  BY <1>2, Whence
<1>5. (\A i, j \in Nat : f[i] = f[j] => i = j) /\ (\A i, j \in Nat : g[i] = g[j] => i = j)
  BY <1>1, <1>2, OrderKept
<1> DEFINE V == At(down', "0B_ok") \cup At(down', "0B_fail")
<1>6. \A i \in V : i \in Nat /\ g[i] \in Verdicts BY <1>4 DEF Verdicts
<1>7. \A c, d \in Conns : (conn'[c].on /\ ~conn'[c].guildcard) /\ (conn'[d].on /\ ~conn'[d].guildcard)
                            => c = d
  BY DEF Door, Calm
<1>8. \A i, j \in At(up', "0B_auth") : i = j BY <1>3, <1>5 DEF Door
<1>9. \A i, j \in V : i = j
  <2>1. ASSUME NEW i \in V, NEW j \in V PROVE i = j
    <3>1. g[i] = g[j] BY <1>6 DEF Door
    <3> QED BY <1>5, <1>6, <3>1
  <2> QED BY <2>1
<1>10. At(up', "0B_auth") = {} \/ V = {} BY <1>3, <1>6 DEF Door
<1>11. \A i \in At(up', "0B_auth"), c \in Conns :
         /\ (conn'[c].on /\ ~conn'[c].guildcard) => conn'[c].login = up'[i].login
         /\ conn'[c].guildcard => conn'[c].login # up'[i].login
  <2>1. ASSUME NEW i \in At(up', "0B_auth"), NEW c \in Conns
        PROVE  /\ (conn'[c].on /\ ~conn'[c].guildcard) => conn'[c].login = up'[i].login
               /\ conn'[c].guildcard => conn'[c].login # up'[i].login
    <3>1. /\ Waits(c) => conn[c].login = up'[i].login
          /\ conn[c].guildcard => conn[c].login # up'[i].login
      BY <1>3 DEF Door
    <3> QED BY <3>1 DEF Calm
  <2> QED BY <2>1
<1>12. ASSUME At(down', "0B_ok") # {}, NEW c \in Conns, conn'[c].guildcard PROVE conn'[c].login < logins'
  <2>1. At(down, "0B_ok") # {} BY <1>4, <1>12
  <2>2. conn[c].login < logins /\ conn'[c].login = conn[c].login BY <1>12, <2>1 DEF Door, Calm
  <2>3. conn[c].login \in Nat OBVIOUS
  <2> QED BY <2>2, <2>3
<1> QED BY <1>7, <1>8, <1>9, <1>10, <1>11, <1>12 DEF Door, Waits, Verdicts

LEMMA LoadingKept ==
  ASSUME Queues, Loading,
         NEW ku, NEW nu, Goes(up, up', ku, nu), \A p \in nu : p.type \notin {"0B_auth", "04/00_load"},
         NEW kd, NEW nd, Goes(down, down', kd, nd), \A p \in nd : p.type \notin {"0B_ok", "04/01_data"}
  PROVE  Loading'
<1>1. PICK f : Follows(up, up', ku, nu, f) BY FollowsUp DEF Queues
<1>2. PICK g : Follows(down, down', kd, nd, g) BY FollowsDown DEF Queues
<1>3. /\ \A i \in At(up', "0B_auth") : i \in Nat /\ f[i] \in At(up, "0B_auth")
      /\ \A i \in At(up', "04/00_load") : i \in Nat /\ f[i] \in At(up, "04/00_load")
      /\ \A i, j \in Nat : f[i] = f[j] => i = j
      /\ \A i, j \in Nat : f[i] < f[j] => i < j
  BY <1>1, Whence, OrderKept
<1>4. /\ \A i \in At(down', "0B_ok") : i \in Nat /\ g[i] \in At(down, "0B_ok")
      /\ \A i \in At(down', "04/01_data") : i \in Nat /\ g[i] \in At(down, "04/01_data")
      /\ \A i, j \in Nat : g[i] = g[j] => i = j
      /\ \A i, j \in Nat : g[i] < g[j] => i < j
  BY <1>2, Whence, OrderKept
<1>5. \A i, j \in At(up', "04/00_load") : i = j BY <1>3 DEF Loading
<1>6. \A i, j \in At(down', "04/01_data") : i = j BY <1>4 DEF Loading
<1>7. At(up', "04/00_load") = {} \/ At(down', "04/01_data") = {} BY <1>3, <1>4 DEF Loading
<1>8. \A i \in At(up', "04/00_load"), j \in At(up', "0B_auth") : i < j BY <1>3 DEF Loading
<1>9. At(down', "0B_ok") # {} => At(up', "04/00_load") = {} BY <1>3, <1>4 DEF Loading
<1>10. \A i \in At(down', "04/01_data"), j \in At(down', "0B_ok") : i < j BY <1>4 DEF Loading
<1> QED BY <1>5, <1>6, <1>7, <1>8, <1>9, <1>10 DEF Loading

LEMMA KicksKept ==
  ASSUME Queues, Kicks, Calm, logins' = logins,
         NEW kd, NEW nd, Goes(down, down', kd, nd), \A p \in nd : p.type # "0B_ok",
         \A i \in At(down, "08/00_kick") : i > kd
  PROVE  Kicks'
<1>1. PICK g : Follows(down, down', kd, nd, g) BY FollowsDown DEF Queues
<1>2. /\ \A i \in At(down', "0B_ok") : i \in Nat /\ g[i] \in At(down, "0B_ok")
      /\ \A i \in At(down, "08/00_kick") : \E j \in At(down', "08/00_kick") : j \in Nat /\ g[j] = i
      /\ \A i, j \in Nat : g[i] < g[j] => i < j
  BY <1>1, Whence, Whither, OrderKept
<1>3. \A c, d \in Conns : conn'[c].guildcard /\ conn'[d].guildcard => c = d BY DEF Kicks, Calm
<1>4. ASSUME NEW c \in Conns, conn'[c].guildcard, conn'[c].login < logins'
      PROVE  \E i \in At(down', "08/00_kick") : \A j \in At(down', "0B_ok") : i < j
  <2>1. PICK i \in At(down, "08/00_kick") : \A j \in At(down, "0B_ok") : i < j
    BY <1>4 DEF Kicks, Calm
  <2>2. PICK k \in At(down', "08/00_kick") : k \in Nat /\ g[k] = i BY <1>2
  <2> QED BY <1>2, <2>1, <2>2
<1>5. ASSUME NEW c \in Conns, conn'[c].on, ~conn'[c].guildcard, conn'[c].login < logins',
             NEW j \in At(down', "0B_ok")
      PROVE  \E i \in At(down', "08/00_kick") : j < i
  <2>1. Waits(c) /\ conn[c].login < logins BY <1>5 DEF Calm
  <2>2. PICK i \in At(down, "08/00_kick") : g[j] < i BY <1>2, <2>1 DEF Kicks
  <2>3. PICK k \in At(down', "08/00_kick") : k \in Nat /\ g[k] = i BY <1>2
  <2> QED BY <1>2, <2>2, <2>3
<1> QED BY <1>3, <1>4, <1>5 DEF Kicks, Waits

LEMMA PlayedKept ==
  ASSUME Queues, Played, Tame, stored' = stored,
         NEW ku, NEW nu, Goes(up, up', ku, nu), \A p \in nu : p.type # "04/00_load",
         \A p \in nu : p.type = "04/02_save" => \E c \in Conns : conn[c].gotchardata,
         NEW kd, NEW nd, Goes(down, down', kd, nd), \A p \in nd : p.type # "04/01_data"
  PROVE  Played'
<1>1. PICK f : Follows(up, up', ku, nu, f) BY FollowsUp DEF Queues
<1>2. PICK g : Follows(down, down', kd, nd, g) BY FollowsDown DEF Queues
<1>3. /\ \A i \in At(up', "04/00_load") : i \in Nat /\ f[i] \in At(up, "04/00_load")
      /\ \A i \in At(up', "04/02_save") :
           i \in Nat /\ (f[i] \in At(up, "04/02_save") \/ \E c \in Conns : conn[c].gotchardata)
      /\ \A i, j \in Nat : f[i] < f[j] => i < j
  BY <1>1, Whence, WhenceAdded, OrderKept
<1>4. \A i \in At(down', "04/01_data") : g[i] \in At(down, "04/01_data") /\ down'[i] = down[g[i]]
  BY <1>2, Whence
<1>5. ASSUME NEW c \in Conns, conn'[c].gotchardata
      PROVE  At(up', "04/00_load") = {} /\ At(down', "04/01_data") = {}
  <2>1. At(up, "04/00_load") = {} /\ At(down, "04/01_data") = {} BY <1>5 DEF Played, Tame
  <2> QED BY <1>3, <1>4, <2>1
<1>6. ASSUME NEW i \in At(up', "04/00_load"), NEW j \in At(up', "04/02_save") PROVE j < i
  <2>1. f[i] \in At(up, "04/00_load") /\ f[j] \in At(up, "04/02_save") BY <1>3 DEF Played
  <2> QED BY <1>3, <2>1 DEF Played
<1>7. ASSUME NEW i \in At(down', "04/01_data")
      PROVE  At(up', "04/02_save") = {} /\ down'[i].char = stored'
  <2>1. At(up, "04/02_save") = {} /\ down[g[i]].char = stored BY <1>4 DEF Played
  <2>2. \A c \in Conns : ~conn[c].gotchardata BY <1>4 DEF Played
  <2> QED BY <1>3, <1>4, <2>1, <2>2
<1> QED BY <1>5, <1>6, <1>7 DEF Played

\* Only whoever plays sends saves, and of what it plays.
LEMMA GrowsKept ==
  ASSUME Queues, Grows, Tame, stored' = stored,
         NEW ku, NEW nu, Goes(up, up', ku, nu),
         \A p \in nu : p.type = "04/02_save" =>
           \E c \in Conns : /\ conn[c].gotchardata /\ p.char = conn[c].char
                            /\ \A d \in Conns : conn[d].gotchardata => c = d
  PROVE  Grows'
<1>1. PICK f : Follows(up, up', ku, nu, f) BY FollowsUp DEF Queues
<1>2. ASSUME NEW i \in At(up', "04/02_save")
      PROVE  /\ i \in Nat /\ f[i] \in Nat
             /\ \/ f[i] \in At(up, "04/02_save") /\ up'[i] = up[f[i]]
                \/ /\ f[i] = Len(up) + 1
                   /\ \E c \in Conns : /\ conn[c].gotchardata /\ up'[i].char = conn[c].char
                                       /\ \A d \in Conns : conn[d].gotchardata => c = d
  <2>1. /\ i \in Nat /\ f[i] \in Nat
        /\ \/ f[i] \in At(up, "04/02_save") /\ up'[i] = up[f[i]]
           \/ f[i] = Len(up) + 1 /\ \E p \in nu : p.type = "04/02_save" /\ up'[i] = p
    BY <1>1, WhenceAdded
  <2> QED BY <2>1
<1>3. /\ \A i, j \in Nat : i < j => f[i] < f[j]
      /\ \A i \in At(up, "04/02_save") : i \in Nat /\ i < Len(up) + 1
      /\ Len(up) \in Nat
  <2>1. Len(up) \in Nat BY DEF Queues
  <2> QED BY <1>1, <2>1, Whither, OrderKept
<1>4. ASSUME NEW i \in At(up', "04/02_save") PROVE stored' \subseteq up'[i].char
  BY <1>2 DEF Grows
<1>5. ASSUME NEW i \in At(up', "04/02_save"), NEW j \in At(up', "04/02_save"), i < j
      PROVE  up'[i].char \subseteq up'[j].char
  <2>1. f[i] < f[j] BY <1>2, <1>3, <1>5
  <2>2. f[i] # Len(up) + 1
    <3>1. f[j] < Len(up) + 1 \/ f[j] = Len(up) + 1 BY <1>2, <1>3
    <3>2. f[i] \in Nat /\ f[j] \in Nat BY <1>2
    <3> QED BY <1>3, <2>1, <3>1, <3>2
  <2>3. f[i] \in At(up, "04/02_save") /\ up'[i] = up[f[i]] BY <1>2, <2>2
  <2>4. CASE f[j] \in At(up, "04/02_save") /\ up'[j] = up[f[j]] BY <2>1, <2>3, <2>4 DEF Grows
  <2>5. CASE \E c \in Conns : conn[c].gotchardata /\ up'[j].char = conn[c].char
    BY <2>3, <2>5 DEF Grows
  <2> QED BY <1>2, <2>4, <2>5
<1>6. ASSUME NEW c \in Conns, conn'[c].gotchardata
      PROVE  /\ stored' \subseteq conn'[c].char
             /\ \A i \in At(up', "04/02_save") : up'[i].char \subseteq conn'[c].char
  <2>1. conn[c].gotchardata /\ conn[c].char \subseteq conn'[c].char BY <1>6 DEF Tame
  <2>2. stored \subseteq conn[c].char BY <2>1 DEF Grows
  <2>3. ASSUME NEW i \in At(up', "04/02_save") PROVE up'[i].char \subseteq conn[c].char
    <3>1. CASE f[i] \in At(up, "04/02_save") /\ up'[i] = up[f[i]] BY <2>1, <3>1 DEF Grows
    <3>2. CASE \E d \in Conns : /\ conn[d].gotchardata /\ up'[i].char = conn[d].char
                                /\ \A e \in Conns : conn[e].gotchardata => d = e
      BY <2>1, <3>2
    <3> QED BY <1>2, <3>1, <3>2
  <2> QED BY <2>1, <2>2, <2>3
<1> QED BY <1>4, <1>5, <1>6 DEF Grows

\* The last save contains what was sent, also if that is one more.
LEMMA LastSaveKept ==
  ASSUME Queues, LastSave, Tame, stored' = stored,
         NEW ku, NEW nu, Goes(up, up', ku, nu), \A i \in At(up, "04/02_save") : i > ku,
         \/ sent' = sent /\ \A p \in nu : p.type # "04/02_save"
         \/ \E c \in Conns : /\ conn[c].gotchardata /\ sent' = sent \cup conn[c].char
                             /\ \A d \in Conns : conn[d].gotchardata => c = d
                             /\ nu = {Save(conn[c].char)} /\ conn[c].char \in SUBSET Gains
  PROVE  LastSave'
<1>1. PICK f : Follows(up, up', ku, nu, f) BY FollowsUp DEF Queues
<1>2. /\ \A i \in At(up', "04/02_save") :
           /\ i \in Nat /\ f[i] \in Nat
           /\ \/ f[i] \in At(up, "04/02_save") /\ up'[i] = up[f[i]]
              \/ f[i] = Len(up) + 1 /\ \E p \in nu : p.type = "04/02_save" /\ up'[i] = p
  BY <1>1, WhenceAdded
<1>5. /\ \A i \in At(up, "04/02_save") : i \in Nat /\ i < Len(up) + 1
      /\ \A i \in At(up, "04/02_save") :
           \E j \in At(up', "04/02_save") : j \in Nat /\ f[j] = i /\ up'[j] = up[i]
  BY <1>1, Whither
<1>6. /\ \A i, j \in Nat : f[i] < f[j] => i < j
      /\ \A i, j \in Nat : i < j => f[i] < f[j]
      /\ \A i, j \in Nat : f[i] = f[j] => i = j
  BY <1>1, OrderKept
<1>7. Len(up) \in Nat BY DEF Queues
<1>3. CASE sent' = sent /\ \A p \in nu : p.type # "04/02_save"
  <2>1. \A c \in Conns : conn'[c].gotchardata => sent' \subseteq conn'[c].char
    BY <1>3 DEF Tame, LastSave
  <2>2. At(up', "04/02_save") = {} => sent' \subseteq stored' BY <1>3, <1>5 DEF LastSave
  <2>3. ASSUME NEW i \in At(up', "04/02_save"), \A j \in At(up', "04/02_save") : j <= i
        PROVE  sent' \subseteq up'[i].char
    <3>1. f[i] \in At(up, "04/02_save") /\ up'[i] = up[f[i]] BY <1>2, <1>3
    <3>2. ASSUME NEW j \in At(up, "04/02_save") PROVE j <= f[i]
      <4>1. PICK m \in At(up', "04/02_save") : m \in Nat /\ f[m] = j BY <1>5
      <4>2. i \in Nat /\ m <= i /\ f[i] \in Nat BY <1>2, <2>3
      <4>3. ~(i < m) BY <4>1, <4>2
      <4>4. ~(f[i] < f[m]) BY <1>6, <4>1, <4>2, <4>3
      <4>5. j \in Nat BY <1>5
      <4> QED BY <4>1, <4>2, <4>4, <4>5
    <3> QED BY <1>3, <3>1, <3>2 DEF LastSave
  <2> QED BY <2>1, <2>2, <2>3 DEF LastSave
<1>4. ASSUME NEW c \in Conns, conn[c].gotchardata, sent' = sent \cup conn[c].char,
             \A d \in Conns : conn[d].gotchardata => c = d,
             nu = {Save(conn[c].char)}, conn[c].char \in SUBSET Gains
      PROVE  LastSave'
  <2>0. Save(conn[c].char).type = "04/02_save" /\ Save(conn[c].char).char = conn[c].char
    BY <1>4, UpPacketsAre
  <2>1. sent' = conn[c].char BY <1>4 DEF LastSave
  <2>2. \A d \in Conns : conn'[d].gotchardata => sent' \subseteq conn'[d].char
    BY <1>4, <2>1 DEF Tame
  <2>3. PICK n \in At(up', "04/02_save") : f[n] = Len(up) + 1 /\ up'[n].char = conn[c].char
    <3>1. \E j \in At(up', Save(conn[c].char).type) :
            f[j] = Len(up) + 1 /\ up'[j] = Save(conn[c].char)
      BY <1>1, <1>4 DEF Follows
    <3> QED BY <2>0, <3>1
  <2>4. ASSUME NEW i \in At(up', "04/02_save"), \A j \in At(up', "04/02_save") : j <= i
        PROVE  sent' \subseteq up'[i].char
    <3>0. i \in Nat /\ n \in Nat /\ f[i] \in Nat /\ n <= i BY <1>2, <2>4
    <3>1. ~(i < n) BY <3>0
    <3>2. ~(f[i] < f[n]) BY <1>6, <3>0, <3>1
    <3>5. f[i] < Len(up) + 1 \/ f[i] = Len(up) + 1 BY <1>2, <1>5
    <3>3. f[i] = Len(up) + 1 BY <1>7, <2>3, <3>0, <3>2, <3>5
    <3>4. i = n BY <1>6, <2>3, <3>0, <3>3
    <3> QED BY <2>1, <2>3, <3>4
  <2> QED BY <2>2, <2>3, <2>4 DEF LastSave
<1> QED BY <1>3, <1>4

----------------------------------------------------------------------------
(* What the actions are built from                                         *)

LEMMA LeastOf ==
  ASSUME NEW H \in SUBSET Nat, NEW least, least = {j \in H : \A k \in H : j <= k}
  PROVE  (\A i, j \in least : i = j) /\ (H # {} => least # {})
<1>1. ASSUME NEW i \in least, NEW j \in least PROVE i = j
  <2>1. i \in Nat /\ j \in Nat /\ i <= j /\ j <= i OBVIOUS
  <2> QED BY <2>1
<1>2. ASSUME H # {} PROVE least # {}
  <2> DEFINE f == [i \in H |-> i]
  <2>1. \A i \in H : f[i] \in Nat /\ f[i] = i OBVIOUS
  <2> HIDE DEF f
  <2>2. \E i \in H : \A j \in H : f[i] <= f[j] BY <1>2, <2>1, LeastBy
  <2> QED BY <2>1, <2>2
<1> QED BY <1>1, <1>2

\* The first connection of the account in the list, and the first that plays.
LEMMA FirstTemp ==
  ASSUME SaveTypes
  PROVE  /\ \A c \in First(HasTempGuildcard) : c \in Conns /\ conn[c].on
         /\ \A c, d \in First(HasTempGuildcard) : c = d
         /\ \A c \in Conns : conn[c].on => First(HasTempGuildcard) # {}
<1> DEFINE H == {i \in 1 .. Len(list) : conn[list[i]].on}
           least == {j \in H : \A k \in H : j <= k}
<1>1. First(HasTempGuildcard) = {list[i] : i \in least} BY DEF First, HasTempGuildcard
<1>2. H \in SUBSET Nat OBVIOUS
<1>4. \A i \in H : list[i] \in Conns /\ conn[list[i]].on BY DEF SaveTypes
<1>5. \A c \in Conns : conn[c].on => H # {}
  BY DEF SaveTypes, ToSet, OpenSockets
<1>6. least \subseteq H OBVIOUS
<1> HIDE DEF H
<1>3. (\A i, j \in least : i = j) /\ (H # {} => least # {})
  <2>1. \A L : L = least => (\A i, j \in L : i = j) /\ (H # {} => L # {}) BY <1>2, LeastOf
  <2> QED BY <2>1
<1> HIDE DEF least
<1> QED BY <1>1, <1>3, <1>4, <1>5, <1>6

LEMMA FirstHas ==
  ASSUME SaveTypes, SaveSteps
  PROVE  /\ \A c \in First(HasGuildcard) : c \in Conns /\ conn[c].guildcard
         /\ \A c, d \in First(HasGuildcard) : c = d
         /\ \A c \in Conns : conn[c].guildcard => First(HasGuildcard) # {}
<1> DEFINE H == {i \in 1 .. Len(list) : conn[list[i]].guildcard}
           least == {j \in H : \A k \in H : j <= k}
<1>1. First(HasGuildcard) = {list[i] : i \in least} BY DEF First, HasGuildcard
<1>2. H \in SUBSET Nat OBVIOUS
<1>4. \A i \in H : list[i] \in Conns /\ conn[list[i]].guildcard BY DEF SaveTypes
<1>5. ASSUME NEW c \in Conns, conn[c].guildcard PROVE H # {}
  <2>1. c \in ToSet(list) BY <1>5 DEF SaveTypes, SaveSteps, OpenSockets
  <2>2. PICK i \in 1 .. Len(list) : list[i] = c BY <2>1 DEF ToSet
  <2> QED BY <1>5, <2>2
<1>6. least \subseteq H OBVIOUS
<1> HIDE DEF H
<1>3. (\A i, j \in least : i = j) /\ (H # {} => least # {})
  <2>1. \A L : L = least => (\A i, j \in L : i = j) /\ (H # {} => L # {}) BY <1>2, LeastOf
  <2> QED BY <2>1
<1> HIDE DEF least
<1> QED BY <1>1, <1>3, <1>4, <1>5, <1>6

\* At most one packet joins the queue: a save of what somebody plays.
Sends(new) ==
  /\ Goes(up, up', 0, new)
  /\ \/ new = {} /\ sent' = sent
     \/ \E c \in Conns : /\ conn[c].gotchardata /\ new = {Save(conn[c].char)}
                         /\ sent' = sent \cup conn[c].char

LEMMA ConnTypes ==
  ASSUME SaveTypes, NEW c \in Conns
  PROVE  /\ conn[c] \in CharConn
         /\ conn[c].on \in BOOLEAN /\ conn[c].login \in Nat /\ conn[c].guildcard \in BOOLEAN
         /\ conn[c].gotchardata \in BOOLEAN /\ conn[c].released \in BOOLEAN
         /\ conn[c].told \in BOOLEAN /\ conn[c].mode \in BOOLEAN /\ conn[c].char \in SUBSET Gains
BY DEF SaveTypes, CharConn

LEMMA SendsCharacter ==
  ASSUME SaveTypes, SaveSteps, NEW c \in Conns,
         up' = ShipSend04(conn[c], up), sent' = sent \cup Sending(conn[c])
  PROVE  /\ up' \in Seq(UpPackets) /\ sent' \in SUBSET Gains
         /\ \E new : Sends(new)
         /\ ~link => up' = up
<1>1. conn[c].char \in SUBSET Gains BY ConnTypes
<1>2. up \in Seq(UpPackets) /\ sent \in SUBSET Gains BY DEF SaveTypes
<1>3. CASE ~conn[c].mode /\ conn[c].gotchardata /\ link
  <2>1. up' = Append(up, Save(conn[c].char)) /\ sent' = sent \cup conn[c].char
    BY <1>3 DEF ShipSend04, Sending, Queued
  <2>2. Save(conn[c].char) \in UpPackets BY <1>1, UpPacketsAre
  <2>3. up' \in Seq(UpPackets) /\ Goes(up, up', 0, {Save(conn[c].char)})
    BY <1>2, <2>1, <2>2, GoesPush
  <2>4. Sends({Save(conn[c].char)}) BY <1>3, <2>1, <2>3 DEF Sends
  <2> QED BY <1>1, <1>2, <1>3, <2>1, <2>3, <2>4
<1>4. CASE ~(~conn[c].mode /\ conn[c].gotchardata /\ link)
  <2>1. up' = up /\ sent' = sent BY <1>4 DEF ShipSend04, Sending, Queued
  <2>2. Goes(up, up', 0, {}) BY <1>2, <2>1, GoesSame
  <2>3. Sends({}) BY <2>1, <2>2 DEF Sends
  <2> QED BY <1>2, <2>1, <2>3
<1> QED BY <1>3, <1>4

\* A connection ends.
LEMMA Closes ==
  ASSUME SaveTypes, SaveSteps, NEW c \in Conns, initialize_connection(c)
  PROVE  /\ conn' \in [Conns -> CharConn]
         /\ \A d \in Conns : conn'[d] = IF d = c THEN Off ELSE conn[d]
         /\ list' \in Seq(Conns) /\ ToSet(list') = OpenSockets(conn')
         /\ Calm /\ Tame
<1>1. Off \in CharConn /\ ~Off.on /\ ~Off.guildcard /\ ~Off.gotchardata BY DEF Off, CharConn
<1>2. conn \in [Conns -> CharConn] /\ list \in Seq(Conns) /\ ToSet(list) = OpenSockets(conn)
  BY DEF SaveTypes
<1>3. conn' = [conn EXCEPT ![c] = Off] BY DEF initialize_connection
<1>4. conn' \in [Conns -> CharConn] BY <1>1, <1>2, <1>3
<1>5. \A d \in Conns : conn'[d] = IF d = c THEN Off ELSE conn[d] BY <1>2, <1>3
<1>6. list' \in Seq(Conns) /\ ToSet(list') = ToSet(list) \ {c}
  <2> DEFINE K == {i \in 1 .. Len(list) : list[i] # c}
             G == {c}
  <2>1. K \in SUBSET (1 .. Len(list)) /\ \A k \in 1 .. Len(list) : k \in K <=> list[k] \notin G
    OBVIOUS
  <2>2. list' = Kept(list, K) BY DEF initialize_connection
  <2> HIDE DEF K, G
  <2>3. list \in Seq(Conns) BY <1>2
  <2>4. Kept(list, K) \in Seq(Conns) /\ ToSet(Kept(list, K)) = ToSet(list) \ G
    BY <2>1, <2>3, KeptOut
  <2> QED BY <2>2, <2>4 DEF G
<1>7. ToSet(list') = OpenSockets(conn') BY <1>1, <1>2, <1>5, <1>6 DEF OpenSockets
<1>8. Calm /\ Tame BY <1>1, <1>5 DEF Calm, Tame, Waits
<1> QED BY <1>4, <1>5, <1>6, <1>7, <1>8

\* A step in which nobody comes, is let in or is loaded, and nothing is stored.
LEMMA StepKept ==
  ASSUME CharInv, Queues, Calm, Tame,
         logins' = logins, losses' = losses, stored' = stored, missed' = missed,
         NEW new, Sends(new), NEW kd, Goes(down, down', kd, {})
  PROVE  /\ Door' /\ Loading'
         /\ (\A i \in At(down, "08/00_kick") : i > kd) => (Held' => Kicks')
         /\ Held' => Played' /\ Grows'
         /\ losses' = 0 => LastSave'
<1>1. /\ SaveTypes /\ SaveSteps /\ Door /\ Loading
      /\ Held => Kicks /\ Played /\ Grows
      /\ losses = 0 => LastSave
  BY DEF CharInv
<1>2. Goes(up, up', 0, new) BY DEF Sends
<1>3. ASSUME NEW p \in new
      PROVE  p.type = "04/02_save" /\ \E c \in Conns : conn[c].gotchardata /\ p.char = conn[c].char
  <2>1. PICK c \in Conns : conn[c].gotchardata /\ p = Save(conn[c].char) BY <1>3 DEF Sends
  <2>2. conn[c].char \in SUBSET Gains BY <1>1, ConnTypes
  <2> QED BY <2>1, <2>2, UpPacketsAre
<1>4. Held' => Held BY DEF Held
<1>5. \A c \in Conns : conn[c].login \in Nat BY <1>1, ConnTypes
<1>6. logins \in Nat BY <1>1 DEF SaveTypes
<1>7. Door'
  <2>1. \A p \in new : p.type # "0B_auth" BY <1>3
  <2>2. logins' \in Nat /\ logins <= logins' BY <1>6
  <2> QED BY <1>1, <1>2, <1>5, <1>6, <2>1, <2>2, DoorKept
<1>8. Loading'
  <2>1. \A p \in new : p.type \notin {"0B_auth", "04/00_load"} BY <1>3
  <2> QED BY <1>1, <1>2, <2>1, LoadingKept
<1>9. ASSUME \A i \in At(down, "08/00_kick") : i > kd, Held' PROVE Kicks'
  BY <1>1, <1>4, <1>9, KicksKept
<1>10. Held => \A c, d \in Conns : conn[c].gotchardata /\ conn[d].gotchardata => c = d
  BY <1>1 DEF SaveSteps, Kicks
<1>11. ASSUME Held' PROVE Played'
  <2>1. \A p \in new : p.type # "04/00_load" BY <1>3
  <2>2. \A p \in new : p.type = "04/02_save" => \E c \in Conns : conn[c].gotchardata BY <1>3
  <2>3. Played BY <1>1, <1>4, <1>11
  <2> QED BY <1>2, <2>1, <2>2, <2>3, PlayedKept
<1>12. ASSUME Held' PROVE Grows'
  <2>1. \A p \in new : p.type = "04/02_save" =>
          \E c \in Conns : /\ conn[c].gotchardata /\ p.char = conn[c].char
                           /\ \A d \in Conns : conn[d].gotchardata => c = d
    BY <1>3, <1>4, <1>10, <1>12
  <2>2. Grows BY <1>1, <1>4, <1>12
  <2> QED BY <1>2, <2>1, <2>2, GrowsKept
<1>13. ASSUME losses' = 0 PROVE LastSave'
  <2>1. Held /\ LastSave BY <1>1, <1>13 DEF Held
  <2>2. \A i \in At(up, "04/02_save") : i > 0 BY DEF At
  <2>3. \/ sent' = sent /\ \A p \in new : p.type # "04/02_save"
        \/ \E c \in Conns : /\ conn[c].gotchardata /\ sent' = sent \cup conn[c].char
                            /\ \A d \in Conns : conn[d].gotchardata => c = d
                            /\ new = {Save(conn[c].char)} /\ conn[c].char \in SUBSET Gains
    <3>1. CASE new = {} /\ sent' = sent BY <3>1
    <3>2. ASSUME NEW c \in Conns, conn[c].gotchardata, new = {Save(conn[c].char)},
                 sent' = sent \cup conn[c].char
          PROVE  /\ \A d \in Conns : conn[d].gotchardata => c = d
                 /\ conn[c].char \in SUBSET Gains
      BY <1>1, <1>10, <2>1, <3>2, ConnTypes
    <3> QED BY <3>1, <3>2 DEF Sends
  <2> QED BY <1>2, <2>1, <2>2, <2>3, LastSaveKept
<1> QED BY <1>7, <1>8, <1>9, <1>11, <1>12, <1>13

----------------------------------------------------------------------------
(* Each action preserves the invariant                                     *)

LEMMA InvParts ==
  ASSUME CharInv
  PROVE  /\ SaveTypes /\ SaveSteps /\ Door /\ Loading
         /\ Held => Kicks /\ Played /\ Grows
         /\ losses = 0 => LastSave
         /\ conn \in [Conns -> CharConn]
         /\ list \in Seq(Conns) /\ ToSet(list) = OpenSockets(conn)
         /\ up \in Seq(UpPackets) /\ down \in Seq(DownPackets)
         /\ stored \in SUBSET Gains /\ sent \in SUBSET Gains /\ gained \in SUBSET Gains
         /\ logins \in Nat /\ losses \in Nat /\ link \in BOOLEAN /\ missed \in BOOLEAN
BY DEF CharInv, SaveTypes

LEMMA CalmStep ==
  ASSUME CharInv, SaveTypes', SaveSteps', Calm, Tame,
         logins' = logins, losses' = losses, stored' = stored, missed' = missed,
         \E new : Sends(new), NEW kd, Goes(down, down', kd, {}),
         (\A i \in At(down, "08/00_kick") : i > kd) \/ (Held' => Kicks')
  PROVE  CharInv'
<1>1. Queues BY DEF CharInv, SaveTypes, Queues
<1>2. PICK new : Sends(new) OBVIOUS
<1>3. /\ Door' /\ Loading'
      /\ (\A i \in At(down, "08/00_kick") : i > kd) => (Held' => Kicks')
      /\ Held' => Played' /\ Grows'
      /\ losses' = 0 => LastSave'
  BY <1>1, <1>2, StepKept
<1> QED BY <1>3 DEF CharInv

\* A connection goes on as it was, but for what its character has gained, the
\* battle it is in and its being released.
Stays(c) ==
  /\ conn'[c] \in CharConn
  /\ conn'[c].on = conn[c].on /\ conn'[c].login = conn[c].login
  /\ conn'[c].guildcard = conn[c].guildcard
  /\ conn'[c].gotchardata => conn[c].gotchardata /\ conn[c].char \subseteq conn'[c].char

LEMMA AllStay ==
  ASSUME CharInv, conn' = [c \in Conns |-> conn'[c]], \A c \in Conns : Stays(c)
  PROVE  /\ conn' \in [Conns -> CharConn] /\ OpenSockets(conn') = OpenSockets(conn)
         /\ Calm /\ Tame
         /\ \A c \in Conns : /\ conn'[c].guildcard => conn'[c].on
                             /\ conn'[c].gotchardata => conn'[c].guildcard
                             /\ conn'[c].login <= logins
         /\ losses = 0 /\ ~link => \A c \in Conns : ~conn'[c].guildcard
<1>1. SaveTypes /\ SaveSteps BY InvParts
<1>2. conn' \in [Conns -> CharConn] BY DEF Stays
<1>3. OpenSockets(conn') = OpenSockets(conn) BY DEF OpenSockets, Stays
<1>4. Calm /\ Tame BY DEF Stays, Calm, Tame, Waits
<1> QED BY <1>1, <1>2, <1>3, <1>4 DEF SaveSteps, Stays

\* The same, for a step of the ship that sends a save at most.
LEMMA StayingStep ==
  ASSUME CharInv, conn' = [c \in Conns |-> conn'[c]], \A c \in Conns : Stays(c),
         list' = list, up' \in Seq(UpPackets), sent' \in SUBSET Gains, gained' \in SUBSET Gains,
         ~link => up' = up, \E new : Sends(new),
         UNCHANGED <<down, link, logins, losses, stored, missed>>
  PROVE  CharInv'
<1>1. /\ SaveTypes /\ SaveSteps /\ down \in Seq(DownPackets)
      /\ list \in Seq(Conns) /\ ToSet(list) = OpenSockets(conn)
      /\ stored \in SUBSET Gains /\ logins \in Nat /\ losses \in Nat
      /\ link \in BOOLEAN /\ missed \in BOOLEAN
  BY InvParts
<1>2. /\ conn' \in [Conns -> CharConn] /\ OpenSockets(conn') = OpenSockets(conn)
      /\ Calm /\ Tame
      /\ \A c \in Conns : /\ conn'[c].guildcard => conn'[c].on
                          /\ conn'[c].gotchardata => conn'[c].guildcard
                          /\ conn'[c].login <= logins
      /\ losses = 0 /\ ~link => \A c \in Conns : ~conn'[c].guildcard
  BY AllStay
<1>3. SaveTypes' BY <1>1, <1>2 DEF SaveTypes
<1>4. SaveSteps' BY <1>1, <1>2 DEF SaveSteps
<1>5. Goes(down, down', 0, {}) BY <1>1, GoesSame
<1>6. \A i \in At(down, "08/00_kick") : i > 0 BY DEF At
<1> QED BY <1>2, <1>3, <1>4, <1>5, <1>6, CalmStep

\* Nothing is sent.
LEMMA NothingSent ==
  ASSUME up \in Seq(UpPackets), up' = up, sent' = sent
  PROVE  \E new : Sends(new)
<1>1. Goes(up, up', 0, {}) BY GoesSame
<1>2. Sends({}) BY <1>1 DEF Sends
<1> QED BY <1>2

LEMMA PlayKeeps ==
  ASSUME CharInv, NEW c \in Conns, (\E x \in Gains : Gain(c, x)) \/ StartBattle(c) \/ EndBattle(c)
  PROVE  CharInv'
<1>1. /\ conn \in [Conns -> CharConn] /\ up \in Seq(UpPackets)
      /\ sent \in SUBSET Gains /\ gained \in SUBSET Gains
  BY InvParts
<1>2. conn' = [d \in Conns |-> conn'[d]] /\ \A d \in Conns : Stays(d)
  <2>1. CASE \E x \in Gains : Gain(c, x)
    <3>1. PICK x \in Gains : conn' = [conn EXCEPT ![c].char = @ \cup {x}] BY <2>1 DEF Gain
    <3> QED BY <1>1, <3>1 DEF Stays, CharConn
  <2>2. CASE StartBattle(c) BY <1>1, <2>2 DEF StartBattle, Stays, CharConn
  <2>3. CASE EndBattle(c) BY <1>1, <2>3 DEF EndBattle, Stays, CharConn
  <2> QED BY <2>1, <2>2, <2>3
<1>3. /\ list' = list /\ up' = up /\ sent' = sent /\ gained' \in SUBSET Gains
      /\ UNCHANGED <<down, link, logins, losses, stored, missed>>
  <2>1. CASE \E x \in Gains : Gain(c, x)
    <3>1. PICK x \in Gains : Gain(c, x) BY <2>1
    <3>2. gained' = gained \cup {x} BY <3>1 DEF Gain
    <3>3. gained' \in SUBSET Gains BY <1>1, <3>2
    <3> QED BY <3>1, <3>3 DEF Gain
  <2>2. CASE StartBattle(c) BY <1>1, <2>2 DEF StartBattle, history
  <2>3. CASE EndBattle(c) BY <1>1, <2>3 DEF EndBattle, history
  <2> QED BY <2>1, <2>2, <2>3
<1>4. \E new : Sends(new) BY <1>1, <1>3, NothingSent
<1> QED BY <1>1, <1>2, <1>3, <1>4, StayingStep

LEMMA AutosaveKeeps ==
  ASSUME CharInv, NEW c \in Conns, Autosave(c)
  PROVE  CharInv'
<1>1. SaveTypes /\ SaveSteps /\ conn \in [Conns -> CharConn] /\ gained \in SUBSET Gains
  BY InvParts
<1>2. /\ up' = ShipSend04(conn[c], up) /\ sent' = sent \cup Sending(conn[c])
      /\ conn' = conn /\ list' = list /\ gained' = gained
      /\ UNCHANGED <<down, link, logins, losses, stored, missed>>
  BY DEF Autosave
<1>3. /\ up' \in Seq(UpPackets) /\ sent' \in SUBSET Gains
      /\ (\E new : Sends(new)) /\ (~link => up' = up)
  BY <1>1, <1>2, SendsCharacter
<1>4. conn' = [d \in Conns |-> conn'[d]] /\ \A d \in Conns : Stays(d) BY <1>1, <1>2 DEF Stays
<1> QED BY <1>1, <1>2, <1>3, <1>4, StayingStep

LEMMA ReleaseKeeps ==
  ASSUME CharInv, NEW c \in Conns, Release(c)
  PROVE  CharInv'
<1>1. SaveTypes /\ SaveSteps /\ conn \in [Conns -> CharConn] /\ gained \in SUBSET Gains
  BY InvParts
<1>2. /\ up' = ShipSend04(conn[c], up) /\ sent' = sent \cup Sending(conn[c])
      /\ conn' = [conn EXCEPT ![c].gotchardata = FALSE, ![c].released = TRUE]
      /\ list' = list /\ gained' = gained
      /\ UNCHANGED <<down, link, logins, losses, stored, missed>>
  BY DEF Release
<1>3. /\ up' \in Seq(UpPackets) /\ sent' \in SUBSET Gains
      /\ (\E new : Sends(new)) /\ (~link => up' = up)
  BY <1>1, <1>2, SendsCharacter
<1>4. conn' = [d \in Conns |-> conn'[d]] /\ \A d \in Conns : Stays(d)
  <2>1. conn' \in [Conns -> CharConn] BY <1>1, <1>2, ZenonT(60) DEF CharConn
  <2>2. ASSUME NEW d \in Conns, d # c PROVE Stays(d) BY <1>1, <1>2, <2>2 DEF Stays
  <2>3. /\ conn'[c].on = conn[c].on /\ conn'[c].login = conn[c].login
        /\ conn'[c].guildcard = conn[c].guildcard /\ ~conn'[c].gotchardata
    BY <1>1, <1>2 DEF CharConn
  <2>4. Stays(c) BY <2>1, <2>3 DEF Stays
  <2> QED BY <2>1, <2>2, <2>4
<1> QED BY <1>1, <1>2, <1>3, <1>4, StayingStep

\* A connection of the account ends, and a packet may have been read for it.
LEMMA ClosingStep ==
  ASSUME CharInv, NEW c \in Conns, initialize_connection(c),
         down' \in Seq(DownPackets), NEW kd, Goes(down, down', kd, {}),
         (\A i \in At(down, "08/00_kick") : i > kd) \/ (Held' => Kicks'),
         ~link => down' = down,
         UNCHANGED <<link, logins, losses, stored, gained, missed>>
  PROVE  CharInv'
<1>1. /\ SaveTypes /\ SaveSteps
      /\ stored \in SUBSET Gains /\ gained \in SUBSET Gains
      /\ logins \in Nat /\ losses \in Nat /\ link \in BOOLEAN /\ missed \in BOOLEAN
  BY InvParts
<1>2. /\ conn' \in [Conns -> CharConn]
      /\ \A d \in Conns : conn'[d] = IF d = c THEN Off ELSE conn[d]
      /\ list' \in Seq(Conns) /\ ToSet(list') = OpenSockets(conn')
      /\ Calm /\ Tame
  BY <1>1, Closes
<1>3. /\ up' \in Seq(UpPackets) /\ sent' \in SUBSET Gains
      /\ \E new : Sends(new)
      /\ ~link => up' = up
  BY <1>1, SendsCharacter DEF initialize_connection
<1>4. SaveTypes' BY <1>1, <1>2, <1>3 DEF SaveTypes
<1>5. Off.on = FALSE /\ Off.guildcard = FALSE /\ Off.gotchardata = FALSE /\ Off.login = 0
  BY DEF Off
<1>6. \A d \in Conns : /\ conn'[d].guildcard => conn'[d].on
                       /\ conn'[d].gotchardata => conn'[d].guildcard
                       /\ conn'[d].login <= logins
  BY <1>1, <1>2, <1>5 DEF SaveSteps
<1>7. losses = 0 /\ ~link => \A d \in Conns : ~conn'[d].guildcard
  BY <1>1, <1>2, <1>5 DEF SaveSteps
<1>8. SaveSteps' BY <1>1, <1>3, <1>6, <1>7 DEF SaveSteps
<1> QED BY <1>2, <1>3, <1>4, <1>8, CalmStep

LEMMA DisconnectKeeps ==
  ASSUME CharInv, NEW c \in Conns, Disconnect(c)
  PROVE  CharInv'
<1>1. down \in Seq(DownPackets) BY InvParts
<1>2. /\ initialize_connection(c) /\ down' = down
      /\ UNCHANGED <<link, logins, losses, stored, gained, missed>>
  BY DEF Disconnect
<1>3. Goes(down, down', 0, {}) BY <1>1, <1>2, GoesSame
<1>4. \A i \in At(down, "08/00_kick") : i > 0 BY DEF At
<1> QED BY <1>1, <1>2, <1>3, <1>4, ClosingStep

\* The ship reads the next packet.
LEMMA ShipReadsNext ==
  ASSUME CharInv, NEW t, Arrives(t), ShipReads
  PROVE  /\ down' \in Seq(DownPackets) /\ Goes(down, down', 1, {}) /\ link
         /\ Head(down) = down[1] /\ down[1] \in DownPackets /\ down[1].type = t
         /\ 1 \in At(down, t)
         /\ \A u : \A i \in At(down, u) : i \in Nat /\ i >= 1
         /\ \A u : u # t => \A i \in At(down, u) : i > 1
<1>1. SaveSteps /\ down \in Seq(DownPackets) /\ link \in BOOLEAN BY InvParts
<1>2. down # <<>> /\ Head(down).type = t /\ down' = Tail(down) BY DEF Arrives, ShipReads
<1>3. /\ down' \in Seq(DownPackets) /\ Goes(down, down', 1, {})
      /\ Head(down) = down[1] /\ down[1] \in DownPackets /\ 1 \in At(down, down[1].type)
  BY <1>1, <1>2, GoesPop
<1>4. link BY <1>1, <1>2 DEF SaveSteps
<1>5. \A u : \A i \in At(down, u) : i \in Nat /\ i >= 1 /\ down[i].type = u BY <1>1 DEF At
<1>6. ASSUME NEW u, u # t, NEW i \in At(down, u) PROVE i > 1
  <2>1. i # 1 BY <1>2, <1>3, <1>5, <1>6
  <2> QED BY <1>5, <2>1
<1> QED BY <1>2, <1>3, <1>4, <1>5, <1>6

\* The login server reads the next packet.
LEMMA LoginReadsNext ==
  ASSUME CharInv, NEW t, Serves(t)
  PROVE  /\ up' \in Seq(UpPackets) /\ Goes(up, up', 1, {}) /\ link
         /\ Head(up) = up[1] /\ up[1] \in UpPackets /\ up[1].type = t
         /\ 1 \in At(up, t)
         /\ \A u : \A i \in At(up, u) : i \in Nat /\ i >= 1
         /\ \A u : u # t => \A i \in At(up, u) : i > 1
<1>1. SaveSteps /\ up \in Seq(UpPackets) /\ link \in BOOLEAN BY InvParts
<1>2. up # <<>> /\ Head(up).type = t /\ up' = Tail(up) BY DEF Serves
<1>3. /\ up' \in Seq(UpPackets) /\ Goes(up, up', 1, {})
      /\ Head(up) = up[1] /\ up[1] \in UpPackets /\ 1 \in At(up, up[1].type)
  BY <1>1, <1>2, GoesPop
<1>4. link BY <1>1, <1>2 DEF SaveSteps
<1>5. \A u : \A i \in At(up, u) : i \in Nat /\ i >= 1 /\ up[i].type = u BY <1>1 DEF At
<1>6. ASSUME NEW u, u # t, NEW i \in At(up, u) PROVE i > 1
  <2>1. i # 1 BY <1>2, <1>3, <1>5, <1>6
  <2> QED BY <1>5, <2>1
<1> QED BY <1>2, <1>3, <1>4, <1>5, <1>6

\* A refused client is closed; nobody was let in.
LEMMA RefuseKeeps ==
  ASSUME CharInv, Refuse
  PROVE  CharInv'
<1>1. SaveTypes /\ SaveSteps /\ conn \in [Conns -> CharConn] /\ up \in Seq(UpPackets)
      /\ sent \in SUBSET Gains /\ gained \in SUBSET Gains
  BY InvParts
<1>2. Arrives("0B_fail") /\ SendAway(First(HasTempGuildcard)) BY DEF Refuse
<1>3. ShipReads /\ UNCHANGED <<link, logins, losses, stored, gained, missed>>
  BY <1>2 DEF SendAway
<1>4. /\ down' \in Seq(DownPackets) /\ Goes(down, down', 1, {}) /\ link
      /\ \A u : u # "0B_fail" => \A i \in At(down, u) : i > 1
  BY <1>2, <1>3, ShipReadsNext
<1>5. \A i \in At(down, "08/00_kick") : i > 1 BY <1>4
<1>6. CASE UNCHANGED <<conn, list, up, sent>>
  <2>1. \E new : Sends(new) BY <1>1, <1>6, NothingSent
  <2>2. conn' = [d \in Conns |-> conn'[d]] /\ \A d \in Conns : Stays(d) BY <1>1, <1>6 DEF Stays
  <2>3. /\ conn' \in [Conns -> CharConn] /\ OpenSockets(conn') = OpenSockets(conn)
        /\ Calm /\ Tame
    BY <2>2, AllStay
  <2>4. SaveTypes' BY <1>1, <1>3, <1>4, <1>6 DEF SaveTypes, OpenSockets
  <2>5. SaveSteps' BY <1>1, <1>3, <1>4, <1>6 DEF SaveSteps
  <2> QED BY <1>3, <1>4, <1>5, <2>1, <2>3, <2>4, <2>5, CalmStep
<1>7. CASE \E c \in First(HasTempGuildcard) : initialize_connection(c)
  <2>1. PICK c \in Conns : initialize_connection(c) BY <1>1, <1>7, FirstTemp
  <2> QED BY <1>3, <1>4, <1>5, <2>1, ClosingStep
<1> QED BY <1>2, <1>6, <1>7 DEF SendAway

\* A kick is carried out: whoever played is gone, and the kicks of those who
\* wait are still to come.
LEMMA KicksAfterKick ==
  ASSUME Queues, Kicks, Calm, logins' = logins, \A c \in Conns : ~conn'[c].guildcard,
         Goes(down, down', 1, {})
  PROVE  Kicks'
<1>1. PICK g : Follows(down, down', 1, {}, g) BY FollowsDown DEF Queues
<1>2. \A i \in At(down', "0B_ok") : i \in Nat /\ g[i] \in Nat /\ g[i] \in At(down, "0B_ok")
  BY <1>1, Whence
<1>3. \A i \in At(down, "08/00_kick") : i \in Nat /\ (i > 1 =>
        \E j \in At(down', "08/00_kick") : j \in Nat /\ g[j] = i)
  BY <1>1, Whither
<1>4. \A i, j \in Nat : g[i] < g[j] => i < j BY <1>1, OrderKept
<1>5. \A i \in At(down, "0B_ok") : i >= 1 BY DEF At
<1>6. ASSUME NEW c \in Conns, conn'[c].on, ~conn'[c].guildcard, conn'[c].login < logins',
             NEW j \in At(down', "0B_ok")
      PROVE  \E i \in At(down', "08/00_kick") : j < i
  <2>1. Waits(c) /\ conn[c].login < logins BY <1>6 DEF Calm
  <2>2. PICK i \in At(down, "08/00_kick") : g[j] < i BY <1>2, <2>1 DEF Kicks
  <2>3. i > 1 BY <1>2, <1>3, <1>5, <2>2
  <2>4. PICK k \in At(down', "08/00_kick") : k \in Nat /\ g[k] = i BY <1>3, <2>3
  <2> QED BY <1>2, <1>4, <2>2, <2>4
<1> QED BY <1>6 DEF Kicks, Waits

LEMMA KickedKeeps ==
  ASSUME CharInv, Kicked
  PROVE  CharInv'
<1>1. SaveTypes /\ SaveSteps /\ conn \in [Conns -> CharConn] /\ up \in Seq(UpPackets)
      /\ down \in Seq(DownPackets)
      /\ sent \in SUBSET Gains /\ gained \in SUBSET Gains
      /\ (Held => Kicks)
  BY InvParts
<1>2. Arrives("08/00_kick") /\ SendAway(First(HasGuildcard)) BY DEF Kicked
<1>3. ShipReads /\ UNCHANGED <<link, logins, losses, stored, gained, missed>>
  BY <1>2 DEF SendAway
<1>4. down' \in Seq(DownPackets) /\ Goes(down, down', 1, {}) /\ link
  BY <1>2, <1>3, ShipReadsNext
<1>5. Held' => Held BY <1>3 DEF Held
<1>6. CASE First(HasGuildcard) = {} /\ UNCHANGED <<conn, list, up, sent>>
  <2>1. \E new : Sends(new) BY <1>1, <1>6, NothingSent
  <2>2. conn' = [d \in Conns |-> conn'[d]] /\ \A d \in Conns : Stays(d) BY <1>1, <1>6 DEF Stays
  <2>3. /\ conn' \in [Conns -> CharConn] /\ OpenSockets(conn') = OpenSockets(conn)
        /\ Calm /\ Tame
    BY <2>2, AllStay
  <2>4. SaveTypes' BY <1>1, <1>3, <1>4, <1>6 DEF SaveTypes, OpenSockets
  <2>5. SaveSteps' BY <1>1, <1>3, <1>4, <1>6 DEF SaveSteps
  <2>6. \A c \in Conns : ~conn'[c].guildcard BY <1>1, <1>6, FirstHas
  <2>7. Queues BY <1>1, <1>4, <1>6 DEF Queues
  <2>8. Held' => Kicks' BY <1>1, <1>3, <1>4, <1>5, <2>3, <2>6, <2>7, KicksAfterKick
  <2> QED BY <1>3, <1>4, <2>1, <2>3, <2>4, <2>5, <2>8, CalmStep
<1>7. CASE \E c \in First(HasGuildcard) : initialize_connection(c)
  <2>1. PICK c \in First(HasGuildcard) : initialize_connection(c) BY <1>7
  <2>2. c \in Conns /\ conn[c].guildcard BY <1>1, FirstHas
  <2>3. /\ conn' \in [Conns -> CharConn]
        /\ \A d \in Conns : conn'[d] = IF d = c THEN Off ELSE conn[d]
        /\ Calm
    BY <1>1, <2>1, <2>2, Closes
  <2>4. Held => \A d \in Conns : ~conn'[d].guildcard
    BY <1>1, <2>2, <2>3 DEF Kicks, Off
  <2>5. up' \in Seq(UpPackets) BY <1>1, <2>1, <2>2, SendsCharacter DEF initialize_connection
  <2>6. Queues BY <1>1, <1>4, <2>5 DEF Queues
  <2>7. Held' => Kicks' BY <1>1, <1>3, <1>4, <1>5, <2>3, <2>4, <2>6, KicksAfterKick
  <2> QED BY <1>3, <1>4, <2>1, <2>2, <2>7, ClosingStep
<1> QED BY <1>2, <1>6, <1>7 DEF SendAway

LEMMA LetGoKeeps ==
  ASSUME CharInv, LetGo
  PROVE  CharInv'
<1>1. SaveTypes /\ SaveSteps /\ conn \in [Conns -> CharConn] /\ up \in Seq(UpPackets)
      /\ sent \in SUBSET Gains /\ gained \in SUBSET Gains
  BY InvParts
<1>2. /\ Arrives("04/03_saved") /\ ShipReads
      /\ UNCHANGED <<list, up, link, stored, logins, losses, gained, sent, missed>>
  BY DEF LetGo, history
<1>3. PICK who : conn' = [c \in Conns |-> [conn[c] EXCEPT !.told = @ \/ c \in who]]
  BY DEF LetGo
<1>4. /\ down' \in Seq(DownPackets) /\ Goes(down, down', 1, {}) /\ link
      /\ \A u : u # "04/03_saved" => \A i \in At(down, u) : i > 1
  BY <1>2, ShipReadsNext
<1>5. conn' = [d \in Conns |-> conn'[d]] /\ \A d \in Conns : Stays(d)
  <2>1. ASSUME NEW d \in Conns PROVE Stays(d)
    <3>1. conn'[d] = [conn[d] EXCEPT !.told = conn[d].told \/ d \in who] BY <1>3
    <3>2. (conn[d].told \/ d \in who) \in BOOLEAN OBVIOUS
    <3>3. conn[d] \in CharConn BY <1>1
    <3> QED BY <3>1, <3>2, <3>3 DEF Stays, CharConn
  <2> QED BY <1>3, <2>1
<1>6. /\ conn' \in [Conns -> CharConn] /\ OpenSockets(conn') = OpenSockets(conn)
      /\ Calm /\ Tame
      /\ \A c \in Conns : /\ conn'[c].guildcard => conn'[c].on
                          /\ conn'[c].gotchardata => conn'[c].guildcard
                          /\ conn'[c].login <= logins
  BY <1>5, AllStay
<1>7. \E new : Sends(new) BY <1>1, <1>2, NothingSent
<1>8. SaveTypes' BY <1>1, <1>2, <1>4, <1>6 DEF SaveTypes
<1>9. SaveSteps' BY <1>1, <1>2, <1>4, <1>6 DEF SaveSteps
<1>10. \A i \in At(down, "08/00_kick") : i > 1 BY <1>4
<1> QED BY <1>2, <1>4, <1>6, <1>7, <1>8, <1>9, <1>10, CalmStep

LEMMA LinkUpKeeps ==
  ASSUME CharInv, LinkUp
  PROVE  CharInv'
<1>1. /\ SaveTypes /\ SaveSteps /\ conn \in [Conns -> CharConn] /\ up \in Seq(UpPackets)
      /\ down \in Seq(DownPackets)
  BY InvParts
<1>2. /\ link' = TRUE /\ conn' = conn /\ list' = list /\ up' = up /\ down' = down
      /\ UNCHANGED <<stored, logins, losses, gained, sent, missed>>
  BY DEF LinkUp, history
<1>3. SaveTypes' /\ SaveSteps' BY <1>1, <1>2 DEF SaveTypes, SaveSteps, OpenSockets
<1>4. conn' = [d \in Conns |-> conn'[d]] /\ \A d \in Conns : Stays(d) BY <1>1, <1>2 DEF Stays
<1>5. Calm /\ Tame BY <1>4, AllStay
<1>6. \E new : Sends(new) BY <1>1, <1>2, NothingSent
<1>7. Goes(down, down', 0, {}) BY <1>1, <1>2, GoesSame
<1>8. \A i \in At(down, "08/00_kick") : i > 0 BY DEF At
<1> QED BY <1>2, <1>3, <1>5, <1>6, <1>7, <1>8, CalmStep

LEMMA Unmoved ==
  ASSUME CharInv, conn' = conn
  PROVE  Calm /\ Tame /\ conn' \in [Conns -> CharConn] /\ OpenSockets(conn') = OpenSockets(conn)
<1>1. conn \in [Conns -> CharConn] BY InvParts
<1>2. conn' = [d \in Conns |-> conn'[d]] /\ \A d \in Conns : Stays(d) BY <1>1 DEF Stays
<1> QED BY <1>2, AllStay

LEMMA DownPush ==
  ASSUME CharInv, NEW p \in DownPackets, down' = Append(down, p)
  PROVE  down' \in Seq(DownPackets) /\ Goes(down, down', 0, {p})
<1>1. down \in Seq(DownPackets) BY InvParts
<1> QED BY <1>1, GoesPush

LEMMA UpPush ==
  ASSUME CharInv, NEW p \in UpPackets, up' = Append(up, p)
  PROVE  up' \in Seq(UpPackets) /\ Goes(up, up', 0, {p})
<1>1. up \in Seq(UpPackets) BY InvParts
<1> QED BY <1>1, GoesPush

LEMMA AuthenticateKeeps ==
  ASSUME CharInv, Authenticate
  PROVE  CharInv'
<1>1. /\ SaveTypes /\ SaveSteps /\ Door /\ Loading
      /\ Held => Kicks /\ Played /\ Grows
      /\ losses = 0 => LastSave
      /\ up \in Seq(UpPackets) /\ down \in Seq(DownPackets) /\ logins \in Nat
  BY InvParts
<1>2. /\ Serves("0B_auth")
      /\ down' = Append(down, IF Head(up).login = logins THEN AuthOK ELSE AuthFail)
      /\ UNCHANGED <<conn, list, link, stored, logins, losses, gained, sent, missed>>
  BY DEF Authenticate, history
<1>3. /\ up' \in Seq(UpPackets) /\ Goes(up, up', 1, {}) /\ link
      /\ Head(up) = up[1] /\ up[1] \in UpPackets /\ 1 \in At(up, "0B_auth")
      /\ \A u : \A i \in At(up, u) : i \in Nat /\ i >= 1
      /\ \A u : u # "0B_auth" => \A i \in At(up, u) : i > 1
  BY <1>2, LoginReadsNext
<1>4. PICK p \in DownPackets :
        /\ down' = Append(down, p)
        /\ (p.type = "0B_ok" /\ up[1].login = logins) \/ p.type = "0B_fail"
  BY <1>2, <1>3, DownPacketsAre
<1>5. down' \in Seq(DownPackets) /\ Goes(down, down', 0, {p}) BY <1>4, DownPush
<1>6. Queues BY <1>1, <1>3, <1>5 DEF Queues
<1>7. Calm /\ Tame /\ conn' \in [Conns -> CharConn] /\ OpenSockets(conn') = OpenSockets(conn) BY <1>2, Unmoved
<1>8. SaveTypes' BY <1>1, <1>2, <1>3, <1>5, <1>7 DEF SaveTypes
<1>9. SaveSteps' BY <1>1, <1>2, <1>3 DEF SaveSteps
<1>10. PICK f : Follows(up, up', 1, {}, f) BY <1>3, <1>6, FollowsUp DEF Queues
<1>11. PICK g : Follows(down, down', 0, {p}, g) BY <1>5, <1>6, FollowsDown DEF Queues
<1>12. At(up', "0B_auth") = {}
  <2>1. ASSUME NEW i \in At(up', "0B_auth") PROVE FALSE
    <3>1. f[i] \in At(up, "0B_auth") /\ f[i] \in Nat BY <1>10, Whence
    <3>2. f[i] > 1 BY <1>10, Beyond
    <3>3. f[i] = 1 BY <1>1, <1>3, <3>1 DEF Door
    <3> QED BY <3>2, <3>3
  <2> QED BY <2>1
<1>13. At(up, "04/00_load") = {} /\ At(up', "04/00_load") = {}
  <2>1. At(up, "04/00_load") = {}
    <3>1. ASSUME NEW i \in At(up, "04/00_load") PROVE FALSE
      <4>1. i < 1 BY <1>1, <1>3 DEF Loading
      <4>2. i \in Nat /\ i >= 1 BY <1>3
      <4> QED BY <4>1, <4>2
    <3> QED BY <3>1
  <2>2. \A i \in At(up', "04/00_load") : f[i] \in At(up, "04/00_load") BY <1>10, Whence
  <2> QED BY <2>1, <2>2
<1>14. At(down, "0B_ok") = {} /\ At(down, "0B_fail") = {} BY <1>1, <1>3 DEF Door, Verdicts
<1>15. ASSUME NEW i \in At(down', "0B_ok")
       PROVE  i \in Nat /\ g[i] \in Nat /\ g[i] = Len(down) + 1 /\ up[1].login = logins
  <2>1. /\ i \in Nat /\ g[i] \in Nat
        /\ \/ g[i] \in At(down, "0B_ok") /\ down'[i] = down[g[i]]
           \/ g[i] = Len(down) + 1 /\ \E r \in {p} : r.type = "0B_ok" /\ down'[i] = r
    BY <1>11, WhenceAdded
  <2>2. g[i] = Len(down) + 1 /\ p.type = "0B_ok" BY <1>14, <2>1
  <2> QED BY <1>4, <2>1, <2>2
<1>16. ASSUME NEW i \in At(down', "0B_fail")
       PROVE  i \in Nat /\ g[i] = Len(down) + 1
  <2>1. /\ i \in Nat /\ g[i] \in Nat
        /\ \/ g[i] \in At(down, "0B_fail") /\ down'[i] = down[g[i]]
           \/ g[i] = Len(down) + 1 /\ \E r \in {p} : r.type = "0B_fail" /\ down'[i] = r
    BY <1>11, WhenceAdded
  <2> QED BY <1>14, <2>1
<1>17. (\A i, j \in Nat : g[i] < g[j] => i < j) /\ (\A i, j \in Nat : g[i] = g[j] => i = j)
  BY <1>11, OrderKept
<1>18. Door'
  <2>1. \A i, j \in At(down', "0B_ok") \cup At(down', "0B_fail") : i = j
    BY <1>15, <1>16, <1>17
  <2>2. ASSUME At(down', "0B_ok") # {}, NEW c \in Conns, conn[c].guildcard
        PROVE  conn[c].login < logins
    <3>1. up[1].login = logins BY <1>15, <2>2
    <3>2. conn[c].login # up[1].login /\ conn[c].login <= logins
      BY <1>1, <1>3, <2>2 DEF Door, SaveSteps
    <3>3. conn[c].login \in Nat BY <1>1, ConnTypes
    <3> QED BY <1>1, <3>1, <3>2, <3>3
  <2>3. \A c, d \in Conns : Waits(c) /\ Waits(d) => c = d BY <1>1 DEF Door
  <2> QED BY <1>2, <1>12, <2>1, <2>2, <2>3 DEF Door, Verdicts, Waits
<1>19. Loading'
  <2>1. \A i \in At(down', "04/01_data") : i \in Nat /\ g[i] \in Nat /\ g[i] \in At(down, "04/01_data")
    BY <1>4, <1>11, Whence
  <2>2. \A i \in At(down, "04/01_data") : i < Len(down) + 1 BY <1>11, Whither
  <2>3. \A i, j \in At(down', "04/01_data") : i = j BY <1>1, <1>17, <2>1 DEF Loading
  <2>4. \A i \in At(down', "04/01_data"), j \in At(down', "0B_ok") : i < j
    BY <1>15, <1>17, <2>1, <2>2
  <2> QED BY <1>13, <2>3, <2>4 DEF Loading
<1>20. Held' => Held BY <1>2 DEF Held
<1>21. ASSUME Held' PROVE Kicks'
  <2>1. \A c, d \in Conns : conn[c].guildcard /\ conn[d].guildcard => c = d
    BY <1>1, <1>20, <1>21 DEF Kicks
  <2>2. ASSUME NEW c \in Conns, conn[c].guildcard, conn[c].login < logins
        PROVE  \E i \in At(down', "08/00_kick") : \A j \in At(down', "0B_ok") : i < j
    <3>1. PICK i \in At(down, "08/00_kick") : TRUE BY <1>1, <1>20, <1>21, <2>2 DEF Kicks
    <3>2. i < Len(down) + 1 /\ i \in Nat BY <1>11, Whither
    <3>3. i > 0 BY DEF At
    <3>4. PICK k \in At(down', "08/00_kick") : k \in Nat /\ g[k] = i BY <1>11, <3>3, Whither
    <3> QED BY <1>15, <1>17, <3>2, <3>4
  <2>3. ASSUME NEW c \in Conns, Waits(c), conn[c].login < logins, NEW j \in At(down', "0B_ok")
        PROVE  FALSE
    <3>1. conn[c].login = up[1].login BY <1>1, <1>3, <2>3 DEF Door
    <3> QED BY <1>1, <1>15, <2>3, <3>1
  <2> QED BY <1>2, <2>1, <2>2, <2>3 DEF Kicks, Waits
<1>22. ASSUME Held' PROVE Played'
  BY <1>1, <1>2, <1>3, <1>4, <1>5, <1>6, <1>7, <1>20, <1>22, PlayedKept
<1>23. ASSUME Held' PROVE Grows'
  BY <1>1, <1>2, <1>3, <1>6, <1>7, <1>20, <1>23, GrowsKept
<1>24. ASSUME losses' = 0 PROVE LastSave'
  <2>1. \A i \in At(up, "04/02_save") : i > 1 BY <1>3
  <2>2. LastSave BY <1>1, <1>2, <1>24
  <2> QED BY <1>2, <1>3, <1>6, <1>7, <2>1, <2>2, LastSaveKept
<1> QED BY <1>8, <1>9, <1>18, <1>19, <1>21, <1>22, <1>23, <1>24 DEF CharInv

LEMMA LoadCharacterKeeps ==
  ASSUME CharInv, LoadCharacter
  PROVE  CharInv'
<1>1. /\ SaveTypes /\ SaveSteps /\ Door /\ Loading
      /\ Held => Kicks /\ Played /\ Grows
      /\ losses = 0 => LastSave
      /\ up \in Seq(UpPackets) /\ down \in Seq(DownPackets)
      /\ stored \in SUBSET Gains /\ logins \in Nat
  BY InvParts
<1>2. /\ Serves("04/00_load")
      /\ down' = Append(down, Data(Head(up).conn, stored))
      /\ UNCHANGED <<conn, list, link, stored, logins, losses, gained, sent, missed>>
  BY DEF LoadCharacter, history
<1>3. /\ up' \in Seq(UpPackets) /\ Goes(up, up', 1, {}) /\ link
      /\ Head(up) = up[1] /\ up[1] \in UpPackets /\ up[1].type = "04/00_load"
      /\ 1 \in At(up, "04/00_load")
      /\ \A u : \A i \in At(up, u) : i \in Nat /\ i >= 1
      /\ \A u : u # "04/00_load" => \A i \in At(up, u) : i > 1
  BY <1>2, LoginReadsNext
<1>4. PICK p \in DownPackets : down' = Append(down, p) /\ p.type = "04/01_data" /\ p.char = stored
  <2>1. up[1].conn \in Conns BY <1>3, UpPacketHas
  <2> QED BY <1>1, <1>2, <1>3, <2>1, DownPacketsAre
<1>5. down' \in Seq(DownPackets) /\ Goes(down, down', 0, {p}) BY <1>4, DownPush
<1>6. Queues BY <1>1, <1>3, <1>5 DEF Queues
<1>7. Calm /\ Tame /\ conn' \in [Conns -> CharConn] /\ OpenSockets(conn') = OpenSockets(conn) BY <1>2, Unmoved
<1>8. SaveTypes' BY <1>1, <1>2, <1>3, <1>5, <1>7 DEF SaveTypes
<1>9. SaveSteps' BY <1>1, <1>2, <1>3 DEF SaveSteps
<1>10. PICK f : Follows(up, up', 1, {}, f) BY <1>3, <1>6, FollowsUp DEF Queues
<1>11. PICK g : Follows(down, down', 0, {p}, g) BY <1>5, <1>6, FollowsDown DEF Queues
<1>12. At(up', "04/00_load") = {}
  <2>1. ASSUME NEW i \in At(up', "04/00_load") PROVE FALSE
    <3>1. f[i] \in At(up, "04/00_load") /\ f[i] \in Nat BY <1>10, Whence
    <3>2. f[i] > 1 BY <1>10, Beyond
    <3>3. f[i] = 1 BY <1>1, <1>3, <3>1 DEF Loading
    <3> QED BY <3>2, <3>3
  <2> QED BY <2>1
<1>13. At(down, "04/01_data") = {} /\ At(down, "0B_ok") = {} BY <1>1, <1>3 DEF Loading
<1>14. ASSUME NEW i \in At(down', "04/01_data")
       PROVE  i \in Nat /\ g[i] \in Nat /\ g[i] = Len(down) + 1 /\ down'[i].char = stored
  <2>1. /\ i \in Nat /\ g[i] \in Nat
        /\ \/ g[i] \in At(down, "04/01_data") /\ down'[i] = down[g[i]]
           \/ g[i] = Len(down) + 1 /\ \E r \in {p} : r.type = "04/01_data" /\ down'[i] = r
    BY <1>11, WhenceAdded
  <2> QED BY <1>4, <1>13, <2>1
<1>15. \A i, j \in Nat : g[i] = g[j] => i = j BY <1>11, OrderKept
<1>16. Door'
  <2>1. \A c \in Conns : conn[c].login \in Nat BY <1>1, ConnTypes
  <2>2. logins' \in Nat /\ logins <= logins' BY <1>1, <1>2
  <2>3. \A q \in {p} : q.type \notin {"0B_ok", "0B_fail"} BY <1>4
  <2>4. \A q \in {} : q.type # "0B_auth" OBVIOUS
  <2> QED BY <1>1, <1>3, <1>5, <1>6, <1>7, <2>1, <2>2, <2>3, <2>4, DoorKept
<1>17. Loading'
  <2>1. \A i, j \in At(down', "04/01_data") : i = j BY <1>14, <1>15
  <2>2. \A i \in At(down', "0B_ok") : g[i] \in At(down, "0B_ok") BY <1>4, <1>11, Whence
  <2>3. At(down', "0B_ok") = {} BY <1>13, <2>2
  <2> QED BY <1>12, <2>1, <2>3 DEF Loading
<1>18. Held' => Held BY <1>2 DEF Held
<1>19. ASSUME Held' PROVE Kicks'
  <2>1. \A i \in At(down, "08/00_kick") : i > 0 BY DEF At
  <2>2. \A q \in {p} : q.type # "0B_ok" BY <1>4
  <2>3. Kicks BY <1>1, <1>18, <1>19
  <2> QED BY <1>2, <1>5, <1>6, <1>7, <2>1, <2>2, <2>3, KicksKept
<1>20. ASSUME Held' PROVE Played'
  <2>1. Played BY <1>1, <1>18, <1>20
  <2>2. \A c \in Conns : ~conn[c].gotchardata BY <1>3, <2>1 DEF Played
  <2>3. ASSUME NEW j \in At(up', "04/02_save") PROVE FALSE
    <3>1. f[j] \in At(up, "04/02_save") BY <1>10, Whence
    <3>2. f[j] < 1 /\ f[j] \in Nat /\ f[j] >= 1 BY <1>3, <2>1, <3>1 DEF Played
    <3> QED BY <3>2
  <2>4. At(up', "04/02_save") = {} BY <2>3
  <2>5. \A i \in At(down', "04/01_data") : down'[i].char = stored' BY <1>2, <1>14
  <2> QED BY <1>2, <1>12, <2>2, <2>4, <2>5 DEF Played
<1>21. ASSUME Held' PROVE Grows'
  BY <1>1, <1>2, <1>3, <1>6, <1>7, <1>18, <1>21, GrowsKept
<1>22. ASSUME losses' = 0 PROVE LastSave'
  <2>1. \A i \in At(up, "04/02_save") : i > 1 BY <1>3
  <2>2. LastSave BY <1>1, <1>2, <1>22
  <2> QED BY <1>2, <1>3, <1>6, <1>7, <2>1, <2>2, LastSaveKept
<1> QED BY <1>8, <1>9, <1>16, <1>17, <1>19, <1>20, <1>21, <1>22 DEF CharInv

\* A save that arrives contains what is stored already.
LEMMA SaveCharacterKeeps ==
  ASSUME CharInv, SaveCharacter
  PROVE  CharInv' /\ (Held => stored \subseteq stored')
<1>1. /\ SaveTypes /\ SaveSteps /\ Door /\ Loading
      /\ Held => Kicks /\ Played /\ Grows
      /\ losses = 0 => LastSave
      /\ up \in Seq(UpPackets) /\ down \in Seq(DownPackets)
      /\ stored \in SUBSET Gains /\ logins \in Nat
  BY InvParts
<1>2. /\ Serves("04/02_save")
      /\ stored' = Head(up).char
      /\ down' = Append(down, Saved)
      /\ UNCHANGED <<conn, list, link, logins, losses, gained, sent, missed>>
  BY DEF SaveCharacter, history
<1>3. /\ up' \in Seq(UpPackets) /\ Goes(up, up', 1, {}) /\ link
      /\ Head(up) = up[1] /\ up[1] \in UpPackets /\ up[1].type = "04/02_save"
      /\ 1 \in At(up, "04/02_save")
      /\ \A u : \A i \in At(up, u) : i \in Nat /\ i >= 1
      /\ \A u : u # "04/02_save" => \A i \in At(up, u) : i > 1
  BY <1>2, LoginReadsNext
<1>4. Saved \in DownPackets /\ Saved.type = "04/03_saved" BY DownPacketsAre
<1>5. down' \in Seq(DownPackets) /\ Goes(down, down', 0, {Saved}) BY <1>2, <1>4, DownPush
<1>6. Queues BY <1>1, <1>3, <1>5 DEF Queues
<1>7. Calm /\ Tame /\ conn' \in [Conns -> CharConn] /\ OpenSockets(conn') = OpenSockets(conn) BY <1>2, Unmoved
<1>8. stored' = up[1].char /\ stored' \in SUBSET Gains BY <1>2, <1>3, UpPacketHas
<1>9. SaveTypes' BY <1>1, <1>2, <1>3, <1>5, <1>7, <1>8 DEF SaveTypes
<1>10. SaveSteps' BY <1>1, <1>2, <1>3 DEF SaveSteps
<1>11. PICK f : Follows(up, up', 1, {}, f) BY <1>3, <1>6, FollowsUp DEF Queues
<1>12. PICK g : Follows(down, down', 0, {Saved}, g) BY <1>5, <1>6, FollowsDown DEF Queues
<1>13. \A i \in At(up', "04/02_save") :
         i \in Nat /\ f[i] \in Nat /\ f[i] \in At(up, "04/02_save") /\ up'[i] = up[f[i]]
  BY <1>11, Whence
<1>14. \A i \in At(up', "04/02_save") : f[i] > 1 BY <1>11, Beyond
<1>15. /\ \A i, j \in Nat : f[i] < f[j] => i < j
       /\ \A i, j \in Nat : i < j => f[i] < f[j]
       /\ \A i, j \in Nat : f[i] = f[j] => i = j
  BY <1>11, OrderKept
<1>16. \A c \in Conns : conn'[c] = conn[c] BY <1>2
<1>17. Door'
  <2>1. \A c \in Conns : conn[c].login \in Nat BY <1>1, ConnTypes
  <2>2. logins' \in Nat /\ logins <= logins' BY <1>1, <1>2
  <2>3. \A q \in {Saved} : q.type \notin {"0B_ok", "0B_fail"} BY <1>4
  <2>4. \A q \in {} : q.type # "0B_auth" OBVIOUS
  <2> QED BY <1>1, <1>3, <1>5, <1>6, <1>7, <2>1, <2>2, <2>3, <2>4, DoorKept
<1>18. Loading'
  <2>1. \A q \in {Saved} : q.type \notin {"0B_ok", "04/01_data"} BY <1>4
  <2>2. \A q \in {} : q.type \notin {"0B_auth", "04/00_load"} OBVIOUS
  <2> QED BY <1>1, <1>3, <1>5, <1>6, <2>1, <2>2, LoadingKept
<1>19. Held' => Held BY <1>2 DEF Held
<1>20. ASSUME Held' PROVE Kicks'
  <2>1. \A i \in At(down, "08/00_kick") : i > 0 BY DEF At
  <2>2. \A q \in {Saved} : q.type # "0B_ok" BY <1>4
  <2>3. Kicks BY <1>1, <1>19, <1>20
  <2> QED BY <1>2, <1>5, <1>6, <1>7, <2>1, <2>2, <2>3, KicksKept
<1>21. ASSUME Held' PROVE Played'
  <2>1. Played BY <1>1, <1>19, <1>21
  <2>2. \A i \in At(up', "04/00_load") : i \in Nat /\ f[i] \in At(up, "04/00_load") BY <1>11, Whence
  <2>3. \A i \in At(down', "04/01_data") : g[i] \in At(down, "04/01_data")
    BY <1>4, <1>12, Whence
  <2>4. At(down', "04/01_data") = {} BY <1>3, <2>1, <2>3 DEF Played
  <2>5. ASSUME NEW i \in At(up', "04/00_load"), NEW j \in At(up', "04/02_save") PROVE j < i
    <3>1. f[j] < f[i] BY <1>13, <2>1, <2>2 DEF Played
    <3> QED BY <1>13, <1>15, <2>2, <3>1
  <2>6. ASSUME NEW c \in Conns, conn[c].gotchardata PROVE At(up', "04/00_load") = {}
    BY <2>1, <2>2, <2>6 DEF Played
  <2> QED BY <1>16, <2>4, <2>5, <2>6 DEF Played
<1>22. ASSUME Held PROVE stored \subseteq stored'
  BY <1>1, <1>3, <1>8, <1>22 DEF Grows
<1>23. ASSUME Held' PROVE Grows'
  <2>1. Grows BY <1>1, <1>19, <1>23
  <2>2. ASSUME NEW i \in At(up', "04/02_save") PROVE stored' \subseteq up'[i].char
    <3>1. 1 < f[i] BY <1>13, <1>14
    <3>2. up[1].char \subseteq up[f[i]].char BY <1>3, <1>13, <2>1, <3>1 DEF Grows
    <3> QED BY <1>8, <1>13, <3>2
  <2>3. ASSUME NEW i \in At(up', "04/02_save"), NEW j \in At(up', "04/02_save"), i < j
        PROVE  up'[i].char \subseteq up'[j].char
    <3>1. f[i] < f[j] BY <1>13, <1>15, <2>3
    <3> QED BY <1>13, <2>1, <3>1 DEF Grows
  <2>4. ASSUME NEW c \in Conns, conn[c].gotchardata
        PROVE  /\ stored' \subseteq conn[c].char
               /\ \A i \in At(up', "04/02_save") : up'[i].char \subseteq conn[c].char
    BY <1>3, <1>8, <1>13, <2>1, <2>4 DEF Grows
  <2> QED BY <1>16, <2>2, <2>3, <2>4 DEF Grows
<1>24. ASSUME losses' = 0 PROVE LastSave'
  <2>1. LastSave BY <1>1, <1>2, <1>24
  <2>2. \A j \in At(up, "04/02_save") :
          j \in Nat /\ (j > 1 => \E m \in At(up', "04/02_save") : m \in Nat /\ f[m] = j)
    BY <1>11, Whither
  <2>3. ASSUME At(up', "04/02_save") = {} PROVE sent' \subseteq stored'
    <3>1. \A j \in At(up, "04/02_save") : j <= 1 BY <2>2, <2>3
    <3> QED BY <1>2, <1>3, <1>8, <2>1, <3>1 DEF LastSave
  <2>4. ASSUME NEW i \in At(up', "04/02_save"), \A j \in At(up', "04/02_save") : j <= i
        PROVE  sent' \subseteq up'[i].char
    <3>1. ASSUME NEW j \in At(up, "04/02_save") PROVE j <= f[i]
      <4>1. CASE j > 1
        <5>1. PICK m \in At(up', "04/02_save") : m \in Nat /\ f[m] = j BY <2>2, <4>1
        <5>2. i \in Nat /\ f[i] \in Nat /\ m <= i BY <1>13, <2>4
        <5>3. ~(f[i] < f[m]) BY <1>15, <5>1, <5>2
        <5>4. j \in Nat BY <2>2
        <5> QED BY <5>1, <5>2, <5>3, <5>4
      <4>2. CASE ~(j > 1)
        <5>1. j \in Nat /\ f[i] \in Nat /\ f[i] > 1 BY <1>13, <1>14, <2>2
        <5> QED BY <4>2, <5>1
      <4> QED BY <4>1, <4>2
    <3>2. f[i] \in At(up, "04/02_save") /\ up'[i] = up[f[i]] BY <1>13
    <3> QED BY <1>2, <2>1, <3>1, <3>2 DEF LastSave
  <2>5. \A c \in Conns : conn[c].gotchardata => sent \subseteq conn[c].char BY <2>1 DEF LastSave
  <2> QED BY <1>2, <1>16, <2>3, <2>4, <2>5 DEF LastSave
<1> QED BY <1>9, <1>10, <1>17, <1>18, <1>20, <1>21, <1>22, <1>23, <1>24 DEF CharInv

\* The character that arrives is the stored one, and nobody plays another.
LEMMA ReceiveKeeps ==
  ASSUME CharInv, Receive
  PROVE  CharInv'
<1>1. /\ SaveTypes /\ SaveSteps /\ Door /\ Loading
      /\ Held => Kicks /\ Played /\ Grows
      /\ losses = 0 => LastSave
      /\ conn \in [Conns -> CharConn]
      /\ up \in Seq(UpPackets) /\ down \in Seq(DownPackets) /\ logins \in Nat
  BY InvParts
<1>2. /\ Arrives("04/01_data") /\ ShipReads
      /\ UNCHANGED <<list, up, link, stored, logins, losses, gained, sent, missed>>
  BY DEF Receive, history
<1>3. /\ down' \in Seq(DownPackets) /\ Goes(down, down', 1, {}) /\ link
      /\ Head(down) = down[1] /\ down[1] \in DownPackets /\ down[1].type = "04/01_data"
      /\ 1 \in At(down, "04/01_data")
      /\ \A u : u # "04/01_data" => \A i \in At(down, u) : i > 1
  BY <1>2, ShipReadsNext
<1>4. PICK p : /\ p = down[1] /\ p.conn \in Conns /\ p.char \in SUBSET Gains
               /\ conn' = IF conn[p.conn].guildcard
                          THEN [conn EXCEPT ![p.conn].gotchardata = TRUE, ![p.conn].char = p.char]
                          ELSE conn
  BY <1>3, DownPacketHas DEF Receive
<1>5. /\ conn' \in [Conns -> CharConn]
      /\ \A c \in Conns :
           /\ conn'[c].on = conn[c].on /\ conn'[c].login = conn[c].login
           /\ conn'[c].guildcard = conn[c].guildcard
           /\ conn'[c].gotchardata =>
                \/ conn[c].gotchardata /\ conn'[c].char = conn[c].char
                \/ conn[c].guildcard /\ conn'[c].char = p.char
  <2>1. CASE conn[p.conn].guildcard
    <3>1. conn' = [conn EXCEPT ![p.conn].gotchardata = TRUE, ![p.conn].char = p.char]
      BY <1>4, <2>1
    <3> DEFINE k == conn[p.conn]
               loaded == [k EXCEPT !.gotchardata = TRUE, !.char = p.char]
    <3>6. k \in CharConn BY <1>1, <1>4
    <3>7. conn' = [conn EXCEPT ![p.conn] = loaded] BY <1>1, <1>4, <3>1
    <3>2. conn' \in [Conns -> CharConn]
      <4>1. loaded \in CharConn
        <5> HIDE DEF k
        <5> QED BY <1>4, <3>6 DEF CharConn
      <4> QED BY <1>1, <1>4, <3>7, <4>1
    <3>3. \A c \in Conns : c # p.conn => conn'[c] = conn[c] BY <1>1, <3>1
    <3>4. /\ conn'[p.conn].on = conn[p.conn].on /\ conn'[p.conn].login = conn[p.conn].login
          /\ conn'[p.conn].guildcard = conn[p.conn].guildcard
          /\ conn'[p.conn].char = p.char
      <4>1. conn'[p.conn] = loaded BY <1>1, <1>4, <3>7
      <4>2. loaded.on = k.on /\ loaded.login = k.login /\ loaded.guildcard = k.guildcard /\ loaded.char = p.char
        <5> HIDE DEF k
        <5> QED BY <3>6 DEF CharConn
      <4> QED BY <4>1, <4>2
    <3>5. ASSUME NEW c \in Conns
          PROVE  /\ conn'[c].on = conn[c].on /\ conn'[c].login = conn[c].login
                 /\ conn'[c].guildcard = conn[c].guildcard
                 /\ conn'[c].gotchardata =>
                      \/ conn[c].gotchardata /\ conn'[c].char = conn[c].char
                      \/ conn[c].guildcard /\ conn'[c].char = p.char
      <4>1. CASE c = p.conn BY <2>1, <3>4, <4>1
      <4>2. CASE c # p.conn BY <3>3, <4>2
      <4> QED BY <4>1, <4>2
    <3> QED BY <3>2, <3>5
  <2>2. CASE ~conn[p.conn].guildcard
    <3>1. conn' = conn BY <1>4, <2>2
    <3> QED BY <1>1, <3>1
  <2> QED BY <2>1, <2>2
<1>6. Queues BY <1>1, <1>2, <1>3 DEF Queues
<1>7. Calm BY <1>5 DEF Calm, Waits
<1>8. OpenSockets(conn') = OpenSockets(conn) BY <1>5 DEF OpenSockets
<1>9. SaveTypes' BY <1>1, <1>2, <1>3, <1>5, <1>8 DEF SaveTypes
<1>10. SaveSteps' BY <1>1, <1>2, <1>3, <1>5 DEF SaveSteps
<1>11. PICK g : Follows(down, down', 1, {}, g) BY <1>3, <1>6, FollowsDown DEF Queues
<1>12. At(down', "04/01_data") = {}
  <2>1. ASSUME NEW i \in At(down', "04/01_data") PROVE FALSE
    <3>1. g[i] \in At(down, "04/01_data") /\ g[i] \in Nat BY <1>11, Whence
    <3>2. g[i] > 1 BY <1>11, Beyond
    <3>3. g[i] = 1 BY <1>1, <1>3, <3>1 DEF Loading
    <3> QED BY <3>2, <3>3
  <2> QED BY <2>1
<1>13. At(up, "04/00_load") = {} BY <1>1, <1>3 DEF Loading
<1>14. Goes(up, up', 0, {}) BY <1>1, <1>2, GoesSame
<1>15. Door'
  <2>1. \A c \in Conns : conn[c].login \in Nat BY <1>1, ConnTypes
  <2>2. logins' \in Nat /\ logins <= logins' BY <1>1, <1>2
  <2>3. \A q \in {} : q.type \notin {"0B_ok", "0B_fail"} OBVIOUS
  <2>4. \A q \in {} : q.type # "0B_auth" OBVIOUS
  <2> QED BY <1>1, <1>3, <1>6, <1>7, <1>14, <2>1, <2>2, <2>3, <2>4, DoorKept
<1>16. Loading'
  <2>1. \A q \in {} : q.type \notin {"0B_ok", "04/01_data"} OBVIOUS
  <2>2. \A q \in {} : q.type \notin {"0B_auth", "04/00_load"} OBVIOUS
  <2> QED BY <1>1, <1>3, <1>6, <1>14, <2>1, <2>2, LoadingKept
<1>17. Held' => Held BY <1>2 DEF Held
<1>18. ASSUME Held' PROVE Kicks'
  <2>1. \A i \in At(down, "08/00_kick") : i > 1 BY <1>3
  <2>2. \A q \in {} : q.type # "0B_ok" OBVIOUS
  <2>3. Kicks BY <1>1, <1>17, <1>18
  <2> QED BY <1>2, <1>3, <1>6, <1>7, <2>1, <2>2, <2>3, KicksKept
<1>19. ASSUME Held' PROVE Played'
  BY <1>2, <1>12, <1>13 DEF Played
<1>20. ASSUME Held
       PROVE  At(up, "04/02_save") = {} /\ p.char = stored /\ \A c \in Conns : ~conn[c].gotchardata
  BY <1>1, <1>3, <1>4, <1>20 DEF Played
<1>21. ASSUME Held' PROVE Grows'
  BY <1>2, <1>5, <1>17, <1>20, <1>21 DEF Grows
<1>22. ASSUME losses' = 0 PROVE LastSave'
  <2>1. Held /\ LastSave BY <1>1, <1>2, <1>22 DEF Held
  <2>2. sent \subseteq stored BY <1>20, <2>1 DEF LastSave
  <2> QED BY <1>2, <1>5, <1>20, <2>1, <2>2 DEF LastSave
<1> QED BY <1>9, <1>10, <1>15, <1>16, <1>18, <1>19, <1>21, <1>22 DEF CharInv

\* The client that asked is let in: whoever played is gone by then.
LEMMA LetInKeeps ==
  ASSUME CharInv, LetIn
  PROVE  CharInv'
<1>1. /\ SaveTypes /\ SaveSteps /\ Door /\ Loading
      /\ Held => Kicks /\ Played /\ Grows
      /\ losses = 0 => LastSave
      /\ conn \in [Conns -> CharConn]
      /\ up \in Seq(UpPackets) /\ down \in Seq(DownPackets) /\ logins \in Nat
  BY InvParts
<1>2. /\ Arrives("0B_ok") /\ ShipReads
      /\ UNCHANGED <<list, link, stored, logins, losses, gained, sent, missed>>
  BY DEF LetIn, history
<1>3. /\ down' \in Seq(DownPackets) /\ Goes(down, down', 1, {}) /\ link
      /\ 1 \in At(down, "0B_ok")
      /\ \A u : \A i \in At(down, u) : i \in Nat /\ i >= 1
      /\ \A u : u # "0B_ok" => \A i \in At(down, u) : i > 1
  BY <1>2, ShipReadsNext
<1> DEFINE who == First(HasTempGuildcard)
<1>4. /\ conn' = [c \in Conns |-> [conn[c] EXCEPT !.guildcard = @ \/ c \in who]]
      /\ up' = IF who = {} THEN up ELSE Queued(up, Load(CHOOSE c \in who : TRUE))
  BY DEF LetIn
<1>5. /\ \A c \in who : c \in Conns /\ conn[c].on
      /\ \A c, d \in who : c = d
      /\ \A c \in Conns : conn[c].on => who # {}
  BY <1>1, FirstTemp
<1> HIDE DEF who
<1>6. /\ conn' \in [Conns -> CharConn]
      /\ \A c \in Conns :
           /\ conn'[c].on = conn[c].on /\ conn'[c].login = conn[c].login
           /\ conn'[c].gotchardata = conn[c].gotchardata /\ conn'[c].char = conn[c].char
           /\ conn'[c].guildcard <=> conn[c].guildcard \/ c \in who
  <2>1. ASSUME NEW c \in Conns
        PROVE  /\ conn'[c] \in CharConn
               /\ conn'[c].on = conn[c].on /\ conn'[c].login = conn[c].login
               /\ conn'[c].gotchardata = conn[c].gotchardata /\ conn'[c].char = conn[c].char
               /\ conn'[c].guildcard = (conn[c].guildcard \/ c \in who)
    <3>1. conn'[c] = [conn[c] EXCEPT !.guildcard = (conn[c].guildcard \/ c \in who)] BY <1>4
    <3>2. (conn[c].guildcard \/ c \in who) \in BOOLEAN OBVIOUS
    <3>3. conn[c] \in CharConn BY <1>1
    <3> QED BY <3>1, <3>2, <3>3 DEF CharConn
  <2> QED BY <1>4, <2>1
<1>7. PICK nu : /\ up' \in Seq(UpPackets) /\ Goes(up, up', 0, nu)
                /\ \A q \in nu : q.type = "04/00_load"
                /\ \A q, r \in nu : q = r
  <2>1. CASE who = {}
    <3>1. up' = up BY <1>4, <2>1
    <3>2. Goes(up, up', 0, {}) BY <1>1, <3>1, GoesSame
    <3> QED BY <1>1, <3>1, <3>2
  <2>2. CASE who # {}
    <3>1. PICK c \in Conns : up' = Append(up, Load(c)) BY <1>3, <1>4, <1>5, <2>2 DEF Queued
    <3>2. Load(c) \in UpPackets /\ Load(c).type = "04/00_load" BY UpPacketsAre
    <3>3. up' \in Seq(UpPackets) /\ Goes(up, up', 0, {Load(c)}) BY <3>1, <3>2, UpPush
    <3> QED BY <3>2, <3>3
  <2> QED BY <2>1, <2>2
<1>8. Queues BY <1>1, <1>3, <1>7 DEF Queues
<1>9. Tame BY <1>6 DEF Tame
<1>10. OpenSockets(conn') = OpenSockets(conn) BY <1>6 DEF OpenSockets
<1>11. SaveTypes' BY <1>1, <1>2, <1>3, <1>6, <1>7, <1>10 DEF SaveTypes
<1>12. SaveSteps'
  <2>1. \A c \in Conns : /\ conn'[c].guildcard => conn'[c].on
                         /\ conn'[c].gotchardata => conn'[c].guildcard
                         /\ conn'[c].login <= logins
    BY <1>1, <1>5, <1>6 DEF SaveSteps
  <2> QED BY <1>2, <1>3, <2>1 DEF SaveSteps
<1>13. PICK f : Follows(up, up', 0, nu, f) BY <1>7, <1>8, FollowsUp DEF Queues
<1>14. PICK g : Follows(down, down', 1, {}, g) BY <1>3, <1>8, FollowsDown DEF Queues
<1>15. At(down', "0B_ok") = {} /\ At(down', "0B_fail") = {}
  <2>1. ASSUME NEW t \in {"0B_ok", "0B_fail"}, NEW i \in At(down', t) PROVE FALSE
    <3>1. g[i] \in At(down, t) /\ g[i] \in Nat BY <1>14, Whence
    <3>2. g[i] > 1 BY <1>14, Beyond
    <3>3. g[i] \in Verdicts /\ 1 \in Verdicts BY <1>3, <3>1 DEF Verdicts
    <3>4. g[i] = 1 BY <1>1, <3>3 DEF Door
    <3> QED BY <3>2, <3>4
  <2> QED BY <2>1
<1>16. At(up, "0B_auth") = {} /\ At(up', "0B_auth") = {}
  <2>1. At(up, "0B_auth") = {} BY <1>1, <1>3 DEF Door, Verdicts
  <2>2. \A i \in At(up', "0B_auth") : f[i] \in At(up, "0B_auth") BY <1>7, <1>13, Whence
  <2> QED BY <2>1, <2>2
<1>17. At(up, "04/00_load") = {} BY <1>1, <1>3 DEF Loading
<1>18. At(down, "04/01_data") = {} /\ At(down', "04/01_data") = {}
  <2>1. \A i \in At(down, "04/01_data") : i < 1 BY <1>1, <1>3 DEF Loading
  <2>2. At(down, "04/01_data") = {}
    <3>1. ASSUME NEW i \in At(down, "04/01_data") PROVE FALSE
      <4>1. i < 1 /\ i \in Nat /\ i >= 1 BY <1>3, <2>1
      <4> QED BY <4>1
    <3> QED BY <3>1
  <2>3. \A i \in At(down', "04/01_data") : g[i] \in At(down, "04/01_data") BY <1>14, Whence
  <2> QED BY <2>2, <2>3
<1>19. \A i \in At(up', "04/00_load") :
         i \in Nat /\ f[i] \in Nat /\ f[i] = Len(up) + 1
  <2>1. \A i \in At(up', "04/00_load") :
          /\ i \in Nat /\ f[i] \in Nat
          /\ \/ f[i] \in At(up, "04/00_load") /\ up'[i] = up[f[i]]
             \/ f[i] = Len(up) + 1 /\ \E r \in nu : r.type = "04/00_load" /\ up'[i] = r
    BY <1>13, WhenceAdded
  <2> QED BY <1>17, <2>1
<1>20. /\ \A i, j \in Nat : f[i] < f[j] => i < j
       /\ \A i, j \in Nat : f[i] = f[j] => i = j
  BY <1>13, OrderKept
<1>21. Door'
  <2>1. \A c, d \in Conns : (conn'[c].on /\ ~conn'[c].guildcard) /\ (conn'[d].on /\ ~conn'[d].guildcard)
                              => c = d
    BY <1>1, <1>6 DEF Door, Waits
  <2> QED BY <1>15, <1>16, <2>1 DEF Door, Verdicts, Waits
<1>22. Loading'
  <2>1. \A i, j \in At(up', "04/00_load") : i = j BY <1>19, <1>20
  <2> QED BY <1>15, <1>16, <1>18, <2>1 DEF Loading
<1>23. Held' => Held BY <1>2 DEF Held
<1>24. ASSUME Held PROVE \A c \in Conns : ~conn[c].guildcard
  <2>1. ASSUME NEW c \in Conns, conn[c].guildcard PROVE FALSE
    <3>1. conn[c].login < logins BY <1>1, <1>3, <2>1 DEF Door
    <3>2. PICK i \in At(down, "08/00_kick") : \A j \in At(down, "0B_ok") : i < j
      BY <1>1, <1>24, <2>1, <3>1 DEF Kicks
    <3>3. i < 1 /\ i \in Nat /\ i >= 1 BY <1>3, <3>2
    <3> QED BY <3>3
  <2> QED BY <2>1
<1>25. ASSUME Held' PROVE Kicks'
  <2>1. \A c \in Conns : conn'[c].guildcard => c \in who BY <1>6, <1>23, <1>24, <1>25
  <2>2. ASSUME NEW c \in Conns, conn'[c].guildcard, conn'[c].login < logins'
        PROVE  \E i \in At(down', "08/00_kick") : TRUE
    <3>1. Waits(c) /\ conn[c].login < logins
      BY <1>2, <1>5, <1>6, <1>23, <1>24, <1>25, <2>1, <2>2 DEF Waits
    <3>2. PICK i \in At(down, "08/00_kick") : 1 < i BY <1>1, <1>3, <1>23, <1>25, <3>1 DEF Kicks
    <3>3. PICK k \in At(down', "08/00_kick") : g[k] = i BY <1>3, <1>14, <3>2, Whither
    <3> QED BY <3>3
  <2> QED BY <1>5, <1>15, <2>1, <2>2 DEF Kicks
<1>26. Held => \A c \in Conns : ~conn[c].gotchardata BY <1>1, <1>24 DEF SaveSteps
<1>27. ASSUME Held' PROVE Played'
  <2>1. ASSUME NEW i \in At(up', "04/00_load"), NEW j \in At(up', "04/02_save") PROVE j < i
    <3>1. j \in Nat /\ f[j] \in Nat /\ f[j] \in At(up, "04/02_save") BY <1>7, <1>13, Whence
    <3>2. f[j] < Len(up) + 1 BY <1>13, <3>1, Whither
    <3> QED BY <1>19, <1>20, <3>1, <3>2
  <2> QED BY <1>6, <1>18, <1>23, <1>26, <1>27, <2>1 DEF Played
<1>28. ASSUME Held' PROVE Grows'
  <2>1. \A p \in nu : p.type # "04/02_save" BY <1>7
  <2>2. Grows BY <1>1, <1>23, <1>28
  <2> QED BY <1>2, <1>7, <1>8, <1>9, <2>1, <2>2, GrowsKept
<1>29. ASSUME losses' = 0 PROVE LastSave'
  <2>1. \A i \in At(up, "04/02_save") : i > 0 BY DEF At
  <2>2. LastSave BY <1>1, <1>2, <1>29
  <2>3. \A p \in nu : p.type # "04/02_save" BY <1>7
  <2> QED BY <1>2, <1>7, <1>8, <1>9, <2>1, <2>2, <2>3, LastSaveKept
<1> QED BY <1>11, <1>12, <1>21, <1>22, <1>25, <1>27, <1>28, <1>29 DEF CharInv

\* A client comes to a door nobody else stands at.
LEMMA ConnectKeeps ==
  ASSUME CharInv, NEW c \in Conns, NEW k \in 1 .. logins, Connect(c, k)
  PROVE  CharInv'
<1>1. /\ SaveTypes /\ SaveSteps /\ Door /\ Loading
      /\ Held => Kicks /\ Played /\ Grows
      /\ losses = 0 => LastSave
      /\ conn \in [Conns -> CharConn]
      /\ list \in Seq(Conns) /\ ToSet(list) = OpenSockets(conn)
      /\ up \in Seq(UpPackets) /\ down \in Seq(DownPackets)
      /\ logins \in Nat /\ link \in BOOLEAN
  BY InvParts
<1>2. /\ ~conn[c].on /\ DoorFree
      /\ \A d \in Conns : conn[d].on => conn[d].login # k
      /\ conn' = [conn EXCEPT ![c] = [Off EXCEPT !.on = TRUE, !.login = k]]
      /\ list' = Append(list, c)
      /\ up' = Queued(up, Auth(k))
      /\ UNCHANGED <<down, link, stored, logins, losses, gained, sent, missed>>
  BY DEF Connect, history
<1>3. k \in Nat /\ k <= logins BY <1>1
<1>4. /\ \A d \in Conns : d # c => conn'[d] = conn[d]
      /\ conn'[c] \in CharConn
      /\ conn'[c].on /\ conn'[c].login = k /\ ~conn'[c].guildcard /\ ~conn'[c].gotchardata
  <2>1. Off \in CharConn /\ ~Off.guildcard /\ ~Off.gotchardata BY DEF Off, CharConn
  <2> QED BY <1>1, <1>2, <1>3, <2>1 DEF CharConn
<1>5. conn' \in [Conns -> CharConn] BY <1>1, <1>2, <1>4
<1>6. list' \in Seq(Conns) /\ ToSet(list') = OpenSockets(conn')
  <2>1. /\ list' \in Seq(Conns) /\ Len(list') = Len(list) + 1 /\ Len(list) \in Nat
        /\ \A i \in 1 .. Len(list) : list'[i] = list[i]
        /\ list'[Len(list) + 1] = c
    BY <1>1, <1>2, AppendProperties
  <2>2. ASSUME NEW d \in ToSet(list') PROVE d \in ToSet(list) \cup {c}
    <3>1. PICK i \in 1 .. Len(list) + 1 : list'[i] = d BY <2>1, <2>2 DEF ToSet
    <3>2. i \in 1 .. Len(list) \/ i = Len(list) + 1 BY <2>1
    <3> QED BY <2>1, <3>1, <3>2 DEF ToSet
  <2>3. ASSUME NEW d \in ToSet(list) PROVE d \in ToSet(list')
    <3>1. PICK i \in 1 .. Len(list) : list[i] = d BY <2>3 DEF ToSet
    <3>2. i \in 1 .. Len(list') /\ list'[i] = d BY <2>1, <3>1
    <3> QED BY <3>2 DEF ToSet
  <2>4. c \in ToSet(list')
    <3>1. Len(list) + 1 \in 1 .. Len(list') BY <2>1
    <3> QED BY <2>1, <3>1 DEF ToSet
  <2>5. ToSet(list') = OpenSockets(conn) \cup {c} BY <1>1, <2>2, <2>3, <2>4
  <2>6. OpenSockets(conn') = OpenSockets(conn) \cup {c} BY <1>4 DEF OpenSockets
  <2> QED BY <2>1, <2>5, <2>6
<1>7. PICK nu : /\ up' \in Seq(UpPackets) /\ Goes(up, up', 0, nu)
                /\ \A q \in nu : q.type = "0B_auth" /\ q.login = k
                /\ ~link => up' = up
  <2>1. CASE ~link
    <3>1. up' = up BY <1>2, <2>1 DEF Queued
    <3>2. Goes(up, up', 0, {}) BY <1>1, <3>1, GoesSame
    <3> QED BY <1>1, <3>1, <3>2
  <2>2. CASE link
    <3>1. up' = Append(up, Auth(k)) BY <1>2, <2>2 DEF Queued
    <3>2. Auth(k) \in UpPackets /\ Auth(k).type = "0B_auth" /\ Auth(k).login = k
      BY <1>3, UpPacketsAre
    <3>3. up' \in Seq(UpPackets) /\ Goes(up, up', 0, {Auth(k)}) BY <3>1, <3>2, UpPush
    <3> QED BY <2>2, <3>2, <3>3
  <2> QED BY <1>1, <2>1, <2>2
<1>8. SaveTypes' BY <1>1, <1>2, <1>5, <1>6, <1>7 DEF SaveTypes
<1>9. SaveSteps'
  <2>1. \A d \in Conns : /\ conn'[d].guildcard => conn'[d].on
                         /\ conn'[d].gotchardata => conn'[d].guildcard
                         /\ conn'[d].login <= logins
    BY <1>1, <1>3, <1>4 DEF SaveSteps
  <2>2. losses = 0 /\ ~link => \A d \in Conns : ~conn'[d].guildcard BY <1>1, <1>4 DEF SaveSteps
  <2> QED BY <1>1, <1>2, <1>7, <2>1, <2>2 DEF SaveSteps
<1>10. Queues BY <1>1, <1>2, <1>7 DEF Queues
<1>11. Tame BY <1>4 DEF Tame
<1>12. Goes(down, down', 0, {}) BY <1>1, <1>2, GoesSame
<1>13. PICK f : Follows(up, up', 0, nu, f) BY <1>7, <1>10, FollowsUp DEF Queues
<1>14. /\ \A d \in Conns : conn[d].on => conn[d].guildcard
       /\ At(up, "0B_auth") = {} /\ At(down, "0B_ok") = {} /\ At(down, "0B_fail") = {}
  <2>1. \A p \in ToSet(up) \cup ToSet(down) : p.type \notin {"0B_auth", "0B_ok", "0B_fail"}
    BY <1>2 DEF DoorFree
  <2>2. \A t : \A i \in At(up, t) : up[i] \in ToSet(up) /\ up[i].type = t BY DEF At, ToSet
  <2>3. \A t : \A i \in At(down, t) : down[i] \in ToSet(down) /\ down[i].type = t BY DEF At, ToSet
  <2>4. At(up, "0B_auth") = {} BY <2>1, <2>2
  <2>5. At(down, "0B_ok") = {} /\ At(down, "0B_fail") = {} BY <2>1, <2>3
  <2> QED BY <1>2, <2>4, <2>5 DEF DoorFree
<1>15. \A i \in At(up', "0B_auth") :
         i \in Nat /\ f[i] \in Nat /\ f[i] = Len(up) + 1 /\ up'[i].login = k
  <2>1. \A i \in At(up', "0B_auth") :
          /\ i \in Nat /\ f[i] \in Nat
          /\ \/ f[i] \in At(up, "0B_auth") /\ up'[i] = up[f[i]]
             \/ f[i] = Len(up) + 1 /\ \E r \in nu : r.type = "0B_auth" /\ up'[i] = r
    BY <1>13, WhenceAdded
  <2> QED BY <1>7, <1>14, <2>1
<1>16. /\ \A i, j \in Nat : f[i] < f[j] => i < j
       /\ \A i, j \in Nat : f[i] = f[j] => i = j
  BY <1>13, OrderKept
<1>17. At(down', "0B_ok") = {} /\ At(down', "0B_fail") = {} BY <1>2, <1>14
<1>18. Door'
  <2>1. \A d \in Conns : conn'[d].on /\ ~conn'[d].guildcard => d = c BY <1>4, <1>14
  <2>2. \A i, j \in At(up', "0B_auth") : i = j BY <1>15, <1>16
  <2>3. ASSUME NEW i \in At(up', "0B_auth"), NEW d \in Conns
        PROVE  /\ conn'[d].on /\ ~conn'[d].guildcard => conn'[d].login = up'[i].login
               /\ conn'[d].guildcard => conn'[d].login # up'[i].login
    <3>1. up'[i].login = k BY <1>15
    <3>2. CASE d = c BY <1>4, <3>1, <3>2
    <3>3. CASE d # c
      <4>1. conn'[d] = conn[d] BY <1>4, <3>3
      <4>2. conn[d].guildcard => conn[d].on BY <1>1 DEF SaveSteps
      <4> QED BY <1>2, <1>14, <3>1, <4>1, <4>2
    <3> QED BY <3>2, <3>3
  <2> QED BY <1>17, <2>1, <2>2, <2>3 DEF Door, Verdicts, Waits
<1>19. Loading'
  <2>1. \A i \in At(up', "04/00_load") : i \in Nat /\ f[i] \in Nat /\ f[i] \in At(up, "04/00_load")
    BY <1>7, <1>13, Whence
  <2>2. \A i \in At(up, "04/00_load") : i < Len(up) + 1 BY <1>13, Whither
  <2>3. \A i, j \in At(up', "04/00_load") : i = j BY <1>1, <1>16, <2>1 DEF Loading
  <2>4. At(up', "04/00_load") = {} \/ At(down', "04/01_data") = {} BY <1>1, <1>2, <2>1 DEF Loading
  <2>5. \A i \in At(up', "04/00_load"), j \in At(up', "0B_auth") : i < j
    BY <1>15, <1>16, <2>1, <2>2
  <2>6. \A i, j \in At(down', "04/01_data") : i = j BY <1>1, <1>2 DEF Loading
  <2> QED BY <1>17, <2>3, <2>4, <2>5, <2>6 DEF Loading
<1>20. Held' => Held BY <1>2 DEF Held
<1>21. ASSUME Held' PROVE Kicks'
  <2>1. Kicks BY <1>1, <1>20, <1>21
  <2>2. \A d, e \in Conns : conn'[d].guildcard /\ conn'[e].guildcard => d = e
    BY <1>4, <2>1 DEF Kicks
  <2>3. ASSUME NEW d \in Conns, conn'[d].guildcard, conn'[d].login < logins'
        PROVE  \E i \in At(down', "08/00_kick") : \A j \in At(down', "0B_ok") : i < j
    <3>1. d # c /\ conn'[d] = conn[d] BY <1>4, <2>3
    <3> QED BY <1>2, <2>1, <2>3, <3>1 DEF Kicks
  <2> QED BY <1>17, <2>2, <2>3 DEF Kicks
<1>22. ASSUME Held' PROVE Played'
  <2>1. \A q \in {} : q.type # "04/01_data" OBVIOUS
  <2>2. \A q \in nu : q.type # "04/00_load" /\ q.type # "04/02_save" BY <1>7
  <2>3. Played BY <1>1, <1>20, <1>22
  <2> QED BY <1>2, <1>7, <1>10, <1>11, <1>12, <2>1, <2>2, <2>3, PlayedKept
<1>23. ASSUME Held' PROVE Grows'
  <2>1. \A q \in nu : q.type # "04/02_save" BY <1>7
  <2>2. Grows BY <1>1, <1>20, <1>23
  <2> QED BY <1>2, <1>7, <1>10, <1>11, <2>1, <2>2, GrowsKept
<1>24. ASSUME losses' = 0 PROVE LastSave'
  <2>1. \A i \in At(up, "04/02_save") : i > 0 BY DEF At
  <2>2. LastSave BY <1>1, <1>2, <1>24
  <2>3. \A q \in nu : q.type # "04/02_save" BY <1>7
  <2> QED BY <1>2, <1>7, <1>10, <1>11, <2>1, <2>2, <2>3, LastSaveKept
<1> QED BY <1>8, <1>9, <1>18, <1>19, <1>21, <1>22, <1>23, <1>24 DEF CharInv

\* A player logs on: the kick goes after every answer that is under way.
LEMMA LoginKeeps ==
  ASSUME CharInv, Login
  PROVE  CharInv'
<1>1. /\ SaveTypes /\ SaveSteps /\ Door /\ Loading
      /\ Held => Kicks /\ Played /\ Grows
      /\ losses = 0 => LastSave
      /\ up \in Seq(UpPackets) /\ down \in Seq(DownPackets)
      /\ logins \in Nat /\ link \in BOOLEAN /\ missed \in BOOLEAN
  BY InvParts
<1>2. /\ logins' = logins + 1 /\ down' = Queued(down, Kick) /\ missed' = (missed \/ ~link)
      /\ conn' = conn /\ list' = list /\ up' = up
      /\ UNCHANGED <<link, stored, losses, gained, sent>>
  BY DEF Login
<1>3. Calm /\ Tame /\ conn' \in [Conns -> CharConn] /\ OpenSockets(conn') = OpenSockets(conn) BY <1>2, Unmoved
<1>4. PICK nd : /\ down' \in Seq(DownPackets) /\ Goes(down, down', 0, nd)
                /\ \A q \in nd : q.type = "08/00_kick"
                /\ link => nd # {}
                /\ ~link => down' = down
  <2>1. CASE ~link
    <3>1. down' = down BY <1>2, <2>1 DEF Queued
    <3>2. Goes(down, down', 0, {}) BY <1>1, <3>1, GoesSame
    <3> QED BY <1>1, <2>1, <3>1, <3>2
  <2>2. CASE link
    <3>1. down' = Append(down, Kick) BY <1>2, <2>2 DEF Queued
    <3>2. Kick \in DownPackets /\ Kick.type = "08/00_kick" BY DownPacketsAre
    <3>3. down' \in Seq(DownPackets) /\ Goes(down, down', 0, {Kick}) BY <3>1, <3>2, DownPush
    <3> QED BY <2>2, <3>2, <3>3
  <2> QED BY <1>1, <2>1, <2>2
<1>5. Goes(up, up', 0, {}) BY <1>1, <1>2, GoesSame
<1>6. Queues BY <1>1, <1>2, <1>4 DEF Queues
<1>7. logins' \in Nat /\ logins <= logins' /\ \A c \in Conns : conn[c].login \in Nat
  BY <1>1, <1>2, ConnTypes
<1>8. SaveTypes' BY <1>1, <1>2, <1>3, <1>4, <1>7 DEF SaveTypes
<1>9. SaveSteps'
  <2>1. \A c \in Conns : conn[c].login <= logins' BY <1>1, <1>2, <1>7 DEF SaveSteps
  <2> QED BY <1>1, <1>2, <1>4, <2>1 DEF SaveSteps
<1>10. \A q \in {} : q.type \notin {"0B_auth", "04/00_load"} OBVIOUS
<1>11. Door'
  <2>1. \A q \in nd : q.type \notin {"0B_ok", "0B_fail"} BY <1>4
  <2>2. \A q \in {} : q.type # "0B_auth" OBVIOUS
  <2> QED BY <1>1, <1>3, <1>4, <1>5, <1>6, <1>7, <2>1, <2>2, DoorKept
<1>12. Loading'
  <2>1. \A q \in nd : q.type \notin {"0B_ok", "04/01_data"} BY <1>4
  <2> QED BY <1>1, <1>4, <1>5, <1>6, <1>10, <2>1, LoadingKept
<1>13. Held' => Held BY <1>2 DEF Held
<1>14. PICK g : Follows(down, down', 0, nd, g) BY <1>4, <1>6, FollowsDown DEF Queues
<1>15. /\ \A i, j \in Nat : g[i] < g[j] => i < j
       /\ \A i \in At(down', "0B_ok") : i \in Nat /\ g[i] \in Nat /\ g[i] \in At(down, "0B_ok")
       /\ \A i \in At(down, "0B_ok") : i < Len(down) + 1
  <2>1. \A q \in nd : q.type # "0B_ok" BY <1>4
  <2>2. \A i \in At(down', "0B_ok") : i \in Nat /\ g[i] \in Nat /\ g[i] \in At(down, "0B_ok")
    BY <1>14, <2>1, Whence
  <2>3. \A i \in At(down, "0B_ok") : i < Len(down) + 1 BY <1>14, Whither
  <2>4. \A i, j \in Nat : g[i] < g[j] => i < j BY <1>14, OrderKept
  <2> QED BY <2>2, <2>3, <2>4
<1>16. ASSUME link
       PROVE  \E i \in At(down', "08/00_kick") : i \in Nat /\ g[i] = Len(down) + 1
  <2>1. PICK q \in nd : TRUE BY <1>4, <1>16
  <2>2. PICK i \in At(down', q.type) : g[i] = Len(down) + 1 BY <1>14 DEF Follows
  <2>3. q.type = "08/00_kick" BY <1>4
  <2>4. At(down', "08/00_kick") \subseteq Nat BY <1>14 DEF Follows
  <2> QED BY <2>2, <2>3, <2>4
<1>17. ASSUME Held' PROVE Kicks'
  <2>1. Kicks BY <1>1, <1>13, <1>17
  <2>2. ~link => losses = 0 BY <1>1, <1>2, <1>17 DEF Held
  <2>3. ASSUME NEW c \in Conns, conn[c].guildcard, conn[c].login < logins'
        PROVE  \E i \in At(down', "08/00_kick") : \A j \in At(down', "0B_ok") : i < j
    <3>1. link BY <1>1, <2>2, <2>3 DEF SaveSteps
    <3>2. CASE conn[c].login < logins
      <4>1. PICK i \in At(down, "08/00_kick") : \A j \in At(down, "0B_ok") : i < j
        BY <2>1, <2>3, <3>2 DEF Kicks
      <4>2. i > 0 BY DEF At
      <4>3. PICK m \in At(down', "08/00_kick") : m \in Nat /\ g[m] = i BY <1>14, <4>2, Whither
      <4> QED BY <1>15, <4>1, <4>3
    <3>3. CASE ~(conn[c].login < logins)
      <4>1. At(down, "0B_ok") = {} BY <1>1, <2>3, <3>3 DEF Door
      <4>2. At(down', "0B_ok") = {} BY <1>15, <4>1
      <4> QED BY <1>16, <3>1, <4>2
    <3> QED BY <3>2, <3>3
  <2>4. ASSUME NEW j \in At(down', "0B_ok") PROVE \E i \in At(down', "08/00_kick") : j < i
    <3>1. link
      <4>1. ASSUME ~link PROVE FALSE
        <5>1. down = <<>> BY <1>1, <4>1 DEF SaveSteps
        <5>2. At(down, "0B_ok") = {} BY <5>1 DEF At
        <5> QED BY <1>15, <5>2
      <4> QED BY <4>1
    <3>2. PICK i \in At(down', "08/00_kick") : i \in Nat /\ g[i] = Len(down) + 1 BY <1>16, <3>1
    <3> QED BY <1>15, <3>2
  <2> QED BY <1>2, <2>1, <2>3, <2>4 DEF Kicks, Waits
<1>18. ASSUME Held' PROVE Played'
  <2>1. \A q \in nd : q.type # "04/01_data" BY <1>4
  <2>2. \A q \in {} : q.type # "04/00_load" /\ q.type # "04/02_save" OBVIOUS
  <2>3. Played BY <1>1, <1>13, <1>18
  <2> QED BY <1>2, <1>3, <1>4, <1>5, <1>6, <2>1, <2>2, <2>3, PlayedKept
<1>19. ASSUME Held' PROVE Grows'
  BY <1>1, <1>2, <1>3, <1>5, <1>6, <1>13, <1>19, GrowsKept
<1>20. ASSUME losses' = 0 PROVE LastSave'
  <2>1. \A i \in At(up, "04/02_save") : i > 0 BY DEF At
  <2>2. LastSave BY <1>1, <1>2, <1>20
  <2> QED BY <1>2, <1>3, <1>5, <1>6, <2>1, <2>2, LastSaveKept
<1> QED BY <1>8, <1>9, <1>11, <1>12, <1>17, <1>18, <1>19, <1>20 DEF CharInv

\* Both queues are forgotten; a kick among them counts as missed.
LEMMA LinkLostKeeps ==
  ASSUME CharInv, LinkLost
  PROVE  CharInv'
<1>1. /\ SaveTypes /\ SaveSteps /\ Door /\ Loading
      /\ Held => Kicks /\ Played /\ Grows
      /\ up \in Seq(UpPackets) /\ down \in Seq(DownPackets)
      /\ logins \in Nat /\ losses \in Nat /\ link \in BOOLEAN /\ missed \in BOOLEAN
  BY InvParts
<1>2. /\ link' = FALSE /\ losses' = losses + 1
      /\ missed' = (missed \/ Kick \in ToSet(down))
      /\ up' = <<>> /\ down' = <<>> /\ conn' = conn /\ list' = list
      /\ UNCHANGED <<stored, logins, gained, sent>>
  BY DEF LinkLost
<1>3. Calm /\ Tame /\ conn' \in [Conns -> CharConn] /\ OpenSockets(conn') = OpenSockets(conn) BY <1>2, Unmoved
<1>4. PICK ku, kd :
        /\ up' \in Seq(UpPackets) /\ Goes(up, up', ku, {})
        /\ down' \in Seq(DownPackets) /\ Goes(down, down', kd, {})
  BY <1>1, <1>2, GoesEmpty
<1>5. Queues BY <1>1, <1>4 DEF Queues
<1>6. losses' \in Nat /\ losses' # 0 BY <1>1, <1>2
<1>7. SaveTypes' BY <1>1, <1>2, <1>3, <1>4, <1>6 DEF SaveTypes
<1>8. SaveSteps' BY <1>1, <1>2, <1>6 DEF SaveSteps
<1>9. Door'
  <2>1. \A c \in Conns : conn[c].login \in Nat BY <1>1, ConnTypes
  <2>2. logins' \in Nat /\ logins <= logins' BY <1>1, <1>2
  <2>3. \A q \in {} : q.type \notin {"0B_ok", "0B_fail"} OBVIOUS
  <2>4. \A q \in {} : q.type # "0B_auth" OBVIOUS
  <2> QED BY <1>1, <1>3, <1>4, <1>5, <2>1, <2>2, <2>3, <2>4, DoorKept
<1>10. Loading'
  <2>1. \A q \in {} : q.type \notin {"0B_ok", "04/01_data"} OBVIOUS
  <2>2. \A q \in {} : q.type \notin {"0B_auth", "04/00_load"} OBVIOUS
  <2> QED BY <1>1, <1>4, <1>5, <2>1, <2>2, LoadingKept
<1>11. Held' => Held /\ Kick \notin ToSet(down) BY <1>2, <1>6 DEF Held
<1>12. ASSUME Held' PROVE Kicks'
  <2>1. Kicks BY <1>1, <1>11, <1>12
  <2>2. At(down, "08/00_kick") = {}
    <3>1. ASSUME NEW i \in At(down, "08/00_kick") PROVE FALSE
      <4>1. i \in 1 .. Len(down) /\ down[i].type = "08/00_kick" /\ down[i] \in DownPackets
        BY <1>1 DEF At
      <4>2. down[i] = Kick BY <4>1, DownPacketHas
      <4>3. Kick \in ToSet(down) BY <4>1, <4>2 DEF ToSet
      <4> QED BY <1>11, <1>12, <4>3
    <3> QED BY <3>1
  <2>3. \A c \in Conns : ~(conn[c].guildcard /\ conn[c].login < logins) BY <2>1, <2>2 DEF Kicks
  <2>4. At(down', "0B_ok") = {} BY <1>2 DEF At
  <2> QED BY <1>2, <2>1, <2>3, <2>4 DEF Kicks
<1>13. ASSUME Held' PROVE Played'
  <2>1. \A q \in {} : q.type # "04/01_data" OBVIOUS
  <2>2. \A q \in {} : q.type # "04/00_load" /\ q.type # "04/02_save" OBVIOUS
  <2>3. Played BY <1>1, <1>11, <1>13
  <2> QED BY <1>2, <1>3, <1>4, <1>5, <2>1, <2>2, <2>3, PlayedKept
<1>14. ASSUME Held' PROVE Grows'
  BY <1>1, <1>2, <1>3, <1>4, <1>5, <1>11, <1>14, GrowsKept
<1> QED BY <1>6, <1>7, <1>8, <1>9, <1>10, <1>12, <1>13, <1>14 DEF CharInv

----------------------------------------------------------------------------
(* The theorems                                                            *)

LEMMA CharInvInit ==
  ASSUME Init
  PROVE  CharInv
<1>1. Off \in CharConn /\ ~Off.on /\ ~Off.guildcard /\ ~Off.gotchardata /\ Off.login = 0
  BY DEF Off, CharConn
<1>2. \A c \in Conns : conn[c] = Off BY DEF Init
<1>3. SaveTypes
  <2>1. OpenSockets(conn) = {} BY <1>1, <1>2 DEF OpenSockets
  <2>2. list = <<>> /\ ToSet(list) = {} BY DEF Init, ToSet
  <2>3. conn \in [Conns -> CharConn] BY <1>1 DEF Init
  <2>4. list \in Seq(Conns) /\ up \in Seq(UpPackets) /\ down \in Seq(DownPackets) BY DEF Init
  <2>5. /\ link = FALSE /\ missed = FALSE /\ stored = {} /\ sent = {} /\ gained = {}
        /\ logins = 0 /\ losses = 0
    BY DEF Init
  <2> QED BY <2>1, <2>2, <2>3, <2>4, <2>5 DEF SaveTypes
<1>4. \A t : At(up, t) = {} /\ At(down, t) = {} BY DEF Init, At
<1>5. SaveSteps BY <1>1, <1>2 DEF Init, SaveSteps
<1>6. Door /\ Loading BY <1>1, <1>2, <1>4 DEF Door, Loading, Verdicts, Waits
<1>7. Kicks BY <1>1, <1>2, <1>4 DEF Kicks, Waits
<1>8. Played /\ Grows BY <1>1, <1>2, <1>4 DEF Played, Grows
<1>9. LastSave BY <1>1, <1>2, <1>4 DEF Init, LastSave
<1> QED BY <1>3, <1>5, <1>6, <1>7, <1>8, <1>9 DEF CharInv

LEMMA CharInvNext ==
  ASSUME CharInv, [Next]_vars
  PROVE  CharInv'
<1>1. CASE Login BY <1>1, LoginKeeps
<1>2. CASE LoginServes
  <2>1. CASE Authenticate BY <2>1, AuthenticateKeeps
  <2>2. CASE LoadCharacter BY <2>2, LoadCharacterKeeps
  <2>3. CASE SaveCharacter BY <2>3, SaveCharacterKeeps
  <2> QED BY <1>2, <2>1, <2>2, <2>3 DEF LoginServes
<1>3. ASSUME NEW c \in Conns,
             \/ \E k \in 1 .. logins : Connect(c, k)
             \/ \E x \in Gains : Gain(c, x)
             \/ StartBattle(c) \/ EndBattle(c) \/ Autosave(c) \/ Release(c) \/ Disconnect(c)
      PROVE  CharInv'
  <2>1. CASE \E k \in 1 .. logins : Connect(c, k) BY <2>1, ConnectKeeps
  <2>2. CASE (\E x \in Gains : Gain(c, x)) \/ StartBattle(c) \/ EndBattle(c) BY <2>2, PlayKeeps
  <2>3. CASE Autosave(c) BY <2>3, AutosaveKeeps
  <2>4. CASE Release(c) BY <2>4, ReleaseKeeps
  <2>5. CASE Disconnect(c) BY <2>5, DisconnectKeeps
  <2> QED BY <1>3, <2>1, <2>2, <2>3, <2>4, <2>5
<1>4. CASE ShipServes
  <2>1. CASE LetIn BY <2>1, LetInKeeps
  <2>2. CASE Refuse BY <2>2, RefuseKeeps
  <2>3. CASE Kicked BY <2>3, KickedKeeps
  <2>4. CASE Receive BY <2>4, ReceiveKeeps
  <2>5. CASE LetGo BY <2>5, LetGoKeeps
  <2> QED BY <1>4, <2>1, <2>2, <2>3, <2>4, <2>5 DEF ShipServes
<1>5. CASE LinkLost BY <1>5, LinkLostKeeps
<1>6. CASE LinkUp BY <1>6, LinkUpKeeps
<1>7. CASE UNCHANGED vars
  <2>1. \A t : At(up', t) = At(up, t) /\ At(down', t) = At(down, t) BY <1>7 DEF vars, At
  <2>2. SaveTypes' /\ SaveSteps' BY <1>7 DEF CharInv, vars, SaveTypes, SaveSteps, OpenSockets
  <2>3. Door' BY <1>7, <2>1 DEF CharInv, vars, Door, Verdicts, Waits
  <2>4. Loading' BY <1>7, <2>1 DEF CharInv, vars, Loading
  <2>5. Held' => Held BY <1>7 DEF vars, Held
  <2>6. Held => Kicks' BY <1>7, <2>1 DEF CharInv, vars, Kicks, Waits
  <2>7. Held => Played' BY <1>7, <2>1 DEF CharInv, vars, Played
  <2>8. Held => Grows' BY <1>7, <2>1 DEF CharInv, vars, Grows
  <2>9. losses' = 0 => LastSave' BY <1>7, <2>1 DEF CharInv, vars, LastSave
  <2> QED BY <2>2, <2>3, <2>4, <2>5, <2>6, <2>7, <2>8, <2>9 DEF CharInv
<1> QED BY <1>1, <1>2, <1>3, <1>4, <1>5, <1>6, <1>7 DEF Next

LEMMA CharInvGives ==
  ASSUME CharInv
  PROVE  OnePlayer /\ PlaysWhatWasSaved
<1>1. SaveSteps /\ (Held => Kicks) /\ (losses = 0 => LastSave) BY InvParts
<1>2. OnePlayer BY <1>1 DEF SaveSteps, Kicks, Held, OnePlayer
<1>3. PlaysWhatWasSaved BY <1>1 DEF LastSave, PlaysWhatWasSaved
<1> QED BY <1>2, <1>3

\* Only a save changes what is stored.
LEMMA StoredStep ==
  ASSUME CharInv, [Next]_vars
  PROVE  ~missed => stored \subseteq stored'
<1>1. CASE SaveCharacter BY <1>1, SaveCharacterKeeps DEF Held
<1>2. CASE ~SaveCharacter
  <2>1. stored' = stored
    <3>1. CASE Login BY <3>1 DEF Login
    <3>2. CASE LoginServes BY <1>2, <3>2 DEF LoginServes, Authenticate, LoadCharacter
    <3>3. ASSUME NEW c \in Conns,
                 \/ \E k \in 1 .. logins : Connect(c, k)
                 \/ \E x \in Gains : Gain(c, x)
                 \/ StartBattle(c) \/ EndBattle(c) \/ Autosave(c) \/ Release(c) \/ Disconnect(c)
          PROVE  stored' = stored
      BY <3>3 DEF Connect, Gain, StartBattle, EndBattle, Autosave, Release, Disconnect
    <3>4. CASE ShipServes
      BY <3>4 DEF ShipServes, LetIn, Refuse, Kicked, Receive, LetGo, SendAway
    <3>5. CASE LinkLost BY <3>5 DEF LinkLost
    <3>6. CASE LinkUp BY <3>6 DEF LinkUp
    <3>7. CASE UNCHANGED vars BY <3>7 DEF vars
    <3> QED BY <3>1, <3>2, <3>3, <3>4, <3>5, <3>6, <3>7 DEF Next
  <2> QED BY <2>1
<1> QED BY <1>1, <1>2

LEMMA CharInvAlways == Spec => []CharInv
<1>1. Init => CharInv BY CharInvInit
<1>2. CharInv /\ [Next]_vars => CharInv' BY CharInvNext
<1> QED BY <1>1, <1>2, PTL DEF Spec

\* An account never plays on two connections at once, unless a kick was lost.
THEOREM NeverTwoPlayers == Spec => []OnePlayer
<1>1. CharInv => OnePlayer BY CharInvGives
<1> QED BY <1>1, CharInvAlways, PTL

\* Whoever plays has everything ever sent to be saved, while the link has held.
THEOREM AlwaysPlaysWhatWasSaved == Spec => []PlaysWhatWasSaved
<1>1. CharInv => PlaysWhatWasSaved BY CharInvGives
<1> QED BY <1>1, CharInvAlways, PTL

\* What is stored never goes back, also if the link breaks, unless a kick was
\* lost with it.
THEOREM StoredAlwaysGrows == Spec => StoredGrows
<1>1. CharInv /\ [Next]_vars => [~missed => stored \subseteq stored']_vars BY StoredStep
<1> QED BY <1>1, CharInvAlways, PTL DEF Spec, StoredGrows

----------------------------------------------------------------------------
(* The servers together                                                    *)

\* The lemmas about a table of connections, for the login server's.
LP == INSTANCE ConnectionsProofs WITH
  IsShip <- FALSE, Services <- LoginServices, Blocks <- {}, MaxConnections <- LoginSlots,
  MaxTime <- LoginTime,
  connections <- login_connections, serverConnectionList <- login_list, block_count <- login_count,
  blockConnections <- login_blocking, servertime <- login_time

\* The login server's table is an instance of theirs, too. What accepting a client does, but for
\* what an instance computes: the slots it closes, what is left of the list, and of the counts (a
\* count per service counted, and the login port counts none).
Coming(ip) == [login_connections EXCEPT ![LP!free_connection] =
                 [@ EXCEPT !.open = TRUE, !.index = LP!free_connection, !.ip = ip]]
Staying(gone) == LET l == Append(login_list, LP!free_connection) IN {k \in 1 .. Len(l) : l[k] \notin gone}
Lost(gone, ip, n(_)) == [b \in {} |-> login_count[b] - n({t \in gone : Coming(ip)[t].service = b})]

Admitted(ip, service, gone, entries, counts) ==
  /\ ~login_blocking
  /\ LP!FreeSlots # {}
  /\ service \in {} => login_count[service] < MaxCount
  /\ login_connections' =
       [[t \in LP!Slots |-> IF t \in gone THEN LP!Closed ELSE Coming(ip)[t]]
          EXCEPT ![LP!free_connection].connected = login_time, ![LP!free_connection].service = service]
  /\ login_list' = entries
  /\ login_count' = counts
  /\ UNCHANGED <<login_blocking, login_time>>

\* The instances' copies of the library agree on the size of a set.
LEMMA SameSize == \A S : LoginTable!Cardinality(S) = LP!Cardinality(S)
BY DEF LoginTable!Cardinality, LP!Cardinality

\* They keep the same of a list.
LEMMA SameKept == \A l, K : LoginTable!Kept(l, K) = LP!Kept(l, K)
BY DEF LoginTable!Kept, LP!Kept, LoginTable!Nth, LP!Nth, LoginTable!Rank, LP!Rank,
       LoginTable!Cardinality, LP!Cardinality

\* They drop the same clients to make room.
LEMMA SameOldest == \A l, cs, ip : LoginTable!Oldest(l, cs, ip) = LP!Oldest(l, cs, ip)
BY SameSize DEF LoginTable!Oldest, LP!Oldest, LoginTable!Never, LP!Never

\* Accepting a client is the same step of either.
LEMMA SameAccept ==
  ASSUME NEW ip, NEW service
  PROVE  LoginTable!Accept(ip, service) <=> LP!Accept(ip, service)
<1> DEFINE l == Append(login_list, LP!free_connection)
           g == LoginTable!Oldest(l, Coming(ip), ip)
           h == LP!Oldest(l, Coming(ip), ip)
           m == LoginTable!Kept(l, Staying(g))
           n == LP!Kept(l, Staying(h))
           c == LoginTable!Came(Lost(g, ip, LoginTable!Cardinality), service)
           d == LP!Came(Lost(h, ip, LP!Cardinality), service)
<1>1. LoginTable!Accept(ip, service) <=> Admitted(ip, service, g, m, c)
  BY DEF LoginTable!Accept, Admitted, Coming, Staying, Lost, LoginTable!FreeSlots, LP!FreeSlots,
         LoginTable!free_connection, LP!free_connection, LoginTable!Slots, LP!Slots,
         LoginTable!Closed, LP!Closed, LoginTable!Never, LP!Never
<1>2. LP!Accept(ip, service) <=> Admitted(ip, service, h, n, d)
  BY DEF LP!Accept, Admitted, Coming, Staying, Lost
<1>3. g = h BY SameOldest
<1>4. m = n BY <1>3, SameKept
<1>5. c = d BY DEF Lost, LoginTable!Came, LP!Came
<1> HIDE DEF g, h, m, n, c, d
<1> QED BY <1>1, <1>2, <1>3, <1>4, <1>5

\* So is each of their steps, and their initial states.
LEMMA SameTable ==
  /\ LoginTable!TableInit <=> LP!TableInit
  /\ LoginTable!TableNext <=> LP!TableNext
<1>1. LoginTable!TableInit <=> LP!TableInit
  BY DEF LoginTable!TableInit, LP!TableInit, LoginTable!Closed, LP!Closed, LoginTable!Never,
         LP!Never, LoginTable!Slots, LP!Slots
<1>2. \A ip, service : LoginTable!Accept(ip, service) <=> LP!Accept(ip, service) BY SameAccept
<1>3. LoginTable!RefuseNew <=> LP!RefuseNew
  BY DEF LoginTable!RefuseNew, LP!RefuseNew, LoginTable!FreeSlots, LP!FreeSlots,
         LoginTable!free_connection, LP!free_connection, LoginTable!Freed, LP!Freed, LoginTable!Left,
         LP!Left, LoginTable!Slots, LP!Slots, LoginTable!Closed, LP!Closed, LoginTable!Never, LP!Never,
         LoginTable!Unlisted, LP!Unlisted, LoginTable!Kept, LP!Kept, LoginTable!Nth, LP!Nth,
         LoginTable!Rank, LP!Rank, LoginTable!ToSet, LP!ToSet, LoginTable!Cardinality, LP!Cardinality
<1>4. ASSUME NEW s PROVE LoginTable!CloseConnection(s) <=> LP!CloseConnection(s)
  BY DEF LoginTable!CloseConnection, LP!CloseConnection, LoginTable!Freed, LP!Freed,
         LoginTable!Left, LP!Left, LoginTable!Slots, LP!Slots, LoginTable!Closed, LP!Closed,
         LoginTable!Never, LP!Never, LoginTable!Unlisted, LP!Unlisted, LoginTable!Kept, LP!Kept,
         LoginTable!Nth, LP!Nth, LoginTable!Rank, LP!Rank, LoginTable!ToSet, LP!ToSet,
         LoginTable!Cardinality, LP!Cardinality
<1>5. ASSUME NEW s PROVE LoginTable!dcall(s) <=> LP!dcall(s)
  BY DEF LoginTable!dcall, LP!dcall
<1>6. LoginTable!KickFirst <=> LP!KickFirst
  BY DEF LoginTable!KickFirst, LP!KickFirst, LoginTable!Freed, LP!Freed, LoginTable!Left, LP!Left,
         LoginTable!Slots, LP!Slots, LoginTable!Closed, LP!Closed, LoginTable!Never, LP!Never,
         LoginTable!Unlisted, LP!Unlisted, LoginTable!Kept, LP!Kept, LoginTable!Nth, LP!Nth,
         LoginTable!Rank, LP!Rank, LoginTable!ToSet, LP!ToSet, LoginTable!Cardinality, LP!Cardinality
<1>7. LoginTable!Unblock <=> LP!Unblock BY DEF LoginTable!Unblock, LP!Unblock
<1>8. LoginTable!Second <=> LP!Second BY DEF LoginTable!Second, LP!Second
<1> QED BY <1>1, <1>2, <1>3, <1>4, <1>5, <1>6, <1>7, <1>8
        DEF LoginTable!TableNext, LP!TableNext, LoginTable!Slots, LP!Slots

----------------------------------------------------------------------------
(* The tables                                                              *)

TablesInv == TableInv /\ LP!TableInv

LEMMA LoginAssumption ==
  /\ FALSE \in BOOLEAN /\ LoginSlots \in Nat \ {0} /\ Limit \in Nat \ {0}
  /\ LoginTime \in Nat \ {0} /\ MaxCount \in Nat
  /\ {} \subseteq LoginServices /\ (~FALSE => {} = {}) /\ Unset \notin Addresses \cup LoginServices
BY NetworkAssumption, ConnectionsAssumption

LEMMA TablesInvInit == NetworkInit => TablesInv
<1> SUFFICES ASSUME NetworkInit PROVE TablesInv OBVIOUS
<1>1. TableInv BY TableInvInit DEF NetworkInit
<1>2. LP!TableInit BY SameTable DEF NetworkInit
<1>3. LP!TableInv BY <1>2, LoginAssumption, LP!TableInvInit
<1> QED BY <1>1, <1>3 DEF TablesInv

\* A step of the network is a step of each table, or leaves it as it is.
LEMMA TableSteps ==
  [NetworkNext]_networkVars => [TableNext]_tableVars /\ [LP!TableNext]_(LP!tableVars)
<1> SUFFICES ASSUME [NetworkNext]_networkVars
             PROVE  [TableNext]_tableVars /\ [LP!TableNext]_(LP!tableVars)
  OBVIOUS
<1>1. CASE UNCHANGED networkVars BY <1>1 DEF networkVars, loginVars, LP!tableVars, tableVars
<1>2. CASE Next /\ NotSave BY <1>2 DEF NotSave, loginVars, LP!tableVars
<1>3. CASE LinkNext /\ NotLink BY <1>3 DEF NotLink, loginVars, LP!tableVars
<1>4. CASE TableNext /\ NotShip BY <1>4 DEF NotShip, loginVars, LP!tableVars
<1>5. CASE LoginTable!TableNext /\ NotLogin BY <1>5, SameTable DEF NotLogin
<1>6. CASE PatchesNext /\ NotPatch BY <1>6 DEF NotPatch, loginVars, LP!tableVars
<1> QED BY <1>1, <1>2, <1>3, <1>4, <1>5, <1>6 DEF NetworkNext

LEMMA TablesInvNext == TablesInv /\ [NetworkNext]_networkVars => TablesInv'
<1> SUFFICES ASSUME TablesInv, [NetworkNext]_networkVars PROVE TablesInv' OBVIOUS
<1>1. [TableNext]_tableVars /\ [LP!TableNext]_(LP!tableVars) BY TableSteps
<1>2. TableInv' BY <1>1, TableInvNext DEF TablesInv
<1>3. LP!TableInv' BY <1>1, LoginAssumption, LP!TableInvNext DEF TablesInv
<1> QED BY <1>2, <1>3 DEF TablesInv

LEMMA TablesInvGives == TablesInv => TablesExact
<1> SUFFICES ASSUME TablesInv PROVE TablesExact OBVIOUS
<1>1. ListSound /\ CountNeverShort BY TableInvGives DEF TablesInv
<1>2. LP!ListSound /\ LP!ListComplete /\ LP!AddressCap
  BY LoginAssumption, LP!TableInvGives DEF TablesInv
<1>3. LoginTable!ListSound /\ LoginTable!ListComplete /\ LoginTable!AddressCap
  BY <1>2 DEF LoginTable!ListSound, LP!ListSound, LoginTable!ListComplete, LP!ListComplete,
              LoginTable!AddressCap, LP!AddressCap, LoginTable!Open, LP!Open, LoginTable!From,
              LP!From, LoginTable!Slots, LP!Slots, LoginTable!ToSet, LP!ToSet,
              LoginTable!Cardinality, LP!Cardinality
<1> QED BY <1>1, <1>3 DEF TablesExact

\* The tables of both servers stay exact, for any number of slots, addresses
\* and services: nobody is served twice, and on the login server nobody is
\* forgotten and no address has more than its share; on the ship a block
\* counts every client it has.
THEOREM TablesAlwaysExact == NetworkSpec => []TablesExact
<1>1. NetworkInit => TablesInv BY TablesInvInit
<1>2. TablesInv /\ [NetworkNext]_networkVars => TablesInv' BY TablesInvNext
<1>3. TablesInv => TablesExact BY TablesInvGives
<1> QED BY <1>1, <1>2, <1>3, PTL DEF NetworkSpec

\* A step of the login server's table that lets somebody in.
LEMMA LoginRoomMade == TablesInv => LoginTable!RoomIsMade
<1> SUFFICES ASSUME TablesInv, NEW ip \in Addresses, NEW service \in LoginServices,
                    LoginTable!Accept(ip, service)
             PROVE  /\ login_connections'[LoginTable!free_connection].open
                    /\ \A s \in LoginTable!Open : ~login_connections'[s].open =>
                         \A t \in LoginTable!From(ip) :
                           /\ s \in LoginTable!From(ip)
                           /\ login_connections[s].connected <= login_connections[t].connected
  BY DEF LoginTable!RoomIsMade
<1>1. LP!Accept(ip, service) BY SameAccept
<1>2. LP!TableInv BY DEF TablesInv
<1>3. /\ login_connections'[LP!free_connection].open
      /\ \A s \in LP!Open : ~login_connections'[s].open =>
           \A t \in LP!From(ip) :
             s \in LP!From(ip) /\ login_connections[s].connected <= login_connections[t].connected
  BY <1>1, <1>2, LoginAssumption, LP!RoomMade
<1> QED BY <1>3 DEF LoginTable!Open, LP!Open, LoginTable!From, LP!From, LoginTable!Slots, LP!Slots,
                    LoginTable!free_connection, LP!free_connection, LoginTable!FreeSlots, LP!FreeSlots

\* The login server always lets a newcomer in, and only the oldest connection
\* of its address goes for it.
THEOREM OldestAlwaysMakesRoom == NetworkSpec => LoginOldestMakesRoom
<1>1. NetworkInit => TablesInv BY TablesInvInit
<1>2. TablesInv /\ [NetworkNext]_networkVars => TablesInv' BY TablesInvNext
<1>3. TablesInv => LoginTable!RoomIsMade BY LoginRoomMade
<1> QED BY <1>1, <1>2, <1>3, PTL DEF NetworkSpec, LoginOldestMakesRoom, LoginTable!OldestMakesRoom

----------------------------------------------------------------------------
(* The characters                                                          *)

LEMMA CharSteps == [NetworkNext]_networkVars => [Next]_vars
<1> SUFFICES ASSUME [NetworkNext]_networkVars PROVE [Next]_vars OBVIOUS
<1>1. CASE UNCHANGED networkVars BY <1>1 DEF networkVars
<1>2. CASE part = "save" /\ Next /\ NotSave BY <1>2
<1>3. CASE ~(part = "save" /\ Next /\ NotSave) /\ NetworkNext
  BY <1>3 DEF NetworkNext, NotLink, NotShip, NotLogin, NotPatch
<1> QED BY <1>1, <1>2, <1>3

\* The servers together keep every character as the link alone does: nobody
\* plays an account twice, whoever plays has all that was ever sent to be
\* saved, and the stored character never goes back.
THEOREM CharactersAlwaysKept ==
  NetworkSpec => []OnePlayer /\ []PlaysWhatWasSaved /\ StoredGrows
<1>1. NetworkInit => CharInv BY CharInvInit DEF NetworkInit
<1>2. CharInv /\ [NetworkNext]_networkVars => CharInv' BY CharInvNext, CharSteps
<1>3. CharInv => OnePlayer /\ PlaysWhatWasSaved BY CharInvGives
<1>4. CharInv /\ [NetworkNext]_networkVars => [~missed => stored \subseteq stored']_vars
  BY StoredStep, CharSteps
<1> QED BY <1>1, <1>2, <1>3, <1>4, PTL DEF NetworkSpec, StoredGrows

----------------------------------------------------------------------------
(* The links                                                               *)

LEMMA LinkSteps == [NetworkNext]_networkVars => [LinkNext]_linkVars
<1> SUFFICES ASSUME [NetworkNext]_networkVars PROVE [LinkNext]_linkVars OBVIOUS
<1>1. CASE UNCHANGED networkVars BY <1>1 DEF networkVars
<1>2. CASE part = "link" /\ LinkNext /\ NotLink BY <1>2
<1>3. CASE ~(part = "link" /\ LinkNext /\ NotLink) /\ NetworkNext
  BY <1>3 DEF NetworkNext, NotSave, NotShip, NotLogin, NotPatch
<1> QED BY <1>1, <1>2, <1>3

\* No packet between ships and login server is decrypted with another key, or
\* at another place of the stream, than it was encrypted with, but on a link
\* where one side spoke before the keys were changed or whose ship came with a
\* record that is off.
THEOREM NetworkInStep == NetworkSpec => []InStep
<1>1. NetworkInit => LinksInv BY LinksStart DEF NetworkInit
<1>2. LinksInv /\ [NetworkNext]_networkVars => LinksInv' BY LinkSteps, LinksGoOn DEF StaysSound
<1>3. LinksInv => InStep BY LinksInvGives
<1> QED BY <1>1, <1>2, <1>3, PTL DEF NetworkSpec

\* No key stays taken by a ship that has gone, whether ships share keys or not.
THEOREM KeysAlwaysSound == NetworkSpec => []KeysSound
<1> DEFINE Inv == LinksInv /\ KeysTaken
<1>1. NetworkInit => Inv BY LinksStart DEF NetworkInit
<1>2. Inv /\ [NetworkNext]_networkVars => Inv' BY LinkSteps, LinksGoOn DEF StaysSound, KeysKept
<1>3. Inv => KeysSound BY LinksInvGives DEF KeysSound
<1> QED BY <1>1, <1>2, <1>3, PTL DEF NetworkSpec
=============================================================================
