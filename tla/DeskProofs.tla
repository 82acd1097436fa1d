----------------------------- MODULE DeskProofs -----------------------------
(***************************************************************************)
(* Proofs about what the login server and the ships keep of a player       *)
(* beside its character: the bans and silences of a ship, the teams, what  *)
(* a login was dealt, and guild cards.                                     *)
(***************************************************************************)
EXTENDS Accounts, GuildCards, Moderation, Teams, RankingProofs

----------------------------------------------------------------------------
(* Least and greatest                                                      *)

\* A set of numbers that has an element has a least one.
LEMMA MinIs ==
  ASSUME NEW S \in SUBSET Nat, S # {}
  PROVE  Min(S) \in S /\ \A n \in S : Min(S) <= n
<1>1. \A n \in S : [k \in S |-> k][n] = n OBVIOUS
<1>2. \E n \in S : \A k \in S : n <= k
  <2>1. \E n \in S : \A k \in S : [j \in S |-> j][n] <= [j \in S |-> j][k] BY <1>1, LeastBy
  <2> QED BY <1>1, <2>1
<1> QED BY <1>2 DEF Min

----------------------------------------------------------------------------
(* Moderation: one order lifts                                             *)

\* What is left of s in r is in other places of s, each at one.
PartOf(r, s) ==
  \E place \in [DOMAIN r -> DOMAIN s] :
    /\ \A i \in DOMAIN r : r[i] = s[place[i]]
    /\ \A i, j \in DOMAIN r : place[i] = place[j] => i = j

\* A list that is closed up is part of the list, however many entries it loses.
LEMMA CleanedIs ==
  ASSUME NEW S, NEW s \in Seq(S), NEW n \in 1 .. Len(s)
  PROVE  Cleaned(s, n) \in Seq(S) /\ Len(Cleaned(s, n)) < Len(s) /\ PartOf(Cleaned(s, n), s)
<1>0. Len(s) \in Nat /\ n \in Nat /\ DOMAIN s = 1 .. Len(s) /\ \A k \in 1 .. Len(s) : s[k] \in S OBVIOUS
<1>1. CASE n = 1
  <2>1. /\ Tail(s) \in Seq(S) /\ Len(Tail(s)) = Len(s) - 1
        /\ \A k \in 1 .. Len(s) - 1 : Tail(s)[k] = s[k + 1]
    BY <1>0, <1>1
  <2> DEFINE place == [k \in 1 .. Len(s) - 1 |-> k + 1]
  <2>2. DOMAIN Tail(s) = 1 .. Len(s) - 1 BY <2>1
  <2>3. place \in [DOMAIN Tail(s) -> DOMAIN s] BY <1>0, <2>2
  <2>4. \A i, j \in DOMAIN Tail(s) : place[i] = place[j] => i = j BY <1>0, <2>2
  <2>5. PartOf(Tail(s), s) BY <1>0, <2>1, <2>2, <2>3, <2>4 DEF PartOf
  <2> QED BY <1>0, <1>1, <2>1, <2>5 DEF Cleaned
<1>2. CASE n # 1
  <2> DEFINE a == SubSeq(s, 2, n - 1)
             b == SubSeq(s, n + 1, Len(s))
             N == Len(s)
             place == [k \in 1 .. N - 2 |-> IF k <= n - 2 THEN k + 1 ELSE k + 2]
  <2>0. N \in Nat /\ n \in 2 .. N BY <1>0, <1>2
  <2>1. a \in Seq(S) /\ Len(a) = n - 2 /\ \A k \in 1 .. n - 2 : a[k] = s[k + 1]
    <3>1. \A k \in 2 .. n - 1 : s[k] \in S BY <1>0, <2>0
    <3>2. /\ SubSeq(s, 2, n - 1) \in Seq(S)
          /\ Len(SubSeq(s, 2, n - 1)) = IF 2 <= n - 1 THEN n - 1 - 2 + 1 ELSE 0
          /\ \A k \in 1 .. n - 1 - 2 + 1 : SubSeq(s, 2, n - 1)[k] = s[2 + k - 1]
      BY <2>0, <3>1, SubSeqProperties
    <3> QED BY <2>0, <3>2
  <2>2. b \in Seq(S) /\ Len(b) = N - n /\ \A k \in 1 .. N - n : b[k] = s[n + k]
    <3>1. \A k \in n + 1 .. N : s[k] \in S BY <1>0, <2>0
    <3>2. /\ SubSeq(s, n + 1, N) \in Seq(S)
          /\ Len(SubSeq(s, n + 1, N)) = IF n + 1 <= N THEN N - (n + 1) + 1 ELSE 0
          /\ \A k \in 1 .. N - (n + 1) + 1 : SubSeq(s, n + 1, N)[k] = s[n + 1 + k - 1]
      BY <2>0, <3>1, SubSeqProperties
    <3> QED BY <2>0, <3>2
  <2>3. Cleaned(s, n) = a \o b BY <1>2 DEF Cleaned
  <2> HIDE DEF a, b, N
  <2>4. /\ a \o b \in Seq(S) /\ Len(a \o b) = Len(a) + Len(b)
        /\ \A k \in 1 .. Len(a) + Len(b) : (a \o b)[k] = IF k <= Len(a) THEN a[k] ELSE b[k - Len(a)]
    BY <2>1, <2>2, ConcatProperties
  <2>5. Len(a \o b) = N - 2 /\ DOMAIN (a \o b) = 1 .. N - 2 BY <2>0, <2>1, <2>2, <2>4
  <2>6. ASSUME NEW k \in 1 .. N - 2 PROVE (a \o b)[k] = s[place[k]] /\ place[k] \in 1 .. N
    <3>1. (a \o b)[k] = IF k <= n - 2 THEN a[k] ELSE b[k - (n - 2)] BY <2>0, <2>1, <2>2, <2>4, SMTT(60)
    <3>2. CASE k <= n - 2
      <4>1. k \in 1 .. n - 2 /\ place[k] = k + 1 BY <2>0, <3>2
      <4> QED BY <2>0, <2>1, <3>1, <3>2, <4>1
    <3>3. CASE ~(k <= n - 2)
      <4>1. k - (n - 2) \in 1 .. N - n /\ n + (k - (n - 2)) = k + 2 /\ place[k] = k + 2 BY <2>0, <3>3
      <4> QED BY <2>0, <2>2, <3>1, <3>3, <4>1
    <3> QED BY <3>2, <3>3
  <2>7. \A i, j \in 1 .. N - 2 : place[i] = place[j] => i = j BY <2>0
  <2>8. place \in [1 .. N - 2 -> 1 .. N] BY <2>6
  <2>9. DOMAIN s = 1 .. N BY <1>0 DEF N
  <2> HIDE DEF place
  <2>10. PartOf(a \o b, s) BY <2>5, <2>6, <2>7, <2>8, <2>9 DEF PartOf
  <2>11. Len(a \o b) < Len(s) BY <2>0, <2>5 DEF N
  <2> QED BY <2>3, <2>4, <2>10, <2>11
<1> QED BY <1>1, <1>2

\* An order on a list closes it up, puts an entry on it that was not there, or
\* does nothing; it does not outgrow its limit.
LEMMA ToggledIs ==
  ASSUME NEW S, NEW s \in Seq(S), NEW entry \in S, NEW same, NEW limit \in Nat, Len(s) <= limit
  PROVE  /\ Toggled(s, entry, same, limit) \in Seq(S) /\ Len(Toggled(s, entry, same, limit)) <= limit
         /\ \/ PartOf(Toggled(s, entry, same, limit), s)
            \/ /\ \A n \in DOMAIN s : s[n] \notin same
               /\ Toggled(s, entry, same, limit) \in {s, Append(s, entry)}
<1> DEFINE found == {n \in DOMAIN s : s[n] \in same}
<1>0. Len(s) \in Nat /\ DOMAIN s = 1 .. Len(s) OBVIOUS
<1>1. CASE found # {}
  <2>1. Toggled(s, entry, same, limit) = Cleaned(s, Min(found)) BY <1>1 DEF Toggled
  <2>2. found \in SUBSET Nat /\ found \subseteq 1 .. Len(s) BY <1>0
  <2>3. Min(found) \in 1 .. Len(s) BY <1>1, <2>2, MinIs
  <2> HIDE DEF found
  <2>4. /\ Cleaned(s, Min(found)) \in Seq(S) /\ Len(Cleaned(s, Min(found))) < Len(s)
        /\ PartOf(Cleaned(s, Min(found)), s)
    BY <2>3, CleanedIs
  <2>5. Len(Cleaned(s, Min(found))) \in Nat BY <2>4
  <2> QED BY <1>0, <2>1, <2>4, <2>5
<1>2. CASE found = {}
  <2>1. \A n \in DOMAIN s : s[n] \notin same BY <1>2
  <2>2. CASE Len(s) < limit
    <3>1. Toggled(s, entry, same, limit) = Append(s, entry) BY <1>2, <2>2 DEF Toggled
    <3>2. Append(s, entry) \in Seq(S) /\ Len(Append(s, entry)) = Len(s) + 1 OBVIOUS
    <3> QED BY <1>0, <2>1, <2>2, <3>1, <3>2
  <2>3. CASE ~(Len(s) < limit)
    <3>1. Toggled(s, entry, same, limit) = s BY <1>2, <2>3 DEF Toggled
    <3> QED BY <2>1, <3>1
  <2> QED BY <2>2, <2>3
<1> QED BY <1>1, <1>2

\* Nobody is on a list twice after an order when nobody was before.
LEMMA ToggledInjective ==
  ASSUME NEW S, NEW s \in Seq(S), NEW entry \in S, NEW limit \in Nat, Len(s) <= limit, IsInjective(s)
  PROVE  /\ Toggled(s, entry, {entry}, limit) \in Seq(S) /\ Len(Toggled(s, entry, {entry}, limit)) <= limit
         /\ IsInjective(Toggled(s, entry, {entry}, limit))
<1> DEFINE r == Toggled(s, entry, {entry}, limit)
<1>1. /\ r \in Seq(S) /\ Len(r) <= limit
      /\ \/ PartOf(r, s)
         \/ (\A n \in DOMAIN s : s[n] \notin {entry}) /\ r \in {s, Append(s, entry)}
  BY ToggledIs
<1> HIDE DEF r
<1>2. \A i, j \in DOMAIN s : s[i] = s[j] => i = j BY DEF IsInjective
<1>3. CASE PartOf(r, s)
  <2>1. PICK place \in [DOMAIN r -> DOMAIN s] :
          /\ \A i \in DOMAIN r : r[i] = s[place[i]]
          /\ \A i, j \in DOMAIN r : place[i] = place[j] => i = j
    BY <1>3 DEF PartOf
  <2>2. \A i, j \in DOMAIN r : r[i] = r[j] => i = j BY <1>2, <2>1
  <2> QED BY <1>1, <2>2 DEF IsInjective, r
<1>4. CASE (\A n \in DOMAIN s : s[n] # entry) /\ r = Append(s, entry)
  <2>1. DOMAIN r = 1 .. Len(s) + 1 /\ Len(s) \in Nat /\ DOMAIN s = 1 .. Len(s) BY <1>4
  <2>2. \A i \in 1 .. Len(s) + 1 : r[i] = IF i <= Len(s) THEN s[i] ELSE entry BY <1>4, <2>1
  <2>3. \A i, j \in DOMAIN r : r[i] = r[j] => i = j BY <1>2, <1>4, <2>1, <2>2
  <2> QED BY <1>1, <2>3 DEF IsInjective, r
<1>5. CASE r = s BY <1>1, <1>5 DEF r
<1> QED BY <1>1, <1>3, <1>4, <1>5

----------------------------------------------------------------------------

NumOrNo == Guilds \cup {NoGuild}

\* A connection, with a list of those it ignores that fits and names nobody twice.
ConnOK ==
  {r \in [ip : IPs, hw : Hardware \cup {NoGuild}, temp : NumOrNo, guild : NumOrNo,
          sendCheck : BOOLEAN, asks : NumOrNo, todc : BOOLEAN, ignoring : Seq(Guilds)] :
     Len(r.ignoring) <= MaxIgnored /\ IsInjective(r.ignoring)}

BanType == [guildcard : NumOrNo, type : 1 .. 3, ipaddr : IPs, hwinfo : Hardware \cup {NoGuild}]

\* Nobody is banned twice in one way.
OncePerKind(list) ==
  \A n, k \in DOMAIN list : n # k => list[n].guildcard # list[k].guildcard \/ list[n].type # list[k].type

BansOK(list) == list \in Seq(BanType) /\ Len(list) <= MaxBans /\ OncePerKind(list)

ModerationInv ==
  /\ crowd \in Seq(ConnOK) /\ Len(crowd) <= MaxCrowd
  /\ BansOK(bans) /\ BansOK(bandata)
  /\ silenced \in Seq(NumOrNo) /\ Len(silenced) <= MaxSilenced /\ IsInjective(silenced)
  /\ masks \subseteq IPs /\ steps \in 0 .. MaxSteps

LEMMA ModerationInvInit == ModerationInit => ModerationInv
<1> SUFFICES ASSUME ModerationInit PROVE ModerationInv OBVIOUS
<1>1. \A S : <<>> \in Seq(S) /\ Len(<<>>) = 0 OBVIOUS
<1>2. IsInjective(<<>>) /\ OncePerKind(<<>>)
  <2>1. DOMAIN <<>> = {} OBVIOUS
  <2> QED BY <2>1 DEF IsInjective, OncePerKind
<1> QED BY <1>1, <1>2, ModerationAssumption DEF ModerationInit, ModerationInv, BansOK

\* An order to ban keeps a list of bans in order.
LEMMA ToggledBans ==
  ASSUME BansOK(bans), NEW entry \in BanType
  PROVE  BansOK(Toggled(bans, entry, {b \in ToSet(bans) : b.guildcard = entry.guildcard /\ b.type = entry.type}, MaxBans))
<1> DEFINE same == {b \in ToSet(bans) : b.guildcard = entry.guildcard /\ b.type = entry.type}
           r == Toggled(bans, entry, same, MaxBans)
<1>0. bans \in Seq(BanType) /\ Len(bans) <= MaxBans /\ OncePerKind(bans) /\ MaxBans \in Nat
  BY ModerationAssumption DEF BansOK
<1>1. /\ r \in Seq(BanType) /\ Len(r) <= MaxBans
      /\ \/ PartOf(r, bans)
         \/ (\A n \in DOMAIN bans : bans[n] \notin same) /\ r \in {bans, Append(bans, entry)}
  <2> HIDE DEF same
  <2> QED BY <1>0, ToggledIs
<1>2. \A n \in DOMAIN bans : bans[n] \notin same => ~(bans[n].guildcard = entry.guildcard /\ bans[n].type = entry.type)
  BY DEF ToSet
<1> HIDE DEF r, same
<1>3. CASE PartOf(r, bans)
  <2>1. PICK place \in [DOMAIN r -> DOMAIN bans] :
          /\ \A i \in DOMAIN r : r[i] = bans[place[i]]
          /\ \A i, j \in DOMAIN r : place[i] = place[j] => i = j
    BY <1>3 DEF PartOf
  <2>2. OncePerKind(r) BY <1>0, <2>1 DEF OncePerKind
  <2> QED BY <1>1, <2>2 DEF BansOK, r, same
<1>4. CASE (\A n \in DOMAIN bans : bans[n] \notin same) /\ r = Append(bans, entry)
  <2>1. DOMAIN r = 1 .. Len(bans) + 1 /\ Len(bans) \in Nat /\ DOMAIN bans = 1 .. Len(bans) BY <1>0, <1>4
  <2>2. \A i \in 1 .. Len(bans) + 1 : r[i] = IF i <= Len(bans) THEN bans[i] ELSE entry BY <1>0, <1>4, <2>1
  <2>3. \A i \in 1 .. Len(bans) : ~(r[i].guildcard = entry.guildcard /\ r[i].type = entry.type)
    BY <1>2, <1>4, <2>1, <2>2
  <2>4. OncePerKind(r)
    <3>1. SUFFICES ASSUME NEW n \in DOMAIN r, NEW k \in DOMAIN r, n # k
                   PROVE  r[n].guildcard # r[k].guildcard \/ r[n].type # r[k].type
      BY DEF OncePerKind
    <3>2. CASE n \in 1 .. Len(bans) /\ k \in 1 .. Len(bans)
      <4>1. r[n] = bans[n] /\ r[k] = bans[k] BY <2>1, <2>2, <3>2
      <4> QED BY <1>0, <2>1, <3>1, <3>2, <4>1 DEF OncePerKind
    <3>3. CASE n = Len(bans) + 1
      <4>1. r[n] = entry /\ k \in 1 .. Len(bans) BY <2>1, <2>2, <3>1, <3>3
      <4> QED BY <2>3, <4>1
    <3>4. CASE k = Len(bans) + 1
      <4>1. r[k] = entry /\ n \in 1 .. Len(bans) BY <2>1, <2>2, <3>1, <3>4
      <4> QED BY <2>3, <4>1
    <3> QED BY <2>1, <3>1, <3>2, <3>3, <3>4
  <2> QED BY <1>1, <2>4 DEF BansOK, r, same
<1>5. CASE r = bans BY <1>0, <1>1, <1>5 DEF BansOK, r, same
<1> QED BY <1>1, <1>3, <1>4, <1>5

\* One connection changes.
LEMMA SetConn ==
  ASSUME NEW q \in Seq(ConnOK), NEW c \in DOMAIN q, NEW r \in ConnOK
  PROVE  [q EXCEPT ![c] = r] \in Seq(ConnOK) /\ Len([q EXCEPT ![c] = r]) = Len(q)
<1> DEFINE x == [q EXCEPT ![c] = r]
<1>1. DOMAIN q = 1 .. Len(q) /\ Len(q) \in Nat OBVIOUS
<1>2. x \in [1 .. Len(q) -> ConnOK] BY <1>1
<1> QED BY <1>1, <1>2, IsASeq, LenProperties

LEMMA ModerationInvNext == ModerationInv /\ [ModerationNext]_moderationVars => ModerationInv'
<1> SUFFICES ASSUME ModerationInv, [ModerationNext]_moderationVars PROVE ModerationInv' OBVIOUS
<1> USE ModerationAssumption
<1>0. /\ crowd \in Seq(ConnOK) /\ Len(crowd) <= MaxCrowd /\ Len(crowd) \in Nat
      /\ DOMAIN crowd = 1 .. Len(crowd) /\ \A c \in DOMAIN crowd : crowd[c] \in ConnOK
      /\ BansOK(bans) /\ BansOK(bandata)
      /\ silenced \in Seq(NumOrNo) /\ Len(silenced) <= MaxSilenced /\ IsInjective(silenced)
      /\ masks \subseteq IPs /\ steps \in 0 .. MaxSteps
  BY DEF ModerationInv
<1>1. CASE UNCHANGED moderationVars BY <1>0, <1>1 DEF ModerationInv, moderationVars
<1>2. CASE UNCHANGED steps /\ Accept
  <2>1. PICK address \in IPs : crowd' = Append(crowd, Connection(address)) BY <1>2 DEF Accept
  <2>2. Connection(address) \in ConnOK
    <3>1. <<>> \in Seq(Guilds) /\ Len(<<>>) = 0 /\ DOMAIN <<>> = {} OBVIOUS
    <3>2. IsInjective(<<>>) BY <3>1 DEF IsInjective
    <3> QED BY <3>1, <3>2 DEF ConnOK, Connection, NumOrNo
  <2>3. crowd' \in Seq(ConnOK) /\ Len(crowd') = Len(crowd) + 1 BY <1>0, <2>1, <2>2
  <2> QED BY <1>0, <1>2, <2>3 DEF Accept, ModerationInv
<1>3. ASSUME NEW c \in DOMAIN crowd, UNCHANGED steps, LogIn(c) PROVE ModerationInv'
  <2>1. PICK guild \in Guilds, hardware \in Hardware :
          crowd' = [crowd EXCEPT
            ![c].temp = guild,
            ![c].hw = hardware,
            ![c].todc = @ \/ Banned(guild, crowd[c].ip, hardware),
            ![c].sendCheck = @ \/ ~Banned(guild, crowd[c].ip, hardware),
            ![c].asks = IF crowd[c].sendCheck \/ Banned(guild, crowd[c].ip, hardware) THEN @ ELSE guild]
    BY <1>3 DEF LogIn
  <2> DEFINE b == Banned(guild, crowd[c].ip, hardware)
             r == [crowd[c] EXCEPT !.temp = guild, !.hw = hardware, !.todc = @ \/ b, !.sendCheck = @ \/ ~b,
                     !.asks = IF crowd[c].sendCheck \/ b THEN @ ELSE guild]
  <2> HIDE DEF b
  <2>2. crowd' = [crowd EXCEPT ![c] = r] BY <1>0, <2>1 DEF b
  <2>3. r \in ConnOK
    <3> DEFINE k == crowd[c]
    <3>1. k \in ConnOK BY <1>0
    <3>2. b \in BOOLEAN BY DEF b, Banned
    <3>3. r = [k EXCEPT !.temp = guild, !.hw = hardware, !.todc = @ \/ b, !.sendCheck = @ \/ ~b,
                 !.asks = IF k.sendCheck \/ b THEN @ ELSE guild]
      OBVIOUS
    <3> HIDE DEF k, r
    <3>4. /\ r.ip = k.ip /\ r.guild = k.guild /\ r.ignoring = k.ignoring
          /\ r \in [ip : IPs, hw : Hardware \cup {NoGuild}, temp : NumOrNo, guild : NumOrNo,
                     sendCheck : BOOLEAN, asks : NumOrNo, todc : BOOLEAN, ignoring : Seq(Guilds)]
      BY <3>1, <3>3 DEF ConnOK, NumOrNo
    <3> QED BY <3>1, <3>4 DEF ConnOK
  <2> HIDE DEF r
  <2>4. crowd' \in Seq(ConnOK) /\ Len(crowd') = Len(crowd) BY <1>0, <2>2, <2>3, SetConn
  <2> QED BY <1>0, <1>3, <2>4 DEF LogIn, ModerationInv
<1>4. ASSUME NEW c \in DOMAIN crowd, UNCHANGED steps, AccountAnswer(c) PROVE ModerationInv'
  <2> DEFINE guild == crowd[c].asks
             answered == [crowd EXCEPT ![c].asks = NoGuild]
             takers == {k \in DOMAIN crowd : crowd[k].temp = guild}
             t == Min(takers)
  <2>1. answered \in Seq(ConnOK) /\ Len(answered) = Len(crowd)
    <3>1. [crowd[c] EXCEPT !.asks = NoGuild] \in ConnOK BY <1>0 DEF ConnOK, NumOrNo
    <3> QED BY <1>0, <3>1, SetConn
  <2>2. takers # {} => t \in DOMAIN answered
    <3>1. takers \in SUBSET Nat /\ takers \subseteq DOMAIN crowd BY <1>0
    <3>2. DOMAIN answered = DOMAIN crowd BY <1>0
    <3> QED BY <3>1, <3>2, MinIs
  <2>3. guild \in NumOrNo BY <1>0 DEF ConnOK
  <2>4. \/ crowd' = answered
        \/ takers # {} /\ crowd' = [answered EXCEPT ![t].guild = guild]
        \/ takers # {} /\ crowd' = [answered EXCEPT ![t].todc = TRUE]
    BY <1>4 DEF AccountAnswer
  <2>5. bans' = bans /\ bandata' = bandata /\ masks' = masks /\ silenced' = silenced BY <1>4 DEF AccountAnswer
  <2> HIDE DEF guild, answered, t, takers
  <2>6. crowd' \in Seq(ConnOK) /\ Len(crowd') = Len(crowd)
    <3>1. CASE takers # {} /\ crowd' = [answered EXCEPT ![t].guild = guild]
      <4>1. answered[t] \in ConnOK BY <2>1, <2>2, <3>1
      <4>2. [answered[t] EXCEPT !.guild = guild] \in ConnOK BY <2>3, <4>1 DEF ConnOK
      <4> QED BY <2>1, <2>2, <3>1, <4>2, SetConn
    <3>2. CASE takers # {} /\ crowd' = [answered EXCEPT ![t].todc = TRUE]
      <4>1. answered[t] \in ConnOK BY <2>1, <2>2, <3>2
      <4>2. [answered[t] EXCEPT !.todc = TRUE] \in ConnOK BY <4>1 DEF ConnOK
      <4> QED BY <2>1, <2>2, <3>2, <4>2, SetConn
    <3> QED BY <2>1, <2>4, <3>1, <3>2
  <2> QED BY <1>0, <1>4, <2>5, <2>6 DEF ModerationInv
<1>5. ASSUME NEW c \in DOMAIN crowd, UNCHANGED steps, HangUp(c) PROVE ModerationInv'
  <2>1. RemoveAt(crowd, c) \in Seq(ConnOK) /\ Len(RemoveAt(crowd, c)) = Len(crowd) - 1 BY <1>0, RemoveAtIs
  <2>2. crowd' = RemoveAt(crowd, c) BY <1>5 DEF HangUp
  <2> QED BY <1>0, <1>5, <2>1, <2>2 DEF HangUp, ModerationInv
<1>6. ASSUME steps < MaxSteps, steps' = steps + 1, Restart PROVE ModerationInv'
  <2> DEFINE k == IF Len(bandata) > MaxBans THEN MaxBans ELSE Len(bandata)
  <2>1. bandata \in Seq(BanType) /\ Len(bandata) <= MaxBans /\ OncePerKind(bandata) /\ Len(bandata) \in Nat
    BY <1>0 DEF BansOK
  <2>2. k = Len(bandata) BY <2>1
  <2>3. SubSeq(bandata, 1, Len(bandata)) = bandata BY <2>1, SubSeqFull
  <2>4. bans' = bandata BY <1>6, <2>2, <2>3 DEF Restart
  <2>5. <<>> \in Seq(ConnOK) /\ <<>> \in Seq(NumOrNo) /\ Len(<<>>) = 0 /\ DOMAIN <<>> = {} OBVIOUS
  <2>6. IsInjective(<<>>) BY <2>5 DEF IsInjective
  <2>7. crowd' = <<>> /\ silenced' = <<>> /\ masks' \in SUBSET IPs /\ bandata' = bandata BY <1>6 DEF Restart
  <2>8. steps' \in 0 .. MaxSteps BY <1>0, <1>6
  <2>9. BansOK(bans') /\ BansOK(bandata') BY <1>0, <2>4, <2>7
  <2>10. crowd' \in Seq(ConnOK) /\ Len(crowd') <= MaxCrowd BY <2>5, <2>7
  <2>11. silenced' \in Seq(NumOrNo) /\ Len(silenced') <= MaxSilenced /\ IsInjective(silenced') BY <2>5, <2>6, <2>7
  <2> QED BY <2>7, <2>8, <2>9, <2>10, <2>11 DEF ModerationInv
<1>7. ASSUME steps < MaxSteps, steps' = steps + 1, NEW c \in DOMAIN crowd, UpdateMasks(c) PROVE ModerationInv'
  BY <1>0, <1>7 DEF UpdateMasks, ModerationInv
<1>8. ASSUME steps < MaxSteps, steps' = steps + 1, NEW c \in DOMAIN crowd,
             NEW guild \in NumOrNo, NEW type \in 1 .. 3, OrderBan(c, guild, type)
      PROVE  ModerationInv'
  <2> DEFINE same == {b \in ToSet(bans) : b.guildcard = guild /\ b.type = type}
             target == Min(Online(guild))
  <2>1. ASSUME NEW k \in DOMAIN crowd
        PROVE  BansOK(Toggled(bans, BanEntry(guild, type, k), same, MaxBans))
    <3>1. BanEntry(guild, type, k) \in BanType BY <1>0, <1>8 DEF BanEntry, BanType, ConnOK
    <3>2. BanEntry(guild, type, k).guildcard = guild /\ BanEntry(guild, type, k).type = type BY DEF BanEntry
    <3> HIDE DEF same
    <3>3. BansOK(Toggled(bans, BanEntry(guild, type, k), 
                   {b \in ToSet(bans) : b.guildcard = BanEntry(guild, type, k).guildcard /\ b.type = BanEntry(guild, type, k).type}, MaxBans))
      BY <1>0, <3>1, ToggledBans
    <3> QED BY <3>2, <3>3 DEF same
  <2>2. Online(guild) # {} => target \in DOMAIN crowd
    <3>1. Online(guild) \in SUBSET Nat /\ Online(guild) \subseteq DOMAIN crowd BY <1>0 DEF Online
    <3> QED BY <3>1, MinIs
  <2>3. ASSUME BansOK(bans'), Filed(bans') PROVE BansOK(bandata') BY <1>0, <2>3 DEF Filed
  <2>4. masks' = masks /\ silenced' = silenced BY <1>8 DEF OrderBan
  <2>5. \/ /\ bans' = Toggled(bans, BanEntry(guild, type, c), same, MaxBans)
           /\ Filed(bans') /\ crowd' = crowd
        \/ /\ Online(guild) # {}
           /\ bans' = Toggled(bans, BanEntry(guild, type, target), same, MaxBans)
           /\ \/ bandata' = bandata /\ crowd' = crowd
              \/ Filed(bans') /\ crowd' = [crowd EXCEPT ![target].todc = TRUE]
    BY <1>8 DEF OrderBan
  <2> HIDE DEF same, target
  <2>6. BansOK(bans') BY <1>8, <2>1, <2>2, <2>5
  <2>7. BansOK(bandata') BY <1>0, <2>3, <2>5, <2>6
  <2>8. crowd' \in Seq(ConnOK) /\ Len(crowd') = Len(crowd)
    <3>1. CASE Online(guild) # {} /\ crowd' = [crowd EXCEPT ![target].todc = TRUE]
      <4>1. [crowd[target] EXCEPT !.todc = TRUE] \in ConnOK BY <1>0, <2>2, <3>1 DEF ConnOK
      <4> QED BY <1>0, <2>2, <3>1, <4>1, SetConn
    <3> QED BY <1>0, <2>5, <3>1
  <2> QED BY <1>0, <1>8, <2>4, <2>6, <2>7, <2>8 DEF ModerationInv, BansOK
<1>9. ASSUME steps < MaxSteps, steps' = steps + 1, NEW c \in DOMAIN crowd,
             NEW guild \in NumOrNo, OrderSilence(c, guild)
      PROVE  ModerationInv'
  <2>1. /\ Toggled(silenced, guild, {guild}, MaxSilenced) \in Seq(NumOrNo)
        /\ Len(Toggled(silenced, guild, {guild}, MaxSilenced)) <= MaxSilenced
        /\ IsInjective(Toggled(silenced, guild, {guild}, MaxSilenced))
    BY <1>0, <1>9, ToggledInjective
  <2> QED BY <1>0, <1>9, <2>1 DEF OrderSilence, ModerationInv
<1>10. ASSUME steps < MaxSteps, steps' = steps + 1, NEW c \in DOMAIN crowd,
              NEW guild \in NumOrNo, OrderOut(c, guild)
       PROVE  ModerationInv'
  <2> DEFINE target == Min(Online(guild))
  <2>1. Online(guild) # {} /\ crowd' = [crowd EXCEPT ![target].todc = TRUE] BY <1>10 DEF OrderOut
  <2>2. target \in DOMAIN crowd
    <3>1. Online(guild) \in SUBSET Nat /\ Online(guild) \subseteq DOMAIN crowd BY <1>0 DEF Online
    <3> QED BY <2>1, <3>1, MinIs
  <2> HIDE DEF target
  <2>3. [crowd[target] EXCEPT !.todc = TRUE] \in ConnOK BY <1>0, <2>2 DEF ConnOK
  <2>4. crowd' \in Seq(ConnOK) /\ Len(crowd') = Len(crowd) BY <1>0, <2>1, <2>2, <2>3, SetConn
  <2> QED BY <1>0, <1>10, <2>4 DEF OrderOut, ModerationInv
<1>11. ASSUME steps < MaxSteps, steps' = steps + 1, NEW c \in DOMAIN crowd, NEW guild \in Guilds, Ignore(c, guild)
       PROVE  ModerationInv'
  <2> DEFINE list == Toggled(crowd[c].ignoring, guild, {guild}, MaxIgnored)
  <2>1. crowd[c] \in ConnOK BY <1>0
  <2>2. list \in Seq(Guilds) /\ Len(list) <= MaxIgnored /\ IsInjective(list)
    <3>1. crowd[c].ignoring \in Seq(Guilds) /\ Len(crowd[c].ignoring) <= MaxIgnored /\ IsInjective(crowd[c].ignoring)
      BY <2>1 DEF ConnOK
    <3> QED BY <1>11, <3>1, ToggledInjective
  <2>3. crowd' = [crowd EXCEPT ![c].ignoring = list] BY <1>11 DEF Ignore
  <2> HIDE DEF list
  <2>4. [crowd[c] EXCEPT !.ignoring = list] \in ConnOK BY <2>1, <2>2 DEF ConnOK
  <2>5. crowd' \in Seq(ConnOK) /\ Len(crowd') = Len(crowd) BY <1>0, <1>11, <2>3, <2>4, SetConn
  <2> QED BY <1>0, <1>11, <2>5 DEF Ignore, ModerationInv
<1> QED BY <1>1, <1>2, <1>3, <1>4, <1>5, <1>6, <1>7, <1>8, <1>9, <1>10, <1>11 DEF ModerationNext, NumOrNo

LEMMA ModerationInvGives == ModerationInv => OneOrderLifts
<1> SUFFICES ASSUME ModerationInv PROVE OneOrderLifts OBVIOUS
<1>1. OncePerKind(bans) /\ OncePerKind(bandata) /\ IsInjective(silenced) BY DEF ModerationInv, BansOK
<1>2. \A c \in DOMAIN crowd : IsInjective(crowd[c].ignoring) BY DEF ModerationInv, ConnOK
<1> QED BY <1>1, <1>2 DEF OneOrderLifts, OncePerKind

\* One order lifts a ban, a silence or a neglect, for any number of players,
\* orders and restarts and any size of the lists.
THEOREM OneOrderAlwaysLifts == ModerationSpec => []OneOrderLifts
BY ModerationInvInit, ModerationInvNext, ModerationInvGives, PTL DEF ModerationSpec

----------------------------------------------------------------------------
(* Teams: types, and the ids of teams                                      *)

TeamIds == Nat \ {NoTeam}

UpMsg ==
  [kind : {"create"}, by : Accounts, name : Names]
    \cup [kind : {"dissolve"}, by : Accounts, team : TeamIds]
    \cup [kind : {"remove"}, team : TeamIds, who : Accounts]
    \cup [kind : {"promote"}, team : TeamIds, who : Accounts, priv : Privileges]
    \cup [kind : {"add"}, team : TeamIds, who : Accounts]
    \cup [kind : {"load"}, by : Accounts]

DownMsg ==
  [kind : {"created"}, who : Accounts, team : TeamIds]
    \cup [kind : {"dissolved"}, team : TeamIds]
    \cup [kind : {"loaded"}, who : Accounts, team : Nat, priv : Privileges]

Copy ==
  {c \in [ship : TeamShips \cup {NoOne}, loaded : BOOLEAN, team : Nat, priv : Privileges, accept : BOOLEAN] :
     c.loaded => c.ship # NoOne}

Distinctly(data) ==
  \A i, j \in DOMAIN data : data[i].id # NoTeam /\ data[i].id = data[j].id => i = j

TeamsTyped ==
  /\ team_data \in Seq(TeamRecord) /\ Distinctly(team_data)
  /\ account \in [Accounts -> [team : Nat, priv : Privileges]]
  /\ char \in [Accounts -> Copy]
  /\ up \in [TeamShips -> Seq(UpMsg)] /\ down \in [TeamShips -> Seq(DownMsg)]
  /\ joined \in SUBSET TeamShips
  /\ orders \in Nat /\ lost \in Nat /\ strayed \in BOOLEAN /\ torn \in BOOLEAN

LEMMA UpMsgFacts ==
  ASSUME NEW m \in UpMsg
  PROVE  /\ m.kind \in {"create", "dissolve", "remove", "promote", "add", "load"}
         /\ m.kind \in {"create", "dissolve", "load"} => m.by \in Accounts
         /\ m.kind \in {"dissolve", "remove", "promote", "add"} => m.team \in TeamIds
         /\ m.kind \in {"remove", "promote", "add"} => m.who \in Accounts
         /\ m.kind = "create" => m.name \in Names
         /\ m.kind = "promote" => m.priv \in Privileges
BY DEF UpMsg

LEMMA DownMsgFacts ==
  ASSUME NEW m \in DownMsg
  PROVE  /\ m.kind \in {"created", "dissolved", "loaded"}
         /\ m.kind \in {"created", "loaded"} => m.who \in Accounts
         /\ m.kind \in {"created", "dissolved"} => m.team \in TeamIds
         /\ m.kind = "loaded" => m.team \in Nat /\ m.priv \in Privileges
BY DEF DownMsg, TeamIds

\* What is left of a queue without its first element.
LEMMA TailIs ==
  ASSUME NEW S, NEW q \in Seq(S), q # <<>>
  PROVE  /\ Tail(q) \in Seq(S) /\ Len(q) \in Nat \ {0} /\ Len(Tail(q)) = Len(q) - 1
         /\ Head(q) = q[1] /\ Head(q) \in S
         /\ DOMAIN q = 1 .. Len(q) /\ DOMAIN Tail(q) = 1 .. Len(q) - 1
         /\ \A k \in 1 .. Len(q) - 1 : Tail(q)[k] = q[k + 1] /\ k + 1 \in 1 .. Len(q)
OBVIOUS

\* What comes after a queue.
LEMMA AppendIs ==
  ASSUME NEW S, NEW q \in Seq(S), NEW m \in S
  PROVE  /\ Append(q, m) \in Seq(S) /\ Len(q) \in Nat /\ Len(Append(q, m)) = Len(q) + 1
         /\ DOMAIN q = 1 .. Len(q) /\ DOMAIN Append(q, m) = 1 .. Len(q) + 1
         /\ \A k \in 1 .. Len(q) : Append(q, m)[k] = q[k]
         /\ Append(q, m)[Len(q) + 1] = m
OBVIOUS

\* A bounded set of numbers that has an element has a greatest one.
LEMMA MaxIs ==
  ASSUME NEW S \in SUBSET Nat, S # {}, NEW b \in Nat, \A n \in S : n <= b
  PROVE  Max(S) \in S /\ \A n \in S : n <= Max(S)
<1> DEFINE U == {c \in Nat : \A n \in S : n <= c}
<1>1. U \in SUBSET Nat /\ U # {} OBVIOUS
<1>2. Min(U) \in U /\ \A n \in U : Min(U) <= n BY <1>1, MinIs
<1>3. Min(U) \in S
  <2>1. SUFFICES ASSUME Min(U) \notin S PROVE FALSE OBVIOUS
  <2>2. PICK n \in S : TRUE OBVIOUS
  <2>3. \A k \in S : k < Min(U) BY <1>2, <2>1
  <2>4. Min(U) - 1 \in Nat /\ \A k \in S : k <= Min(U) - 1 BY <1>2, <2>2, <2>3
  <2>5. Min(U) - 1 \in U /\ Min(U) \in Nat BY <1>2, <2>4
  <2>6. Min(U) <= Min(U) - 1 BY <1>2, <2>5
  <2> QED BY <2>5, <2>6
<1>4. \E m \in S : \A n \in S : m >= n BY <1>2, <1>3
<1> QED BY <1>4 DEF Max

\* The numbers that a sequence holds are bounded.
LEMMA SeqBounded ==
  ASSUME NEW L \in Nat, NEW f, \A k \in 1 .. L : f[k] \in Nat
  PROVE  \E b \in Nat : \A k \in 1 .. L : f[k] <= b
<1> DEFINE bad == {i \in 0 .. L : ~\E b \in Nat : \A k \in 1 .. i : f[k] <= b}
           i == Min(bad)
<1>1. SUFFICES ASSUME bad # {} PROVE FALSE
  <2>1. L \in 0 .. L OBVIOUS
  <2>2. bad = {} => \E b \in Nat : \A k \in 1 .. L : f[k] <= b BY <2>1
  <2> HIDE DEF bad
  <2> QED BY <2>2
<1>2. i \in bad /\ \A j \in bad : i <= j
  <2>1. bad \in SUBSET Nat OBVIOUS
  <2> HIDE DEF bad
  <2> QED BY <1>1, <2>1, MinIs
<1> HIDE DEF i
<1>3. i \in 0 .. L /\ ~\E b \in Nat : \A k \in 1 .. i : f[k] <= b BY <1>2
<1>4. i # 0
  <2>1. 0 \in Nat /\ \A k \in 1 .. 0 : f[k] <= 0 OBVIOUS
  <2> QED BY <1>3, <2>1
<1>5. i - 1 \in 0 .. L /\ i - 1 \notin bad
  <2>1. i - 1 \in 0 .. L /\ ~(i <= i - 1) BY <1>3, <1>4
  <2> HIDE DEF bad
  <2> QED BY <1>2, <2>1
<1>6. PICK b \in Nat : \A k \in 1 .. i - 1 : f[k] <= b BY <1>5
<1>7. f[i] \in Nat BY <1>3, <1>4
<1>8. \A k \in 1 .. i : k \in 1 .. i - 1 \/ k = i BY <1>3
<1>9. PICK c \in Nat : b <= c /\ f[i] <= c BY <1>7
<1>10. \A k \in 1 .. i : f[k] \in Nat BY <1>3
<1>11. \A k \in 1 .. i : f[k] <= c BY <1>6, <1>8, <1>9, <1>10
<1> QED BY <1>3, <1>11

\* The id of a new team is no team's, and its record is nobody's.
LEMMA NewTeamIs ==
  ASSUME TeamsTyped
  PROVE  /\ NewId \in TeamIds /\ \A i \in DOMAIN team_data : team_data[i].id # NewId
         /\ NewRecord \in 1 .. Len(team_data) + 1
         /\ NewRecord \in DOMAIN team_data => team_data[NewRecord].id = NoTeam
<1>0. /\ team_data \in Seq(TeamRecord) /\ Len(team_data) \in Nat /\ DOMAIN team_data = 1 .. Len(team_data)
      /\ \A i \in DOMAIN team_data : team_data[i] \in TeamRecord
  BY DEF TeamsTyped
<1> DEFINE ids == {team_data[i].id : i \in DOMAIN team_data} \cup {0}
           free == {i \in DOMAIN team_data : team_data[i].owner = NoOne}
<1>1. Max(ids) \in ids /\ ids \in SUBSET Nat /\ \A n \in ids : n <= Max(ids)
  <2>1. \A i \in 1 .. Len(team_data) : [k \in 1 .. Len(team_data) |-> team_data[k].id][i] \in Nat
    BY <1>0 DEF TeamRecord
  <2>2. PICK b \in Nat : \A i \in 1 .. Len(team_data) : [k \in 1 .. Len(team_data) |-> team_data[k].id][i] <= b
    BY <1>0, <2>1, SeqBounded
  <2>3. \A n \in ids : n <= b BY <1>0, <2>2
  <2>4. ids \in SUBSET Nat /\ ids # {} BY <1>0 DEF TeamRecord
  <2> HIDE DEF ids
  <2> QED BY <2>3, <2>4, MaxIs
<1>2. NewId = Max(ids) + 1 BY DEF NewId
<1>3. \A i \in DOMAIN team_data : team_data[i].id \in ids OBVIOUS
<1>4. free # {} => Max(free) \in free
  <2>1. free \in SUBSET Nat /\ \A n \in free : n <= Len(team_data) BY <1>0
  <2> HIDE DEF free
  <2> QED BY <1>0, <2>1, MaxIs
<1>5. NewRecord = IF free = {} THEN Len(team_data) + 1 ELSE Max(free) BY DEF NewRecord
<1> HIDE DEF ids
<1>6. NewId \in TeamIds /\ \A i \in DOMAIN team_data : team_data[i].id # NewId
  <2>1. NewId \in Nat \ {0}
    <3>1. Max(ids) \in Nat BY <1>1
    <3> QED BY <1>2, <3>1
  <2>2. ASSUME NEW i \in DOMAIN team_data, team_data[i].id = NewId PROVE FALSE
    <3>1. NewId <= Max(ids) /\ Max(ids) \in Nat BY <1>1, <1>3, <2>2
    <3> QED BY <1>2, <3>1
  <2> QED BY <2>1, <2>2 DEF TeamIds, NoTeam
<1>7. CASE free = {} BY <1>0, <1>5, <1>6, <1>7
<1>8. CASE free # {}
  <2>1. NewRecord \in DOMAIN team_data /\ team_data[NewRecord].owner = NoOne BY <1>4, <1>5, <1>8
  <2> QED BY <1>0, <1>6, <2>1 DEF TeamRecord
<1> QED BY <1>7, <1>8

\* The records once the new team is written to its own.
LEMMA WrittenIs ==
  ASSUME TeamsTyped, NEW r \in TeamRecord, r.id = NewId
  PROVE  LET data == Written(NewRecord, r) IN
         /\ data \in Seq(TeamRecord) /\ Distinctly(data)
         /\ NewRecord \in DOMAIN data /\ data[NewRecord] = r
         /\ \A j \in DOMAIN data : j # NewRecord => j \in DOMAIN team_data /\ data[j] = team_data[j]
         /\ \A j \in DOMAIN team_data : j \in DOMAIN data /\ (j # NewRecord => data[j] = team_data[j])
<1> DEFINE i == NewRecord
           data == Written(NewRecord, r)
<1>0. /\ team_data \in Seq(TeamRecord) /\ Len(team_data) \in Nat /\ DOMAIN team_data = 1 .. Len(team_data)
      /\ Distinctly(team_data) /\ \A j \in DOMAIN team_data : team_data[j] \in TeamRecord
  BY DEF TeamsTyped
<1>1. /\ i \in 1 .. Len(team_data) + 1 /\ (i \in DOMAIN team_data => team_data[i].id = NoTeam)
      /\ \A j \in DOMAIN team_data : team_data[j].id # NewId
  BY NewTeamIs
<1>2. data = IF i > Len(team_data) THEN Append(team_data, r) ELSE [team_data EXCEPT ![i] = r] BY DEF Written
<1> HIDE DEF i, data
<1>3. /\ data \in Seq(TeamRecord) /\ i \in DOMAIN data /\ data[i] = r
      /\ \A j \in DOMAIN data : j # i => j \in DOMAIN team_data /\ data[j] = team_data[j]
      /\ \A j \in DOMAIN team_data : j \in DOMAIN data /\ (j # i => data[j] = team_data[j])
  <2>1. CASE i > Len(team_data)
    <3>1. i = Len(team_data) + 1 /\ data = Append(team_data, r) BY <1>0, <1>1, <1>2, <2>1
    <3>2. /\ Append(team_data, r) \in Seq(TeamRecord)
          /\ DOMAIN Append(team_data, r) = 1 .. Len(team_data) + 1
          /\ \A k \in 1 .. Len(team_data) : Append(team_data, r)[k] = team_data[k]
          /\ Append(team_data, r)[Len(team_data) + 1] = r
      BY <1>0, AppendIs
    <3> QED BY <1>0, <3>1, <3>2
  <2>2. CASE ~(i > Len(team_data))
    <3>1. i \in DOMAIN team_data /\ data = [team_data EXCEPT ![i] = r] BY <1>0, <1>1, <1>2, <2>2
    <3>2. data \in [1 .. Len(team_data) -> TeamRecord] BY <1>0, <3>1
    <3>3. data \in Seq(TeamRecord) BY <1>0, <3>2, IsASeq
    <3> QED BY <1>0, <3>1, <3>3
  <2> QED BY <2>1, <2>2
<1>4. Distinctly(data)
  <2>1. SUFFICES ASSUME NEW j \in DOMAIN data, NEW k \in DOMAIN data, data[j].id # NoTeam, data[j].id = data[k].id
                 PROVE  j = k
    BY DEF Distinctly
  <2>2. CASE j # i /\ k # i BY <1>0, <1>3, <2>1, <2>2 DEF Distinctly
  <2>3. CASE j = i /\ k # i BY <1>1, <1>3, <2>1, <2>3
  <2>4. CASE j # i /\ k = i BY <1>1, <1>3, <2>1, <2>4
  <2> QED BY <2>2, <2>3, <2>4
<1> QED BY <1>3, <1>4 DEF i, data

LEMMA TeamsTypedInit == TeamsInit => TeamsTyped
<1> SUFFICES ASSUME TeamsInit PROVE TeamsTyped OBVIOUS
<1>1. Away \in Copy BY DEF Away, Copy, Privileges, NoTeam, Member
<1>2. \A S : <<>> \in Seq(S) OBVIOUS
<1>3. PICK f \in TeamFiles : team_data = f.teams /\ account = f.members BY DEF TeamsInit
<1>4. LeftBehind(f) BY TeamsAssumption
<1>5. /\ team_data \in Seq(TeamRecord) /\ Distinctly(team_data)
      /\ account \in [Accounts -> [team : Nat, priv : Privileges]]
  BY <1>3, <1>4 DEF LeftBehind, Distinctly
<1>6. /\ char = [g \in Accounts |-> Away]
      /\ up = [h \in TeamShips |-> <<>>] /\ down = [h \in TeamShips |-> <<>>]
      /\ joined = TeamShips /\ orders = 0 /\ lost = 0 /\ strayed = FALSE /\ torn = FALSE
  BY DEF TeamsInit
<1> QED BY <1>1, <1>2, <1>5, <1>6 DEF TeamsTyped

\* The record of a team that is handed over.
LEMMA HandedToIs ==
  ASSUME TeamsTyped, NEW i \in DOMAIN team_data, team_data[i].id # NoTeam, NEW who \in Accounts
  PROVE  /\ HandedTo(i, who) \in TeamRecord /\ HandedTo(i, who).id = team_data[i].id
         /\ HandedTo(i, who).head = who
<1>1. team_data[i] \in TeamRecord /\ NoOne \notin Accounts BY TeamsAssumption DEF TeamsTyped
<1> DEFINE o == IF i <= num_accounts THEN who ELSE team_data[i].owner
<1>2. HandedTo(i, who) = [team_data[i] EXCEPT !.head = who, !.owner = o] BY DEF HandedTo
<1>3. o \in Accounts BY <1>1 DEF TeamRecord
<1> HIDE DEF o
<1> QED BY <1>1, <1>2, <1>3 DEF TeamRecord

\* An order that is carried out.
LEMMA TypedTeamOrder ==
  ASSUME TeamsTyped, NEW h \in TeamShips, TeamOrder(h)
  PROVE  TeamsTyped'
<1> DEFINE m == Head(up[h])
<1>0. /\ team_data \in Seq(TeamRecord) /\ Distinctly(team_data)
      /\ account \in [Accounts -> [team : Nat, priv : Privileges]]
      /\ char \in [Accounts -> Copy]
      /\ up \in [TeamShips -> Seq(UpMsg)] /\ down \in [TeamShips -> Seq(DownMsg)]
      /\ joined \in SUBSET TeamShips
      /\ orders \in Nat /\ lost \in Nat /\ strayed \in BOOLEAN /\ torn \in BOOLEAN
  BY DEF TeamsTyped
<1>1. /\ up[h] # <<>> /\ up' = [up EXCEPT ![h] = Tail(@)]
      /\ UNCHANGED <<char, joined, orders, lost, strayed, torn>>
  BY DEF TeamOrder
<1>2. m \in UpMsg /\ Tail(up[h]) \in Seq(UpMsg) BY <1>0, <1>1, TailIs
<1>3. up' \in [TeamShips -> Seq(UpMsg)] BY <1>0, <1>1, <1>2
<1>4. ASSUME NEW a \in DownMsg PROVE [down EXCEPT ![h] = Append(@, a)] \in [TeamShips -> Seq(DownMsg)]
  <2>1. down[h] \in Seq(DownMsg) BY <1>0
  <2>2. Append(down[h], a) \in Seq(DownMsg) BY <2>1, AppendIs
  <2> QED BY <1>0, <2>2
<1> HIDE DEF m
<1>5. ASSUME /\ team_data' \in Seq(TeamRecord) /\ Distinctly(team_data')
             /\ account' \in [Accounts -> [team : Nat, priv : Privileges]]
             /\ down' \in [TeamShips -> Seq(DownMsg)]
      PROVE  TeamsTyped'
  BY <1>0, <1>1, <1>3, <1>5 DEF TeamsTyped
<1>6. CASE m.kind = "create" /\ CreateTeam(h, m)
  <2>1. m.by \in Accounts /\ m.name \in Names BY <1>2, <1>6, UpMsgFacts
  <2>2. NewId \in TeamIds BY NewTeamIs
  <2>3. CASE \E i \in DOMAIN team_data : team_data[i].name = m.name
    <3>1. team_data' = team_data /\ account' = account /\ down' = down BY <1>6, <2>3 DEF CreateTeam
    <3> QED BY <1>0, <1>5, <3>1
  <2>4. CASE ~\E i \in DOMAIN team_data : team_data[i].name = m.name
    <3> DEFINE r == [id |-> NewId, owner |-> m.by, head |-> m.by, name |-> m.name]
    <3>1. /\ team_data' = Written(NewRecord, r)
          /\ account' = [account EXCEPT ![m.by] = [team |-> NewId, priv |-> Master]]
          /\ down' = [down EXCEPT ![h] = Append(@, [kind |-> "created", who |-> m.by, team |-> NewId])]
      BY <1>6, <2>4 DEF CreateTeam, Answer
    <3>2. r \in TeamRecord /\ r.id = NewId
      BY <2>1, <2>2, TeamsAssumption DEF TeamRecord, TeamIds
    <3> HIDE DEF r
    <3>3. team_data' \in Seq(TeamRecord) /\ Distinctly(team_data') BY <3>1, <3>2, WrittenIs
    <3>4. account' \in [Accounts -> [team : Nat, priv : Privileges]]
      BY <1>0, <2>1, <2>2, <3>1 DEF TeamIds, Privileges
    <3>5. [kind |-> "created", who |-> m.by, team |-> NewId] \in DownMsg BY <2>1, <2>2 DEF DownMsg
    <3>6. down' \in [TeamShips -> Seq(DownMsg)] BY <1>4, <3>1, <3>5
    <3> QED BY <1>5, <3>3, <3>4, <3>6
  <2> QED BY <2>3, <2>4
<1>7. CASE m.kind = "dissolve" /\ DissolveTeam(h, m)
  <2>1. m.team \in TeamIds BY <1>2, <1>7, UpMsgFacts
  <2>2. /\ team_data' = [i \in DOMAIN team_data |->
             IF team_data[i].id = m.team
             THEN [id |-> NoTeam, owner |-> NoOne, head |-> NoOne, name |-> team_data[i].name] ELSE team_data[i]]
        /\ account' = [g \in Accounts |->
             IF account[g].team = m.team THEN [account[g] EXCEPT !.team = NoTeam] ELSE account[g]]
        /\ down' = [down EXCEPT ![h] = Append(@, [kind |-> "dissolved", team |-> m.team])]
    BY <1>7 DEF DissolveTeam, Answer
  <2>3. [kind |-> "dissolved", team |-> m.team] \in DownMsg BY <2>1 DEF DownMsg
  <2>4. down' \in [TeamShips -> Seq(DownMsg)] BY <1>4, <2>2, <2>3
  <2>5. account' \in [Accounts -> [team : Nat, priv : Privileges]] BY <1>0, <2>2 DEF NoTeam
  <2>6. team_data' \in Seq(TeamRecord) /\ Distinctly(team_data')
    <3>1. Len(team_data) \in Nat /\ DOMAIN team_data = 1 .. Len(team_data) /\ \A i \in DOMAIN team_data : team_data[i] \in TeamRecord
      BY <1>0
    <3>2. team_data' \in [1 .. Len(team_data) -> TeamRecord] BY <2>2, <3>1 DEF TeamRecord, NoTeam
    <3>3. team_data' \in Seq(TeamRecord) BY <3>1, <3>2, IsASeq
    <3>4. /\ DOMAIN team_data' = DOMAIN team_data
          /\ \A i \in DOMAIN team_data :
               team_data'[i].id = IF team_data[i].id = m.team THEN NoTeam ELSE team_data[i].id
      BY <2>2, <3>1 DEF TeamRecord
    <3>5. Distinctly(team_data') BY <1>0, <3>4 DEF Distinctly
    <3> QED BY <3>3, <3>5
  <2> QED BY <1>5, <2>4, <2>5, <2>6
<1>8. CASE m.kind = "remove" /\ RemoveTeamMember(m)
  <2>1. m.who \in Accounts BY <1>2, <1>8, UpMsgFacts
  <2>2. account' \in [Accounts -> [team : Nat, priv : Privileges]]
    BY <1>0, <1>8, <2>1 DEF RemoveTeamMember, NoTeam
  <2> QED BY <1>0, <1>5, <1>8, <2>2 DEF RemoveTeamMember
<1>9. CASE m.kind = "promote" /\ PromoteTeamMember(m)
  <2>1. m.who \in Accounts /\ m.team \in TeamIds /\ m.priv \in Privileges BY <1>2, <1>9, UpMsgFacts
  <2>2. account' \in [Accounts -> [team : Nat, priv : Privileges]]
    BY <1>0, <1>9, <2>1 DEF PromoteTeamMember, SetLevel
  <2>3. team_data' = [i \in DOMAIN team_data |->
          IF team_data[i].id = m.team /\ m.priv = Master THEN HandedTo(i, m.who) ELSE team_data[i]]
    BY <1>9 DEF PromoteTeamMember
  <2>4. team_data' \in Seq(TeamRecord) /\ Distinctly(team_data')
    <3>1. Len(team_data) \in Nat /\ DOMAIN team_data = 1 .. Len(team_data) /\ \A i \in DOMAIN team_data : team_data[i] \in TeamRecord
      BY <1>0
    <3>6. \A i \in DOMAIN team_data :
            team_data'[i] = IF team_data[i].id = m.team /\ m.priv = Master THEN HandedTo(i, m.who) ELSE team_data[i]
      BY <2>3
    <3>7. \A i \in DOMAIN team_data : team_data'[i] \in TeamRecord /\ team_data'[i].id = team_data[i].id
      <4>1. \A i \in DOMAIN team_data : team_data[i].id = m.team =>
              HandedTo(i, m.who) \in TeamRecord /\ HandedTo(i, m.who).id = m.team
        BY <2>1, HandedToIs DEF TeamIds
      <4> QED BY <3>1, <3>6, <4>1
    <3>8. DOMAIN team_data' = DOMAIN team_data /\ team_data' = [i \in DOMAIN team_data |-> team_data'[i]] BY <2>3
    <3>2. team_data' \in [1 .. Len(team_data) -> TeamRecord] BY <3>1, <3>7, <3>8
    <3>3. team_data' \in Seq(TeamRecord) BY <3>1, <3>2, IsASeq
    <3>4. DOMAIN team_data' = DOMAIN team_data /\ \A i \in DOMAIN team_data : team_data'[i].id = team_data[i].id
      BY <3>7, <3>8
    <3>5. Distinctly(team_data') BY <1>0, <3>4 DEF Distinctly
    <3> QED BY <3>3, <3>5
  <2> QED BY <1>0, <1>5, <1>9, <2>2, <2>4 DEF PromoteTeamMember
<1>10. CASE m.kind = "add" /\ AddTeamMember(m)
  <2>1. m.who \in Accounts /\ m.team \in TeamIds BY <1>2, <1>10, UpMsgFacts
  <2>2. account' \in [Accounts -> [team : Nat, priv : Privileges]]
    BY <1>0, <1>10, <2>1 DEF AddTeamMember, TeamIds, Privileges
  <2> QED BY <1>0, <1>5, <1>10, <2>2 DEF AddTeamMember
<1>11. CASE m.kind = "load" /\ LoadTeam(h, m)
  <2>1. m.by \in Accounts BY <1>2, <1>11, UpMsgFacts
  <2> DEFINE a == [kind |-> "loaded", who |-> m.by, team |-> account[m.by].team,
                   priv |-> IF account[m.by].team = NoTeam THEN Member ELSE account[m.by].priv]
  <2>2. a \in DownMsg BY <1>0, <2>1 DEF DownMsg, Privileges
  <2>3. down' = [down EXCEPT ![h] = Append(@, a)] BY <1>11 DEF LoadTeam, Answer
  <2> HIDE DEF a
  <2>4. down' \in [TeamShips -> Seq(DownMsg)] BY <1>4, <2>2, <2>3
  <2> QED BY <1>0, <1>5, <1>11, <2>4 DEF LoadTeam
<1> QED BY <1>6, <1>7, <1>8, <1>9, <1>10, <1>11 DEF TeamOrder, m

\* An answer that comes to a ship.
LEMMA TypedTeamAnswer ==
  ASSUME TeamsTyped, NEW h \in TeamShips, TeamAnswer(h)
  PROVE  TeamsTyped'
<1> DEFINE m == Head(down[h])
<1>0. /\ char \in [Accounts -> Copy] /\ down \in [TeamShips -> Seq(DownMsg)] BY DEF TeamsTyped
<1>1. /\ down[h] # <<>> /\ down' = [down EXCEPT ![h] = Tail(@)]
      /\ UNCHANGED <<team_data, account, up, joined, orders, lost, strayed, torn>>
  BY DEF TeamAnswer
<1>2. m \in DownMsg /\ Tail(down[h]) \in Seq(DownMsg) BY <1>0, <1>1, TailIs
<1>3. down' \in [TeamShips -> Seq(DownMsg)] BY <1>0, <1>1, <1>2
<1> HIDE DEF m
<1>4. char' \in [Accounts -> Copy]
  <2>1. CASE m.kind = "created" /\ Created(h, m)
    <3>1. m.who \in Accounts /\ m.team \in TeamIds BY <1>2, <2>1, DownMsgFacts
    <3> DEFINE c == char[m.who]
               mastered == [c EXCEPT !.team = m.team, !.priv = Master]
    <3>2. char' = char \/ char' = [char EXCEPT ![m.who].team = m.team, ![m.who].priv = Master] BY <2>1 DEF Created
    <3>3. c \in Copy BY <1>0, <3>1
    <3>4. mastered \in Copy
      <4> HIDE DEF c
      <4> QED BY <3>1, <3>3 DEF Copy, TeamIds, Privileges
    <3>5. char' = char \/ char' = [char EXCEPT ![m.who] = mastered] BY <1>0, <3>1, <3>2
    <3> HIDE DEF mastered
    <3> QED BY <1>0, <3>1, <3>4, <3>5
  <2>2. CASE m.kind = "dissolved" /\ Dissolved(h, m)
    BY <1>0, <2>2, ZenonT(60) DEF Dissolved, Copy, Cleared, NoTeam, Privileges
  <2>3. CASE m.kind = "loaded" /\ Loaded(h, m)
    <3>1. m.who \in Accounts /\ m.team \in Nat /\ m.priv \in Privileges BY <1>2, <2>3, DownMsgFacts
    <3> QED BY <1>0, <2>3, <3>1, TeamsAssumption, ZenonT(60) DEF Loaded, Copy
  <2> QED BY <2>1, <2>2, <2>3 DEF TeamAnswer, m
<1> QED BY <1>1, <1>3, <1>4 DEF TeamsTyped

LEMMA NoneSaid == <<>> \in Seq(UpMsg)
OBVIOUS

\* A ship sends on for a client what gets onto its link.
Says(g, r) ==
  /\ char[g].loaded
  /\ up' = [up EXCEPT ![char[g].ship] = @ \o r]
  /\ UNCHANGED <<team_data, account, down>>

\* What a ship sends on for a client.
LEMMA TypedOrder ==
  ASSUME TeamsTyped, NEW g \in Accounts, NEW r \in Seq(UpMsg), Says(g, r)
  PROVE  /\ char[g].ship \in TeamShips /\ up' \in [TeamShips -> Seq(UpMsg)]
         /\ UNCHANGED <<team_data, account, down>>
<1>1. char[g].ship \in TeamShips BY DEF TeamsTyped, Copy, Says
<1>2. up[char[g].ship] \o r \in Seq(UpMsg) BY <1>1, ConcatProperties DEF TeamsTyped
<1> QED BY <1>1, <1>2 DEF TeamsTyped, Says

\* An order is sent on, or there is no link and nothing is.
LEMMA OrderSays ==
  ASSUME TeamsTyped, NEW g \in Accounts, NEW r \in Seq(UpMsg), Order(g, r)
  PROVE  /\ orders' \in Nat /\ torn' \in BOOLEAN /\ (torn => torn') /\ UNCHANGED <<joined, lost>>
         /\ Says(g, r) \/ (Says(g, <<>>) /\ (Promotes(r) => torn'))
<1>1. orders' \in Nat /\ torn' \in BOOLEAN /\ (torn => torn') /\ UNCHANGED <<joined, lost>>
  BY DEF Order, TeamsTyped
<1>2. CASE char[g].ship \in joined BY <1>1, <1>2 DEF Order, Says
<1>3. CASE char[g].ship \notin joined
  <2>1. char[g].ship \in TeamShips /\ up \in [TeamShips -> Seq(UpMsg)] BY DEF TeamsTyped, Copy, Order
  <2>2. up[char[g].ship] \o <<>> = up[char[g].ship]
    <3>1. up[char[g].ship] \in Seq(UpMsg) BY <2>1
    <3> QED BY <3>1, ConcatEmptySeq
  <2>3. up' = [up EXCEPT ![char[g].ship] = @ \o <<>>] BY <1>3, <2>1, <2>2 DEF Order
  <2> QED BY <1>1, <1>3, <2>3 DEF Order, Says
<1> QED BY <1>2, <1>3

\* The orders of each kind are messages.
LEMMA OneMessage == ASSUME NEW m \in UpMsg PROVE <<m>> \in Seq(UpMsg) /\ Len(<<m>>) = 1 /\ <<m>>[1] = m
OBVIOUS

LEMMA PromotionIs ==
  ASSUME NEW t \in TeamIds, NEW g \in Accounts, NEW x \in Accounts, NEW level \in Privileges
  PROVE  LET r == Promotion(t, g, x, level)
             rise == [kind |-> "promote", team |-> t, who |-> x, priv |-> level]
             retire == [kind |-> "promote", team |-> t, who |-> g, priv |-> Officer]
         IN /\ r \in Seq(UpMsg) /\ r[1] = rise
            /\ level = Master => Len(r) = 2 /\ r[2] = retire
            /\ level # Master => Len(r) = 1
<1> DEFINE rise == [kind |-> "promote", team |-> t, who |-> x, priv |-> level]
           retire == [kind |-> "promote", team |-> t, who |-> g, priv |-> Officer]
<1>1. rise \in UpMsg /\ retire \in UpMsg BY DEF UpMsg, Privileges
<1>2. Promotion(t, g, x, level) = IF level = Master THEN <<rise, retire>> ELSE <<rise>> BY DEF Promotion
<1> HIDE DEF rise, retire
<1>3. /\ <<rise, retire>> \in Seq(UpMsg) /\ Len(<<rise, retire>>) = 2
      /\ <<rise, retire>>[1] = rise /\ <<rise, retire>>[2] = retire
      /\ <<rise>> \in Seq(UpMsg) /\ Len(<<rise>>) = 1 /\ <<rise>>[1] = rise
  BY <1>1
<1> QED BY <1>2, <1>3 DEF rise, retire

\* Links that are lost.
LEMMA TypedLose ==
  ASSUME TeamsTyped, NEW hs \in SUBSET TeamShips, Lose(hs),
         account' \in [Accounts -> [team : Nat, priv : Privileges]], lost' \in Nat
  PROVE  TeamsTyped'
<1>1. \A S : <<>> \in Seq(S) OBVIOUS
<1>2. up \in [TeamShips -> Seq(UpMsg)] /\ down \in [TeamShips -> Seq(DownMsg)] BY DEF TeamsTyped
<1>3. up' \in [TeamShips -> Seq(UpMsg)] /\ down' \in [TeamShips -> Seq(DownMsg)] BY <1>1, <1>2 DEF Lose
<1>4. /\ UNCHANGED <<team_data, char, orders, strayed>>
      /\ joined' \in SUBSET TeamShips /\ torn' \in BOOLEAN
  BY DEF Lose, TeamsTyped
<1> QED BY <1>3, <1>4 DEF TeamsTyped

LEMMA TeamsTypedNext == TeamsTyped /\ [TeamsNext]_teamVars => TeamsTyped'
<1> SUFFICES ASSUME TeamsTyped, [TeamsNext]_teamVars PROVE TeamsTyped' OBVIOUS
<1>0. /\ team_data \in Seq(TeamRecord) /\ Distinctly(team_data)
      /\ account \in [Accounts -> [team : Nat, priv : Privileges]]
      /\ char \in [Accounts -> Copy]
      /\ up \in [TeamShips -> Seq(UpMsg)] /\ down \in [TeamShips -> Seq(DownMsg)]
      /\ joined \in SUBSET TeamShips
      /\ orders \in Nat /\ lost \in Nat /\ strayed \in BOOLEAN /\ torn \in BOOLEAN
  BY DEF TeamsTyped
<1>1. CASE UNCHANGED teamVars BY <1>1 DEF TeamsTyped, teamVars
<1>2. ASSUME NEW h \in TeamShips, TeamOrder(h) PROVE TeamsTyped' BY <1>2, TypedTeamOrder
<1>3. ASSUME NEW h \in TeamShips, TeamAnswer(h) PROVE TeamsTyped' BY <1>3, TypedTeamAnswer
<1>4. ASSUME NEW g \in Accounts, NEW h \in TeamShips, Come(g, h) PROVE TeamsTyped'
  <2>1. [kind |-> "load", by |-> g] \in UpMsg BY DEF UpMsg
  <2>2. Append(up[h], [kind |-> "load", by |-> g]) \in Seq(UpMsg) BY <1>0, <2>1, AppendIs
  <2>3. up' \in [TeamShips -> Seq(UpMsg)] BY <1>0, <1>4, <2>2 DEF Come
  <2>4. char' \in [Accounts -> Copy] BY <1>0, <1>4, TeamsAssumption, ZenonT(60) DEF Come, Copy
  <2> QED BY <1>0, <1>4, <2>3, <2>4 DEF Come, TeamsTyped
<1>5. ASSUME NEW g \in Accounts, Go(g) PROVE TeamsTyped'
  <2>1. Away \in Copy BY DEF Away, Copy, Privileges, NoTeam, Member
  <2>2. char' \in [Accounts -> Copy] BY <1>0, <1>5, <2>1 DEF Go
  <2> QED BY <1>0, <1>5, <2>2 DEF Go, TeamsTyped
<1>6. ASSUME NEW g \in Accounts, AcceptInvitation(g) PROVE TeamsTyped'
  <2>1. char' \in [Accounts -> Copy] BY <1>0, <1>6 DEF AcceptInvitation, Copy
  <2> QED BY <1>0, <1>6, <2>1 DEF AcceptInvitation, TeamsTyped
<1>7. ASSUME NEW g \in Accounts, NEW r \in Seq(UpMsg), Order(g, r), char' \in [Accounts -> Copy],
             strayed' \in BOOLEAN
      PROVE  TeamsTyped'
  <2>1. orders' \in Nat /\ torn' \in BOOLEAN /\ UNCHANGED <<joined, lost>> BY <1>7, OrderSays
  <2>2. PICK q \in {r, <<>>} : Says(g, q) BY <1>7, OrderSays
  <2>3. q \in Seq(UpMsg) BY NoneSaid
  <2>4. up' \in [TeamShips -> Seq(UpMsg)] /\ UNCHANGED <<team_data, account, down>> BY <2>2, <2>3, TypedOrder
  <2> QED BY <1>0, <1>7, <2>1, <2>4 DEF TeamsTyped
<1>8. \A g \in Accounts : char[g].team # NoTeam => char[g].team \in TeamIds
  BY <1>0 DEF Copy, TeamIds
<1>8a. \A g \in Accounts : Cleared(char[g]) \in Copy BY <1>0 DEF Cleared, Copy, Privileges, NoTeam
<1>9. ASSUME NEW g \in Accounts, Create(g) PROVE TeamsTyped'
  <2>1. PICK n \in Names : Order(g, <<[kind |-> "create", by |-> g, name |-> n]>>) BY <1>9 DEF Create
  <2>2. [kind |-> "create", by |-> g, name |-> n] \in UpMsg BY DEF UpMsg
  <2> QED BY <1>0, <1>7, <1>9, <2>1, <2>2, OneMessage DEF Create
<1>10. ASSUME NEW g \in Accounts, NEW x \in Accounts, Invite(g, x) PROVE TeamsTyped'
  <2>1. [kind |-> "add", team |-> char[g].team, who |-> x] \in UpMsg BY <1>8, <1>10 DEF UpMsg, Invite
  <2>2. char' \in [Accounts -> Copy] BY <1>0, <1>10 DEF Invite, Copy, Privileges
  <2>3. Order(g, <<[kind |-> "add", team |-> char[g].team, who |-> x]>>) /\ strayed' = strayed
    BY <1>10 DEF Invite
  <2> QED BY <1>0, <1>7, <2>1, <2>2, <2>3, OneMessage
<1>11. ASSUME NEW g \in Accounts, NEW x \in Accounts, Expel(g, x) PROVE TeamsTyped'
  <2>1. [kind |-> "remove", team |-> char[g].team, who |-> x] \in UpMsg BY <1>8, <1>11 DEF UpMsg, Expel
  <2>2. char' \in [Accounts -> Copy] BY <1>0, <1>8a, <1>11 DEF Expel
  <2>3. Order(g, <<[kind |-> "remove", team |-> char[g].team, who |-> x]>>) /\ strayed' = strayed
    BY <1>11 DEF Expel
  <2> QED BY <1>0, <1>7, <2>1, <2>2, <2>3, OneMessage
<1>12. ASSUME NEW g \in Accounts, LeaveTeam(g) PROVE TeamsTyped'
  <2>1. [kind |-> "remove", team |-> char[g].team, who |-> g] \in UpMsg BY <1>8, <1>12 DEF UpMsg, LeaveTeam
  <2>2. char' \in [Accounts -> Copy] BY <1>0, <1>8a, <1>12 DEF LeaveTeam
  <2>3. Order(g, <<[kind |-> "remove", team |-> char[g].team, who |-> g]>>) /\ strayed' = strayed
    BY <1>12 DEF LeaveTeam
  <2> QED BY <1>0, <1>7, <2>1, <2>2, <2>3, OneMessage
<1>13. ASSUME NEW g \in Accounts, Dissolve(g) PROVE TeamsTyped'
  <2>1. [kind |-> "dissolve", by |-> g, team |-> char[g].team] \in UpMsg BY <1>8, <1>13 DEF UpMsg, Dissolve
  <2>2. char' \in [Accounts -> Copy] BY <1>0, <1>8a, <1>13 DEF Dissolve
  <2>3. Order(g, <<[kind |-> "dissolve", by |-> g, team |-> char[g].team]>>) /\ strayed' = strayed
    BY <1>13 DEF Dissolve
  <2> QED BY <1>0, <1>7, <2>1, <2>2, <2>3, OneMessage
<1>14. ASSUME NEW g \in Accounts, NEW x \in Accounts, NEW level \in Privileges, Promote(g, x, level) PROVE TeamsTyped'
  <2>1. Promotion(char[g].team, g, x, level) \in Seq(UpMsg) BY <1>8, <1>14, PromotionIs DEF Promote
  <2>2. Demoted(level) \in Privileges BY DEF Demoted, Privileges
  <2>3. char' \in [Accounts -> Copy]
    <3>1. char' = [y \in Accounts |->
            IF y = g THEN [char[y] EXCEPT !.priv = Demoted(level)]
            ELSE IF y = x /\ x \in On(char[g].ship) THEN [char[y] EXCEPT !.priv = level] ELSE char[y]]
      BY <1>14 DEF Promote
    <3>2. \A y \in Accounts : /\ char[y] \in Copy
                              /\ [char[y] EXCEPT !.priv = Demoted(level)] \in Copy
                              /\ [char[y] EXCEPT !.priv = level] \in Copy
      BY <1>0, <2>2 DEF Copy
    <3>3. ASSUME NEW y \in Accounts
          PROVE  (IF y = g THEN [char[y] EXCEPT !.priv = Demoted(level)]
                  ELSE IF y = x /\ x \in On(char[g].ship) THEN [char[y] EXCEPT !.priv = level] ELSE char[y]) \in Copy
      BY <3>2
    <3> QED BY <3>1, <3>3, Zenon
  <2>4. Order(g, Promotion(char[g].team, g, x, level)) BY <1>14 DEF Promote
  <2>5. strayed' \in BOOLEAN BY <1>14 DEF Promote
  <2> QED BY <1>7, <2>1, <2>3, <2>4, <2>5
<1>15. ASSUME NEW h \in TeamShips, LoseLink(h) PROVE TeamsTyped'
  <2>1. account' = account /\ lost' = lost + 1 /\ Lose({h}) BY <1>15 DEF LoseLink
  <2>2. {h} \in SUBSET TeamShips /\ lost' \in Nat BY <1>0, <2>1
  <2>3. account' \in [Accounts -> [team : Nat, priv : Privileges]] BY <1>0, <2>1
  <2> QED BY <2>1, <2>2, <2>3, TypedLose
<1>16. ASSUME NEW h \in TeamShips, NoSuchTeam(h) PROVE TeamsTyped'
  <2> DEFINE m == Head(up[h])
  <2>1. up[h] # <<>> /\ m.kind = "promote" /\ SetLevel(m) /\ Lose(TeamShips) /\ lost' = lost
    BY <1>16 DEF NoSuchTeam, Missing
  <2>2. m \in UpMsg BY <1>0, <2>1, TailIs
  <2> HIDE DEF m
  <2>3. m.who \in Accounts /\ m.priv \in Privileges BY <2>1, <2>2, UpMsgFacts
  <2>4. account' \in [Accounts -> [team : Nat, priv : Privileges]] BY <1>0, <2>1, <2>3 DEF SetLevel
  <2> QED BY <1>0, <2>1, <2>4, TypedLose
<1>17. ASSUME NEW h \in TeamShips, RegainLink(h) PROVE TeamsTyped'
  BY <1>0, <1>17 DEF RegainLink, TeamsTyped
<1> QED BY <1>1, <1>2, <1>3, <1>4, <1>5, <1>6, <1>9, <1>10, <1>11, <1>12, <1>13, <1>14, <1>15, <1>16, <1>17
        DEF TeamsNext, Privileges

----------------------------------------------------------------------------
(* Teams: what a client waits for                                          *)

Here(c, h) == c.ship = h /\ c.loaded

\* Whoever asks for its character, or is answered, waits on the ship it came
\* to, once; whoever makes a team is on the ship it said so to.  u and d are
\* the queues of ship h, c the copies.
Waiting(u, d, c, h) ==
  /\ \A p \in 1 .. Len(u) :
       /\ u[p].kind = "load" => c[u[p].by].ship = h /\ ~c[u[p].by].loaded
       /\ u[p].kind = "create" => Here(c[u[p].by], h)
  /\ \A i \in 1 .. Len(d) :
       /\ d[i].kind = "loaded" => c[d[i].who].ship = h /\ ~c[d[i].who].loaded
       /\ d[i].kind = "created" => Here(c[d[i].who], h)
  /\ \A p, k \in 1 .. Len(u) : u[p].kind = "load" /\ u[k].kind = "load" /\ u[p].by = u[k].by => p = k
  /\ \A i, k \in 1 .. Len(d) : d[i].kind = "loaded" /\ d[k].kind = "loaded" /\ d[i].who = d[k].who => i = k
  /\ \A p \in 1 .. Len(u), i \in 1 .. Len(d) : ~(u[p].kind = "load" /\ d[i].kind = "loaded" /\ u[p].by = d[i].who)

LoadsOK == \A h \in TeamShips : Waiting(up[h], down[h], char, h)

\* A copy that says its character is master of t.
Rules(c, t) == c.loaded /\ c.team = t /\ t # NoTeam /\ c.priv = Master

\* An order that hands nothing over, dissolves nothing and makes nobody master.
Harmless(g, r) ==
  /\ \A k \in 1 .. Len(r) : /\ r[k].kind \notin {"load", "dissolve"}
                            /\ r[k].kind = "create" => r[k].by = g
                            /\ ~(r[k].kind = "promote" /\ r[k].priv = Master)
  /\ \A x \in Accounts : char'[x].ship = char[x].ship /\ char'[x].loaded = char[x].loaded
  /\ \A x \in Accounts, t \in Nat : Rules(char'[x], t) => Rules(char[x], t)

\* It is given, and what gets onto the link is sent on.
Ordered(g, r) == Order(g, r) /\ (strayed => strayed') /\ Harmless(g, r)
Ordinary(g, r) == Says(g, r) /\ (strayed \/ torn => strayed' \/ torn') /\ Harmless(g, r)

LEMMA OrderedIs ==
  ASSUME TeamsTyped, NEW g \in Accounts, NEW r \in Seq(UpMsg), Ordered(g, r)
  PROVE  \E q \in Seq(UpMsg) : Ordinary(g, q)
<1>1. PICK q \in {r, <<>>} : Says(g, q) BY OrderSays DEF Ordered
<1>2. q \in Seq(UpMsg) BY NoneSaid
<1>3. strayed \/ torn => strayed' \/ torn' BY OrderSays DEF Ordered
<1>4. Harmless(g, q)
  <2>1. Harmless(g, r) BY DEF Ordered
  <2>2. Len(<<>>) = 0 /\ 1 .. 0 = {} OBVIOUS
  <2> QED BY <2>1, <2>2 DEF Harmless
<1> QED BY <1>1, <1>2, <1>3, <1>4 DEF Ordinary

LEMMA ClearedIs ==
  ASSUME NEW c \in Copy
  PROVE  /\ Cleared(c) \in Copy /\ Cleared(c).ship = c.ship /\ Cleared(c).loaded = c.loaded
         /\ Cleared(c).team = NoTeam /\ Cleared(c).priv = Member
BY DEF Cleared, Copy, Privileges, NoTeam

\* The steps of the teams.
LEMMA TeamsCases ==
  ASSUME TeamsTyped, TeamsNext
  PROVE  \/ \E h \in TeamShips :
              TeamOrder(h) \/ TeamAnswer(h) \/ LoseLink(h) \/ NoSuchTeam(h) \/ RegainLink(h)
         \/ \E g \in Accounts :
              \/ \E h \in TeamShips : Come(g, h)
              \/ Go(g) \/ AcceptInvitation(g) \/ Dissolve(g)
              \/ \E x \in Accounts : Promote(g, x, Master)
              \/ \E r \in Seq(UpMsg) : Ordinary(g, r)
<1>0. /\ char \in [Accounts -> Copy] /\ strayed \in BOOLEAN
      /\ \A g \in Accounts : char[g].team # NoTeam => char[g].team \in TeamIds
  BY DEF TeamsTyped, Copy, TeamIds
<1>1. ASSUME NEW g \in Accounts, Create(g) PROVE \E r \in Seq(UpMsg) : Ordered(g, r)
  <2>1. PICK n \in Names : Order(g, <<[kind |-> "create", by |-> g, name |-> n]>>) BY <1>1 DEF Create
  <2> DEFINE m == [kind |-> "create", by |-> g, name |-> n]
  <2>2. m \in UpMsg /\ m.kind = "create" /\ m.by = g BY DEF UpMsg
  <2>3. char' = char /\ strayed' = strayed BY <1>1 DEF Create
  <2> HIDE DEF m
  <2>4. <<m>> \in Seq(UpMsg) /\ Len(<<m>>) = 1 /\ <<m>>[1] = m BY <2>2, OneMessage
  <2>5. Ordered(g, <<m>>) BY <2>1, <2>2, <2>3, <2>4 DEF Ordered, Harmless, m
  <2> QED BY <2>4, <2>5
<1>2. ASSUME NEW g \in Accounts, NEW x \in Accounts, Invite(g, x) PROVE \E r \in Seq(UpMsg) : Ordered(g, r)
  <2> DEFINE m == [kind |-> "add", team |-> char[g].team, who |-> x]
  <2>1. Order(g, <<m>>) /\ strayed' = strayed BY <1>2 DEF Invite
  <2>2. m \in UpMsg /\ m.kind = "add" BY <1>0, <1>2 DEF UpMsg, Invite
  <2>3. char' = [char EXCEPT ![x] = [@ EXCEPT !.team = char[g].team, !.priv = Member, !.accept = FALSE]]
    BY <1>2 DEF Invite
  <2>4. \A y \in Accounts : char'[y].ship = char[y].ship /\ char'[y].loaded = char[y].loaded
    BY <1>0, <2>3 DEF Copy
  <2>5. \A y \in Accounts : char'[y].priv = Master => char'[y] = char[y]
    BY <1>0, <2>3 DEF Copy, Member, Master
  <2> HIDE DEF m
  <2>6. <<m>> \in Seq(UpMsg) /\ Len(<<m>>) = 1 /\ <<m>>[1] = m BY <2>2, OneMessage
  <2>7. Ordered(g, <<m>>) BY <2>1, <2>2, <2>4, <2>5, <2>6 DEF Ordered, Harmless, Rules
  <2> QED BY <2>6, <2>7
<1>3. ASSUME NEW g \in Accounts, NEW x \in Accounts, Order(g, <<[kind |-> "remove", team |-> char[g].team, who |-> x]>>),
             char[g].team # NoTeam, char' \in {char, [char EXCEPT ![x] = Cleared(@)]}, strayed' = strayed
      PROVE  \E r \in Seq(UpMsg) : Ordered(g, r)
  <2> DEFINE m == [kind |-> "remove", team |-> char[g].team, who |-> x]
  <2>1. Order(g, <<m>>) BY <1>3
  <2>2. m \in UpMsg /\ m.kind = "remove" BY <1>0, <1>3 DEF UpMsg
  <2>3. \A y \in Accounts : char[y] \in Copy /\ (char'[y] = char[y] \/ char'[y] = Cleared(char[y])) BY <1>0, <1>3
  <2>4. \A y \in Accounts : char'[y].ship = char[y].ship /\ char'[y].loaded = char[y].loaded
    BY <2>3, ClearedIs
  <2>5. \A y \in Accounts : char'[y].priv = Master => char'[y] = char[y]
    BY <2>3, ClearedIs DEF Member, Master
  <2> HIDE DEF m
  <2>6. <<m>> \in Seq(UpMsg) /\ Len(<<m>>) = 1 /\ <<m>>[1] = m BY <2>2, OneMessage
  <2>7. Ordered(g, <<m>>) BY <1>3, <2>1, <2>2, <2>4, <2>5, <2>6 DEF Ordered, Harmless, Rules
  <2> QED BY <2>6, <2>7
<1>4. ASSUME NEW g \in Accounts, NEW x \in Accounts, Expel(g, x) PROVE \E r \in Seq(UpMsg) : Ordered(g, r)
  <2>1. char' \in {char, [char EXCEPT ![x] = Cleared(@)]} BY <1>4 DEF Expel
  <2>2. /\ Order(g, <<[kind |-> "remove", team |-> char[g].team, who |-> x]>>)
        /\ char[g].team # NoTeam /\ strayed' = strayed
    BY <1>4 DEF Expel
  <2> QED BY <1>3, <2>1, <2>2
<1>5. ASSUME NEW g \in Accounts, LeaveTeam(g) PROVE \E r \in Seq(UpMsg) : Ordered(g, r)
  <2>1. char' \in {char, [char EXCEPT ![g] = Cleared(@)]} BY <1>5 DEF LeaveTeam
  <2>2. /\ Order(g, <<[kind |-> "remove", team |-> char[g].team, who |-> g]>>)
        /\ char[g].team # NoTeam /\ strayed' = strayed
    BY <1>5 DEF LeaveTeam
  <2> QED BY <1>3, <2>1, <2>2
<1>6. ASSUME NEW g \in Accounts, NEW x \in Accounts, NEW level \in Privileges, level # Master, Promote(g, x, level)
      PROVE  \E r \in Seq(UpMsg) : Ordered(g, r)
  <2> DEFINE r == Promotion(char[g].team, g, x, level)
  <2>1. r \in Seq(UpMsg) /\ Len(r) = 1 /\ r[1] = [kind |-> "promote", team |-> char[g].team, who |-> x, priv |-> level]
    <3> DEFINE t == char[g].team
    <3>1. t # NoTeam BY <1>6 DEF Promote
    <3>2. char[g] \in Copy BY <1>0
    <3>3. t \in TeamIds BY <3>1, <3>2 DEF Copy, TeamIds
    <3> HIDE DEF t
    <3>4. /\ Promotion(t, g, x, level) \in Seq(UpMsg) /\ Len(Promotion(t, g, x, level)) = 1
          /\ Promotion(t, g, x, level)[1] = [kind |-> "promote", team |-> t, who |-> x, priv |-> level]
      BY <1>6, <3>3, PromotionIs
    <3> QED BY <3>4 DEF t
  <2>2. Order(g, r) /\ (strayed => strayed') BY <1>6 DEF Promote
  <2>3. r[1].kind = "promote" /\ r[1].priv # Master BY <1>6, <2>1
  <2> HIDE DEF r
  <2>4. char' = [y \in Accounts |->
          IF y = g THEN [char[y] EXCEPT !.priv = Demoted(level)]
          ELSE IF y = x /\ x \in On(char[g].ship) THEN [char[y] EXCEPT !.priv = level] ELSE char[y]]
    BY <1>6 DEF Promote
  <2>5. Demoted(level) = Master /\ char[g].priv = Master BY <1>6 DEF Demoted, Promote
  <2>6. ASSUME NEW y \in Accounts
        PROVE  /\ char'[y].ship = char[y].ship /\ char'[y].loaded = char[y].loaded
               /\ char'[y].team = char[y].team
               /\ char'[y].priv = Master => char[y].priv = Master
    <3>1. char[y] \in Copy BY <1>0
    <3>2. CASE y = g
      <4>1. char'[y] = [char[y] EXCEPT !.priv = Demoted(level)] BY <2>4, <3>2
      <4> QED BY <2>5, <3>1, <3>2, <4>1 DEF Copy
    <3>3. CASE y # g /\ y = x /\ x \in On(char[g].ship)
      <4>1. char'[y] = [char[y] EXCEPT !.priv = level] BY <2>4, <3>3
      <4> QED BY <1>6, <3>1, <4>1 DEF Copy
    <3>4. CASE y # g /\ ~(y = x /\ x \in On(char[g].ship)) BY <2>4, <3>4
    <3> QED BY <3>2, <3>3, <3>4
  <2>7. Ordered(g, r) BY <2>1, <2>2, <2>3, <2>6 DEF Ordered, Harmless, Rules
  <2> QED BY <2>1, <2>7
<1>7. \A g \in Accounts : (\E r \in Seq(UpMsg) : Ordered(g, r)) => \E r \in Seq(UpMsg) : Ordinary(g, r)
  BY OrderedIs
<1> QED BY <1>1, <1>2, <1>4, <1>5, <1>6, <1>7 DEF TeamsNext, Privileges

\* The queues once a ship has sent on what g said.
LEMMA Extended ==
  ASSUME TeamsTyped, NEW g \in Accounts, NEW r \in Seq(UpMsg), Says(g, r)
  PROVE  /\ char[g].ship \in TeamShips /\ Here(char[g], char[g].ship) /\ Len(r) \in Nat
         /\ \A h \in TeamShips :
              /\ Len(up[h]) \in Nat /\ up'[h] \in Seq(UpMsg)
              /\ h # char[g].ship => up'[h] = up[h]
              /\ \A p \in 1 .. Len(up[h]) : up'[h][p] = up[h][p]
         /\ Len(up'[char[g].ship]) = Len(up[char[g].ship]) + Len(r)
         /\ \A k \in 1 .. Len(r) : up'[char[g].ship][Len(up[char[g].ship]) + k] = r[k]
         /\ UNCHANGED <<team_data, account, down>>
<1> DEFINE s == char[g].ship
<1>1. /\ s \in TeamShips /\ up' \in [TeamShips -> Seq(UpMsg)] /\ UNCHANGED <<team_data, account, down>>
  BY TypedOrder
<1>2. up \in [TeamShips -> Seq(UpMsg)] BY DEF TeamsTyped
<1>3. up' = [up EXCEPT ![s] = @ \o r] /\ Here(char[g], s) BY DEF Says, Here
<1> HIDE DEF s
<1>4. up[s] \in Seq(UpMsg) BY <1>1, <1>2
<1>5. /\ Len(up[s] \o r) = Len(up[s]) + Len(r) /\ Len(up[s]) \in Nat /\ Len(r) \in Nat
      /\ \A k \in 1 .. Len(up[s]) + Len(r) : (up[s] \o r)[k] = IF k <= Len(up[s]) THEN up[s][k] ELSE r[k - Len(up[s])]
  BY <1>4, ConcatProperties, LenProperties
<1>6. up'[s] = up[s] \o r /\ \A h \in TeamShips : h # s => up'[h] = up[h] BY <1>1, <1>2, <1>3
<1>7. \A h \in TeamShips : Len(up[h]) \in Nat /\ up'[h] \in Seq(UpMsg) BY <1>1, <1>2
<1>8. \A k \in 1 .. Len(r) : up'[s][Len(up[s]) + k] = r[k]
  <2>1. \A k \in 1 .. Len(r) : /\ Len(up[s]) + k \in 1 .. Len(up[s]) + Len(r)
                               /\ ~(Len(up[s]) + k <= Len(up[s])) /\ Len(up[s]) + k - Len(up[s]) = k
    BY <1>5
  <2> QED BY <1>5, <1>6, <2>1
<1>9. \A p \in 1 .. Len(up[s]) : up'[s][p] = up[s][p]
  <2>1. \A p \in 1 .. Len(up[s]) : p \in 1 .. Len(up[s]) + Len(r) /\ p <= Len(up[s]) BY <1>5
  <2> QED BY <1>5, <1>6, <2>1
<1>10. \A h \in TeamShips : \A p \in 1 .. Len(up[h]) : up'[h][p] = up[h][p] BY <1>6, <1>9
<1> QED BY <1>1, <1>3, <1>5, <1>6, <1>7, <1>8, <1>10 DEF s

\* An order that asks for no character disturbs nobody who waits.
LEMMA LoadsOrder ==
  ASSUME TeamsTyped, LoadsOK, NEW g \in Accounts, NEW r \in Seq(UpMsg), Says(g, r),
         \A k \in 1 .. Len(r) : r[k].kind # "load" /\ (r[k].kind = "create" => r[k].by = g),
         \A x \in Accounts : char'[x].ship = char[x].ship /\ char'[x].loaded = char[x].loaded
  PROVE  LoadsOK'
<1> DEFINE s == char[g].ship
<1>1. /\ s \in TeamShips /\ Here(char[g], s) /\ Len(r) \in Nat
      /\ \A h \in TeamShips :
           /\ Len(up[h]) \in Nat /\ up'[h] \in Seq(UpMsg)
           /\ h # s => up'[h] = up[h]
           /\ \A p \in 1 .. Len(up[h]) : up'[h][p] = up[h][p]
      /\ Len(up'[s]) = Len(up[s]) + Len(r)
      /\ \A k \in 1 .. Len(r) : up'[s][Len(up[s]) + k] = r[k]
      /\ down' = down
  BY Extended
<1>2. \A h \in TeamShips : up[h] \in Seq(UpMsg) /\ down[h] \in Seq(DownMsg) BY DEF TeamsTyped
<1> HIDE DEF s
<1>3. ASSUME NEW h \in TeamShips, NEW p \in 1 .. Len(up'[h])
      PROVE  \/ p \in 1 .. Len(up[h]) /\ up'[h][p] = up[h][p]
             \/ h = s /\ up'[h][p].kind # "load" /\ (up'[h][p].kind = "create" => up'[h][p].by = g)
  <2>1. CASE p <= Len(up[h]) BY <1>1, <2>1
  <2>2. CASE ~(p <= Len(up[h]))
    <3>1. h = s BY <1>1, <2>2
    <3>2. p - Len(up[s]) \in 1 .. Len(r) /\ p = Len(up[s]) + (p - Len(up[s])) BY <1>1, <2>2, <3>1
    <3>3. up'[s][p] = r[p - Len(up[s])] BY <1>1, <3>2
    <3> QED BY <3>1, <3>2, <3>3
  <2> QED BY <2>1, <2>2
<1>4. ASSUME NEW x \in Accounts, NEW h \in TeamShips PROVE Here(char'[x], h) <=> Here(char[x], h) BY DEF Here
<1>5. SUFFICES ASSUME NEW h \in TeamShips PROVE Waiting(up'[h], down'[h], char', h) BY DEF LoadsOK
<1> DEFINE u == up[h]
           v == up'[h]
           d == down[h]
<1>6. \A p \in 1 .. Len(u) : u[p].kind \in {"load", "create"} => u[p].by \in Accounts
  BY <1>2, UpMsgFacts
<1>7. \A i \in 1 .. Len(d) : d[i].kind \in {"loaded", "created"} => d[i].who \in Accounts
  BY <1>2, DownMsgFacts
<1>8. Waiting(u, d, char, h) BY DEF LoadsOK
<1>9. /\ \A p \in 1 .. Len(v) : v[p].kind = "load" => p \in 1 .. Len(u) /\ v[p] = u[p]
      /\ \A p \in 1 .. Len(v) : v[p].kind = "create" => (v[p].by = g /\ h = s) \/ (p \in 1 .. Len(u) /\ v[p] = u[p])
  BY <1>3
<1>10. h = s => Here(char'[g], h) BY <1>1, <1>4
<1>11. down'[h] = d BY <1>1
<1>12. /\ \A x \in Accounts : char'[x].ship = char[x].ship /\ char'[x].loaded = char[x].loaded
       /\ \A x \in Accounts : Here(char[x], h) => Here(char'[x], h)
  BY <1>4
<1> HIDE DEF u, v, d
<1>13. ASSUME NEW p \in 1 .. Len(v)
       PROVE  /\ v[p].kind = "load" => char'[v[p].by].ship = h /\ ~char'[v[p].by].loaded
              /\ v[p].kind = "create" => Here(char'[v[p].by], h)
  BY <1>6, <1>8, <1>9, <1>10, <1>12, SMTT(60) DEF Waiting
<1>14. ASSUME NEW i \in 1 .. Len(d)
       PROVE  /\ d[i].kind = "loaded" => char'[d[i].who].ship = h /\ ~char'[d[i].who].loaded
              /\ d[i].kind = "created" => Here(char'[d[i].who], h)
  BY <1>7, <1>8, <1>12 DEF Waiting
<1>15. /\ \A p, k \in 1 .. Len(v) : v[p].kind = "load" /\ v[k].kind = "load" /\ v[p].by = v[k].by => p = k
       /\ \A i, k \in 1 .. Len(d) : d[i].kind = "loaded" /\ d[k].kind = "loaded" /\ d[i].who = d[k].who => i = k
       /\ \A p \in 1 .. Len(v), i \in 1 .. Len(d) : ~(v[p].kind = "load" /\ d[i].kind = "loaded" /\ v[p].by = d[i].who)
  BY <1>8, <1>9 DEF Waiting
<1>16. Waiting(v, d, char', h) BY <1>13, <1>14, <1>15 DEF Waiting
<1> QED BY <1>11, <1>16 DEF v

\* Nor does it if there is no link to send it on.
LEMMA LoadsOrdered ==
  ASSUME TeamsTyped, LoadsOK, NEW g \in Accounts, NEW r \in Seq(UpMsg), Order(g, r),
         \A k \in 1 .. Len(r) : r[k].kind # "load" /\ (r[k].kind = "create" => r[k].by = g),
         \A x \in Accounts : char'[x].ship = char[x].ship /\ char'[x].loaded = char[x].loaded
  PROVE  LoadsOK'
<1>1. PICK q \in {r, <<>>} : Says(g, q) BY OrderSays
<1>2. q \in Seq(UpMsg) BY NoneSaid
<1>3. Len(<<>>) = 0 /\ 1 .. 0 = {} OBVIOUS
<1>4. \A k \in 1 .. Len(q) : q[k].kind # "load" /\ (q[k].kind = "create" => q[k].by = g) BY <1>3
<1> QED BY <1>1, <1>2, <1>4, LoadsOrder

\* Nobody waits on a ship whose link is lost, but for a character to come.
LEMMA LoadsLost ==
  ASSUME TeamsTyped, LoadsOK, NEW hs \in SUBSET TeamShips, Lose(hs)
  PROVE  LoadsOK'
<1>1. \A c, k : Waiting(<<>>, <<>>, c, k)
  <2>1. Len(<<>>) = 0 /\ 1 .. 0 = {} OBVIOUS
  <2> QED BY <2>1 DEF Waiting
<1>2. /\ char' = char
      /\ \A k \in TeamShips : (up'[k] = up[k] /\ down'[k] = down[k]) \/ (up'[k] = <<>> /\ down'[k] = <<>>)
  BY DEF Lose
<1>3. ASSUME NEW k \in TeamShips PROVE Waiting(up'[k], down'[k], char', k)
  <2>1. Waiting(up[k], down[k], char, k) BY DEF LoadsOK
  <2> QED BY <1>1, <1>2, <2>1
<1> QED BY <1>3 DEF LoadsOK

\* Whoever is waited for, or waits, is on the ship.
LEMMA WaitsThere ==
  ASSUME NEW u, NEW d, NEW c, NEW h, Waiting(u, d, c, h)
  PROVE  /\ \A p \in 1 .. Len(u) : u[p].kind \in {"load", "create"} => c[u[p].by].ship = h
         /\ \A i \in 1 .. Len(d) : d[i].kind \in {"loaded", "created"} => c[d[i].who].ship = h
BY DEF Waiting, Here

\* The same queues when those who are named in them stay as they are.
LEMMA WaitingSame ==
  ASSUME NEW u \in Seq(UpMsg), NEW d \in Seq(DownMsg), NEW c, NEW e, NEW h, Waiting(u, d, c, h),
         \A x \in Accounts : c[x].ship = h => e[x].ship = h /\ e[x].loaded = c[x].loaded
  PROVE  Waiting(u, d, e, h)
<1>1. \A p \in 1 .. Len(u) : u[p].kind \in {"load", "create"} => u[p].by \in Accounts BY UpMsgFacts
<1>2. \A i \in 1 .. Len(d) : d[i].kind \in {"loaded", "created"} => d[i].who \in Accounts BY DownMsgFacts
<1>3. ASSUME NEW p \in 1 .. Len(u)
      PROVE  /\ u[p].kind = "load" => e[u[p].by].ship = h /\ ~e[u[p].by].loaded
             /\ u[p].kind = "create" => Here(e[u[p].by], h)
  BY <1>1 DEF Waiting, Here
<1>4. ASSUME NEW i \in 1 .. Len(d)
      PROVE  /\ d[i].kind = "loaded" => e[d[i].who].ship = h /\ ~e[d[i].who].loaded
             /\ d[i].kind = "created" => Here(e[d[i].who], h)
  BY <1>2 DEF Waiting, Here
<1> QED BY <1>3, <1>4 DEF Waiting

\* An order that is carried out, and answered or not.
LEMMA WaitingOrder ==
  ASSUME NEW u \in Seq(UpMsg), u # <<>>, NEW d \in Seq(DownMsg), NEW c, NEW h, Waiting(u, d, c, h)
  PROVE  /\ Waiting(Tail(u), d, c, h)
         /\ \A a \in DownMsg :
              /\ a.kind = "loaded" => Head(u).kind = "load" /\ a.who = Head(u).by
              /\ a.kind = "created" => Head(u).kind = "create" /\ a.who = Head(u).by
              => Waiting(Tail(u), Append(d, a), c, h)
<1> DEFINE v == Tail(u)
<1>1. /\ Len(u) \in Nat \ {0} /\ Len(v) = Len(u) - 1 /\ Head(u) = u[1]
      /\ \A k \in 1 .. Len(u) - 1 : v[k] = u[k + 1] /\ k + 1 \in 1 .. Len(u)
  BY TailIs
<1> HIDE DEF v
<1>2. \A p \in 1 .. Len(v) : v[p] = u[p + 1] /\ p + 1 \in 1 .. Len(u) /\ p + 1 # 1 BY <1>1
<1>3. 1 \in 1 .. Len(u) BY <1>1
<1>4. /\ \A p \in 1 .. Len(v) : /\ v[p].kind = "load" => c[v[p].by].ship = h /\ ~c[v[p].by].loaded
                                /\ v[p].kind = "create" => Here(c[v[p].by], h)
      /\ \A p, k \in 1 .. Len(v) : v[p].kind = "load" /\ v[k].kind = "load" /\ v[p].by = v[k].by => p = k
  <2>1. ASSUME NEW p \in 1 .. Len(v), NEW k \in 1 .. Len(v), v[p].kind = "load", v[k].kind = "load", v[p].by = v[k].by
        PROVE  p = k
    <3>1. p + 1 = k + 1 BY <1>2, <2>1 DEF Waiting
    <3> QED BY <3>1
  <2>2. ASSUME NEW p \in 1 .. Len(v)
        PROVE  /\ v[p].kind = "load" => c[v[p].by].ship = h /\ ~c[v[p].by].loaded
               /\ v[p].kind = "create" => Here(c[v[p].by], h)
    BY <1>2 DEF Waiting
  <2> QED BY <2>1, <2>2
<1>5. /\ \A i \in 1 .. Len(d) : /\ d[i].kind = "loaded" => c[d[i].who].ship = h /\ ~c[d[i].who].loaded
                                /\ d[i].kind = "created" => Here(c[d[i].who], h)
      /\ \A i, k \in 1 .. Len(d) : d[i].kind = "loaded" /\ d[k].kind = "loaded" /\ d[i].who = d[k].who => i = k
      /\ \A p \in 1 .. Len(v), i \in 1 .. Len(d) : ~(v[p].kind = "load" /\ d[i].kind = "loaded" /\ v[p].by = d[i].who)
  BY <1>2 DEF Waiting
<1>6. ASSUME NEW a \in DownMsg,
             /\ a.kind = "loaded" => Head(u).kind = "load" /\ a.who = Head(u).by
             /\ a.kind = "created" => Head(u).kind = "create" /\ a.who = Head(u).by
      PROVE  Waiting(v, Append(d, a), c, h)
  <2> DEFINE e == Append(d, a)
  <2>1. /\ Len(d) \in Nat /\ Len(e) = Len(d) + 1 /\ e[Len(d) + 1] = a
        /\ \A k \in 1 .. Len(d) : e[k] = d[k]
    BY AppendIs
  <2> HIDE DEF e
  <2>2. \A i \in 1 .. Len(e) : (i \in 1 .. Len(d) /\ e[i] = d[i]) \/ (i = Len(d) + 1 /\ e[i] = a) BY <2>1
  <2>3. /\ a.kind = "loaded" => c[a.who].ship = h /\ ~c[a.who].loaded
        /\ a.kind = "created" => Here(c[a.who], h)
        /\ \A p \in 1 .. Len(v) : ~(v[p].kind = "load" /\ a.kind = "loaded" /\ v[p].by = a.who)
        /\ \A i \in 1 .. Len(d) : ~(a.kind = "loaded" /\ d[i].kind = "loaded" /\ d[i].who = a.who)
    BY <1>1, <1>2, <1>3, <1>6, SMTT(60) DEF Waiting
  <2>4. /\ \A i \in 1 .. Len(e) : /\ e[i].kind = "loaded" => c[e[i].who].ship = h /\ ~c[e[i].who].loaded
                                  /\ e[i].kind = "created" => Here(c[e[i].who], h)
        /\ \A i, k \in 1 .. Len(e) : e[i].kind = "loaded" /\ e[k].kind = "loaded" /\ e[i].who = e[k].who => i = k
        /\ \A p \in 1 .. Len(v), i \in 1 .. Len(e) : ~(v[p].kind = "load" /\ e[i].kind = "loaded" /\ v[p].by = e[i].who)
    BY <1>5, <2>2, <2>3
  <2>5. Waiting(v, e, c, h) BY <1>4, <2>4 DEF Waiting
  <2> QED BY <2>5 DEF e
<1>7. Waiting(v, d, c, h) BY <1>4, <1>5 DEF Waiting
<1> QED BY <1>6, <1>7 DEF v

\* An answer that comes.
LEMMA WaitingAnswer ==
  ASSUME NEW u, NEW d \in Seq(DownMsg), d # <<>>, NEW c, NEW h, Waiting(u, d, c, h)
  PROVE  /\ Waiting(u, Tail(d), c, h)
         /\ Head(d).kind = "loaded" =>
              /\ c[Head(d).who].ship = h /\ ~c[Head(d).who].loaded
              /\ \A p \in 1 .. Len(u) : u[p].kind \in {"load", "create"} => u[p].by # Head(d).who
              /\ \A i \in 1 .. Len(Tail(d)) : Tail(d)[i].kind \in {"loaded", "created"} => Tail(d)[i].who # Head(d).who
         /\ Head(d).kind = "created" => Here(c[Head(d).who], h)
<1> DEFINE v == Tail(d)
<1>1. /\ Len(d) \in Nat \ {0} /\ Len(v) = Len(d) - 1 /\ Head(d) = d[1]
      /\ \A k \in 1 .. Len(d) - 1 : v[k] = d[k + 1] /\ k + 1 \in 1 .. Len(d)
  BY TailIs
<1> HIDE DEF v
<1>2. \A p \in 1 .. Len(v) : v[p] = d[p + 1] /\ p + 1 \in 1 .. Len(d) /\ p + 1 # 1 BY <1>1
<1>3. 1 \in 1 .. Len(d) /\ \A p, k \in 1 .. Len(v) : p + 1 = k + 1 => p = k BY <1>1
<1>4. Waiting(u, v, c, h)
  <2>1. ASSUME NEW p \in 1 .. Len(v), NEW k \in 1 .. Len(v), v[p].kind = "loaded", v[k].kind = "loaded", v[p].who = v[k].who
        PROVE  p = k
    <3>1. p + 1 = k + 1 BY <1>2, <2>1 DEF Waiting
    <3> QED BY <3>1
  <2>2. ASSUME NEW i \in 1 .. Len(v)
        PROVE  /\ v[i].kind = "loaded" => c[v[i].who].ship = h /\ ~c[v[i].who].loaded
               /\ v[i].kind = "created" => Here(c[v[i].who], h)
               /\ \A p \in 1 .. Len(u) : ~(u[p].kind = "load" /\ v[i].kind = "loaded" /\ u[p].by = v[i].who)
    BY <1>2 DEF Waiting
  <2> QED BY <2>1, <2>2 DEF Waiting
<1>5. d[1].kind = "loaded" =>
        /\ c[d[1].who].ship = h /\ ~c[d[1].who].loaded
        /\ \A p \in 1 .. Len(u) : u[p].kind \in {"load", "create"} => u[p].by # d[1].who
  BY <1>3 DEF Waiting, Here
<1>6. d[1].kind = "loaded" => \A i \in 1 .. Len(v) : v[i].kind \in {"loaded", "created"} => v[i].who # d[1].who
  BY <1>2, <1>3 DEF Waiting, Here
<1>7. d[1].kind = "created" => Here(c[d[1].who], h) BY <1>3 DEF Waiting
<1> QED BY <1>1, <1>4, <1>5, <1>6, <1>7 DEF v

\* What carrying out an order does to the queues.
LEMMA OrderCarriedOut ==
  ASSUME TeamsTyped, NEW h \in TeamShips, TeamOrder(h)
  PROVE  /\ up[h] \in Seq(UpMsg) /\ up[h] # <<>> /\ up'[h] = Tail(up[h]) /\ Head(up[h]) \in UpMsg
         /\ down[h] \in Seq(DownMsg)
         /\ \A k \in TeamShips : k # h => up'[k] = up[k] /\ down'[k] = down[k]
         /\ UNCHANGED <<char, orders, strayed, torn>>
         /\ \/ down' = down
            \/ \E a \in DownMsg :
                 /\ down'[h] = Append(down[h], a)
                 /\ a.kind = "loaded" =>
                      /\ Head(up[h]).kind = "load" /\ a.who = Head(up[h]).by /\ a.team = account[a.who].team
                      /\ a.team # NoTeam => a.priv = account[a.who].priv
                 /\ a.kind = "created" =>
                      Head(up[h]).kind = "create" /\ a.who = Head(up[h]).by /\ a.team = NewId
<1> DEFINE m == Head(up[h])
<1>0. up \in [TeamShips -> Seq(UpMsg)] /\ down \in [TeamShips -> Seq(DownMsg)] /\ TeamsTyped'
  BY TypedTeamOrder DEF TeamsTyped
<1>1. up[h] # <<>> /\ up' = [up EXCEPT ![h] = Tail(@)] /\ UNCHANGED <<char, orders, strayed, torn>> BY DEF TeamOrder
<1>2. m \in UpMsg BY <1>0, <1>1, TailIs
<1> HIDE DEF m
<1>3. \/ down' = down
      \/ /\ m.kind = "create"
         /\ down' = [down EXCEPT ![h] = Append(@, [kind |-> "created", who |-> m.by, team |-> NewId])]
      \/ /\ m.kind = "dissolve"
         /\ down' = [down EXCEPT ![h] = Append(@, [kind |-> "dissolved", team |-> m.team])]
      \/ /\ m.kind = "load"
         /\ down' = [down EXCEPT ![h] = Append(@, 
              [kind |-> "loaded", who |-> m.by, team |-> account[m.by].team,
               priv |-> IF account[m.by].team = NoTeam THEN Member ELSE account[m.by].priv])]
  BY DEF TeamOrder, m, CreateTeam, DissolveTeam, RemoveTeamMember, PromoteTeamMember, AddTeamMember, LoadTeam, Answer
<1>4. \A k \in TeamShips : k # h => up'[k] = up[k] /\ down'[k] = down[k] BY <1>0, <1>1, <1>3
<1>5. CASE down' = down BY <1>0, <1>1, <1>2, <1>4, <1>5 DEF m
<1>6. ASSUME NEW a, down' = [down EXCEPT ![h] = Append(@, a)],
             a.kind = "loaded" =>
                      /\ m.kind = "load" /\ a.who = m.by /\ a.team = account[a.who].team
                      /\ a.team # NoTeam => a.priv = account[a.who].priv,
             a.kind = "created" => m.kind = "create" /\ a.who = m.by /\ a.team = NewId,
             a \in DownMsg
      PROVE \E b \in DownMsg :
                 /\ down'[h] = Append(down[h], b)
                 /\ b.kind = "loaded" =>
                      /\ m.kind = "load" /\ b.who = m.by /\ b.team = account[b.who].team
                      /\ b.team # NoTeam => b.priv = account[b.who].priv
                 /\ b.kind = "created" => m.kind = "create" /\ b.who = m.by /\ b.team = NewId
  <2>1. down'[h] = Append(down[h], a) BY <1>0, <1>6
  <2> QED BY <1>6, <2>1
<1>7. CASE m.kind = "create" /\ down' = [down EXCEPT ![h] = Append(@, [kind |-> "created", who |-> m.by, team |-> NewId])]
  <2> DEFINE a == [kind |-> "created", who |-> m.by, team |-> NewId]
  <2>1. a \in DownMsg BY <1>2, <1>7, UpMsgFacts, NewTeamIs DEF DownMsg
  <2>2. a.kind = "created" /\ a.who = m.by /\ a.team = NewId OBVIOUS
  <2> HIDE DEF a
  <2>3. down' = [down EXCEPT ![h] = Append(@, a)] BY <1>7 DEF a
  <2> QED BY <1>0, <1>1, <1>2, <1>4, <1>6, <1>7, <2>1, <2>2, <2>3 DEF m
<1>8. CASE m.kind = "dissolve" /\ down' = [down EXCEPT ![h] = Append(@, [kind |-> "dissolved", team |-> m.team])]
  <2> DEFINE a == [kind |-> "dissolved", team |-> m.team]
  <2>1. a \in DownMsg BY <1>2, <1>8, UpMsgFacts DEF DownMsg
  <2>2. a.kind = "dissolved" OBVIOUS
  <2> HIDE DEF a
  <2>3. down' = [down EXCEPT ![h] = Append(@, a)] BY <1>8 DEF a
  <2> QED BY <1>0, <1>1, <1>2, <1>4, <1>6, <2>1, <2>2, <2>3 DEF m
<1>9. CASE m.kind = "load" /\ down' = [down EXCEPT ![h] = Append(@, 
              [kind |-> "loaded", who |-> m.by, team |-> account[m.by].team,
               priv |-> IF account[m.by].team = NoTeam THEN Member ELSE account[m.by].priv])]
  <2> DEFINE a == [kind |-> "loaded", who |-> m.by, team |-> account[m.by].team,
                   priv |-> IF account[m.by].team = NoTeam THEN Member ELSE account[m.by].priv]
  <2>1. a \in DownMsg
    <3>1. m.by \in Accounts BY <1>2, <1>9, UpMsgFacts
    <3>2. account[m.by].team \in Nat /\ account[m.by].priv \in Privileges BY <3>1 DEF TeamsTyped
    <3> QED BY <3>1, <3>2 DEF DownMsg, Privileges
  <2>2. /\ a.kind = "loaded" /\ a.who = m.by /\ a.team = account[m.by].team
        /\ a.team # NoTeam => a.priv = account[m.by].priv
    OBVIOUS
  <2> HIDE DEF a
  <2>3. down' = [down EXCEPT ![h] = Append(@, a)] BY <1>9 DEF a
  <2> QED BY <1>0, <1>1, <1>2, <1>4, <1>6, <1>9, <2>1, <2>2, <2>3 DEF m
<1> QED BY <1>3, <1>5, <1>7, <1>8, <1>9

\* What an answer does.
LEMMA AnswerCame ==
  ASSUME TeamsTyped, NEW h \in TeamShips, TeamAnswer(h)
  PROVE  /\ down[h] \in Seq(DownMsg) /\ down[h] # <<>> /\ down'[h] = Tail(down[h]) /\ Head(down[h]) \in DownMsg
         /\ \A k \in TeamShips : k # h => down'[k] = down[k]
         /\ UNCHANGED <<team_data, account, up, orders, strayed, torn>>
         /\ \/ Head(down[h]).kind = "created" /\ Created(h, Head(down[h]))
            \/ Head(down[h]).kind = "dissolved" /\ Dissolved(h, Head(down[h]))
            \/ Head(down[h]).kind = "loaded" /\ Loaded(h, Head(down[h]))
<1>1. down \in [TeamShips -> Seq(DownMsg)] BY DEF TeamsTyped
<1>2. down[h] # <<>> /\ down' = [down EXCEPT ![h] = Tail(@)] BY DEF TeamAnswer
<1>3. Head(down[h]) \in DownMsg BY <1>1, <1>2, TailIs
<1> QED BY <1>1, <1>2, <1>3 DEF TeamAnswer

LEMMA LoadsOKInit == TeamsInit => LoadsOK
<1> SUFFICES ASSUME TeamsInit, NEW h \in TeamShips PROVE Waiting(up[h], down[h], char, h) BY DEF LoadsOK
<1>1. up[h] = <<>> /\ down[h] = <<>> BY DEF TeamsInit
<1>2. Len(<<>>) = 0 OBVIOUS
<1> QED BY <1>1, <1>2 DEF Waiting

LEMMA LoadsOKNext == TeamsTyped /\ LoadsOK /\ [TeamsNext]_teamVars => LoadsOK'
<1> SUFFICES ASSUME TeamsTyped, LoadsOK, [TeamsNext]_teamVars PROVE LoadsOK' OBVIOUS
<1>0. /\ char \in [Accounts -> Copy]
      /\ \A h \in TeamShips : up[h] \in Seq(UpMsg) /\ down[h] \in Seq(DownMsg) /\ Waiting(up[h], down[h], char, h)
  BY DEF TeamsTyped, LoadsOK
<1>1. CASE UNCHANGED teamVars BY <1>1 DEF LoadsOK, teamVars
<1>2. ASSUME NEW h \in TeamShips, TeamOrder(h) PROVE LoadsOK'
  <2>1. /\ up[h] # <<>> /\ up'[h] = Tail(up[h])
        /\ \A k \in TeamShips : k # h => up'[k] = up[k] /\ down'[k] = down[k]
        /\ char' = char
        /\ \/ down' = down
           \/ \E a \in DownMsg :
                /\ down'[h] = Append(down[h], a)
                /\ a.kind = "loaded" => Head(up[h]).kind = "load" /\ a.who = Head(up[h]).by
                /\ a.kind = "created" => Head(up[h]).kind = "create" /\ a.who = Head(up[h]).by
    BY <1>2, OrderCarriedOut
  <2>2. Waiting(Tail(up[h]), down'[h], char, h) BY <1>0, <2>1, WaitingOrder
  <2> QED BY <1>0, <2>1, <2>2 DEF LoadsOK
<1>3. ASSUME NEW h \in TeamShips, TeamAnswer(h) PROVE LoadsOK'
  <2> DEFINE m == Head(down[h])
  <2>1. /\ down[h] # <<>> /\ down'[h] = Tail(down[h]) /\ m \in DownMsg
        /\ \A k \in TeamShips : k # h => down'[k] = down[k]
        /\ up' = up
        /\ \/ m.kind = "created" /\ Created(h, m)
           \/ m.kind = "dissolved" /\ Dissolved(h, m)
           \/ m.kind = "loaded" /\ Loaded(h, m)
    BY <1>3, AnswerCame
  <2>2. /\ Waiting(up[h], down'[h], char, h) /\ down'[h] \in Seq(DownMsg)
        /\ m.kind = "loaded" =>
              /\ char[m.who].ship = h /\ ~char[m.who].loaded
              /\ \A p \in 1 .. Len(up[h]) : up[h][p].kind \in {"load", "create"} => up[h][p].by # m.who
              /\ \A i \in 1 .. Len(down'[h]) : down'[h][i].kind \in {"loaded", "created"} => down'[h][i].who # m.who
    BY <1>0, <2>1, WaitingAnswer, TailIs
  <2> HIDE DEF m
  <2>3. \A k \in TeamShips : Waiting(up'[k], down'[k], char, k) /\ up'[k] \in Seq(UpMsg) /\ down'[k] \in Seq(DownMsg)
    BY <1>0, <2>1, <2>2
  <2>4. CASE m.kind # "loaded"
    <3>1. \A x \in Accounts : char'[x].ship = char[x].ship /\ char'[x].loaded = char[x].loaded
      <4>1. CASE m.kind = "created" /\ Created(h, m)
        <5>1. m.who \in Accounts BY <2>1, <4>1, DownMsgFacts
        <5>2. char' = char \/ char' = [char EXCEPT ![m.who].team = m.team, ![m.who].priv = Master] BY <4>1 DEF Created
        <5> QED BY <1>0, <5>1, <5>2 DEF Copy
      <4>2. CASE m.kind = "dissolved" /\ Dissolved(h, m)
        <5>1. \A x \in Accounts : char[x] \in Copy /\ (char'[x] = char[x] \/ char'[x] = Cleared(char[x]))
          BY <1>0, <4>2 DEF Dissolved
        <5> QED BY <5>1, ClearedIs
      <4> QED BY <2>1, <2>4, <4>1, <4>2
    <3>2. \A k \in TeamShips : Waiting(up'[k], down'[k], char', k) BY <2>3, <3>1, WaitingSame
    <3> QED BY <3>2 DEF LoadsOK
  <2>5. CASE m.kind = "loaded"
    <3>1. m.who \in Accounts BY <2>1, <2>5, DownMsgFacts
    <3>2. char' = [char EXCEPT ![m.who] = [@ EXCEPT !.loaded = TRUE, !.team = m.team, !.priv = m.priv]]
      BY <2>1, <2>2, <2>5 DEF Loaded
    <3>3. \A x \in Accounts : x # m.who => char'[x] = char[x] BY <1>0, <3>2
    <3>4. \A k \in TeamShips : k # h => Waiting(up'[k], down'[k], char', k)
      BY <2>2, <2>3, <2>5, <3>3, WaitingSame
    <3>5. Waiting(up'[h], down'[h], char', h)
      <4>1. /\ \A p \in 1 .. Len(up'[h]) : up'[h][p].kind \in {"load", "create"} => up'[h][p].by \in Accounts
            /\ \A i \in 1 .. Len(down'[h]) : down'[h][i].kind \in {"loaded", "created"} => down'[h][i].who \in Accounts
        BY <2>3, UpMsgFacts, DownMsgFacts
      <4>2. /\ \A p \in 1 .. Len(up'[h]) : up'[h][p].kind \in {"load", "create"} => char'[up'[h][p].by] = char[up'[h][p].by]
            /\ \A i \in 1 .. Len(down'[h]) :
                 down'[h][i].kind \in {"loaded", "created"} => char'[down'[h][i].who] = char[down'[h][i].who]
        BY <2>1, <2>2, <2>5, <3>3, <4>1
      <4>3. Waiting(up'[h], down'[h], char, h) BY <2>3
      <4>4. /\ \A p \in 1 .. Len(up'[h]) :
                 /\ up'[h][p].kind = "load" => char'[up'[h][p].by].ship = h /\ ~char'[up'[h][p].by].loaded
                 /\ up'[h][p].kind = "create" => Here(char'[up'[h][p].by], h)
            /\ \A i \in 1 .. Len(down'[h]) :
                 /\ down'[h][i].kind = "loaded" => char'[down'[h][i].who].ship = h /\ ~char'[down'[h][i].who].loaded
                 /\ down'[h][i].kind = "created" => Here(char'[down'[h][i].who], h)
        BY <4>2, <4>3 DEF Waiting
      <4> QED BY <4>3, <4>4 DEF Waiting
    <3> QED BY <3>4, <3>5 DEF LoadsOK
  <2> QED BY <2>4, <2>5
<1>4. ASSUME NEW g \in Accounts, NEW h \in TeamShips, Come(g, h) PROVE LoadsOK'
  <2> DEFINE m == [kind |-> "load", by |-> g]
  <2>1. /\ char[g].ship = NoOne /\ ~char[g].loaded
        /\ char' = [char EXCEPT ![g].ship = h] /\ up' = [up EXCEPT ![h] = Append(@, m)] /\ down' = down
    BY <1>0, <1>4 DEF Come, Copy
  <2>2. m \in UpMsg /\ m.kind = "load" /\ m.by = g BY DEF UpMsg
  <2> HIDE DEF m
  <2>3. \A x \in Accounts : x # g => char'[x] = char[x] BY <1>0, <2>1
  <2>4. char'[g].ship = h /\ ~char'[g].loaded BY <1>0, <2>1 DEF Copy
  <2>5. up'[h] = Append(up[h], m) /\ \A k \in TeamShips : k # h => up'[k] = up[k] BY <2>1 DEF TeamsTyped
  <2>6. \A k \in TeamShips : k # NoOne BY TeamsAssumption
  <2>7. \A k \in TeamShips : Waiting(up[k], down[k], char', k) BY <1>0, <2>1, <2>3, <2>6, WaitingSame
  <2>8. Waiting(up'[h], down'[h], char', h)
    <3> DEFINE u == up[h]
               v == up'[h]
               d == down[h]
    <3>1. /\ Len(u) \in Nat /\ Len(v) = Len(u) + 1 /\ v[Len(u) + 1] = m
          /\ \A k \in 1 .. Len(u) : v[k] = u[k]
      BY <1>0, <2>2, <2>5, AppendIs
    <3>2. /\ \A p \in 1 .. Len(u) : u[p].kind = "load" => u[p].by # g
          /\ \A i \in 1 .. Len(d) : d[i].kind = "loaded" => d[i].who # g
      BY <1>0, <2>1, <2>6 DEF Waiting
    <3>3. d = down'[h] BY <2>1
    <3>4. Waiting(u, d, char', h) BY <2>7
    <3> HIDE DEF u, v, d
    <3>5. \A p \in 1 .. Len(v) : (p \in 1 .. Len(u) /\ v[p] = u[p]) \/ (p = Len(u) + 1 /\ v[p] = m) BY <3>1
    <3>6. \A p \in 1 .. Len(v) : /\ v[p].kind = "load" => char'[v[p].by].ship = h /\ ~char'[v[p].by].loaded
                                 /\ v[p].kind = "create" => Here(char'[v[p].by], h)
      BY <2>2, <2>4, <3>4, <3>5 DEF Waiting
    <3>7. \A p, k \in 1 .. Len(v) : v[p].kind = "load" /\ v[k].kind = "load" /\ v[p].by = v[k].by => p = k
      BY <2>2, <3>2, <3>4, <3>5 DEF Waiting
    <3>8. \A p \in 1 .. Len(v), i \in 1 .. Len(d) : ~(v[p].kind = "load" /\ d[i].kind = "loaded" /\ v[p].by = d[i].who)
      BY <2>2, <3>2, <3>4, <3>5 DEF Waiting
    <3>9. Waiting(v, d, char', h) BY <3>4, <3>6, <3>7, <3>8 DEF Waiting
    <3> QED BY <3>3, <3>9 DEF v
  <2> QED BY <2>1, <2>5, <2>7, <2>8 DEF LoadsOK
<1>5. ASSUME NEW g \in Accounts, Go(g) PROVE LoadsOK'
  <2>1. /\ up[char[g].ship] = <<>> /\ down[char[g].ship] = <<>>
        /\ char' = [char EXCEPT ![g] = Away] /\ up' = up /\ down' = down
    BY <1>5 DEF Go
  <2>2. \A x \in Accounts : x # g => char'[x] = char[x] BY <1>0, <2>1
  <2>3. \A k \in TeamShips : k # char[g].ship => Waiting(up[k], down[k], char', k) BY <1>0, <2>2, WaitingSame
  <2>4. Len(<<>>) = 0 OBVIOUS
  <2>6. \A k : Waiting(<<>>, <<>>, char', k)
    <3>1. 1 .. 0 = {} OBVIOUS
    <3> QED BY <2>4, <3>1 DEF Waiting
  <2>5. \A k \in TeamShips : k = char[g].ship => Waiting(up[k], down[k], char', k) BY <2>1, <2>6
  <2> QED BY <2>1, <2>3, <2>5 DEF LoadsOK
<1>6. ASSUME NEW g \in Accounts, AcceptInvitation(g) PROVE LoadsOK'
  <2>1. up' = up /\ down' = down /\ char' = [char EXCEPT ![g].accept = TRUE] BY <1>6 DEF AcceptInvitation
  <2>2. \A x \in Accounts : char'[x].ship = char[x].ship /\ char'[x].loaded = char[x].loaded
    BY <1>0, <2>1 DEF Copy
  <2>3. \A k \in TeamShips : Waiting(up[k], down[k], char', k) BY <1>0, <2>2, WaitingSame
  <2> QED BY <2>1, <2>3 DEF LoadsOK
<1>7. ASSUME NEW g \in Accounts, NEW r \in Seq(UpMsg), Ordinary(g, r) PROVE LoadsOK'
  BY <1>7, LoadsOrder DEF Ordinary, Harmless
<1>8. ASSUME NEW g \in Accounts, Dissolve(g) PROVE LoadsOK'
  <2> DEFINE m == [kind |-> "dissolve", by |-> g, team |-> char[g].team]
  <2>1. m \in UpMsg /\ m.kind = "dissolve"
    <3>1. char[g].team \in TeamIds BY <1>0, <1>8 DEF Copy, TeamIds, Dissolve
    <3> QED BY <3>1 DEF UpMsg
  <2>2. Order(g, <<m>>) BY <1>8 DEF Dissolve
  <2> HIDE DEF m
  <2>3. <<m>> \in Seq(UpMsg) /\ Len(<<m>>) = 1 /\ <<m>>[1] = m BY <2>1, OneMessage
  <2>4. \A x \in Accounts : char[x] \in Copy /\ (char'[x] = char[x] \/ char'[x] = Cleared(char[x]))
    BY <1>0, <1>8 DEF Dissolve
  <2>5. \A x \in Accounts : char'[x].ship = char[x].ship /\ char'[x].loaded = char[x].loaded BY <2>4, ClearedIs
  <2>6. \A k \in 1 .. Len(<<m>>) : <<m>>[k].kind # "load" /\ (<<m>>[k].kind = "create" => <<m>>[k].by = g)
    BY <2>1, <2>3
  <2> QED BY <2>2, <2>3, <2>5, <2>6, LoadsOrdered
<1>9. ASSUME NEW g \in Accounts, NEW x \in Accounts, Promote(g, x, Master) PROVE LoadsOK'
  <2> DEFINE r == Promotion(char[g].team, g, x, Master)
  <2>1. char[g].team \in TeamIds BY <1>0, <1>9 DEF Copy, TeamIds, Promote
  <2>2. Master \in Privileges BY DEF Privileges
  <2>3. /\ r \in Seq(UpMsg) /\ Len(r) = 2
        /\ r[1] = [kind |-> "promote", team |-> char[g].team, who |-> x, priv |-> Master]
        /\ r[2] = [kind |-> "promote", team |-> char[g].team, who |-> g, priv |-> Officer]
    BY <2>1, <2>2, PromotionIs
  <2>4. Order(g, r) BY <1>9 DEF Promote
  <2> HIDE DEF r
  <2>5. \A k \in 1 .. Len(r) : r[k].kind # "load" /\ (r[k].kind = "create" => r[k].by = g) BY <2>3
  <2>6. \A y \in Accounts : char'[y].ship = char[y].ship /\ char'[y].loaded = char[y].loaded
    <3>1. char' = [y \in Accounts |->
            IF y = g THEN [char[y] EXCEPT !.priv = Demoted(Master)]
            ELSE IF y = x /\ x \in On(char[g].ship) THEN [char[y] EXCEPT !.priv = Master] ELSE char[y]]
      BY <1>9 DEF Promote
    <3>2. ASSUME NEW y \in Accounts PROVE char'[y].ship = char[y].ship /\ char'[y].loaded = char[y].loaded
      <4>1. char[y] \in Copy BY <1>0
      <4>2. \/ char'[y] = [char[y] EXCEPT !.priv = Demoted(Master)]
            \/ char'[y] = [char[y] EXCEPT !.priv = Master]
            \/ char'[y] = char[y]
        BY <3>1
      <4> QED BY <4>1, <4>2 DEF Copy
    <3> QED BY <3>2
  <2> QED BY <2>3, <2>4, <2>5, <2>6, LoadsOrdered
<1>10. ASSUME NEW h \in TeamShips, LoseLink(h) \/ NoSuchTeam(h) PROVE LoadsOK'
  <2>1. PICK hs \in SUBSET TeamShips : Lose(hs) BY <1>10 DEF LoseLink, NoSuchTeam
  <2> QED BY <2>1, LoadsLost
<1>11. ASSUME NEW h \in TeamShips, RegainLink(h) PROVE LoadsOK' BY <1>11 DEF RegainLink, LoadsOK
<1> QED BY <1>1, <1>2, <1>3, <1>4, <1>5, <1>6, <1>7, <1>8, <1>9, <1>10, <1>11, TeamsCases

----------------------------------------------------------------------------
(* Teams: to whom the orders under way leave a team                        *)

\* An order hands team t over, or ends it.
Rise(m, t) == m.kind = "promote" /\ m.team = t /\ m.priv = Master
Ends(m, t) == m.kind = "dissolve" /\ m.team = t
Turns(m, t) == Rise(m, t) \/ Ends(m, t)

Retire(t, g) == [kind |-> "promote", team |-> t, who |-> g, priv |-> Officer]

\* Who heads a team owns it, whoever its record names.
Owns(data, t, o) == t # NoTeam /\ \E i \in DOMAIN data : data[i].id = t /\ data[i].head = o

\* Team t of o is g's when the first n orders of q have been carried out.
Passed(q, n, t, o, g) ==
  \/ g = o /\ \A k \in 1 .. n : ~Rise(q[k], t)
  \/ \E p \in 1 .. n : Rise(q[p], t) /\ q[p].who = g /\ \A k \in p + 1 .. n : ~Rise(q[k], t)

\* The first n orders of q leave t to g.
LeftTo(q, data, n, t, g) ==
  /\ \A k \in 1 .. n : ~Ends(q[k], t)
  /\ \E o \in Accounts : Owns(data, t, o) /\ Passed(q, n, t, o, g)

\* Order p of q, which turns t, is g's.
TurnedBy(q, p, t, g) ==
  \/ Ends(q[p], t) /\ q[p].by = g
  \/ Rise(q[p], t) /\ p + 1 \in 1 .. Len(q) /\ q[p + 1] = Retire(t, g)

\* A team is turned only by those on the ship to whom the orders before leave it.
TurnsOK(q, data, c, h) ==
  \A p \in 1 .. Len(q), t \in TeamIds :
    Turns(q[p], t) => \E g \in Accounts : TurnedBy(q, p, t, g) /\ Here(c[g], h) /\ LeftTo(q, data, p - 1, t, g)

\* A ship's copies and the answers on their way to it say master of those to
\* whom the orders from there leave the team.
RulersOK(q, data, c, h) ==
  \A g \in Accounts, t \in TeamIds : c[g].ship = h /\ Rules(c[g], t) => LeftTo(q, data, Len(q), t, g)

AnswersOK(q, d, data) ==
  \A i \in 1 .. Len(d) :
    d[i].kind = "loaded" /\ d[i].team \in TeamIds /\ d[i].priv = Master =>
      LeftTo(q, data, Len(q), d[i].team, d[i].who)

\* A team whose owner has not been told yet is in nobody else's hands.
Untouched(t, who, data, ups, downs, c, h, i) ==
  /\ Owns(data, t, who)
  /\ \A k \in TeamShips : \A p \in 1 .. Len(ups[k]) : ~Turns(ups[k][p], t)
  /\ \A g \in Accounts : ~Rules(c[g], t)
  /\ \A k \in TeamShips : \A j \in 1 .. Len(downs[k]) :
       /\ ~(downs[k][j].kind = "loaded" /\ downs[k][j].team = t /\ downs[k][j].priv = Master)
       /\ downs[k][j].kind = "created" /\ downs[k][j].team = t => k = h /\ j = i

MadeOK ==
  \A h \in TeamShips : \A i \in 1 .. Len(down[h]) :
    down[h][i].kind = "created" =>
      Untouched(down[h][i].team, down[h][i].who, team_data, up, down, char, h, i)

\* The master of a team owns it, or its retirement is the next order of its ship.
AccountsOK ==
  \A g \in Accounts : account[g].team # NoTeam /\ account[g].priv = Master =>
    \E o \in Accounts :
      /\ Owns(team_data, account[g].team, o)
      /\ \/ o = g
         \/ \E k \in TeamShips :
              up[k] # <<>> /\ Head(up[k]) = Retire(account[g].team, g) /\ char[g].ship = k

HandOvers ==
  /\ \A k \in TeamShips : /\ TurnsOK(up[k], team_data, char, k)
                          /\ RulersOK(up[k], team_data, char, k)
                          /\ AnswersOK(up[k], down[k], team_data)
  /\ MadeOK /\ AccountsOK

LEMMA OwnsOne ==
  ASSUME NEW data, Distinctly(data), NEW t, NEW o, NEW w, Owns(data, t, o), Owns(data, t, w)
  PROVE  o = w
BY DEF Owns, Distinctly

\* A team is left to one account.
LEMMA LeftOne ==
  ASSUME NEW q, NEW data, Distinctly(data), NEW n \in Nat, NEW t, NEW g, NEW x,
         LeftTo(q, data, n, t, g), LeftTo(q, data, n, t, x)
  PROVE  g = x
<1>1. PICK o \in Accounts : Owns(data, t, o) /\ Passed(q, n, t, o, g) BY DEF LeftTo
<1>2. PICK w \in Accounts : Owns(data, t, w) /\ Passed(q, n, t, w, x) BY DEF LeftTo
<1>3. o = w BY <1>1, <1>2, OwnsOne
<1>4. CASE \A k \in 1 .. n : ~Rise(q[k], t) BY <1>1, <1>2, <1>3, <1>4 DEF Passed
<1>5. CASE ~\A k \in 1 .. n : ~Rise(q[k], t)
  <2>1. PICK p \in 1 .. n : Rise(q[p], t) /\ q[p].who = g /\ \A k \in p + 1 .. n : ~Rise(q[k], t)
    BY <1>1, <1>5 DEF Passed
  <2>2. PICK r \in 1 .. n : Rise(q[r], t) /\ q[r].who = x /\ \A k \in r + 1 .. n : ~Rise(q[k], t)
    BY <1>2, <1>5 DEF Passed
  <2>3. p = r
    <3>1. ~(p < r) /\ ~(r < p) BY <2>1, <2>2
    <3> QED BY <3>1
  <2> QED BY <2>1, <2>2, <2>3
<1> QED BY <1>4, <1>5

\* It is the same by other queues that begin so, and other records of the same owner.
LEMMA LeftSame ==
  ASSUME NEW q, NEW u, NEW data, NEW e, NEW n \in Nat, NEW t, NEW g, LeftTo(q, data, n, t, g),
         \A k \in 1 .. n : u[k] = q[k], \A o \in Accounts : Owns(data, t, o) => Owns(e, t, o)
  PROVE  LeftTo(u, e, n, t, g)
<1>1. PICK o \in Accounts : Owns(data, t, o) /\ Passed(q, n, t, o, g) BY DEF LeftTo
<1>2. Passed(u, n, t, o, g)
  <2>1. CASE g = o /\ \A k \in 1 .. n : ~Rise(q[k], t) BY <2>1 DEF Passed
  <2>2. CASE \E p \in 1 .. n : Rise(q[p], t) /\ q[p].who = g /\ \A k \in p + 1 .. n : ~Rise(q[k], t)
    <3>1. PICK p \in 1 .. n : Rise(q[p], t) /\ q[p].who = g /\ \A k \in p + 1 .. n : ~Rise(q[k], t) BY <2>2
    <3>2. \A k \in p + 1 .. n : k \in 1 .. n BY <3>1
    <3>3. u[p] = q[p] /\ \A k \in p + 1 .. n : ~Rise(u[k], t) BY <3>1, <3>2
    <3> QED BY <3>1, <3>3 DEF Passed
  <2> QED BY <1>1, <2>1, <2>2 DEF Passed
<1>3. \A k \in 1 .. n : ~Ends(u[k], t) BY DEF LeftTo
<1> QED BY <1>1, <1>2, <1>3 DEF LeftTo

\* Orders that do not turn it leave it to whom they find it with.
LEMMA LeftOn ==
  ASSUME NEW q, NEW data, NEW n \in Nat, NEW m \in Nat, n <= m, NEW t, NEW g, LeftTo(q, data, n, t, g),
         \A k \in n + 1 .. m : ~Turns(q[k], t)
  PROVE  LeftTo(q, data, m, t, g)
<1>1. PICK o \in Accounts : Owns(data, t, o) /\ Passed(q, n, t, o, g) BY DEF LeftTo
<1>2. \A k \in 1 .. m : k \in 1 .. n \/ k \in n + 1 .. m OBVIOUS
<1>3. \A k \in 1 .. m : ~Ends(q[k], t) BY <1>2 DEF LeftTo, Turns
<1>4. Passed(q, m, t, o, g)
  <2>1. CASE g = o /\ \A k \in 1 .. n : ~Rise(q[k], t) BY <1>2, <2>1 DEF Passed, Turns
  <2>2. CASE \E p \in 1 .. n : Rise(q[p], t) /\ q[p].who = g /\ \A k \in p + 1 .. n : ~Rise(q[k], t)
    <3>1. PICK p \in 1 .. n : Rise(q[p], t) /\ q[p].who = g /\ \A k \in p + 1 .. n : ~Rise(q[k], t) BY <2>2
    <3>2. p \in 1 .. m /\ \A k \in p + 1 .. m : k \in p + 1 .. n \/ k \in n + 1 .. m BY <3>1
    <3>3. \A k \in p + 1 .. m : ~Rise(q[k], t) BY <3>1, <3>2 DEF Turns
    <3> QED BY <3>1, <3>2, <3>3 DEF Passed
  <2> QED BY <1>1, <2>1, <2>2 DEF Passed
<1> QED BY <1>1, <1>3, <1>4 DEF LeftTo

\* A handover leaves it to whom it names.
LEMMA LeftRise ==
  ASSUME NEW q, NEW data, NEW n \in Nat, NEW t, NEW g, LeftTo(q, data, n, t, g), Rise(q[n + 1], t)
  PROVE  LeftTo(q, data, n + 1, t, q[n + 1].who)
<1>1. PICK o \in Accounts : Owns(data, t, o) BY DEF LeftTo
<1>2. n + 1 \in 1 .. n + 1 /\ \A k \in n + 1 + 1 .. n + 1 : FALSE OBVIOUS
<1>3. Passed(q, n + 1, t, o, q[n + 1].who) BY <1>2 DEF Passed
<1>4. \A k \in 1 .. n + 1 : k \in 1 .. n \/ k = n + 1 OBVIOUS
<1>5. \A k \in 1 .. n + 1 : ~Ends(q[k], t) BY <1>4 DEF LeftTo, Rise, Ends
<1> QED BY <1>1, <1>3, <1>5 DEF LeftTo

\* The first order is carried out: the owner is who it names, if it hands over.
LEMMA LeftTail ==
  ASSUME NEW q, NEW v, NEW data, NEW e, NEW n \in Nat \ {0}, NEW t, NEW g, LeftTo(q, data, n, t, g),
         \A k \in 1 .. n - 1 : v[k] = q[k + 1],
         Rise(q[1], t) => q[1].who \in Accounts,
         \A o \in Accounts : Owns(data, t, o) => Owns(e, t, IF Rise(q[1], t) THEN q[1].who ELSE o)
  PROVE  LeftTo(v, e, n - 1, t, g)
<1>1. PICK o \in Accounts : Owns(data, t, o) /\ Passed(q, n, t, o, g) BY DEF LeftTo
<1>2. \A k \in 1 .. n - 1 : k + 1 \in 1 .. n OBVIOUS
<1>3. \A k \in 1 .. n - 1 : ~Ends(v[k], t) BY <1>2 DEF LeftTo
<1> DEFINE w == IF Rise(q[1], t) THEN q[1].who ELSE o
<1>4. w \in Accounts /\ Owns(e, t, w) BY <1>1
<1>5. 1 \in 1 .. n OBVIOUS
<1>6. Passed(v, n - 1, t, w, g)
  <2>1. CASE \A k \in 1 .. n : ~Rise(q[k], t)
    <3>1. g = o /\ w = o BY <1>1, <1>5, <2>1 DEF Passed
    <3>2. \A k \in 1 .. n - 1 : ~Rise(v[k], t) BY <1>2, <2>1
    <3> QED BY <3>1, <3>2 DEF Passed
  <2>2. CASE ~\A k \in 1 .. n : ~Rise(q[k], t)
    <3>1. PICK p \in 1 .. n : Rise(q[p], t) /\ q[p].who = g /\ \A k \in p + 1 .. n : ~Rise(q[k], t)
      BY <1>1, <2>2 DEF Passed
    <3>2. CASE p = 1
      <4>1. w = g BY <3>1, <3>2
      <4>2. \A k \in 1 .. n - 1 : k + 1 \in p + 1 .. n BY <3>2
      <4>3. \A k \in 1 .. n - 1 : ~Rise(v[k], t) BY <3>1, <4>2
      <4> QED BY <4>1, <4>3 DEF Passed
    <3>3. CASE p # 1
      <4>1. p - 1 \in 1 .. n - 1 /\ p - 1 + 1 = p BY <3>1, <3>3
      <4>2. v[p - 1] = q[p] BY <4>1
      <4>3. \A k \in p - 1 + 1 .. n - 1 : k \in 1 .. n - 1 /\ k + 1 \in p + 1 .. n BY <4>1
      <4>4. \A k \in p - 1 + 1 .. n - 1 : ~Rise(v[k], t) BY <3>1, <4>3
      <4> QED BY <3>1, <4>1, <4>2, <4>4 DEF Passed
    <3> QED BY <3>2, <3>3
  <2> QED BY <2>1, <2>2
<1> QED BY <1>3, <1>4, <1>6 DEF LeftTo

\* When no order turns it, it is its owner's.
LEMMA LeftUnturned ==
  ASSUME NEW q, NEW data, NEW n \in Nat, NEW t, NEW g, \A k \in 1 .. n : ~Rise(q[k], t)
  PROVE  /\ LeftTo(q, data, n, t, g) => g \in Accounts /\ Owns(data, t, g)
         /\ g \in Accounts /\ Owns(data, t, g) /\ (\A k \in 1 .. n : ~Ends(q[k], t)) => LeftTo(q, data, n, t, g)
BY DEF LeftTo, Passed

\* Who first turns a team owns it, and so whoever a team is left to shares the ship with its owner.
LEMMA FirstTurn ==
  ASSUME NEW q, NEW data, NEW c, NEW h, TurnsOK(q, data, c, h), Len(q) \in Nat,
         NEW n \in 0 .. Len(q), NEW t \in TeamIds, \E k \in 1 .. n : Turns(q[k], t)
  PROVE  \E o \in Accounts : Owns(data, t, o) /\ Here(c[o], h)
<1> DEFINE S == {k \in 1 .. n : Turns(q[k], t)}
           p == Min(S)
<1>1. S \in SUBSET Nat /\ S # {} OBVIOUS
<1>2. p \in S /\ \A k \in S : p <= k BY <1>1, MinIs
<1>3. p \in 1 .. Len(q) /\ Turns(q[p], t) BY <1>2
<1>4. PICK g \in Accounts : Here(c[g], h) /\ LeftTo(q, data, p - 1, t, g) BY <1>3 DEF TurnsOK
<1>5. \A k \in 1 .. p - 1 : ~Turns(q[k], t)
  <2>1. \A k \in 1 .. p - 1 : k \in 1 .. n /\ ~(p <= k) BY <1>2
  <2>2. \A k \in 1 .. p - 1 : k \notin S BY <1>2, <2>1
  <2> QED BY <2>1, <2>2
<1>6. p - 1 \in Nat BY <1>3
<1>7. \A k \in 1 .. p - 1 : ~Rise(q[k], t) BY <1>5 DEF Turns
<1> HIDE DEF p, S
<1>8. Owns(data, t, g) BY <1>4, <1>6, <1>7, LeftUnturned
<1> QED BY <1>4, <1>8

LEMMA OwnerThere ==
  ASSUME NEW q, NEW data, NEW c, NEW h, TurnsOK(q, data, c, h), Len(q) \in Nat,
         NEW n \in 0 .. Len(q), NEW t \in TeamIds, NEW g, LeftTo(q, data, n, t, g), c[g].ship = h
  PROVE  \E o \in Accounts : Owns(data, t, o) /\ c[o].ship = h
<1>1. CASE \A k \in 1 .. n : ~Rise(q[k], t) BY <1>1, LeftUnturned
<1>2. CASE ~\A k \in 1 .. n : ~Rise(q[k], t)
  <2>1. \E k \in 1 .. n : Turns(q[k], t) BY <1>2 DEF Turns
  <2> QED BY <2>1, FirstTurn DEF Here
<1> QED BY <1>1, <1>2

----------------------------------------------------------------------------
(* Teams: what the clients do                                              *)

\* v is u and perhaps more.
Continues(u, v) ==
  /\ Len(u) \in Nat /\ Len(v) \in Nat /\ Len(u) <= Len(v)
  /\ \A p \in 1 .. Len(u) : v[p] = u[p]

\* What v has more than u turns no team t.
Quietly(u, v, t) == \A p \in Len(u) + 1 .. Len(v) : ~Turns(v[p], t)

LEMMA ContinuesHead ==
  ASSUME NEW u \in Seq(UpMsg), NEW v \in Seq(UpMsg), Continues(u, v), u # <<>>
  PROVE  v # <<>> /\ Head(v) = Head(u)
<1>1. Len(u) \in Nat \ {0} /\ Head(u) = u[1] BY TailIs
<1>2. Len(v) # 0 /\ v[1] = u[1] BY <1>1 DEF Continues
<1>3. v # <<>> BY <1>2
<1>4. Head(v) = v[1] BY <1>3, TailIs
<1> QED BY <1>1, <1>2, <1>3, <1>4

\* To whom a queue leaves a team, the longer one does, if what is new does not turn it.
LEMMA LeftLonger ==
  ASSUME NEW u, NEW v, NEW data, NEW t, NEW g, Continues(u, v), Quietly(u, v, t), LeftTo(u, data, Len(u), t, g)
  PROVE  LeftTo(v, data, Len(v), t, g)
<1>1. Len(u) \in Nat /\ Len(v) \in Nat /\ Len(u) <= Len(v) /\ \A p \in 1 .. Len(u) : v[p] = u[p] BY DEF Continues
<1>2. LeftTo(v, data, Len(u), t, g) BY <1>1, LeftSame
<1>3. \A k \in Len(u) + 1 .. Len(v) : ~Turns(v[k], t) BY DEF Quietly
<1> QED BY <1>1, <1>2, <1>3, LeftOn

\* The turnings of the orders there were.
LEMMA TurnsBefore ==
  ASSUME NEW u, NEW v, NEW data, NEW c, NEW e, NEW h, Continues(u, v), TurnsOK(u, data, c, h),
         \A x \in Accounts : u # <<>> /\ Here(c[x], h) => Here(e[x], h),
         NEW p \in 1 .. Len(u), NEW t \in TeamIds, Turns(v[p], t)
  PROVE  \E g \in Accounts : TurnedBy(v, p, t, g) /\ Here(e[g], h) /\ LeftTo(v, data, p - 1, t, g)
<1>1. Len(u) \in Nat /\ Len(v) \in Nat /\ Len(u) <= Len(v) /\ \A k \in 1 .. Len(u) : v[k] = u[k] BY DEF Continues
<1>2. Turns(u[p], t) BY <1>1
<1>3. PICK g \in Accounts : TurnedBy(u, p, t, g) /\ Here(c[g], h) /\ LeftTo(u, data, p - 1, t, g)
  BY <1>2 DEF TurnsOK
<1>4. u # <<>> BY <1>1
<1>5. p - 1 \in Nat /\ \A k \in 1 .. p - 1 : v[k] = u[k] BY <1>1
<1>6. LeftTo(v, data, p - 1, t, g) BY <1>3, <1>5, LeftSame
<1>7. TurnedBy(v, p, t, g)
  <2>1. CASE Ends(u[p], t) /\ u[p].by = g BY <1>1, <2>1 DEF TurnedBy
  <2>2. CASE Rise(u[p], t) /\ p + 1 \in 1 .. Len(u) /\ u[p + 1] = Retire(t, g)
    <3>1. p + 1 \in 1 .. Len(v) /\ v[p + 1] = u[p + 1] BY <1>1, <2>2
    <3> QED BY <1>1, <2>2, <3>1 DEF TurnedBy
  <2> QED BY <1>3, <2>1, <2>2 DEF TurnedBy
<1> QED BY <1>3, <1>4, <1>6, <1>7

\* The masters of the login server, when the owners are the same and nothing
\* is taken from a queue.
LEMMA AccountsLonger ==
  ASSUME TeamsTyped, TeamsTyped', AccountsOK, UNCHANGED <<team_data, account>>,
         \A k \in TeamShips : Continues(up[k], up'[k]),
         \A x \in Accounts, k \in TeamShips : up[k] # <<>> /\ char[x].ship = k => char'[x].ship = k
  PROVE  AccountsOK'
<1>1. SUFFICES ASSUME NEW g \in Accounts, account'[g].team # NoTeam, account'[g].priv = Master
               PROVE  \E o \in Accounts :
                        /\ Owns(team_data', account'[g].team, o)
                        /\ \/ o = g
                           \/ \E k \in TeamShips : /\ up'[k] # <<>> /\ Head(up'[k]) = Retire(account'[g].team, g)
                                                   /\ char'[g].ship = k
  BY DEF AccountsOK
<1>2. PICK o \in Accounts :
        /\ Owns(team_data, account[g].team, o)
        /\ \/ o = g
           \/ \E k \in TeamShips : up[k] # <<>> /\ Head(up[k]) = Retire(account[g].team, g) /\ char[g].ship = k
  BY <1>1 DEF AccountsOK
<1>3. ASSUME NEW k \in TeamShips, up[k] # <<>> PROVE up'[k] # <<>> /\ Head(up'[k]) = Head(up[k])
  <2>1. up[k] \in Seq(UpMsg) /\ up'[k] \in Seq(UpMsg) BY DEF TeamsTyped
  <2> QED BY <1>3, <2>1, ContinuesHead
<1>4. team_data' = team_data /\ account' = account OBVIOUS
<1> QED BY <1>2, <1>3, <1>4

\* A step of a client that turns no team.
LEMMA QuietStep ==
  ASSUME TeamsTyped, TeamsTyped', HandOvers, UNCHANGED <<team_data, account, down>>,
         \A k \in TeamShips : Continues(up[k], up'[k]) /\ \A t \in TeamIds : Quietly(up[k], up'[k], t),
         \A x \in Accounts, k \in TeamShips :
           up[k] # <<>> /\ char[x].ship = k => char'[x].ship = k /\ (char[x].loaded => char'[x].loaded),
         \A x \in Accounts, t \in TeamIds :
           Rules(char'[x], t) => Rules(char[x], t) /\ char'[x].ship = char[x].ship
  PROVE  HandOvers'
<1>0. team_data' = team_data /\ account' = account /\ down' = down OBVIOUS
<1>1. ASSUME NEW k \in TeamShips PROVE TurnsOK(up'[k], team_data', char', k)
  <2>1. SUFFICES ASSUME NEW p \in 1 .. Len(up'[k]), NEW t \in TeamIds, Turns(up'[k][p], t)
                 PROVE  \E g \in Accounts : /\ TurnedBy(up'[k], p, t, g) /\ Here(char'[g], k)
                                            /\ LeftTo(up'[k], team_data, p - 1, t, g)
    BY <1>0 DEF TurnsOK
  <2>2. p \in 1 .. Len(up[k])
    <3>1. Len(up[k]) \in Nat /\ Len(up'[k]) \in Nat BY DEF Continues
    <3>2. p \in 1 .. Len(up[k]) \/ p \in Len(up[k]) + 1 .. Len(up'[k]) BY <3>1
    <3> QED BY <2>1, <3>2 DEF Quietly
  <2>3. TurnsOK(up[k], team_data, char, k) BY DEF HandOvers
  <2>4. \A x \in Accounts : up[k] # <<>> /\ Here(char[x], k) => Here(char'[x], k) BY DEF Here
  <2> QED BY <2>1, <2>2, <2>3, <2>4, TurnsBefore
<1>2. ASSUME NEW k \in TeamShips PROVE RulersOK(up'[k], team_data', char', k)
  <2>1. SUFFICES ASSUME NEW g \in Accounts, NEW t \in TeamIds, char'[g].ship = k, Rules(char'[g], t)
                 PROVE  LeftTo(up'[k], team_data, Len(up'[k]), t, g)
    BY <1>0 DEF RulersOK
  <2>2. LeftTo(up[k], team_data, Len(up[k]), t, g) BY <2>1 DEF HandOvers, RulersOK
  <2> QED BY <2>2, LeftLonger
<1>3. ASSUME NEW k \in TeamShips PROVE AnswersOK(up'[k], down'[k], team_data')
  <2>1. \A i \in 1 .. Len(down[k]) :
          down[k][i].kind = "loaded" /\ down[k][i].team \in TeamIds /\ down[k][i].priv = Master =>
            LeftTo(up[k], team_data, Len(up[k]), down[k][i].team, down[k][i].who)
    BY DEF HandOvers, AnswersOK
  <2> QED BY <1>0, <2>1, LeftLonger DEF AnswersOK
<1>4. MadeOK'
  <2>1. SUFFICES ASSUME NEW h \in TeamShips, NEW i \in 1 .. Len(down[h]), down[h][i].kind = "created"
                 PROVE  Untouched(down[h][i].team, down[h][i].who, team_data, up', down, char', h, i)
    BY <1>0 DEF MadeOK
  <2> DEFINE t == down[h][i].team
             who == down[h][i].who
  <2>2. Untouched(t, who, team_data, up, down, char, h, i) BY <2>1 DEF HandOvers, MadeOK
  <2>3. t \in TeamIds
    <3>1. down[h] \in Seq(DownMsg) BY DEF TeamsTyped
    <3>2. down[h][i] \in DownMsg BY <3>1
    <3> QED BY <2>1, <3>2, DownMsgFacts
  <2> HIDE DEF t, who
  <2>4. \A k \in TeamShips : \A p \in 1 .. Len(up'[k]) : ~Turns(up'[k][p], t)
    <3>1. TAKE k \in TeamShips
    <3>2. TAKE p \in 1 .. Len(up'[k])
    <3>3. Continues(up[k], up'[k]) /\ Quietly(up[k], up'[k], t) BY <2>3
    <3>4. p \in 1 .. Len(up[k]) \/ p \in Len(up[k]) + 1 .. Len(up'[k]) BY <3>3 DEF Continues
    <3> QED BY <2>2, <3>3, <3>4 DEF Untouched, Quietly, Continues
  <2>5. \A g \in Accounts : ~Rules(char'[g], t) BY <2>2, <2>3 DEF Untouched
  <2>6. Untouched(t, who, team_data, up', down, char', h, i) BY <2>2, <2>4, <2>5 DEF Untouched
  <2> QED BY <2>6 DEF t, who
<1>5. AccountsOK' BY AccountsLonger DEF HandOvers
<1> QED BY <1>1, <1>2, <1>3, <1>4, <1>5 DEF HandOvers

\* g, its master, hands t over or dissolves it.
LEMMA TurnStep ==
  ASSUME TeamsTyped, TeamsTyped', LoadsOK, HandOvers, NEW g \in Accounts, NEW r \in Seq(UpMsg), Says(g, r),
         NEW t0 \in TeamIds, Rules(char[g], t0),
         1 \in 1 .. Len(r),
         \/ Ends(r[1], t0) /\ r[1].by = g
         \/ Rise(r[1], t0) /\ 2 \in 1 .. Len(r) /\ r[2] = Retire(t0, g),
         \A t \in TeamIds : Turns(r[1], t) => t = t0,
         \A k \in 1 .. Len(r), t \in TeamIds : Turns(r[k], t) => k = 1,
         \A x \in Accounts : char'[x].ship = char[x].ship /\ char'[x].loaded = char[x].loaded,
         \A x \in Accounts, t \in TeamIds : Rules(char'[x], t) =>
           \/ x # g /\ Rules(char[x], t)
           \/ t = t0 /\ Rise(r[1], t0) /\ Len(r) = 2 /\ x = r[1].who /\ char[x].ship = char[g].ship
  PROVE  HandOvers'
<1> DEFINE s == char[g].ship
<1>0. team_data' = team_data /\ account' = account /\ down' = down BY Extended
<1>1. /\ s \in TeamShips /\ Here(char[g], s) /\ Len(r) \in Nat
      /\ \A h \in TeamShips : Len(up[h]) \in Nat /\ up[h] \in Seq(UpMsg) /\ up'[h] \in Seq(UpMsg)
      /\ Len(up'[s]) = Len(up[s]) + Len(r)
      /\ \A k \in 1 .. Len(r) : up'[s][Len(up[s]) + k] = r[k]
      /\ \A h \in TeamShips : h # s => up'[h] = up[h]
  BY Extended DEF TeamsTyped
<1>2. \A h \in TeamShips : Continues(up[h], up'[h])
  <2>1. \A h \in TeamShips : Len(up'[h]) \in Nat /\ \A p \in 1 .. Len(up[h]) : up'[h][p] = up[h][p]
    BY <1>1, Extended
  <2>2. ASSUME NEW h \in TeamShips PROVE Len(up[h]) <= Len(up'[h])
    <3>1. CASE h = s BY <1>1, <3>1
    <3>2. CASE h # s
      <4>1. Len(up'[h]) = Len(up[h]) /\ Len(up[h]) \in Nat BY <1>1, <3>2
      <4> QED BY <4>1
    <3> QED BY <3>1, <3>2
  <2> QED BY <1>1, <2>1, <2>2 DEF Continues
<1>2b. char[g].loaded /\ \A x \in Accounts, h \in TeamShips : Here(char[x], h) => Here(char'[x], h)
  BY <1>1 DEF Here
<1> DEFINE n == Len(up[s])
<1>3. n \in Nat /\ \A p \in n + 1 .. Len(up'[s]) : p - n \in 1 .. Len(r) /\ up'[s][p] = r[p - n]
  <2>1. \A p \in n + 1 .. Len(up'[s]) : p - n \in 1 .. Len(r) /\ n + (p - n) = p BY <1>1
  <2> QED BY <1>1, <2>1
<1>4. \A h \in TeamShips, t \in TeamIds : h # s \/ t # t0 => Quietly(up[h], up'[h], t)
  <2>1. TAKE h \in TeamShips, t \in TeamIds
  <2>2. CASE h # s
    <3>1. Len(up'[h]) = Len(up[h]) /\ Len(up[h]) \in Nat BY <1>1, <2>2
    <3> QED BY <3>1 DEF Quietly
  <2>3. CASE h = s /\ t # t0
    <3>1. \A p \in n + 1 .. Len(up'[s]) : ~Turns(up'[s][p], t) BY <1>3, <2>3
    <3> QED BY <2>3, <3>1 DEF Quietly
  <2> QED BY <2>2, <2>3
<1>5. LeftTo(up[s], team_data, n, t0, g) BY <1>1 DEF HandOvers, RulersOK
<1>6. LeftTo(up'[s], team_data, n, t0, g)
  <2>1. \A k \in 1 .. n : up'[s][k] = up[s][k] BY <1>1, <1>2 DEF Continues
  <2> HIDE DEF s, n
  <2> QED BY <1>3, <1>5, <2>1, LeftSame
<1>7. TurnedBy(up'[s], n + 1, t0, g)
  <2>1. up'[s][n + 1] = r[1] BY <1>1
  <2>2. 2 \in 1 .. Len(r) => n + 1 + 1 \in 1 .. Len(up'[s]) /\ up'[s][n + 1 + 1] = r[2]
    <3>1. n + 1 + 1 = n + 2 BY <1>1
    <3> QED BY <1>1, <3>1
  <2> QED BY <2>1, <2>2 DEF TurnedBy
<1> HIDE DEF s, n
<1>8. ASSUME NEW k \in TeamShips PROVE TurnsOK(up'[k], team_data', char', k)
  <2>1. SUFFICES ASSUME NEW p \in 1 .. Len(up'[k]), NEW t \in TeamIds, Turns(up'[k][p], t)
                 PROVE  \E x \in Accounts : /\ TurnedBy(up'[k], p, t, x) /\ Here(char'[x], k)
                                            /\ LeftTo(up'[k], team_data, p - 1, t, x)
    BY <1>0 DEF TurnsOK
  <2>2. CASE p \in 1 .. Len(up[k])
    <3>1. TurnsOK(up[k], team_data, char, k) BY DEF HandOvers
    <3> QED BY <1>2, <1>2b, <2>1, <2>2, <3>1, TurnsBefore
  <2>3. CASE p \notin 1 .. Len(up[k])
    <3>1. p \in Len(up[k]) + 1 .. Len(up'[k]) BY <1>1, <1>2, <2>3 DEF Continues
    <3>2. k = s /\ t = t0 BY <1>4, <2>1, <3>1 DEF Quietly
    <3>3. p = n + 1
      <4>1. p - n \in 1 .. Len(r) /\ Turns(r[p - n], t0) BY <1>3, <2>1, <3>1, <3>2 DEF n
      <4>2. p - n = 1 BY <4>1
      <4> QED BY <1>3, <4>2
    <3>4. p - 1 = n BY <1>3, <3>3
    <3>5. Here(char'[g], s) BY <1>1, <1>2b
    <3> QED BY <1>6, <1>7, <3>2, <3>3, <3>4, <3>5
  <2> QED BY <2>2, <2>3
<1>9. \A x \in Accounts : LeftTo(up[s], team_data, n, t0, x) => x = g
  BY <1>3, <1>5, LeftOne DEF TeamsTyped
<1>10. ASSUME NEW k \in TeamShips PROVE RulersOK(up'[k], team_data', char', k)
  <2>1. SUFFICES ASSUME NEW x \in Accounts, NEW t \in TeamIds, char'[x].ship = k, Rules(char'[x], t)
                 PROVE  LeftTo(up'[k], team_data, Len(up'[k]), t, x)
    BY <1>0 DEF RulersOK
  <2>2. CASE x # g /\ Rules(char[x], t)
    <3>1. LeftTo(up[k], team_data, Len(up[k]), t, x) BY <2>1, <2>2 DEF HandOvers, RulersOK
    <3>2. k # s \/ t # t0 BY <1>9, <2>2, <3>1 DEF n
    <3> QED BY <1>2, <1>4, <3>1, <3>2, LeftLonger
  <2>3. CASE t = t0 /\ Rise(r[1], t0) /\ Len(r) = 2 /\ x = r[1].who /\ char[x].ship = s
    <3>1. k = s BY <2>1, <2>3
    <3>2. up'[s][n + 1] = r[1] BY <1>1 DEF n
    <3>3. LeftTo(up'[s], team_data, n + 1, t0, x) BY <1>3, <1>6, <2>3, <3>2, LeftRise
    <3>4. n + 1 \in Nat /\ Len(up'[s]) = n + 2 /\ n + 1 <= n + 2 BY <1>1, <1>3, <2>3 DEF n
    <3>5. ASSUME NEW i \in n + 1 + 1 .. n + 2 PROVE ~Turns(up'[s][i], t0)
      <4>1. i \in n + 1 .. Len(up'[s]) /\ i - n = 2 BY <1>3, <3>4
      <4>2. up'[s][i] = r[2] /\ 2 \in 1 .. Len(r) BY <1>3, <4>1
      <4> QED BY <4>2
    <3>6. n + 2 \in Nat BY <1>3
    <3>7. LeftTo(up'[s], team_data, n + 2, t0, x) BY <3>3, <3>4, <3>5, <3>6, LeftOn
    <3> QED BY <2>3, <3>1, <3>4, <3>7
  <2> QED BY <2>1, <2>2, <2>3 DEF s
<1>11. ASSUME NEW k \in TeamShips PROVE AnswersOK(up'[k], down'[k], team_data')
  <2>1. SUFFICES ASSUME NEW i \in 1 .. Len(down[k]), down[k][i].kind = "loaded", down[k][i].team \in TeamIds,
                        down[k][i].priv = Master
                 PROVE  LeftTo(up'[k], team_data, Len(up'[k]), down[k][i].team, down[k][i].who)
    BY <1>0 DEF AnswersOK
  <2>2. LeftTo(up[k], team_data, Len(up[k]), down[k][i].team, down[k][i].who) BY <2>1 DEF HandOvers, AnswersOK
  <2>3. ~char[down[k][i].who].loaded BY <2>1 DEF LoadsOK, Waiting
  <2>4. down[k][i].who \in Accounts
    <3>1. down[k] \in Seq(DownMsg) BY DEF TeamsTyped
    <3>2. down[k][i] \in DownMsg BY <3>1
    <3> QED BY <2>1, <3>2, DownMsgFacts
  <2>5. k # s \/ down[k][i].team # t0 BY <1>2b, <1>9, <2>2, <2>3, <2>4 DEF n
  <2> QED BY <1>2, <1>4, <2>1, <2>2, <2>5, LeftLonger
<1>12. MadeOK'
  <2>1. SUFFICES ASSUME NEW h \in TeamShips, NEW i \in 1 .. Len(down[h]), down[h][i].kind = "created"
                 PROVE  Untouched(down[h][i].team, down[h][i].who, team_data, up', down, char', h, i)
    BY <1>0 DEF MadeOK
  <2> DEFINE t == down[h][i].team
             who == down[h][i].who
  <2>2. Untouched(t, who, team_data, up, down, char, h, i) BY <2>1 DEF HandOvers, MadeOK
  <2>3. t \in TeamIds
    <3>1. down[h] \in Seq(DownMsg) BY DEF TeamsTyped
    <3>2. down[h][i] \in DownMsg BY <3>1
    <3> QED BY <2>1, <3>2, DownMsgFacts
  <2> HIDE DEF t, who
  <2>4. t # t0 BY <2>2 DEF Untouched
  <2>5. \A k \in TeamShips : \A p \in 1 .. Len(up'[k]) : ~Turns(up'[k][p], t)
    <3>1. TAKE k \in TeamShips
    <3>2. TAKE p \in 1 .. Len(up'[k])
    <3>3. Continues(up[k], up'[k]) /\ Quietly(up[k], up'[k], t) BY <1>2, <1>4, <2>3, <2>4
    <3>4. p \in 1 .. Len(up[k]) \/ p \in Len(up[k]) + 1 .. Len(up'[k]) BY <3>3 DEF Continues
    <3> QED BY <2>2, <3>3, <3>4 DEF Untouched, Quietly, Continues
  <2>6. \A x \in Accounts : ~Rules(char'[x], t) BY <2>2, <2>3, <2>4 DEF Untouched
  <2>7. Untouched(t, who, team_data, up', down, char', h, i) BY <2>2, <2>5, <2>6 DEF Untouched
  <2> QED BY <2>7 DEF t, who
<1>13. AccountsOK' BY <1>0, <1>2, AccountsLonger DEF HandOvers
<1> QED BY <1>8, <1>10, <1>11, <1>12, <1>13 DEF HandOvers

\* Nobody says anything, and those who stay are as they were but for what has
\* to do with no team.
LEMMA HandOversSilent ==
  ASSUME TeamsTyped, TeamsTyped', HandOvers, UNCHANGED <<team_data, account, up, down>>,
         \A x \in Accounts, k \in TeamShips :
           up[k] # <<>> /\ char[x].ship = k => char'[x].ship = k /\ (char[x].loaded => char'[x].loaded),
         \A x \in Accounts, t \in TeamIds :
           Rules(char'[x], t) => Rules(char[x], t) /\ char'[x].ship = char[x].ship
  PROVE  HandOvers'
<1>1. \A k \in TeamShips : up'[k] = up[k] /\ Len(up[k]) \in Nat BY DEF TeamsTyped
<1>2. \A k \in TeamShips : Continues(up[k], up'[k]) /\ \A t \in TeamIds : Quietly(up[k], up'[k], t)
  BY <1>1 DEF Continues, Quietly
<1> QED BY <1>2, QuietStep

\* Nobody is heard: what a client says is not sent on.
LEMMA HandOversUnsaid ==
  ASSUME TeamsTyped, TeamsTyped', HandOvers, NEW g \in Accounts, Says(g, <<>>),
         \A x \in Accounts : char'[x].ship = char[x].ship /\ char'[x].loaded = char[x].loaded,
         \A x \in Accounts, t \in TeamIds : Rules(char'[x], t) => Rules(char[x], t)
  PROVE  HandOvers'
<1>1. /\ char[g].ship \in TeamShips /\ up \in [TeamShips -> Seq(UpMsg)] /\ up' = [up EXCEPT ![char[g].ship] = @ \o <<>>]
      /\ UNCHANGED <<team_data, account, down>>
  BY TypedOrder DEF Says, TeamsTyped, Copy
<1>2. up[char[g].ship] \o <<>> = up[char[g].ship]
  <2>1. up[char[g].ship] \in Seq(UpMsg) BY <1>1
  <2> QED BY <2>1, ConcatEmptySeq
<1>3. up' = up BY <1>1, <1>2
<1> QED BY <1>1, <1>3, HandOversSilent

\* The clients' steps, one by one.
LEMMA HandOversDissolve ==
  ASSUME TeamsTyped, TeamsTyped', LoadsOK, HandOvers, NEW g \in Accounts, Dissolve(g)
  PROVE  HandOvers'
<1> DEFINE t0 == char[g].team
           m == [kind |-> "dissolve", by |-> g, team |-> t0]
<1>1. Order(g, <<m>>) /\ char' = [char EXCEPT ![g] = Cleared(@)] /\ t0 # NoTeam /\ char[g].priv = Master
  BY DEF Dissolve
<1>2. char \in [Accounts -> Copy] /\ t0 \in TeamIds BY <1>1 DEF TeamsTyped, Copy, TeamIds
<1>3. m \in UpMsg /\ m.kind = "dissolve" /\ m.by = g /\ m.team = t0 BY <1>2 DEF UpMsg
<1>4. Rules(char[g], t0) BY <1>1 DEF Rules, Order
<1>5. /\ \A x \in Accounts : char'[x].ship = char[x].ship /\ char'[x].loaded = char[x].loaded
      /\ \A x \in Accounts, t \in TeamIds : Rules(char'[x], t) => x # g /\ Rules(char[x], t)
  <2>1. \A x \in Accounts : char[x] \in Copy /\ char'[x] = IF x = g THEN Cleared(char[x]) ELSE char[x] BY <1>1, <1>2
  <2> QED BY <2>1, ClearedIs DEF Rules
<1> HIDE DEF m, t0
<1>6. <<m>> \in Seq(UpMsg) /\ Len(<<m>>) = 1 /\ <<m>>[1] = m BY <1>3, OneMessage
<1>7. \A t \in TeamIds : Turns(m, t) => t = t0 BY <1>3 DEF Turns, Rise, Ends
<1>8. Ends(<<m>>[1], t0) BY <1>3, <1>6 DEF Ends
<1>9. 1 \in 1 .. Len(<<m>>) /\ \A k \in 1 .. Len(<<m>>) : k = 1 BY <1>6
<1> DEFINE r == <<m>>
<1> HIDE DEF r
<1>10. /\ r \in Seq(UpMsg) /\ Order(g, r) /\ 1 \in 1 .. Len(r)
       /\ \/ Ends(r[1], t0) /\ r[1].by = g
          \/ Rise(r[1], t0) /\ 2 \in 1 .. Len(r) /\ r[2] = Retire(t0, g)
       /\ \A t \in TeamIds : Turns(r[1], t) => t = t0
       /\ \A k \in 1 .. Len(r), t \in TeamIds : Turns(r[k], t) => k = 1
  BY <1>1, <1>3, <1>6, <1>7, <1>8, <1>9 DEF r
<1>11. \A x \in Accounts, t \in TeamIds : Rules(char'[x], t) =>
         \/ x # g /\ Rules(char[x], t)
         \/ t = t0 /\ Rise(r[1], t0) /\ Len(r) = 2 /\ x = r[1].who /\ char[x].ship = char[g].ship
  BY <1>5
<1>12. \A x \in Accounts : char'[x].ship = char[x].ship /\ char'[x].loaded = char[x].loaded BY <1>5
<1>13. CASE Says(g, r) BY <1>2, <1>4, <1>10, <1>11, <1>12, <1>13, TurnStep
<1>14. CASE Says(g, <<>>) BY <1>5, <1>12, <1>14, HandOversUnsaid
<1> QED BY <1>10, <1>13, <1>14, OrderSays

LEMMA HandOversPromote ==
  ASSUME TeamsTyped, TeamsTyped', LoadsOK, HandOvers, NEW g \in Accounts, NEW x \in Accounts,
         Promote(g, x, Master), ~strayed', ~torn'
  PROVE  HandOvers'
<1> DEFINE t0 == char[g].team
           r == Promotion(t0, g, x, Master)
           here == x \in On(char[g].ship)
<1>1. /\ Order(g, r) /\ t0 # NoTeam /\ x # g /\ char[g].priv = Master /\ (here => char[x].team = t0)
      /\ char' = [y \in Accounts |->
           IF y = g THEN [char[y] EXCEPT !.priv = Demoted(Master)]
           ELSE IF y = x /\ here THEN [char[y] EXCEPT !.priv = Master] ELSE char[y]]
  BY DEF Promote
<1>2. char \in [Accounts -> Copy] /\ t0 \in TeamIds BY <1>1 DEF TeamsTyped, Copy, TeamIds
<1>3. /\ r \in Seq(UpMsg) /\ Len(r) = 2 /\ r[2] = Retire(t0, g)
      /\ r[1] = [kind |-> "promote", team |-> t0, who |-> x, priv |-> Master]
  BY <1>2, PromotionIs DEF Privileges, Retire
<1>4. Rules(char[g], t0) BY <1>1 DEF Rules, Order
<1>5. Demoted(Master) = Officer /\ Officer # Master BY DEF Demoted, Officer, Master
<1>6. here => char[x].ship = char[g].ship /\ char[x].team = t0 BY <1>1 DEF On
<1> HIDE DEF r, t0, here
<1>7. ASSUME NEW y \in Accounts
      PROVE  /\ char'[y].ship = char[y].ship /\ char'[y].loaded = char[y].loaded /\ char'[y].team = char[y].team
             /\ y = g => char'[y].priv = Officer
             /\ y # g => char'[y] = char[y] \/ (y = x /\ here)
  <2>1. char[y] \in Copy BY <1>2
  <2>2. CASE y = g
    <3>1. char'[y] = [char[y] EXCEPT !.priv = Officer] BY <1>1, <1>5, <2>2
    <3> QED BY <2>1, <2>2, <3>1 DEF Copy
  <2>3. CASE y # g /\ y = x /\ here
    <3>1. char'[y] = [char[y] EXCEPT !.priv = Master] BY <1>1, <2>3
    <3> QED BY <2>1, <2>3, <3>1 DEF Copy
  <2>4. CASE y # g /\ ~(y = x /\ here) BY <1>1, <2>4
  <2> QED BY <2>2, <2>3, <2>4
<1>8. r[1].kind = "promote" /\ r[1].team = t0 /\ r[1].who = x /\ r[1].priv = Master BY <1>3
<1>9. Rise(r[1], t0) /\ \A t \in TeamIds : Turns(r[1], t) => t = t0 BY <1>8 DEF Turns, Rise, Ends
<1>10. \A k \in 1 .. Len(r), t \in TeamIds : Turns(r[k], t) => k = 1
  <2>1. r[2].kind = "promote" /\ r[2].priv = Officer BY <1>3 DEF Retire
  <2>2. \A t \in TeamIds : ~Turns(r[2], t) BY <1>5, <2>1 DEF Turns, Rise, Ends
  <2>3. \A k \in 1 .. Len(r) : k = 1 \/ k = 2 BY <1>3
  <2> QED BY <2>2, <2>3
<1>11. 1 \in 1 .. Len(r) /\ 2 \in 1 .. Len(r) BY <1>3
<1>12. ASSUME NEW y \in Accounts, NEW t \in TeamIds, Rules(char'[y], t)
       PROVE  \/ y # g /\ Rules(char[y], t)
              \/ t = t0 /\ Rise(r[1], t0) /\ Len(r) = 2 /\ y = r[1].who /\ char[y].ship = char[g].ship
  <2>1. y # g BY <1>5, <1>7, <1>12 DEF Rules
  <2>2. CASE char'[y] = char[y] BY <1>12, <2>1, <2>2
  <2>3. CASE y = x /\ here
    <3>1. t = char[y].team BY <1>7, <1>12 DEF Rules
    <3> QED BY <1>3, <1>6, <1>8, <1>9, <2>3, <3>1
  <2> QED BY <1>7, <2>1, <2>2, <2>3
<1>13. \A y \in Accounts : char'[y].ship = char[y].ship /\ char'[y].loaded = char[y].loaded BY <1>7
<1>15. Promotes(r) BY <1>8, <1>11 DEF Promotes
<1>14. /\ r \in Seq(UpMsg) /\ Says(g, r)
       /\ \/ Ends(r[1], t0) /\ r[1].by = g
          \/ Rise(r[1], t0) /\ 2 \in 1 .. Len(r) /\ r[2] = Retire(t0, g)
  BY <1>1, <1>3, <1>9, <1>11, <1>15, OrderSays
<1> QED BY <1>2, <1>4, <1>9, <1>10, <1>11, <1>12, <1>13, <1>14, TurnStep

LEMMA HandOversCome ==
  ASSUME TeamsTyped, TeamsTyped', HandOvers, NEW g \in Accounts, NEW h \in TeamShips, Come(g, h)
  PROVE  HandOvers'
<1>0. /\ char \in [Accounts -> Copy] /\ up \in [TeamShips -> Seq(UpMsg)] /\ NoOne \notin TeamShips
      /\ \A x \in Accounts : char[x].loaded => char[x].ship # NoOne
  BY TeamsAssumption DEF TeamsTyped, Copy
<1> DEFINE m == [kind |-> "load", by |-> g]
<1>1. /\ char[g].ship = NoOne /\ char' = [char EXCEPT ![g].ship = h]
      /\ up' = [up EXCEPT ![h] = Append(@, m)] /\ UNCHANGED <<team_data, account, down>>
  BY DEF Come
<1>2. m \in UpMsg /\ m.kind = "load" BY DEF UpMsg
<1> HIDE DEF m
<1>3. ASSUME NEW k \in TeamShips, NEW t \in TeamIds PROVE Continues(up[k], up'[k]) /\ Quietly(up[k], up'[k], t)
  <2>1. CASE k # h
    <3>1. up'[k] = up[k] /\ Len(up[k]) \in Nat BY <1>0, <1>1, <2>1
    <3> QED BY <3>1 DEF Continues, Quietly
  <2>2. CASE k = h
    <3>1. up'[k] = Append(up[k], m) /\ up[k] \in Seq(UpMsg) BY <1>0, <1>1, <2>2
    <3>2. /\ Len(up[k]) \in Nat /\ Len(up'[k]) = Len(up[k]) + 1
          /\ \A p \in 1 .. Len(up[k]) : up'[k][p] = up[k][p]
          /\ up'[k][Len(up[k]) + 1] = m
      BY <1>2, <3>1, AppendIs
    <3>3. \A p \in Len(up[k]) + 1 .. Len(up'[k]) : p = Len(up[k]) + 1 BY <3>2
    <3>4. ~Turns(m, t) BY <1>2 DEF Turns, Rise, Ends
    <3> QED BY <3>2, <3>3, <3>4 DEF Continues, Quietly
  <2> QED BY <2>1, <2>2
<1>4. \E t \in Nat : t \in TeamIds
  <2>1. 1 \in Nat /\ 1 \in TeamIds BY DEF TeamIds, NoTeam
  <2> QED BY <2>1
<1>5. \A k \in TeamShips : Continues(up[k], up'[k]) BY <1>3, <1>4
<1>6. \A x \in Accounts : /\ x # g => char'[x] = char[x]
                          /\ x = g => ~char'[x].loaded /\ ~char[x].loaded
  <2>1. char[g] \in Copy /\ ~char[g].loaded BY <1>0, <1>1
  <2>2. char'[g] = [char[g] EXCEPT !.ship = h] BY <1>0, <1>1
  <2>3. ~char'[g].loaded BY <2>1, <2>2 DEF Copy
  <2> QED BY <1>0, <1>1, <2>1, <2>3
<1>7. \A x \in Accounts, k \in TeamShips :
        up[k] # <<>> /\ char[x].ship = k => char'[x].ship = k /\ (char[x].loaded => char'[x].loaded)
  BY <1>0, <1>1, <1>6
<1>8. \A x \in Accounts, t \in TeamIds :
        Rules(char'[x], t) => Rules(char[x], t) /\ char'[x].ship = char[x].ship
  BY <1>6 DEF Rules
<1> QED BY <1>1, <1>3, <1>5, <1>7, <1>8, QuietStep

LEMMA HandOversGo ==
  ASSUME TeamsTyped, TeamsTyped', HandOvers, NEW g \in Accounts, Go(g) \/ AcceptInvitation(g)
  PROVE  HandOvers'
<1>0. char \in [Accounts -> Copy] BY DEF TeamsTyped
<1>1. UNCHANGED <<team_data, account, up, down>> BY DEF Go, AcceptInvitation
<1>2. CASE Go(g)
  <2>1. char' = [char EXCEPT ![g] = Away] /\ up[char[g].ship] = <<>> BY <1>2 DEF Go
  <2>2. ~Away.loaded BY DEF Away
  <2>3. \A x \in Accounts : char'[x] = IF x = g THEN Away ELSE char[x] BY <1>0, <2>1
  <2>4. \A x \in Accounts, k \in TeamShips :
          up[k] # <<>> /\ char[x].ship = k => char'[x].ship = k /\ (char[x].loaded => char'[x].loaded)
    BY <2>1, <2>3
  <2>5. \A x \in Accounts, t \in TeamIds :
          Rules(char'[x], t) => Rules(char[x], t) /\ char'[x].ship = char[x].ship
    BY <2>2, <2>3 DEF Rules
  <2> QED BY <1>1, <2>4, <2>5, HandOversSilent
<1>3. CASE AcceptInvitation(g)
  <2>1. char' = [char EXCEPT ![g].accept = TRUE] BY <1>3 DEF AcceptInvitation
  <2>2. \A x \in Accounts : /\ char'[x].ship = char[x].ship /\ char'[x].loaded = char[x].loaded
                            /\ char'[x].team = char[x].team /\ char'[x].priv = char[x].priv
    BY <1>0, <2>1 DEF Copy
  <2>4. \A x \in Accounts, k \in TeamShips :
          up[k] # <<>> /\ char[x].ship = k => char'[x].ship = k /\ (char[x].loaded => char'[x].loaded)
    BY <2>2
  <2>5. \A x \in Accounts, t \in TeamIds :
          Rules(char'[x], t) => Rules(char[x], t) /\ char'[x].ship = char[x].ship
    BY <2>2 DEF Rules
  <2> QED BY <1>1, <2>4, <2>5, HandOversSilent
<1> QED BY <1>2, <1>3

LEMMA HandOversOrdinary ==
  ASSUME TeamsTyped, TeamsTyped', HandOvers, NEW g \in Accounts, NEW r \in Seq(UpMsg), Ordinary(g, r)
  PROVE  HandOvers'
<1> DEFINE s == char[g].ship
<1>1. /\ s \in TeamShips /\ Len(r) \in Nat
      /\ \A h \in TeamShips :
           /\ Len(up[h]) \in Nat /\ up'[h] \in Seq(UpMsg)
           /\ h # s => up'[h] = up[h]
           /\ \A p \in 1 .. Len(up[h]) : up'[h][p] = up[h][p]
      /\ Len(up'[s]) = Len(up[s]) + Len(r)
      /\ \A k \in 1 .. Len(r) : up'[s][Len(up[s]) + k] = r[k]
      /\ UNCHANGED <<team_data, account, down>>
  BY Extended DEF Ordinary
<1>2. \A k \in 1 .. Len(r), t \in TeamIds : ~Turns(r[k], t) BY DEF Ordinary, Harmless, Turns, Rise, Ends
<1>3. /\ \A x \in Accounts : char'[x].ship = char[x].ship /\ char'[x].loaded = char[x].loaded
      /\ \A x \in Accounts, t \in TeamIds : Rules(char'[x], t) => Rules(char[x], t)
  BY DEF Ordinary, Harmless, TeamIds
<1> HIDE DEF s
<1>4. ASSUME NEW k \in TeamShips PROVE Continues(up[k], up'[k]) /\ \A t \in TeamIds : Quietly(up[k], up'[k], t)
  <2>1. CASE k # s
    <3>1. up'[k] = up[k] /\ Len(up[k]) \in Nat BY <1>1, <2>1
    <3> QED BY <3>1 DEF Continues, Quietly
  <2>2. CASE k = s
    <3>1. \A p \in Len(up[k]) + 1 .. Len(up'[k]) : p - Len(up[k]) \in 1 .. Len(r) /\ Len(up[k]) + (p - Len(up[k])) = p
      BY <1>1, <2>2
    <3>2. \A p \in Len(up[k]) + 1 .. Len(up'[k]) : up'[k][p] = r[p - Len(up[k])] BY <1>1, <2>2, <3>1
    <3>3. \A t \in TeamIds : Quietly(up[k], up'[k], t) BY <1>2, <3>1, <3>2 DEF Quietly
    <3>4. Len(up'[k]) = Len(up[k]) + Len(r) /\ Len(up[k]) \in Nat BY <1>1, <2>2
    <3>5. Len(up'[k]) \in Nat /\ Len(up[k]) <= Len(up'[k]) BY <1>1, <3>4
    <3> QED BY <1>1, <3>3, <3>4, <3>5 DEF Continues
  <2> QED BY <2>1, <2>2
<1> QED BY <1>1, <1>3, <1>4, QuietStep

----------------------------------------------------------------------------
(* Teams: the answers                                                      *)

\* A copy is made master by the answer it waits for only.
LEMMA AnswerRules ==
  ASSUME TeamsTyped, NEW h \in TeamShips, TeamAnswer(h)
  PROVE  LET m == Head(down[h]) IN
         /\ \A x \in Accounts : char'[x].ship = char[x].ship /\ (char[x].loaded => char'[x].loaded)
         /\ \A x \in Accounts, t \in TeamIds : Rules(char'[x], t) =>
              \/ Rules(char[x], t)
              \/ /\ char[x].ship = h /\ m.kind \in {"created", "loaded"} /\ m.who = x /\ m.team = t
                 /\ m.kind = "loaded" => m.priv = Master
<1> DEFINE m == Head(down[h])
<1>0. char \in [Accounts -> Copy] /\ m \in DownMsg BY AnswerCame DEF TeamsTyped
<1>1. \/ m.kind = "created" /\ Created(h, m)
      \/ m.kind = "dissolved" /\ Dissolved(h, m)
      \/ m.kind = "loaded" /\ Loaded(h, m)
  BY AnswerCame
<1>2. /\ m.kind \in {"created", "loaded"} => m.who \in Accounts
      /\ m.kind = "created" => m.team \in TeamIds
      /\ m.kind = "loaded" => m.team \in Nat /\ m.priv \in Privileges
  BY <1>0, DownMsgFacts
<1> HIDE DEF m
<1>3. ASSUME NEW x \in Accounts
      PROVE  /\ char'[x].ship = char[x].ship /\ (char[x].loaded => char'[x].loaded)
             /\ \/ char'[x] = char[x] \/ char'[x].priv # Master
                \/ /\ char[x].ship = h /\ m.kind \in {"created", "loaded"} /\ m.who = x /\ m.team = char'[x].team
                   /\ m.kind = "loaded" => m.priv = char'[x].priv
  <2>0. char[x] \in Copy BY <1>0
  <2>1. CASE m.kind = "created" /\ Created(h, m)
    <3>1. char' = IF m.who \in On(h) THEN [char EXCEPT ![m.who].team = m.team, ![m.who].priv = Master] ELSE char
      BY <2>1 DEF Created
    <3>2. CASE m.who \in On(h) /\ x = m.who
      <4>1. char'[x] = [char[x] EXCEPT !.team = m.team, !.priv = Master] BY <1>0, <3>1, <3>2
      <4>2. /\ char'[x].ship = char[x].ship /\ char'[x].loaded = char[x].loaded /\ char'[x].team = m.team
            /\ char[x].ship = h
        BY <2>0, <3>2, <4>1 DEF Copy, On
      <4> QED BY <2>1, <3>2, <4>2
    <3>3. CASE ~(m.who \in On(h) /\ x = m.who) BY <1>0, <3>1, <3>3
    <3> QED BY <3>2, <3>3
  <2>2. CASE m.kind = "dissolved" /\ Dissolved(h, m)
    <3>1. char'[x] = char[x] \/ char'[x] = Cleared(char[x]) BY <2>2 DEF Dissolved
    <3> QED BY <2>0, <3>1, ClearedIs DEF Member, Master
  <2>3. CASE m.kind = "loaded" /\ Loaded(h, m)
    <3>1. char' = IF char[m.who].ship = h
                  THEN [char EXCEPT ![m.who] = [@ EXCEPT !.loaded = TRUE, !.team = m.team, !.priv = m.priv]]
                  ELSE char
      BY <2>3 DEF Loaded
    <3>2. CASE char[m.who].ship = h /\ x = m.who
      <4>1. char'[x] = [char[x] EXCEPT !.loaded = TRUE, !.team = m.team, !.priv = m.priv] BY <1>0, <3>1, <3>2
      <4>2. char'[x].ship = char[x].ship /\ char'[x].loaded /\ char'[x].team = m.team /\ char'[x].priv = m.priv
        BY <2>0, <4>1 DEF Copy
      <4> QED BY <2>3, <3>2, <4>2
    <3>3. CASE ~(char[m.who].ship = h /\ x = m.who) BY <1>0, <3>1, <3>3
    <3> QED BY <3>2, <3>3
  <2> QED BY <1>1, <2>1, <2>2, <2>3
<1>4. \A x \in Accounts, t \in TeamIds : Rules(char'[x], t) =>
              \/ Rules(char[x], t)
              \/ /\ char[x].ship = h /\ m.kind \in {"created", "loaded"} /\ m.who = x /\ m.team = t
                 /\ m.kind = "loaded" => m.priv = Master
  BY <1>3 DEF Rules
<1> QED BY <1>3, <1>4 DEF m

LEMMA HandOversAnswer ==
  ASSUME TeamsTyped, TeamsTyped', HandOvers, NEW h \in TeamShips, TeamAnswer(h)
  PROVE  HandOvers'
<1> DEFINE m == Head(down[h])
<1>0. /\ team_data' = team_data /\ account' = account /\ up' = up
      /\ down[h] \in Seq(DownMsg) /\ down[h] # <<>> /\ down'[h] = Tail(down[h]) /\ m \in DownMsg
      /\ \A k \in TeamShips : k # h => down'[k] = down[k]
      /\ \A k \in TeamShips : up[k] \in Seq(UpMsg) /\ Len(up[k]) \in Nat
  BY AnswerCame DEF TeamsTyped
<1>1. /\ Len(down[h]) \in Nat \ {0} /\ m = down[h][1]
      /\ \A i \in 1 .. Len(down'[h]) : i + 1 \in 1 .. Len(down[h]) /\ down'[h][i] = down[h][i + 1]
      /\ 1 \in 1 .. Len(down[h])
  BY <1>0, TailIs
<1>2. /\ \A x \in Accounts : char'[x].ship = char[x].ship /\ (char[x].loaded => char'[x].loaded)
      /\ \A x \in Accounts, t \in TeamIds : Rules(char'[x], t) =>
           \/ Rules(char[x], t)
           \/ /\ char[x].ship = h /\ m.kind \in {"created", "loaded"} /\ m.who = x /\ m.team = t
              /\ m.kind = "loaded" => m.priv = Master
  BY AnswerRules
<1> HIDE DEF m
<1>3. m.kind = "created" => Untouched(m.team, m.who, team_data, up, down, char, h, 1)
  BY <1>1 DEF HandOvers, MadeOK
<1>4. \A k \in TeamShips : Continues(up[k], up'[k]) BY <1>0 DEF Continues
<1>5. ASSUME NEW k \in TeamShips PROVE TurnsOK(up'[k], team_data', char', k)
  <2>1. TurnsOK(up[k], team_data, char, k) BY DEF HandOvers
  <2>2. \A x \in Accounts : Here(char[x], k) => Here(char'[x], k) BY <1>2 DEF Here
  <2> QED BY <1>0, <2>1, <2>2 DEF TurnsOK
<1>6. ASSUME NEW k \in TeamShips PROVE RulersOK(up'[k], team_data', char', k)
  <2>1. SUFFICES ASSUME NEW x \in Accounts, NEW t \in TeamIds, char'[x].ship = k, Rules(char'[x], t)
                 PROVE  LeftTo(up[k], team_data, Len(up[k]), t, x)
    BY <1>0 DEF RulersOK
  <2>2. CASE Rules(char[x], t) BY <1>2, <2>1, <2>2 DEF HandOvers, RulersOK
  <2>3. CASE /\ char[x].ship = h /\ m.kind = "loaded" /\ m.who = x /\ m.team = t /\ m.priv = Master
    <3>1. k = h BY <1>2, <2>1, <2>3
    <3> QED BY <1>1, <2>3, <3>1 DEF HandOvers, AnswersOK
  <2>4. CASE char[x].ship = h /\ m.kind = "created" /\ m.who = x /\ m.team = t
    <3>1. k = h BY <1>2, <2>1, <2>4
    <3>2. /\ Owns(team_data, t, x)
          /\ \A j \in TeamShips : \A p \in 1 .. Len(up[j]) : ~Turns(up[j][p], t)
      BY <1>3, <2>4 DEF Untouched
    <3>3. Len(up[k]) \in Nat /\ \A p \in 1 .. Len(up[k]) : ~Rise(up[k][p], t) /\ ~Ends(up[k][p], t)
      BY <1>0, <3>2 DEF Turns
    <3> QED BY <3>2, <3>3, LeftUnturned
  <2> QED BY <1>2, <2>1, <2>2, <2>3, <2>4
<1>7. ASSUME NEW k \in TeamShips PROVE AnswersOK(up'[k], down'[k], team_data')
  <2>1. AnswersOK(up[k], down[k], team_data) BY DEF HandOvers
  <2>2. CASE k # h BY <1>0, <2>1, <2>2
  <2>3. CASE k = h BY <1>0, <1>1, <2>1, <2>3 DEF AnswersOK
  <2> QED BY <2>2, <2>3
<1>8. ASSUME NEW k \in TeamShips, NEW j \in 1 .. Len(down'[k])
      PROVE  \E i \in 1 .. Len(down[k]) : /\ down'[k][j] = down[k][i] /\ (k = h => i = j + 1 /\ i # 1)
                                          /\ k # h => i = j
  <2>1. CASE k = h
    <3>1. j + 1 \in 1 .. Len(down[k]) /\ down'[k][j] = down[k][j + 1] /\ j \in Nat \ {0} BY <1>1, <2>1
    <3>2. j + 1 # 1 BY <3>1
    <3> QED BY <2>1, <3>1, <3>2
  <2>2. CASE k # h BY <1>0, <2>2
  <2> QED BY <2>1, <2>2
<1>9. MadeOK'
  <2>1. SUFFICES ASSUME NEW k \in TeamShips, NEW j \in 1 .. Len(down'[k]), down'[k][j].kind = "created"
                 PROVE  Untouched(down'[k][j].team, down'[k][j].who, team_data, up, down', char', k, j)
    BY <1>0 DEF MadeOK
  <2>2. PICK i \in 1 .. Len(down[k]) : /\ down'[k][j] = down[k][i] /\ (k = h => i = j + 1 /\ i # 1)
                                       /\ k # h => i = j
    BY <1>8
  <2> DEFINE t == down[k][i].team
             who == down[k][i].who
  <2>3. Untouched(t, who, team_data, up, down, char, k, i) BY <2>1, <2>2 DEF HandOvers, MadeOK
  <2>4. t \in TeamIds
    <3>1. down[k] \in Seq(DownMsg) BY DEF TeamsTyped
    <3>2. down[k][i] \in DownMsg BY <3>1
    <3> QED BY <2>1, <2>2, <3>2, DownMsgFacts
  <2> HIDE DEF t, who
  <2>5. ~(m.kind = "loaded" /\ m.team = t /\ m.priv = Master) /\ ~(m.kind = "created" /\ m.team = t)
    BY <1>1, <2>2, <2>3 DEF Untouched
  <2>6. \A g \in Accounts : ~Rules(char'[g], t) BY <1>2, <2>3, <2>4, <2>5 DEF Untouched
  <2>7. ASSUME NEW l \in TeamShips, NEW p \in 1 .. Len(down'[l])
        PROVE  /\ ~(down'[l][p].kind = "loaded" /\ down'[l][p].team = t /\ down'[l][p].priv = Master)
               /\ down'[l][p].kind = "created" /\ down'[l][p].team = t => l = k /\ p = j
    <3>1. PICK q \in 1 .. Len(down[l]) : /\ down'[l][p] = down[l][q] /\ (l = h => q = p + 1 /\ q # 1)
                                         /\ l # h => q = p
      BY <1>8
    <3>2. /\ ~(down[l][q].kind = "loaded" /\ down[l][q].team = t /\ down[l][q].priv = Master)
          /\ down[l][q].kind = "created" /\ down[l][q].team = t => l = k /\ q = i
      BY <2>3 DEF Untouched
    <3>3. l = k /\ q = i => p = j BY <2>2, <3>1
    <3> QED BY <3>1, <3>2, <3>3
  <2>8. Untouched(t, who, team_data, up, down', char', k, j) BY <2>3, <2>6, <2>7 DEF Untouched
  <2> QED BY <2>2, <2>8 DEF t, who
<1>10. AccountsOK' BY <1>0, <1>2, <1>4, AccountsLonger DEF HandOvers
<1> QED BY <1>5, <1>6, <1>7, <1>9, <1>10 DEF HandOvers

----------------------------------------------------------------------------
(* Teams: the orders are carried out                                       *)

\* No account owns the team whose id is the next one.
LEMMA NewNotOwned == ASSUME TeamsTyped, NEW o PROVE ~Owns(team_data, NewId, o)
BY NewTeamIs DEF Owns

\* A message of the login server's queue is of one kind.
LEMMA OrderKinds ==
  ASSUME TeamsTyped, NEW h \in TeamShips, TeamOrder(h)
  PROVE  LET m == Head(up[h]) IN
         /\ m \in UpMsg /\ char' = char
         /\ \/ m.kind = "create" /\ CreateTeam(h, m)
            \/ m.kind = "dissolve" /\ DissolveTeam(h, m)
            \/ m.kind = "remove" /\ RemoveTeamMember(m)
            \/ m.kind = "promote" /\ PromoteTeamMember(m)
            \/ m.kind = "add" /\ AddTeamMember(m)
            \/ m.kind = "load" /\ LoadTeam(h, m)
BY OrderCarriedOut DEF TeamOrder

\* Records that stay leave every team to its owner.
LEMMA OwnsKept ==
  ASSUME NEW data, NEW e, NEW t, NEW o, Owns(data, t, o),
         \A i \in DOMAIN data : data[i].id = t => i \in DOMAIN e /\ e[i].id = t /\ e[i].head = data[i].head
  PROVE  Owns(e, t, o)
BY DEF Owns

\* Who owns a team when the order has been carried out.
LEMMA OrderOwners ==
  ASSUME TeamsTyped, NEW h \in TeamShips, TeamOrder(h), NEW t \in TeamIds, NEW o \in Accounts,
         Owns(team_data, t, o), ~Ends(Head(up[h]), t)
  PROVE  Owns(team_data', t, IF Rise(Head(up[h]), t) THEN Head(up[h]).who ELSE o)
<1> DEFINE m == Head(up[h])
<1>0. /\ m \in UpMsg
      /\ \/ m.kind = "create" /\ CreateTeam(h, m)
         \/ m.kind = "dissolve" /\ DissolveTeam(h, m)
         \/ m.kind = "remove" /\ RemoveTeamMember(m)
         \/ m.kind = "promote" /\ PromoteTeamMember(m)
         \/ m.kind = "add" /\ AddTeamMember(m)
         \/ m.kind = "load" /\ LoadTeam(h, m)
      /\ t # NoTeam
  BY OrderKinds DEF TeamIds
<1>1. ~Ends(m, t) OBVIOUS
<1>2. \A i \in DOMAIN team_data : team_data[i] \in TeamRecord BY DEF TeamsTyped
<1> HIDE DEF m
<1>3. CASE team_data' = team_data /\ m.kind # "promote" BY <1>3 DEF Rise, m
<1>4. CASE m.kind = "create" /\ CreateTeam(h, m)
  <2>1. CASE UNCHANGED team_data BY <1>3, <1>4, <2>1
  <2>2. CASE ~UNCHANGED team_data
    <3> DEFINE r == [id |-> NewId, owner |-> m.by, head |-> m.by, name |-> m.name]
    <3>1. team_data' = Written(NewRecord, r) BY <1>4, <2>2 DEF CreateTeam
    <3>2. r \in TeamRecord /\ r.id = NewId
      <4>1. m.by \in Accounts /\ m.name \in Names BY <1>0, <1>4, UpMsgFacts
      <4>2. NewId \in TeamIds /\ NoOne \notin Accounts BY NewTeamIs, TeamsAssumption
      <4> QED BY <4>1, <4>2 DEF TeamRecord, TeamIds
    <3> HIDE DEF r
    <3>3. \A j \in DOMAIN team_data : j \in DOMAIN team_data' /\ (j # NewRecord => team_data'[j] = team_data[j])
      BY <3>1, <3>2, WrittenIs
    <3>4. NewRecord \in DOMAIN team_data => team_data[NewRecord].id = NoTeam BY NewTeamIs
    <3>5. \A j \in DOMAIN team_data : team_data[j].id = t => j \in DOMAIN team_data' /\ team_data'[j] = team_data[j]
      BY <1>0, <3>3, <3>4
    <3>6. Owns(team_data', t, o) BY <3>5, OwnsKept
    <3> QED BY <1>4, <3>6 DEF Rise, m
  <2> QED BY <2>1, <2>2
<1>5. CASE m.kind = "dissolve" /\ DissolveTeam(h, m)
  <2>1. team_data' = [i \in DOMAIN team_data |->
               IF team_data[i].id = m.team
               THEN [id |-> NoTeam, owner |-> NoOne, head |-> NoOne, name |-> team_data[i].name] ELSE team_data[i]]
    BY <1>5 DEF DissolveTeam
  <2>2. m.team # t BY <1>1, <1>5 DEF Ends
  <2>3. \A j \in DOMAIN team_data : team_data[j].id = t => j \in DOMAIN team_data' /\ team_data'[j] = team_data[j]
    BY <2>1, <2>2
  <2>4. Owns(team_data', t, o) BY <2>3, OwnsKept
  <2> QED BY <1>5, <2>4 DEF Rise, m
<1>6. CASE m.kind = "remove" /\ RemoveTeamMember(m) BY <1>3, <1>6 DEF RemoveTeamMember
<1>7. CASE m.kind = "promote" /\ PromoteTeamMember(m)
  <2>1. team_data' = [i \in DOMAIN team_data |->
               IF team_data[i].id = m.team /\ m.priv = Master THEN HandedTo(i, m.who) ELSE team_data[i]]
    BY <1>7 DEF PromoteTeamMember
  <2>2. CASE Rise(m, t)
    <3>1. m.team = t /\ m.priv = Master BY <2>2 DEF Rise
    <3>2. PICK i \in DOMAIN team_data : team_data[i].id = t /\ team_data[i].head = o BY DEF Owns
    <3>3. i \in DOMAIN team_data' /\ team_data'[i] = HandedTo(i, m.who) BY <2>1, <3>1, <3>2
    <3>6. m.who \in Accounts BY <1>0, <1>7, UpMsgFacts
    <3>4. team_data'[i].id = t /\ team_data'[i].head = m.who BY <1>0, <3>2, <3>3, <3>6, HandedToIs
    <3>5. Owns(team_data', t, m.who) BY <1>0, <3>3, <3>4 DEF Owns
    <3> QED BY <2>2, <3>5 DEF m
  <2>3. CASE ~Rise(m, t)
    <3>1. ~(m.team = t /\ m.priv = Master) BY <1>7, <2>3 DEF Rise
    <3>2. \A j \in DOMAIN team_data : team_data[j].id = t => j \in DOMAIN team_data' /\ team_data'[j] = team_data[j]
      BY <2>1, <3>1
    <3>3. Owns(team_data', t, o) BY <3>2, OwnsKept
    <3> QED BY <2>3, <3>3 DEF m
  <2> QED BY <2>2, <2>3
<1>8. CASE m.kind = "add" /\ AddTeamMember(m) BY <1>3, <1>8 DEF AddTeamMember
<1>9. CASE m.kind = "load" /\ LoadTeam(h, m) BY <1>3, <1>9 DEF LoadTeam
<1> QED BY <1>0, <1>4, <1>5, <1>6, <1>7, <1>8, <1>9

\* A team that is made is its maker's.
LEMMA OrderMakes ==
  ASSUME TeamsTyped, NEW h \in TeamShips, TeamOrder(h), Head(up[h]).kind = "create", down' # down
  PROVE  Owns(team_data', NewId, Head(up[h]).by)
<1> DEFINE m == Head(up[h])
           r == [id |-> NewId, owner |-> m.by, head |-> m.by, name |-> m.name]
<1>0. m \in UpMsg /\ m.kind = "create" /\ CreateTeam(h, m) BY OrderKinds
<1> HIDE DEF m
<1>1. team_data' = Written(NewRecord, r) BY <1>0 DEF CreateTeam
<1>2. NewId \in TeamIds /\ NoOne \notin Accounts BY NewTeamIs, TeamsAssumption
<1>3. r \in TeamRecord /\ r.id = NewId /\ r.head = m.by
  <2>1. m.by \in Accounts /\ m.name \in Names BY <1>0, UpMsgFacts
  <2> QED BY <1>2, <2>1 DEF TeamRecord, TeamIds
<1> HIDE DEF r
<1>4. NewRecord \in DOMAIN team_data' /\ team_data'[NewRecord] = r BY <1>1, <1>3, WrittenIs
<1>5. Owns(team_data', NewId, m.by) BY <1>2, <1>3, <1>4 DEF Owns, TeamIds
<1> QED BY <1>5 DEF m

\* Who is master when the order has been carried out: who was, unless the order
\* is his retirement; who it names; or who made the team.
LEMMA OrderMasters ==
  ASSUME TeamsTyped, NEW h \in TeamShips, TeamOrder(h), NEW g \in Accounts,
         account'[g].team # NoTeam, account'[g].priv = Master
  PROVE  LET m == Head(up[h]) IN
         \/ /\ account[g].team = account'[g].team /\ account[g].priv = Master
            /\ ~Ends(m, account[g].team) /\ m # Retire(account[g].team, g)
         \/ Rise(m, account'[g].team) /\ m.who = g
         \/ Owns(team_data', account'[g].team, g)
<1> DEFINE m == Head(up[h])
<1>0. /\ m \in UpMsg
      /\ \/ m.kind = "create" /\ CreateTeam(h, m)
         \/ m.kind = "dissolve" /\ DissolveTeam(h, m)
         \/ m.kind = "remove" /\ RemoveTeamMember(m)
         \/ m.kind = "promote" /\ PromoteTeamMember(m)
         \/ m.kind = "add" /\ AddTeamMember(m)
         \/ m.kind = "load" /\ LoadTeam(h, m)
      /\ account \in [Accounts -> [team : Nat, priv : Privileges]]
  BY OrderKinds DEF TeamsTyped
<1>1. m.kind = "create" /\ down' # down => Owns(team_data', NewId, m.by) BY OrderMakes
<1> HIDE DEF m
<1>2. m.kind # "dissolve" => \A t : ~Ends(m, t) BY DEF Ends
<1>3. m.kind # "promote" => \A t : m # Retire(t, g) BY DEF Retire
<1>4. CASE account'[g] = account[g] /\ m.kind \notin {"dissolve", "promote"} BY <1>2, <1>3, <1>4 DEF m
<1>5. CASE m.kind = "create" /\ CreateTeam(h, m)
  <2>1. m.by \in Accounts BY <1>0, <1>5, UpMsgFacts
  <2>2. CASE UNCHANGED <<team_data, account, down>> BY <1>4, <1>5, <2>2
  <2>3. CASE /\ account' = [account EXCEPT ![m.by] = [team |-> NewId, priv |-> Master]]
             /\ Answer(h, [kind |-> "created", who |-> m.by, team |-> NewId])
    <3>1. CASE g # m.by BY <1>0, <1>4, <1>5, <2>3, <3>1
    <3>2. CASE g = m.by
      <4>1. account'[g].team = NewId BY <1>0, <2>3, <3>2
      <4>2. down' # down
        <5>1. down \in [TeamShips -> Seq(DownMsg)] BY DEF TeamsTyped
        <5> DEFINE a == [kind |-> "created", who |-> m.by, team |-> NewId]
        <5>2. a \in DownMsg BY <2>1, NewTeamIs DEF DownMsg
        <5>3. down'[h] = Append(down[h], a) BY <2>3, <5>1 DEF Answer
        <5> HIDE DEF a
        <5>4. Len(down'[h]) = Len(down[h]) + 1 /\ Len(down[h]) \in Nat BY <5>1, <5>2, <5>3, AppendIs
        <5> QED BY <5>4
      <4> QED BY <1>1, <1>5, <3>2, <4>1, <4>2 DEF m
    <3> QED BY <3>1, <3>2
  <2> QED BY <1>5, <2>2, <2>3 DEF CreateTeam
<1>6. CASE m.kind = "dissolve" /\ DissolveTeam(h, m)
  <2>1. account' = [x \in Accounts |->
              IF account[x].team = m.team THEN [account[x] EXCEPT !.team = NoTeam] ELSE account[x]]
    BY <1>6 DEF DissolveTeam
  <2>2. CASE account[g].team = m.team
    <3>1. account'[g].team = NoTeam BY <1>0, <2>1, <2>2
    <3> QED BY <3>1
  <2>3. CASE account[g].team # m.team
    <3>1. account'[g] = account[g] /\ ~Ends(m, account[g].team) BY <2>1, <2>3 DEF Ends
    <3> QED BY <1>3, <1>6, <3>1 DEF m
  <2> QED BY <2>2, <2>3
<1>7. CASE m.kind = "remove" /\ RemoveTeamMember(m)
  <2>1. account' = IF account[m.who].team = m.team THEN [account EXCEPT ![m.who].team = NoTeam] ELSE account
    BY <1>7 DEF RemoveTeamMember
  <2>2. account'[g] = account[g] \/ account'[g].team = NoTeam BY <1>0, <2>1
  <2> QED BY <1>4, <1>7, <2>2
<1>8. CASE m.kind = "promote" /\ PromoteTeamMember(m)
  <2>1. account' = IF account[m.who].team = m.team THEN [account EXCEPT ![m.who].priv = m.priv] ELSE account
    BY <1>8 DEF PromoteTeamMember, SetLevel
  <2>2. CASE g = m.who /\ account[g].team = m.team
    <3>1. account'[g].team = m.team /\ account'[g].priv = m.priv BY <1>0, <2>1, <2>2
    <3> QED BY <1>8, <2>2, <3>1 DEF m, Rise
  <2>3. CASE ~(g = m.who /\ account[g].team = m.team)
    <3>1. account'[g] = account[g] BY <1>0, <2>1, <2>3
    <3>2. m # Retire(account[g].team, g) BY <2>3 DEF Retire
    <3> QED BY <1>2, <1>8, <3>1, <3>2 DEF m
  <2> QED BY <2>2, <2>3
<1>9. CASE m.kind = "add" /\ AddTeamMember(m)
  <2>1. account' = [account EXCEPT ![m.who] = [team |-> m.team, priv |-> Member]] BY <1>9 DEF AddTeamMember
  <2>2. account'[g] = account[g] \/ account'[g].priv = Member BY <1>0, <2>1
  <2> QED BY <1>4, <1>9, <2>2 DEF Member, Master
<1>10. CASE m.kind = "load" /\ LoadTeam(h, m) BY <1>4, <1>10 DEF LoadTeam
<1> QED BY <1>0, <1>5, <1>6, <1>7, <1>8, <1>9, <1>10

\* An order that turns t is of t's owner, who is on the ship it comes from.
LEMMA HeadTurns ==
  ASSUME TeamsTyped, HandOvers, NEW h \in TeamShips, up[h] # <<>>, NEW t \in TeamIds, Turns(Head(up[h]), t)
  PROVE  \E o \in Accounts : TurnedBy(up[h], 1, t, o) /\ Here(char[o], h) /\ Owns(team_data, t, o)
<1>1. up[h] \in Seq(UpMsg) BY DEF TeamsTyped
<1>2. Len(up[h]) \in Nat \ {0} /\ Head(up[h]) = up[h][1] BY <1>1, TailIs
<1>3. TurnsOK(up[h], team_data, char, h) /\ 1 \in 1 .. Len(up[h]) BY <1>2 DEF HandOvers
<1>4. PICK o \in Accounts : TurnedBy(up[h], 1, t, o) /\ Here(char[o], h) /\ LeftTo(up[h], team_data, 1 - 1, t, o)
  BY <1>2, <1>3 DEF TurnsOK
<1>5. LeftTo(up[h], team_data, 0, t, o) BY <1>4
<1>6. \A k \in 1 .. 0 : ~Rise(up[h][k], t) OBVIOUS
<1>7. Owns(team_data, t, o) BY <1>5, <1>6, LeftUnturned
<1> QED BY <1>4, <1>7

\* The orders that are left leave a team to the same.
LEMMA Carried ==
  ASSUME TeamsTyped, HandOvers, NEW h \in TeamShips, TeamOrder(h), NEW k \in TeamShips, NEW n \in 0 .. Len(up[k]),
         NEW t \in TeamIds, NEW g \in Accounts, LeftTo(up[k], team_data, n, t, g), char[g].ship = k,
         k = h => n # 0
  PROVE  LeftTo(up'[k], team_data', IF k = h THEN n - 1 ELSE n, t, g)
<1>1. /\ up[h] \in Seq(UpMsg) /\ up[h] # <<>> /\ up'[h] = Tail(up[h]) /\ Head(up[h]) \in UpMsg
      /\ \A j \in TeamShips : j # h => up'[j] = up[j]
  BY OrderCarriedOut
<1>2. \A o \in Accounts : Owns(team_data, t, o) /\ ~Ends(Head(up[h]), t) =>
        Owns(team_data', t, IF Rise(Head(up[h]), t) THEN Head(up[h]).who ELSE o)
  BY OrderOwners
<1>3. \E o \in Accounts : Owns(team_data, t, o) BY DEF LeftTo
<1>4. up[k] \in Seq(UpMsg) /\ Len(up[k]) \in Nat BY DEF TeamsTyped
<1>5. ASSUME NEW o, Owns(team_data, t, o) PROVE o \in Accounts
  <2>1. PICK w \in Accounts : Owns(team_data, t, w) BY <1>3
  <2> QED BY <1>5, <2>1, OwnsOne DEF TeamsTyped
<1>6. CASE k = h
  <2>1. /\ Head(up[h]) = up[h][1] /\ \A j \in 1 .. Len(up[h]) - 1 : up'[h][j] = up[h][j + 1]
    BY <1>1, TailIs
  <2>2. n \in Nat \ {0} /\ n <= Len(up[h]) BY <1>4, <1>6
  <2>3. ~Ends(up[h][1], t)
    <3>1. 1 \in 1 .. n BY <2>2
    <3> QED BY <1>6, <3>1 DEF LeftTo
  <2>4. \A j \in 1 .. n - 1 : up'[h][j] = up[h][j + 1]
    <3>1. \A j \in 1 .. n - 1 : j \in 1 .. Len(up[h]) - 1 BY <1>4, <1>6, <2>2
    <3> QED BY <2>1, <3>1
  <2>5. Rise(up[h][1], t) => up[h][1].who \in Accounts BY <1>1, <2>1, UpMsgFacts DEF Rise
  <2>6. \A o \in Accounts : Owns(team_data, t, o) =>
          Owns(team_data', t, IF Rise(up[h][1], t) THEN up[h][1].who ELSE o)
    BY <1>2, <2>1, <2>3
  <2>7. LeftTo(up'[h], team_data', n - 1, t, g) BY <1>6, <2>2, <2>4, <2>5, <2>6, LeftTail
  <2> QED BY <1>6, <2>7
<1>7. CASE k # h
  <2>1. ~Turns(Head(up[h]), t)
    <3>1. SUFFICES ASSUME Turns(Head(up[h]), t) PROVE FALSE OBVIOUS
    <3>2. PICK o \in Accounts : Here(char[o], h) /\ Owns(team_data, t, o) BY <1>1, <3>1, HeadTurns
    <3>3. TurnsOK(up[k], team_data, char, k) BY DEF HandOvers
    <3>4. PICK w \in Accounts : Owns(team_data, t, w) /\ char[w].ship = k BY <1>4, <3>3, OwnerThere
    <3>5. o = w BY <3>2, <3>4, OwnsOne DEF TeamsTyped
    <3> QED BY <1>7, <3>2, <3>4, <3>5 DEF Here
  <2>2. \A o \in Accounts : Owns(team_data, t, o) => Owns(team_data', t, o) BY <1>2, <2>1 DEF Turns
  <2>3. up'[k] = up[k] /\ n \in Nat BY <1>1, <1>4, <1>7
  <2>4. LeftTo(up[k], team_data', n, t, g)
    <3>1. \A j \in 1 .. n : up[k][j] = up[k][j] OBVIOUS
    <3>2. PICK o \in Accounts : Owns(team_data, t, o) /\ Passed(up[k], n, t, o, g) BY DEF LeftTo
    <3> QED BY <2>2, <3>2 DEF LeftTo
  <2> QED BY <1>7, <2>3, <2>4
<1> QED BY <1>6, <1>7

\* Who asks for its character and is told that it is master owns the team.
LEMMA LoadedOwns ==
  ASSUME TeamsTyped, LoadsOK, HandOvers, NEW h \in TeamShips, up[h] # <<>>, NEW b \in Accounts,
         Head(up[h]).kind = "load", Head(up[h]).by = b, account[b].team \in TeamIds, account[b].priv = Master
  PROVE  /\ Owns(team_data, account[b].team, b) /\ char[b].ship = h /\ ~char[b].loaded
         /\ LeftTo(up[h], team_data, Len(up[h]), account[b].team, b)
<1> DEFINE t == account[b].team
<1>1. up[h] \in Seq(UpMsg) BY DEF TeamsTyped
<1>2. Len(up[h]) \in Nat \ {0} /\ Head(up[h]) = up[h][1] /\ 1 \in 1 .. Len(up[h]) BY <1>1, TailIs
<1>3. char[b].ship = h /\ ~char[b].loaded BY <1>2 DEF LoadsOK, Waiting
<1>4. t # NoTeam /\ t \in TeamIds BY DEF TeamIds
<1>5. PICK o \in Accounts :
        /\ Owns(team_data, t, o)
        /\ \/ o = b
           \/ \E k \in TeamShips : up[k] # <<>> /\ Head(up[k]) = Retire(t, b) /\ char[b].ship = k
  BY <1>4 DEF HandOvers, AccountsOK
<1> HIDE DEF t
<1>6. Retire(t, b).kind = "promote" BY DEF Retire
<1>7. o = b BY <1>3, <1>5, <1>6
<1>8. \A k \in 1 .. Len(up[h]) : ~Turns(up[h][k], t)
  <2>1. SUFFICES ASSUME NEW k \in 1 .. Len(up[h]), Turns(up[h][k], t) PROVE FALSE OBVIOUS
  <2>2. TurnsOK(up[h], team_data, char, h) /\ Len(up[h]) \in 0 .. Len(up[h]) BY <1>2 DEF HandOvers
  <2>3. PICK w \in Accounts : Owns(team_data, t, w) /\ Here(char[w], h) BY <1>2, <1>4, <2>1, <2>2, FirstTurn
  <2>4. w = b BY <1>5, <1>7, <2>3, OwnsOne DEF TeamsTyped
  <2> QED BY <1>3, <2>3, <2>4 DEF Here
<1>9. \A k \in 1 .. Len(up[h]) : ~Rise(up[h][k], t) /\ ~Ends(up[h][k], t) BY <1>8 DEF Turns
<1>10. LeftTo(up[h], team_data, Len(up[h]), t, b) BY <1>2, <1>5, <1>7, <1>9, LeftUnturned
<1> QED BY <1>3, <1>5, <1>7, <1>10 DEF t

LEMMA OrderTurns ==
  ASSUME TeamsTyped, HandOvers, NEW h \in TeamShips, TeamOrder(h), NEW k \in TeamShips
  PROVE  TurnsOK(up'[k], team_data', char', k) /\ RulersOK(up'[k], team_data', char', k)
<1>1. /\ up[h] \in Seq(UpMsg) /\ up[h] # <<>> /\ up'[h] = Tail(up[h])
      /\ \A j \in TeamShips : j # h => up'[j] = up[j]
      /\ char' = char /\ up[k] \in Seq(UpMsg) /\ Len(up[k]) \in Nat
  BY OrderCarriedOut DEF TeamsTyped
<1>2. /\ Len(up[h]) \in Nat \ {0} /\ Len(up'[h]) = Len(up[h]) - 1
      /\ \A j \in 1 .. Len(up[h]) - 1 : up'[h][j] = up[h][j + 1] /\ j + 1 \in 1 .. Len(up[h])
  BY <1>1, TailIs
<1>3. TurnsOK(up[k], team_data, char, k) /\ RulersOK(up[k], team_data, char, k) BY DEF HandOvers
<1>4. TurnsOK(up'[k], team_data', char, k)
  <2>1. SUFFICES ASSUME NEW p \in 1 .. Len(up'[k]), NEW t \in TeamIds, Turns(up'[k][p], t)
                 PROVE  \E g \in Accounts : /\ TurnedBy(up'[k], p, t, g) /\ Here(char[g], k)
                                            /\ LeftTo(up'[k], team_data', p - 1, t, g)
    BY DEF TurnsOK
  <2>2. CASE k # h
    <3>1. up'[k] = up[k] BY <1>1, <2>2
    <3>2. PICK g \in Accounts : TurnedBy(up[k], p, t, g) /\ Here(char[g], k) /\ LeftTo(up[k], team_data, p - 1, t, g)
      BY <1>3, <2>1, <3>1 DEF TurnsOK
    <3>3. p - 1 \in 0 .. Len(up[k]) BY <1>1, <3>1
    <3>4. LeftTo(up'[k], team_data', p - 1, t, g) BY <2>2, <3>2, <3>3, Carried DEF Here
    <3> QED BY <3>1, <3>2, <3>4
  <2>3. CASE k = h
    <3>1. up'[h][p] = up[h][p + 1] /\ p + 1 \in 1 .. Len(up[h]) BY <1>2, <2>3
    <3>2. PICK g \in Accounts : TurnedBy(up[h], p + 1, t, g) /\ Here(char[g], h) /\ LeftTo(up[h], team_data, p + 1 - 1, t, g)
      BY <1>3, <2>1, <2>3, <3>1 DEF TurnsOK
    <3>3. p + 1 - 1 = p /\ p # 0 /\ p \in 0 .. Len(up[h]) BY <1>2, <2>3
    <3>4. LeftTo(up'[h], team_data', p - 1, t, g) BY <2>3, <3>2, <3>3, Carried DEF Here
    <3>5. TurnedBy(up'[h], p, t, g)
      <4>1. CASE Ends(up[h][p + 1], t) /\ up[h][p + 1].by = g BY <3>1, <4>1 DEF TurnedBy
      <4>2. CASE Rise(up[h][p + 1], t) /\ p + 1 + 1 \in 1 .. Len(up[h]) /\ up[h][p + 1 + 1] = Retire(t, g)
        <5>1. p + 1 \in 1 .. Len(up'[h]) /\ p + 1 \in 1 .. Len(up[h]) - 1 BY <1>2, <2>3, <4>2
        <5>2. up'[h][p + 1] = up[h][p + 1 + 1] BY <1>2, <5>1
        <5> QED BY <3>1, <4>2, <5>1, <5>2 DEF TurnedBy
      <4> QED BY <3>2, <4>1, <4>2 DEF TurnedBy
    <3> QED BY <2>3, <3>2, <3>4, <3>5
  <2> QED BY <2>2, <2>3
<1>5. RulersOK(up'[k], team_data', char, k)
  <2>1. SUFFICES ASSUME NEW g \in Accounts, NEW t \in TeamIds, char[g].ship = k, Rules(char[g], t)
                 PROVE  LeftTo(up'[k], team_data', Len(up'[k]), t, g)
    BY DEF RulersOK
  <2>2. LeftTo(up[k], team_data, Len(up[k]), t, g) BY <1>3, <2>1 DEF RulersOK
  <2>3. Len(up[k]) \in 0 .. Len(up[k]) /\ (k = h => Len(up[k]) # 0) BY <1>1, <1>2
  <2>4. LeftTo(up'[k], team_data', IF k = h THEN Len(up[k]) - 1 ELSE Len(up[k]), t, g) BY <2>1, <2>2, <2>3, Carried
  <2> QED BY <1>1, <1>2, <2>4
<1> QED BY <1>1, <1>4, <1>5

LEMMA OrderAnswers ==
  ASSUME TeamsTyped, LoadsOK, HandOvers, NEW h \in TeamShips, TeamOrder(h), NEW k \in TeamShips
  PROVE  AnswersOK(up'[k], down'[k], team_data')
<1>1. /\ up[h] \in Seq(UpMsg) /\ up[h] # <<>> /\ up'[h] = Tail(up[h]) /\ Head(up[h]) \in UpMsg
      /\ \A j \in TeamShips : j # h => up'[j] = up[j] /\ down'[j] = down[j]
      /\ up[k] \in Seq(UpMsg) /\ Len(up[k]) \in Nat /\ down[k] \in Seq(DownMsg)
  BY OrderCarriedOut DEF TeamsTyped
<1>2. Len(up[h]) \in Nat \ {0} /\ Len(up'[h]) = Len(up[h]) - 1 BY <1>1, TailIs
<1>3. ASSUME NEW t \in TeamIds, NEW g \in Accounts, LeftTo(up[k], team_data, Len(up[k]), t, g), char[g].ship = k
      PROVE  LeftTo(up'[k], team_data', Len(up'[k]), t, g)
  <2>1. Len(up[k]) \in 0 .. Len(up[k]) /\ (k = h => Len(up[k]) # 0) BY <1>1, <1>2
  <2>2. LeftTo(up'[k], team_data', IF k = h THEN Len(up[k]) - 1 ELSE Len(up[k]), t, g) BY <1>3, <2>1, Carried
  <2> QED BY <1>1, <1>2, <2>2
<1>4. ASSUME NEW i \in 1 .. Len(down[k]), down[k][i].kind = "loaded", down[k][i].team \in TeamIds,
             down[k][i].priv = Master
      PROVE  LeftTo(up'[k], team_data', Len(up'[k]), down[k][i].team, down[k][i].who)
  <2>1. down[k][i] \in DownMsg BY <1>1
  <2>2. down[k][i].who \in Accounts BY <1>4, <2>1, DownMsgFacts
  <2>3. char[down[k][i].who].ship = k BY <1>4 DEF LoadsOK, Waiting
  <2>4. LeftTo(up[k], team_data, Len(up[k]), down[k][i].team, down[k][i].who) BY <1>4 DEF HandOvers, AnswersOK
  <2> QED BY <1>3, <1>4, <2>2, <2>3, <2>4
<1>5. CASE down'[k] = down[k] BY <1>4, <1>5 DEF AnswersOK
<1>6. CASE down'[k] # down[k]
  <2>1. k = h BY <1>1, <1>6
  <2>2. PICK a \in DownMsg :
          /\ down'[h] = Append(down[h], a)
          /\ a.kind = "loaded" =>
               /\ Head(up[h]).kind = "load" /\ a.who = Head(up[h]).by /\ a.team = account[a.who].team
               /\ a.team # NoTeam => a.priv = account[a.who].priv
    BY <1>6, <2>1, OrderCarriedOut
  <2>3. /\ Len(down'[k]) = Len(down[k]) + 1 /\ Len(down[k]) \in Nat
        /\ \A i \in 1 .. Len(down[k]) : down'[k][i] = down[k][i]
        /\ down'[k][Len(down[k]) + 1] = a
    BY <1>1, <2>1, <2>2, AppendIs
  <2>4. ASSUME a.kind = "loaded", a.team \in TeamIds, a.priv = Master
        PROVE  LeftTo(up'[k], team_data', Len(up'[k]), a.team, a.who)
    <3>1. a.who \in Accounts BY <2>4, DownMsgFacts
    <3>2. account[a.who].team = a.team /\ account[a.who].priv = Master BY <2>2, <2>4 DEF TeamIds
    <3>3. char[a.who].ship = h /\ LeftTo(up[h], team_data, Len(up[h]), a.team, a.who)
      BY <1>1, <2>2, <2>4, <3>1, <3>2, LoadedOwns
    <3> QED BY <1>3, <2>1, <2>4, <3>1, <3>3
  <2>5. SUFFICES ASSUME NEW i \in 1 .. Len(down'[k]), down'[k][i].kind = "loaded", down'[k][i].team \in TeamIds,
                        down'[k][i].priv = Master
                 PROVE  LeftTo(up'[k], team_data', Len(up'[k]), down'[k][i].team, down'[k][i].who)
    BY DEF AnswersOK
  <2>6. CASE i \in 1 .. Len(down[k]) BY <1>4, <2>3, <2>5, <2>6
  <2>7. CASE i = Len(down[k]) + 1 BY <2>3, <2>4, <2>5, <2>7
  <2> QED BY <2>3, <2>6, <2>7
<1> QED BY <1>5, <1>6

LEMMA OrderAccounts ==
  ASSUME TeamsTyped, TeamsTyped', HandOvers, NEW h \in TeamShips, TeamOrder(h)
  PROVE  AccountsOK'
<1> DEFINE m == Head(up[h])
<1>0. /\ up[h] \in Seq(UpMsg) /\ up[h] # <<>> /\ up'[h] = Tail(up[h]) /\ m \in UpMsg
      /\ \A j \in TeamShips : j # h => up'[j] = up[j]
      /\ char' = char
  BY OrderCarriedOut
<1>1. /\ Len(up[h]) \in Nat \ {0} /\ Len(up'[h]) = Len(up[h]) - 1 /\ m = up[h][1]
      /\ \A j \in 1 .. Len(up[h]) - 1 : up'[h][j] = up[h][j + 1]
  BY <1>0, TailIs
<1>2. SUFFICES ASSUME NEW g \in Accounts, account'[g].team # NoTeam, account'[g].priv = Master
               PROVE  \E o \in Accounts :
                        /\ Owns(team_data', account'[g].team, o)
                        /\ \/ o = g
                           \/ \E k \in TeamShips : /\ up'[k] # <<>> /\ Head(up'[k]) = Retire(account'[g].team, g)
                                                   /\ char'[g].ship = k
  BY DEF AccountsOK
<1> DEFINE t == account'[g].team
<1>3. t \in TeamIds BY <1>2 DEF TeamsTyped, TeamIds
<1>4. \/ /\ account[g].team = t /\ account[g].priv = Master
         /\ ~Ends(m, t) /\ m # Retire(t, g)
      \/ Rise(m, t) /\ m.who = g
      \/ Owns(team_data', t, g)
  BY <1>2, OrderMasters
<1>5. ASSUME NEW o \in Accounts, Owns(team_data, t, o), ~Ends(m, t)
      PROVE  Owns(team_data', t, IF Rise(m, t) THEN m.who ELSE o)
  BY <1>3, <1>5, OrderOwners
<1>6. Turns(m, t) => \E o \in Accounts : TurnedBy(up[h], 1, t, o) /\ Here(char[o], h) /\ Owns(team_data, t, o)
  BY <1>0, <1>3, HeadTurns
<1> HIDE DEF m, t
<1>7. CASE Owns(team_data', t, g) BY <1>7 DEF t
<1>8. CASE Rise(m, t) /\ m.who = g
  <2>1. ~Ends(m, t) /\ Turns(m, t) BY <1>8 DEF Rise, Ends, Turns
  <2>2. Owns(team_data', t, g) BY <1>5, <1>6, <1>8, <2>1
  <2> QED BY <2>2 DEF t
<1>9. CASE account[g].team = t /\ account[g].priv = Master /\ ~Ends(m, t) /\ m # Retire(t, g)
  <2>1. PICK o \in Accounts :
          /\ Owns(team_data, t, o)
          /\ \/ o = g
             \/ \E k \in TeamShips : up[k] # <<>> /\ Head(up[k]) = Retire(t, g) /\ char[g].ship = k
    BY <1>3, <1>9 DEF HandOvers, AccountsOK, TeamIds
  <2> DEFINE w == IF Rise(m, t) THEN m.who ELSE o
  <2>2. w \in Accounts /\ Owns(team_data', t, w)
    <3>1. Rise(m, t) => m.who \in Accounts BY <1>0, UpMsgFacts DEF Rise
    <3> QED BY <1>5, <1>9, <2>1, <3>1
  <2>3. CASE \E k \in TeamShips : up[k] # <<>> /\ Head(up[k]) = Retire(t, g) /\ char[g].ship = k
    <3>1. PICK k \in TeamShips : up[k] # <<>> /\ Head(up[k]) = Retire(t, g) /\ char[g].ship = k BY <2>3
    <3>2. k # h BY <1>9, <3>1 DEF m
    <3>3. up'[k] = up[k] /\ char'[g].ship = k BY <1>0, <3>1, <3>2
    <3> HIDE DEF w
    <3> QED BY <2>2, <3>1, <3>3 DEF t
  <2>4. CASE o = g
    <3>1. CASE ~Rise(m, t) BY <2>2, <2>4, <3>1 DEF t
    <3>2. CASE Rise(m, t)
      <4>1. Turns(m, t) /\ ~Ends(m, t) BY <3>2 DEF Turns, Rise, Ends
      <4>2. PICK v \in Accounts : TurnedBy(up[h], 1, t, v) /\ Here(char[v], h) /\ Owns(team_data, t, v)
        BY <1>6, <4>1
      <4>3. v = g BY <2>1, <2>4, <4>2, OwnsOne DEF TeamsTyped
      <4>4. 1 + 1 \in 1 .. Len(up[h]) /\ up[h][1 + 1] = Retire(t, g) BY <1>1, <4>1, <4>2, <4>3 DEF TurnedBy
      <4>5. 1 \in 1 .. Len(up[h]) - 1 BY <1>1, <4>4
      <4>6. up'[h][1] = Retire(t, g) /\ Len(up'[h]) # 0 BY <1>1, <4>4, <4>5
      <4>7. up'[h] \in Seq(UpMsg) /\ up'[h] # <<>>
        <5>1. up'[h] \in Seq(UpMsg) BY DEF TeamsTyped
        <5> QED BY <4>6, <5>1
      <4>8. Head(up'[h]) = Retire(t, g) BY <4>6, <4>7, TailIs
      <4>9. char'[g].ship = h BY <1>0, <4>2, <4>3 DEF Here
      <4> HIDE DEF w
      <4> QED BY <2>2, <4>7, <4>8, <4>9 DEF t
    <3> QED BY <3>1, <3>2
  <2> QED BY <2>1, <2>3, <2>4
<1> QED BY <1>4, <1>7, <1>8, <1>9

LEMMA OrderMade ==
  ASSUME TeamsTyped, LoadsOK, HandOvers, NEW h \in TeamShips, TeamOrder(h)
  PROVE  MadeOK'
<1> DEFINE m == Head(up[h])
<1>0. /\ up[h] \in Seq(UpMsg) /\ up[h] # <<>> /\ up'[h] = Tail(up[h]) /\ m \in UpMsg
      /\ \A j \in TeamShips : j # h => up'[j] = up[j] /\ down'[j] = down[j]
      /\ char' = char
      /\ \A k \in TeamShips : up[k] \in Seq(UpMsg) /\ Len(up[k]) \in Nat /\ down[k] \in Seq(DownMsg)
  BY OrderCarriedOut DEF TeamsTyped
<1>1. /\ Len(up[h]) \in Nat \ {0} /\ Len(up'[h]) = Len(up[h]) - 1 /\ m = up[h][1] /\ 1 \in 1 .. Len(up[h])
      /\ \A j \in 1 .. Len(up[h]) - 1 : up'[h][j] = up[h][j + 1] /\ j + 1 \in 1 .. Len(up[h])
  BY <1>0, TailIs
<1>2. \/ down' = down
      \/ \E a \in DownMsg :
           /\ down'[h] = Append(down[h], a)
           /\ a.kind = "loaded" =>
                /\ m.kind = "load" /\ a.who = m.by /\ a.team = account[a.who].team
                /\ a.team # NoTeam => a.priv = account[a.who].priv
           /\ a.kind = "created" => m.kind = "create" /\ a.who = m.by /\ a.team = NewId
  BY OrderCarriedOut
<1>3. ASSUME NEW k \in TeamShips, NEW p \in 1 .. Len(up'[k]) PROVE \E q \in 1 .. Len(up[k]) : up'[k][p] = up[k][q]
  <2>1. CASE k = h BY <1>1, <2>1
  <2>2. CASE k # h BY <1>0, <2>2
  <2> QED BY <2>1, <2>2
\* What is on the way to a ship was, or is the answer to this order.
<1>4. ASSUME NEW k \in TeamShips, NEW j \in 1 .. Len(down'[k]), ~(j \in 1 .. Len(down[k]) /\ down'[k][j] = down[k][j])
      PROVE  /\ k = h /\ j = Len(down[h]) + 1 /\ down' # down /\ down'[k][j] \in DownMsg
             /\ down'[k][j].kind = "loaded" =>
                  /\ m.kind = "load" /\ down'[k][j].who = m.by /\ down'[k][j].team = account[m.by].team
                  /\ down'[k][j].team # NoTeam => down'[k][j].priv = account[m.by].priv
             /\ down'[k][j].kind = "created" => m.kind = "create" /\ down'[k][j].who = m.by /\ down'[k][j].team = NewId
  <2>1. k = h /\ down' # down BY <1>0, <1>4
  <2>2. PICK a \in DownMsg :
           /\ down'[h] = Append(down[h], a)
           /\ a.kind = "loaded" =>
                /\ m.kind = "load" /\ a.who = m.by /\ a.team = account[a.who].team
                /\ a.team # NoTeam => a.priv = account[a.who].priv
           /\ a.kind = "created" => m.kind = "create" /\ a.who = m.by /\ a.team = NewId
    BY <1>2, <2>1
  <2>3. /\ Len(down'[h]) = Len(down[h]) + 1 /\ Len(down[h]) \in Nat
        /\ \A i \in 1 .. Len(down[h]) : down'[h][i] = down[h][i]
        /\ down'[h][Len(down[h]) + 1] = a
    BY <1>0, <2>2, AppendIs
  <2>4. j = Len(down[h]) + 1
    <3>1. j \in 1 .. Len(down[h]) \/ j = Len(down[h]) + 1 BY <2>1, <2>3
    <3> QED BY <1>4, <2>1, <2>3, <3>1
  <2>5. down'[k][j] = a BY <2>1, <2>3, <2>4
  <2> QED BY <2>1, <2>2, <2>4, <2>5
<1>4b. ASSUME NEW k \in TeamShips, NEW j \in 1 .. Len(down[k]) PROVE j \in 1 .. Len(down'[k]) /\ down'[k][j] = down[k][j]
  <2>1. CASE down'[k] = down[k] BY <2>1
  <2>2. CASE down'[k] # down[k]
    <3>1. k = h BY <1>0, <2>2
    <3>2. PICK a \in DownMsg : down'[h] = Append(down[h], a) BY <1>2, <2>2, <3>1
    <3>3. /\ Len(down'[h]) = Len(down[h]) + 1 /\ Len(down[h]) \in Nat
          /\ \A i \in 1 .. Len(down[h]) : down'[h][i] = down[h][i]
      BY <1>0, <3>2, AppendIs
    <3> QED BY <3>1, <3>3
  <2> QED BY <2>1, <2>2
<1>5. \A t \in TeamIds, o \in Accounts : Owns(team_data, t, o) /\ ~Turns(m, t) => Owns(team_data', t, o)
  BY OrderOwners DEF Turns
<1>6. m.kind \in {"create", "load"} => m.by \in Accounts BY <1>0, UpMsgFacts
<1>7. m.kind = "create" /\ down' # down => Owns(team_data', NewId, m.by) BY OrderMakes
<1>8. m.kind = "load" /\ account[m.by].team \in TeamIds /\ account[m.by].priv = Master =>
        Owns(team_data, account[m.by].team, m.by) /\ ~char[m.by].loaded
  BY <1>0, <1>6, LoadedOwns
<1> HIDE DEF m
<1>9. SUFFICES ASSUME NEW k \in TeamShips, NEW i \in 1 .. Len(down'[k]), down'[k][i].kind = "created"
               PROVE  Untouched(down'[k][i].team, down'[k][i].who, team_data', up', down', char', k, i)
  BY DEF MadeOK
\* An answer that was on its way.
<1>10. CASE i \in 1 .. Len(down[k]) /\ down'[k][i] = down[k][i]
  <2> DEFINE t == down[k][i].team
             who == down[k][i].who
  <2>1. Untouched(t, who, team_data, up, down, char, k, i) BY <1>9, <1>10 DEF HandOvers, MadeOK
  <2>2. t \in TeamIds /\ who \in Accounts /\ Here(char[who], k)
    <3>1. down[k] \in Seq(DownMsg) BY <1>0
    <3>2. down[k][i] \in DownMsg BY <1>10, <3>1
    <3> QED BY <1>9, <1>10, <3>2, DownMsgFacts DEF LoadsOK, Waiting
  <2> HIDE DEF t, who
  <2>3. ~Turns(m, t) BY <1>1, <2>1 DEF Untouched
  <2>4. Owns(team_data', t, who) BY <1>5, <2>1, <2>2, <2>3 DEF Untouched
  <2>5. \A l \in TeamShips : \A p \in 1 .. Len(up'[l]) : ~Turns(up'[l][p], t)
    <3>1. TAKE l \in TeamShips
    <3>2. TAKE p \in 1 .. Len(up'[l])
    <3>3. PICK q \in 1 .. Len(up[l]) : up'[l][p] = up[l][q] BY <1>3
    <3> QED BY <2>1, <3>3 DEF Untouched
  <2>6. ASSUME NEW l \in TeamShips, NEW j \in 1 .. Len(down'[l])
        PROVE  /\ ~(down'[l][j].kind = "loaded" /\ down'[l][j].team = t /\ down'[l][j].priv = Master)
               /\ down'[l][j].kind = "created" /\ down'[l][j].team = t => l = k /\ j = i
    <3>1. CASE j \in 1 .. Len(down[l]) /\ down'[l][j] = down[l][j]
      <4>1. /\ ~(down[l][j].kind = "loaded" /\ down[l][j].team = t /\ down[l][j].priv = Master)
            /\ down[l][j].kind = "created" /\ down[l][j].team = t => l = k /\ j = i
        BY <2>1, <3>1 DEF Untouched
      <4> QED BY <3>1, <4>1
    <3>2. CASE ~(j \in 1 .. Len(down[l]) /\ down'[l][j] = down[l][j])
      <4> DEFINE a == down'[l][j]
      <4>1. /\ a.kind = "loaded" =>
                 /\ m.kind = "load" /\ a.team = account[m.by].team
                 /\ a.team # NoTeam => a.priv = account[m.by].priv
            /\ a.kind = "created" => a.team = NewId
        BY <1>4, <3>2
      <4> HIDE DEF a
      <4>2. ASSUME a.kind = "loaded", a.team = t, a.priv = Master PROVE FALSE
        <5>1. account[m.by].team = t /\ account[m.by].priv = Master /\ m.kind = "load"
          BY <2>2, <4>1, <4>2 DEF TeamIds
        <5>2. Owns(team_data, t, m.by) /\ ~char[m.by].loaded BY <1>8, <2>2, <5>1
        <5>3. m.by = who BY <2>1, <5>2, OwnsOne DEF Untouched, TeamsTyped
        <5> QED BY <2>2, <5>2, <5>3 DEF Here
      <4>3. ~(a.kind = "created" /\ a.team = t) BY <2>1, <4>1, NewNotOwned DEF Untouched
      <4> QED BY <4>2, <4>3 DEF a
    <3> QED BY <3>1, <3>2
  <2>7. \A g \in Accounts : ~Rules(char'[g], t) BY <1>0, <2>1 DEF Untouched
  <2>8. Untouched(t, who, team_data', up', down', char', k, i) BY <2>4, <2>5, <2>6, <2>7 DEF Untouched
  <2> QED BY <1>10, <2>8 DEF t, who
\* The answer to an order that makes a team.
<1>11. CASE ~(i \in 1 .. Len(down[k]) /\ down'[k][i] = down[k][i])
  <2> DEFINE t == NewId
  <2>1. /\ k = h /\ i = Len(down[h]) + 1 /\ down' # down
        /\ m.kind = "create" /\ down'[k][i].who = m.by /\ down'[k][i].team = t
    BY <1>4, <1>9, <1>11
  <2>2. Owns(team_data', t, m.by) BY <1>7, <2>1
  <2>3. t \in TeamIds /\ \A o : ~Owns(team_data, t, o) BY NewTeamIs, NewNotOwned
  <2> HIDE DEF t
  <2>4. \A q, n, g : ~LeftTo(q, team_data, n, t, g) BY <2>3 DEF LeftTo
  <2>5. \A l \in TeamShips : \A p \in 1 .. Len(up'[l]) : ~Turns(up'[l][p], t)
    <3>1. TAKE l \in TeamShips
    <3>2. TAKE p \in 1 .. Len(up'[l])
    <3>3. PICK q \in 1 .. Len(up[l]) : up'[l][p] = up[l][q] BY <1>3
    <3>4. TurnsOK(up[l], team_data, char, l) BY DEF HandOvers
    <3> QED BY <2>3, <2>4, <3>3, <3>4 DEF TurnsOK
  <2>6. \A g \in Accounts : ~Rules(char'[g], t)
    <3>1. SUFFICES ASSUME NEW g \in Accounts, Rules(char[g], t) PROVE FALSE BY <1>0
    <3>2. char[g] \in Copy BY DEF TeamsTyped
    <3>3. char[g].ship \in TeamShips BY <3>1, <3>2 DEF Copy, Rules
    <3> QED BY <2>3, <2>4, <3>1, <3>3 DEF HandOvers, RulersOK
  <2>7. ASSUME NEW l \in TeamShips, NEW j \in 1 .. Len(down'[l])
        PROVE  /\ ~(down'[l][j].kind = "loaded" /\ down'[l][j].team = t /\ down'[l][j].priv = Master)
               /\ down'[l][j].kind = "created" /\ down'[l][j].team = t => l = k /\ j = i
    <3>1. CASE j \in 1 .. Len(down[l]) /\ down'[l][j] = down[l][j]
      <4>1. AnswersOK(up[l], down[l], team_data) BY DEF HandOvers
      <4>2. ~(down[l][j].kind = "loaded" /\ down[l][j].team = t /\ down[l][j].priv = Master)
        BY <2>3, <2>4, <3>1, <4>1 DEF AnswersOK
      <4>3. ~(down[l][j].kind = "created" /\ down[l][j].team = t)
        BY <2>3, <3>1 DEF HandOvers, MadeOK, Untouched
      <4> QED BY <3>1, <4>2, <4>3
    <3>2. CASE ~(j \in 1 .. Len(down[l]) /\ down'[l][j] = down[l][j])
      <4>1. l = k /\ j = i BY <1>4, <2>1, <3>2
      <4> QED BY <1>9, <2>1, <4>1
    <3> QED BY <3>1, <3>2
  <2>8. Untouched(t, m.by, team_data', up', down', char', k, i) BY <2>2, <2>5, <2>6, <2>7 DEF Untouched
  <2> QED BY <2>1, <2>8
<1> QED BY <1>10, <1>11

LEMMA HandOversOrder ==
  ASSUME TeamsTyped, TeamsTyped', LoadsOK, HandOvers, NEW h \in TeamShips, TeamOrder(h)
  PROVE  HandOvers'
BY OrderTurns, OrderAnswers, OrderMade, OrderAccounts DEF HandOvers

----------------------------------------------------------------------------
(* Teams: what is sound about them                                         *)

TeamsInv == TeamsTyped /\ LoadsOK /\ (strayed \/ torn \/ HandOvers)

LEMMA TeamsInvInit == TeamsInit => TeamsInv
<1> SUFFICES ASSUME TeamsInit PROVE TeamsInv OBVIOUS
<1>1. TeamsTyped /\ LoadsOK BY TeamsTypedInit, LoadsOKInit
<1>2. /\ up = [k \in TeamShips |-> <<>>] /\ down = [k \in TeamShips |-> <<>>]
      /\ char = [g \in Accounts |-> Away]
  BY DEF TeamsInit
<1>3. \A k \in TeamShips : up[k] = <<>> /\ down[k] = <<>> BY <1>2
<1>4. \A k \in TeamShips : 1 .. Len(up[k]) = {} /\ 1 .. Len(down[k]) = {} BY <1>3
<1>5. \A g \in Accounts, t \in TeamIds : ~Rules(char[g], t) BY <1>2 DEF Rules, Away
<1>6. \A k \in TeamShips : /\ TurnsOK(up[k], team_data, char, k) /\ RulersOK(up[k], team_data, char, k)
                           /\ AnswersOK(up[k], down[k], team_data)
  BY <1>4, <1>5 DEF TurnsOK, RulersOK, AnswersOK
<1>7. MadeOK BY <1>4 DEF MadeOK
<1>8. AccountsOK
  <2>1. PICK f \in TeamFiles : team_data = f.teams /\ account = f.members BY DEF TeamsInit
  <2>2. LeftBehind(f) BY TeamsAssumption
  <2>3. \A g \in Accounts : account[g].team # NoTeam /\ account[g].priv = Master => Owns(team_data, account[g].team, g)
    BY <2>1, <2>2 DEF LeftBehind, Owns
  <2> QED BY <2>3 DEF AccountsOK
<1> QED BY <1>1, <1>6, <1>7, <1>8 DEF TeamsInv, HandOvers

\* What has gone wrong with an order stays so.
LEMMA StrayedStays == TeamsTyped /\ TeamsNext /\ (strayed \/ torn) => strayed' \/ torn'
<1> SUFFICES ASSUME TeamsTyped, TeamsNext, strayed \/ torn PROVE strayed' \/ torn' OBVIOUS
<1>1. ASSUME NEW h \in TeamShips, TeamOrder(h) \/ TeamAnswer(h) PROVE strayed' \/ torn'
  BY <1>1, OrderCarriedOut, AnswerCame
<1>2. ASSUME NEW g \in Accounts, NEW h \in TeamShips, Come(g, h) PROVE strayed' \/ torn' BY <1>2 DEF Come
<1>3. ASSUME NEW g \in Accounts, Go(g) \/ AcceptInvitation(g) \/ Dissolve(g) PROVE strayed' \/ torn'
  BY <1>3 DEF Go, AcceptInvitation, Dissolve, Order
<1>4. ASSUME NEW g \in Accounts, NEW x \in Accounts, Promote(g, x, Master) PROVE strayed' \/ torn'
  BY <1>4 DEF Promote, Order
<1>5. ASSUME NEW g \in Accounts, NEW r \in Seq(UpMsg), Ordinary(g, r) PROVE strayed' \/ torn' BY <1>5 DEF Ordinary
<1>6. ASSUME NEW h \in TeamShips, LoseLink(h) \/ NoSuchTeam(h) \/ RegainLink(h) PROVE strayed' \/ torn'
  BY <1>6 DEF LoseLink, NoSuchTeam, RegainLink, Lose
<1> QED BY <1>1, <1>2, <1>3, <1>4, <1>5, <1>6, TeamsCases

\* A link that is lost with no order on it that promotes.
LEMMA HandOversLose ==
  ASSUME TeamsTyped, TeamsTyped', HandOvers, NEW h \in TeamShips, LoseLink(h), ~torn'
  PROVE  HandOvers'
<1>1. /\ UNCHANGED <<team_data, char, account>>
      /\ up' = [k \in TeamShips |-> IF k \in {h} THEN <<>> ELSE up[k]]
      /\ down' = [k \in TeamShips |-> IF k \in {h} THEN <<>> ELSE down[k]]
      /\ ~Promotes(up[h])
  BY DEF LoseLink, Lose
<1>2. /\ up'[h] = <<>> /\ down'[h] = <<>>
      /\ \A k \in TeamShips : k # h => up'[k] = up[k] /\ down'[k] = down[k]
  BY <1>1
<1>3. /\ up[h] \in Seq(UpMsg) /\ Len(up[h]) \in Nat /\ DOMAIN up[h] = 1 .. Len(up[h])
      /\ Len(<<>>) = 0 /\ 1 .. 0 = {}
  BY DEF TeamsTyped
<1>4. \A p \in 1 .. Len(up[h]) : up[h][p].kind # "promote" BY <1>1, <1>3 DEF Promotes
<1>5. ASSUME NEW t, NEW g, LeftTo(up[h], team_data, Len(up[h]), t, g) PROVE LeftTo(<<>>, team_data, 0, t, g)
  <2>1. \A p \in 1 .. Len(up[h]) : ~Rise(up[h][p], t) BY <1>4 DEF Rise
  <2>2. g \in Accounts /\ Owns(team_data, t, g) BY <1>3, <1>5, <2>1, LeftUnturned
  <2>3. \A k \in 1 .. 0 : ~Rise(<<>>[k], t) /\ ~Ends(<<>>[k], t) BY <1>3
  <2> QED BY <2>2, <2>3, LeftUnturned
<1>6. ASSUME NEW k \in TeamShips
      PROVE  /\ TurnsOK(up'[k], team_data', char', k) /\ RulersOK(up'[k], team_data', char', k)
             /\ AnswersOK(up'[k], down'[k], team_data')
  <2>1. /\ TurnsOK(up[k], team_data, char, k) /\ RulersOK(up[k], team_data, char, k)
        /\ AnswersOK(up[k], down[k], team_data)
    BY DEF HandOvers
  <2>2. CASE k # h BY <1>1, <1>2, <2>1, <2>2
  <2>3. CASE k = h
    <3>1. TurnsOK(<<>>, team_data, char, h) BY <1>3 DEF TurnsOK
    <3>2. RulersOK(<<>>, team_data, char, h) BY <1>3, <1>5, <2>1, <2>3 DEF RulersOK
    <3>3. AnswersOK(<<>>, <<>>, team_data) BY <1>3 DEF AnswersOK
    <3> QED BY <1>1, <1>2, <2>3, <3>1, <3>2, <3>3
  <2> QED BY <2>2, <2>3
<1>7. \A k \in TeamShips : /\ \A p \in 1 .. Len(up'[k]) : p \in 1 .. Len(up[k]) /\ up'[k][p] = up[k][p]
                          /\ \A i \in 1 .. Len(down'[k]) : i \in 1 .. Len(down[k]) /\ down'[k][i] = down[k][i]
  BY <1>2, <1>3
<1>8. MadeOK'
  <2>1. SUFFICES ASSUME NEW k \in TeamShips, NEW i \in 1 .. Len(down'[k]), down'[k][i].kind = "created"
                 PROVE  Untouched(down'[k][i].team, down'[k][i].who, team_data, up', down', char, k, i)
    BY <1>1 DEF MadeOK
  <2>2. i \in 1 .. Len(down[k]) /\ down'[k][i] = down[k][i] BY <1>7
  <2> DEFINE t == down[k][i].team
             who == down[k][i].who
  <2>3. Untouched(t, who, team_data, up, down, char, k, i) BY <2>1, <2>2 DEF HandOvers, MadeOK
  <2> HIDE DEF t, who
  <2>4. \A l \in TeamShips : \A p \in 1 .. Len(up'[l]) : ~Turns(up'[l][p], t) BY <1>7, <2>3 DEF Untouched
  <2>5. \A l \in TeamShips : \A j \in 1 .. Len(down'[l]) :
          /\ ~(down'[l][j].kind = "loaded" /\ down'[l][j].team = t /\ down'[l][j].priv = Master)
          /\ down'[l][j].kind = "created" /\ down'[l][j].team = t => l = k /\ j = i
    <3>1. TAKE l \in TeamShips
    <3>2. TAKE j \in 1 .. Len(down'[l])
    <3>3. j \in 1 .. Len(down[l]) /\ down'[l][j] = down[l][j] BY <1>7
    <3>4. /\ ~(down[l][j].kind = "loaded" /\ down[l][j].team = t /\ down[l][j].priv = Master)
          /\ down[l][j].kind = "created" /\ down[l][j].team = t => l = k /\ j = i
      BY <2>3, <3>3 DEF Untouched
    <3> QED BY <3>3, <3>4
  <2>6. Untouched(t, who, team_data, up', down', char, k, i) BY <2>3, <2>4, <2>5 DEF Untouched
  <2> QED BY <2>2, <2>6 DEF t, who
<1>9. AccountsOK'
  <2>1. ASSUME NEW t, NEW g, NEW k \in TeamShips, up[k] # <<>>, Head(up[k]) = Retire(t, g) PROVE up'[k] = up[k]
    <3>1. CASE k = h
      <4>1. Head(up[h]) = up[h][1] /\ 1 \in 1 .. Len(up[h])
        <5>1. Len(up[h]) \in Nat \ {0} /\ Head(up[h]) = up[h][1] BY <1>3, <2>1, <3>1, TailIs
        <5> QED BY <5>1
      <4>2. Head(up[h]).kind = "promote" BY <2>1, <3>1 DEF Retire
      <4> QED BY <1>4, <4>1, <4>2
    <3>2. CASE k # h BY <1>2, <3>2
    <3> QED BY <3>1, <3>2
  <2>2. AccountsOK BY DEF HandOvers
  <2> QED BY <1>1, <2>1, <2>2 DEF AccountsOK
<1> QED BY <1>6, <1>8, <1>9 DEF HandOvers

\* As long as every order came through, none is for a team that is gone.
LEMMA NoneMissing ==
  ASSUME TeamsTyped, HandOvers, NEW h \in TeamShips, NoSuchTeam(h)
  PROVE  FALSE
<1> DEFINE m == Head(up[h])
<1>1. up[h] # <<>> /\ Missing(m) /\ up[h] \in Seq(UpMsg) BY DEF NoSuchTeam, TeamsTyped
<1>2. m \in UpMsg BY <1>1, TailIs
<1> HIDE DEF m
<1>3. m.team \in TeamIds /\ Rise(m, m.team) /\ \A i \in DOMAIN team_data : team_data[i].id # m.team
  BY <1>1, <1>2, UpMsgFacts DEF Missing, Rise
<1>4. Turns(m, m.team) BY <1>3 DEF Turns
<1>5. \E o \in Accounts : Owns(team_data, m.team, o) BY <1>1, <1>3, <1>4, HeadTurns DEF m
<1> QED BY <1>3, <1>5 DEF Owns

LEMMA TeamsInvNext == TeamsInv /\ [TeamsNext]_teamVars => TeamsInv'
<1> SUFFICES ASSUME TeamsInv, [TeamsNext]_teamVars PROVE TeamsInv' OBVIOUS
<1>1. TeamsTyped' /\ LoadsOK' BY TeamsTypedNext, LoadsOKNext DEF TeamsInv
<1>2. CASE UNCHANGED teamVars
  <2>1. /\ team_data' = team_data /\ account' = account /\ char' = char /\ up' = up /\ down' = down
        /\ strayed' = strayed /\ torn' = torn
    BY <1>2 DEF teamVars
  <2>2. MadeOK => MadeOK' BY <2>1 DEF MadeOK
  <2>3. AccountsOK => AccountsOK' BY <2>1 DEF AccountsOK
  <2>4. HandOvers => HandOvers' BY <2>1, <2>2, <2>3 DEF HandOvers
  <2> QED BY <1>1, <2>1, <2>4 DEF TeamsInv
<1>3. CASE TeamsNext /\ (strayed \/ torn) BY <1>1, <1>3, StrayedStays DEF TeamsInv
<1>4. CASE TeamsNext /\ ~strayed /\ ~torn
  <2>1. SUFFICES ASSUME ~strayed', ~torn' PROVE HandOvers' BY <1>1 DEF TeamsInv
  <2>2. TeamsTyped /\ LoadsOK /\ HandOvers BY <1>4 DEF TeamsInv
  <2>3. ASSUME NEW h \in TeamShips, TeamOrder(h) PROVE HandOvers' BY <1>1, <2>2, <2>3, HandOversOrder
  <2>4. ASSUME NEW h \in TeamShips, TeamAnswer(h) PROVE HandOvers' BY <1>1, <2>2, <2>4, HandOversAnswer
  <2>5. ASSUME NEW g \in Accounts, NEW h \in TeamShips, Come(g, h) PROVE HandOvers'
    BY <1>1, <2>2, <2>5, HandOversCome
  <2>6. ASSUME NEW g \in Accounts, Go(g) \/ AcceptInvitation(g) PROVE HandOvers' BY <1>1, <2>2, <2>6, HandOversGo
  <2>7. ASSUME NEW g \in Accounts, Dissolve(g) PROVE HandOvers' BY <1>1, <2>2, <2>7, HandOversDissolve
  <2>8. ASSUME NEW g \in Accounts, NEW x \in Accounts, Promote(g, x, Master) PROVE HandOvers'
    BY <1>1, <2>1, <2>2, <2>8, HandOversPromote
  <2>9. ASSUME NEW g \in Accounts, NEW r \in Seq(UpMsg), Ordinary(g, r) PROVE HandOvers'
    BY <1>1, <2>2, <2>9, HandOversOrdinary
  <2>10. ASSUME NEW h \in TeamShips, LoseLink(h) PROVE HandOvers' BY <1>1, <2>1, <2>2, <2>10, HandOversLose
  <2>11. ASSUME NEW h \in TeamShips, NoSuchTeam(h) PROVE HandOvers' BY <2>2, <2>11, NoneMissing
  <2>12. ASSUME NEW h \in TeamShips, RegainLink(h) PROVE HandOvers'
    BY <1>1, <2>2, <2>12, HandOversSilent DEF RegainLink
  <2> QED BY <1>4, <2>2, <2>3, <2>4, <2>5, <2>6, <2>7, <2>8, <2>9, <2>10, <2>11, <2>12, TeamsCases
<1> QED BY <1>2, <1>3, <1>4

\* The accounts that are master of a team, but for a handover under way, are its head.
LEMMA MastersOwn ==
  ASSUME TeamsTyped, AccountsOK, NEW i \in Live, ~HandingOver(team_data[i].id),
         NEW g \in Accounts, account[g] = [team |-> team_data[i].id, priv |-> Master]
  PROVE  g = team_data[i].head
<1> DEFINE t == team_data[i].id
<1>1. i \in DOMAIN team_data /\ t # NoTeam BY DEF Live
<1>2. account[g].team = t /\ account[g].priv = Master OBVIOUS
<1>3. Owns(team_data, t, team_data[i].head) BY <1>1 DEF Owns
<1>4. ~HandingOver(t) OBVIOUS
<1> HIDE DEF t
<1>5. PICK o \in Accounts :
        /\ Owns(team_data, t, o)
        /\ \/ o = g
           \/ \E k \in TeamShips : up[k] # <<>> /\ Head(up[k]) = Retire(t, g) /\ char[g].ship = k
  BY <1>1, <1>2 DEF AccountsOK
<1>6. ASSUME NEW k \in TeamShips, up[k] # <<>>, Head(up[k]) = Retire(t, g) PROVE FALSE
  <2>1. up[k] \in Seq(UpMsg) BY DEF TeamsTyped
  <2>2. Head(up[k]) = up[k][1] /\ 1 \in DOMAIN up[k]
    <3>1. Len(up[k]) \in Nat \ {0} /\ DOMAIN up[k] = 1 .. Len(up[k]) /\ Head(up[k]) = up[k][1]
      BY <1>6, <2>1, TailIs
    <3> QED BY <3>1
  <2>3. Head(up[k]) \in ToSet(up[k]) BY <2>2 DEF ToSet
  <2>4. Retire(t, g).kind = "promote" /\ Retire(t, g).team = t /\ Retire(t, g).priv = Officer BY DEF Retire
  <2>5. HandingOver(t) BY <1>6, <2>3, <2>4 DEF HandingOver
  <2> QED BY <1>4, <2>5
<1>7. o = g BY <1>5, <1>6
<1>8. o = team_data[i].head BY <1>3, <1>5, OwnsOne DEF TeamsTyped
<1> QED BY <1>7, <1>8

LEMMA TeamsInvGives == TeamsInv => TeamIdsUnique /\ OneMaster
<1> SUFFICES ASSUME TeamsInv PROVE TeamIdsUnique /\ OneMaster OBVIOUS
<1>1. TeamIdsUnique BY DEF TeamsInv, TeamsTyped, Distinctly, TeamIdsUnique, Live
<1>2. ASSUME ~strayed, ~torn, NEW i \in Live, ~HandingOver(team_data[i].id)
      PROVE  Cardinality({g \in Accounts : account[g] = [team |-> team_data[i].id, priv |-> Master]}) <= 1
  <2> DEFINE S == {g \in Accounts : account[g] = [team |-> team_data[i].id, priv |-> Master]}
  <2>1. \A g \in S : g = team_data[i].head BY <1>2, MastersOwn DEF TeamsInv, HandOvers
  <2>2. S = {} \/ S = {team_data[i].head} BY <2>1
  <2> HIDE DEF S
  <2> DEFINE w == team_data[i].head
  <2>4. S = {} \/ S = {w} BY <2>2
  <2> HIDE DEF w
  <2>5. Cardinality({}) = 0 /\ Cardinality({w}) = 1 BY FS_EmptySet, FS_Singleton
  <2>3. Cardinality(S) <= 1
    <3>1. CASE S = {} BY <2>5, <3>1
    <3>2. CASE S = {w} BY <2>5, <3>2
    <3> QED BY <2>4, <3>1, <3>2
  <2> QED BY <2>3 DEF S
<1>3. OneMaster BY <1>2 DEF OneMaster
<1> QED BY <1>1, <1>3

\* An order ends a team at the order of its head only.
LEMMA EndedByHead ==
  ASSUME TeamsInv, ~strayed, ~torn, NEW h \in TeamShips, TeamOrder(h),
         NEW i \in DOMAIN team_data, team_data[i].id # NoTeam, i \in DOMAIN team_data', team_data'[i].id = NoTeam
  PROVE  up[h] # <<>> /\ up'[h] # up[h] /\ Head(up[h]).by = team_data[i].head
<1> DEFINE m == Head(up[h])
           t == team_data[i].id
<1>0. TeamsTyped /\ HandOvers BY DEF TeamsInv
<1>1. up[h] \in Seq(UpMsg) /\ up[h] # <<>> /\ up'[h] = Tail(up[h]) BY <1>0, OrderCarriedOut
<1>2. Len(up[h]) \in Nat /\ Len(up'[h]) = Len(up[h]) - 1 /\ m = up[h][1] BY <1>1, TailIs
<1>3. up'[h] # up[h] BY <1>2
<1>4. /\ Owns(team_data, t, team_data[i].head) /\ t \in TeamIds
      /\ team_data[i].head \in Accounts
  <2>1. team_data[i] \in TeamRecord BY <1>0 DEF TeamsTyped
  <2> QED BY <2>1 DEF Owns, TeamRecord, TeamIds
<1>5. Ends(m, t)
  <2>1. SUFFICES ASSUME ~Ends(m, t) PROVE FALSE OBVIOUS
  <2>2. /\ m \in UpMsg
        /\ \/ m.kind = "create" /\ CreateTeam(h, m)
           \/ m.kind = "dissolve" /\ DissolveTeam(h, m)
           \/ m.kind = "remove" /\ RemoveTeamMember(m)
           \/ m.kind = "promote" /\ PromoteTeamMember(m)
           \/ m.kind = "add" /\ AddTeamMember(m)
           \/ m.kind = "load" /\ LoadTeam(h, m)
        /\ team_data[i] \in TeamRecord
    BY <1>0, OrderKinds DEF TeamsTyped
  <2> HIDE DEF m
  <2>3. CASE team_data' = team_data BY <2>3
  <2>4. CASE m.kind = "create" /\ CreateTeam(h, m)
    <3>1. CASE UNCHANGED team_data BY <2>3, <3>1
    <3>2. CASE ~UNCHANGED team_data
      <4> DEFINE r == [id |-> NewId, owner |-> m.by, head |-> m.by, name |-> m.name]
      <4>1. team_data' = Written(NewRecord, r) BY <2>4, <3>2 DEF CreateTeam
      <4>2. r \in TeamRecord /\ r.id = NewId
        <5>1. m.by \in Accounts /\ m.name \in Names BY <2>2, <2>4, UpMsgFacts
        <5>2. NewId \in TeamIds /\ NoOne \notin Accounts BY <1>0, NewTeamIs, TeamsAssumption
        <5> QED BY <5>1, <5>2 DEF TeamRecord, TeamIds
      <4> HIDE DEF r
      <4>3. i # NewRecord => team_data'[i] = team_data[i] BY <1>0, <4>1, <4>2, WrittenIs
      <4>4. NewRecord \in DOMAIN team_data => team_data[NewRecord].id = NoTeam BY <1>0, NewTeamIs
      <4> QED BY <4>3, <4>4
    <3> QED BY <3>1, <3>2
  <2>5. CASE m.kind = "dissolve" /\ DissolveTeam(h, m)
    <3>1. team_data' = [j \in DOMAIN team_data |->
                 IF team_data[j].id = m.team
                 THEN [id |-> NoTeam, owner |-> NoOne, head |-> NoOne, name |-> team_data[j].name] ELSE team_data[j]]
      BY <2>5 DEF DissolveTeam
    <3>2. m.team # t BY <2>1, <2>5 DEF Ends
    <3> QED BY <3>1, <3>2
  <2>6. CASE m.kind = "remove" /\ RemoveTeamMember(m) BY <2>3, <2>6 DEF RemoveTeamMember
  <2>7. CASE m.kind = "promote" /\ PromoteTeamMember(m)
    <3>1. team_data' = [j \in DOMAIN team_data |->
                 IF team_data[j].id = m.team /\ m.priv = Master THEN HandedTo(j, m.who) ELSE team_data[j]]
      BY <2>7 DEF PromoteTeamMember
    <3>3. m.who \in Accounts BY <2>2, <2>7, UpMsgFacts
    <3>2. team_data'[i].id = team_data[i].id BY <1>0, <3>1, <3>3, HandedToIs
    <3> QED BY <3>2
  <2>8. CASE m.kind = "add" /\ AddTeamMember(m) BY <2>3, <2>8 DEF AddTeamMember
  <2>9. CASE m.kind = "load" /\ LoadTeam(h, m) BY <2>3, <2>9 DEF LoadTeam
  <2> QED BY <2>2, <2>4, <2>5, <2>6, <2>7, <2>8, <2>9
<1> HIDE DEF t
<1>6. Turns(m, t) /\ ~Rise(m, t) BY <1>5 DEF Turns, Ends, Rise
<1>7. PICK o \in Accounts : TurnedBy(up[h], 1, t, o) /\ Owns(team_data, t, o)
  BY <1>0, <1>1, <1>4, <1>6, HeadTurns
<1>8. m.by = o BY <1>2, <1>6, <1>7 DEF TurnedBy
<1>9. o = team_data[i].head BY <1>0, <1>4, <1>7, OwnsOne DEF TeamsTyped
<1> QED BY <1>1, <1>3, <1>8, <1>9

\* Every team has an id of its own.  It has one master, but between the two
\* orders of a handover and once an order that promotes was lost with its link
\* or was of somebody of another team: for any number of players, ships, teams
\* and orders, any files to start from and any links lost.
THEOREM TeamsAlwaysSound == TeamsSpec => []TeamsSound
<1>1. TeamsInv => TeamsSound BY TeamsInvGives DEF TeamsSound
<1> QED BY <1>1, TeamsInvInit, TeamsInvNext, PTL DEF TeamsSpec

\* A step of the teams ends one at the order of its head only.
LEMMA DissolvedStep ==
  TeamsInv /\ [TeamsNext]_teamVars =>
    [\A i \in DOMAIN team_data :
       team_data[i].id # NoTeam /\ i \in DOMAIN team_data' /\ team_data'[i].id = NoTeam =>
         \/ strayed \/ torn
         \/ \E h \in TeamShips : up[h] # <<>> /\ up'[h] # up[h] /\ Head(up[h]).by = team_data[i].head]_teamVars
<1>1. SUFFICES ASSUME TeamsInv, TeamsNext, ~strayed, ~torn, NEW i \in DOMAIN team_data,
                      team_data[i].id # NoTeam, i \in DOMAIN team_data', team_data'[i].id = NoTeam
               PROVE  \E h \in TeamShips : up[h] # <<>> /\ up'[h] # up[h] /\ Head(up[h]).by = team_data[i].head
  OBVIOUS
<1>2. TeamsTyped /\ team_data' # team_data BY <1>1 DEF TeamsInv
<1>3. \E h \in TeamShips : TeamOrder(h)
  <2>1. \A h \in TeamShips : ~TeamAnswer(h) /\ ~LoseLink(h) /\ ~NoSuchTeam(h) /\ ~RegainLink(h)
    BY <1>2 DEF TeamAnswer, LoseLink, NoSuchTeam, RegainLink, Lose
  <2>2. \A g \in Accounts : /\ \A h \in TeamShips : ~Come(g, h)
                            /\ ~Go(g) /\ ~AcceptInvitation(g) /\ ~Dissolve(g)
                            /\ \A x \in Accounts : ~Promote(g, x, Master)
                            /\ \A r \in Seq(UpMsg) : ~Ordinary(g, r)
    BY <1>2 DEF Come, Go, AcceptInvitation, Dissolve, Promote, Ordinary, Order, Says
  <2> QED BY <1>1, <1>2, <2>1, <2>2, TeamsCases
<1> QED BY <1>1, <1>3, EndedByHead

\* A team is dissolved at the order only of who was made its master last,
\* however many ships pass orders on, whoever has not heard yet that it was
\* handed over and whichever other orders are lost with the links (with the
\* exceptions above).
THEOREM DissolvedByMasterOnly == TeamsSpec => DissolvedByMaster
BY DissolvedStep, TeamsInvInit, TeamsInvNext, PTL DEF TeamsSpec, DissolvedByMaster

----------------------------------------------------------------------------
(* Accounts: one client of an account, with the character it chose         *)

\* What p shows is what its account was given last.
Current(p) == program[p].who \in Users /\ program[p].sixtyfour = security[program[p].who].sixtyfour

LoginTyped ==
  /\ security \in [Users -> [sixtyfour : Nat, thirtytwo : Nat, slot : Slots \cup {NoSlot}]]
  /\ conn \in [Programs ->
       [open : BOOLEAN, todc : BOOLEAN, spent : BOOLEAN, guildcard : Users \cup {Nobody},
        sendingchars : BOOLEAN, slotnum : Slots \cup {NoSlot}, dress_flag : BOOLEAN]]
  /\ program \in [Programs ->
       [who : Users \cup {Nobody}, sixtyfour : Nat, thirtytwo : Nat, chosen : Slots \cup {NoSlot},
        dressing : Slots \cup {NoSlot}]]
  /\ logins \in Nat

\* Each login is numbered apart.
LoginsApart ==
  /\ \A p \in Programs : program[p].sixtyfour <= logins
  /\ \A g \in Users : security[g].sixtyfour <= logins
  /\ \A p, q \in Programs :
       program[p].who \in Users /\ program[q].who \in Users /\ program[p].sixtyfour = program[q].sixtyfour => p = q

\* A connection is that of the account its client logged in for.  One that is
\* not given up shows what was dealt out last; one that shows it and is given
\* up came with a slot it had not chosen.
ConnsOwned ==
  \A p \in Programs :
    /\ ~conn[p].open => conn[p] = NoConn
    /\ conn[p].open => conn[p].guildcard \in Users /\ program[p].who = conn[p].guildcard
    /\ conn[p].open /\ ~conn[p].todc => Current(p)
    /\ conn[p].open /\ conn[p].todc /\ Current(p) => conn[p].slotnum # NoSlot
    /\ conn[p].open /\ ~conn[p].todc /\ conn[p].slotnum # NoSlot => conn[p].slotnum = program[p].chosen

\* What a client chose stands, and nothing that is being closed can change it.
ChoiceKept ==
  \A p \in Programs : Current(p) /\ program[p].chosen # NoSlot =>
    /\ security[program[p].who].slot = program[p].chosen
    /\ \A q \in Programs : q # p /\ conn[q].todc => conn[q].guildcard # program[p].who

LoginInv == LoginTyped /\ LoginsApart /\ ConnsOwned /\ ChoiceKept

\* Two clients whose logins are current are of two accounts.
LEMMA OneCurrent ==
  ASSUME LoginInv, NEW p \in Programs, NEW q \in Programs, Current(p), Current(q),
         program[p].who = program[q].who
  PROVE  p = q
BY DEF LoginInv, LoginsApart, Current

LEMMA InitLogin == AccountsInit => LoginInv
<1> SUFFICES ASSUME AccountsInit PROVE LoginInv OBVIOUS
<1>1. Nobody \notin Users BY AccountsAssumption
<1>2. LoginTyped BY DEF AccountsInit, LoginTyped, NoSecurity, NoConn, Idle
<1>3. \A p \in Programs : conn[p] = NoConn /\ program[p] = Idle BY DEF AccountsInit
<1>4. LoginsApart BY <1>1, <1>3 DEF AccountsInit, LoginsApart, Idle, NoSecurity
<1>5. ConnsOwned
  <2>1. ~NoConn.open BY DEF NoConn
  <2> QED BY <1>3, <2>1 DEF ConnsOwned
<1>6. ChoiceKept BY <1>1, <1>3 DEF ChoiceKept, Current, Idle
<1> QED BY <1>2, <1>4, <1>5, <1>6 DEF LoginInv

\* p's connection is closed, and perhaps what its client knows is gone.
LEMMA ClosedLogin ==
  ASSUME LoginInv, NEW p \in Programs, conn' = [conn EXCEPT ![p] = NoConn], UNCHANGED <<security, logins>>,
         program' = program \/ program' = [program EXCEPT ![p] = Idle]
  PROVE  LoginInv'
<1>1. Nobody \notin Users BY AccountsAssumption
<1>2. LoginTyped'
  <2>1. /\ NoConn \in [open : BOOLEAN, todc : BOOLEAN, spent : BOOLEAN, guildcard : Users \cup {Nobody},
                      sendingchars : BOOLEAN, slotnum : Slots \cup {NoSlot}, dress_flag : BOOLEAN]
        /\ Idle \in [who : Users \cup {Nobody}, sixtyfour : Nat, thirtytwo : Nat, chosen : Slots \cup {NoSlot},
                    dressing : Slots \cup {NoSlot}]
    BY DEF NoConn, Idle
  <2> QED BY <2>1 DEF LoginInv, LoginTyped
<1>3. /\ conn'[p] = NoConn /\ \A q \in Programs : q # p => conn'[q] = conn[q]
      /\ \A q \in Programs : program'[q] = program[q] \/ program'[q] = Idle
      /\ \A q \in Programs : q # p => program'[q] = program[q]
  BY DEF LoginInv, LoginTyped
<1>4. Idle.who = Nobody /\ Idle.sixtyfour = 0 /\ ~NoConn.open /\ ~NoConn.todc BY DEF Idle, NoConn
<1>5. LoginsApart'
  <2>1. logins \in Nat BY DEF LoginInv, LoginTyped
  <2> QED BY <1>1, <1>3, <1>4, <2>1 DEF LoginInv, LoginsApart
<1>6. ConnsOwned' BY <1>3, <1>4 DEF LoginInv, ConnsOwned, Current
<1>7. ChoiceKept' BY <1>1, <1>3, <1>4 DEF LoginInv, ChoiceKept, Current
<1> QED BY <1>2, <1>5, <1>6, <1>7 DEF LoginInv

LEMMA RefusedLogin ==
  ASSUME LoginInv, NEW p \in Programs, Refuse(p)
  PROVE  LoginInv'
<1>1. Nobody \notin Users BY AccountsAssumption
<1>2. LoginTyped' BY DEF LoginInv, LoginTyped, Refuse, Idle
<1>3. /\ ~conn[p].open /\ program'[p] = Idle /\ \A q \in Programs : q # p => program'[q] = program[q]
      /\ conn' = conn /\ security' = security /\ logins' = logins
  BY DEF LoginInv, LoginTyped, Refuse
<1>4. Idle.who = Nobody /\ Idle.sixtyfour = 0 BY DEF Idle
<1>5. LoginsApart'
  <2>1. logins \in Nat BY DEF LoginInv, LoginTyped
  <2> QED BY <1>1, <1>3, <1>4, <2>1 DEF LoginInv, LoginsApart
<1>6. ConnsOwned' BY <1>3, <1>4 DEF LoginInv, ConnsOwned, Current
<1>7. ChoiceKept' BY <1>1, <1>3, <1>4 DEF LoginInv, ChoiceKept, Current
<1> QED BY <1>2, <1>5, <1>6, <1>7 DEF LoginInv

\* Who logs in is the only one with what is dealt out, and has chosen nothing.
LEMMA LoggedIn ==
  ASSUME LoginInv, NEW p \in Programs, NEW g \in Users, LoginProcessPacket(p, g)
  PROVE  LoginInv'
<1>1. Nobody \notin Users /\ g # Nobody BY AccountsAssumption
<1>2. /\ ~conn[p].open /\ logins' = logins + 1 /\ logins \in Nat
      /\ \A q \in Programs : conn'[q] = IF conn[q].guildcard = g THEN [conn[q] EXCEPT !.todc = TRUE] ELSE conn[q]
      /\ security'[g] = [sixtyfour |-> logins + 1, thirtytwo |-> 0, slot |-> NoSlot]
      /\ \A h \in Users : h # g => security'[h] = security[h]
      /\ program'[p] = [who |-> g, sixtyfour |-> logins + 1, thirtytwo |-> 0, chosen |-> NoSlot, dressing |-> NoSlot]
      /\ \A q \in Programs : q # p => program'[q] = program[q]
  BY DEF LoginInv, LoginTyped, LoginProcessPacket, Fresh64, NoSecurity, Idle
<1>3. LoginTyped'
  <2>1. security' \in [Users -> [sixtyfour : Nat, thirtytwo : Nat, slot : Slots \cup {NoSlot}]]
    BY DEF LoginInv, LoginTyped, LoginProcessPacket, Fresh64, NoSecurity
  <2>2. program' \in [Programs ->
          [who : Users \cup {Nobody}, sixtyfour : Nat, thirtytwo : Nat, chosen : Slots \cup {NoSlot},
           dressing : Slots \cup {NoSlot}]]
    <3> DEFINE x == program'[p]
    <3>1. logins + 1 \in Nat /\ 0 \in Nat BY <1>2
    <3>2. x \in [who : Users \cup {Nobody}, sixtyfour : Nat, thirtytwo : Nat, chosen : Slots \cup {NoSlot},
                 dressing : Slots \cup {NoSlot}]
      BY <1>2, <3>1
    <3>3. program' = [program EXCEPT ![p] = x] BY DEF LoginInv, LoginTyped, LoginProcessPacket
    <3> HIDE DEF x
    <3> QED BY <3>2, <3>3 DEF LoginInv, LoginTyped
  <2>3. conn' \in [Programs ->
          [open : BOOLEAN, todc : BOOLEAN, spent : BOOLEAN, guildcard : Users \cup {Nobody},
           sendingchars : BOOLEAN, slotnum : Slots \cup {NoSlot}, dress_flag : BOOLEAN]]
    BY ZenonT(60) DEF LoginInv, LoginTyped, LoginProcessPacket
  <2> QED BY <1>2, <2>1, <2>2, <2>3 DEF LoginTyped
<1>4. \A q \in Programs : /\ conn'[q].open = conn[q].open /\ conn'[q].guildcard = conn[q].guildcard
                          /\ conn'[q].slotnum = conn[q].slotnum
                          /\ conn'[q].todc <=> conn[q].todc \/ conn[q].guildcard = g
  <2>1. conn \in [Programs ->
          [open : BOOLEAN, todc : BOOLEAN, spent : BOOLEAN, guildcard : Users \cup {Nobody},
           sendingchars : BOOLEAN, slotnum : Slots \cup {NoSlot}, dress_flag : BOOLEAN]]
    BY DEF LoginInv, LoginTyped
  <2> QED BY <1>2, <2>1
<1>5. LoginsApart'
  <2>1. /\ \A q \in Programs : program[q].sixtyfour \in Nat
        /\ \A h \in Users : security[h].sixtyfour \in Nat
    BY DEF LoginInv, LoginTyped
  <2> QED BY <1>2, <2>1 DEF LoginInv, LoginsApart
<1>6. ASSUME NEW q \in Programs, Current(q)' PROVE q = p \/ (Current(q) /\ program[q].who # g)
  <2>1. /\ \A h \in Programs : program[h].sixtyfour \in Nat /\ program[h].sixtyfour <= logins
    BY DEF LoginInv, LoginTyped, LoginsApart
  <2> QED BY <1>2, <1>6, <2>1 DEF Current
<1>7. ASSUME NEW q \in Programs, q # p, Current(q), program[q].who # g PROVE Current(q)'
  BY <1>2, <1>7 DEF Current
<1>8. ConnsOwned'
  <2>1. ASSUME NEW q \in Programs, ~conn'[q].open PROVE conn'[q] = NoConn
    <3>1. conn[q] = NoConn BY <1>4, <2>1 DEF LoginInv, ConnsOwned
    <3>2. conn[q].guildcard # g BY <1>1, <3>1 DEF NoConn
    <3> QED BY <1>2, <3>1, <3>2
  <2>2. ASSUME NEW q \in Programs, conn'[q].open
        PROVE  /\ q # p /\ conn[q].open /\ program'[q] = program[q]
               /\ conn'[q].guildcard \in Users /\ program'[q].who = conn'[q].guildcard
    BY <1>2, <1>4, <2>2 DEF LoginInv, ConnsOwned
  <2>3. ASSUME NEW q \in Programs, conn'[q].open, ~conn'[q].todc
        PROVE  Current(q)' /\ (conn'[q].slotnum # NoSlot => conn'[q].slotnum = program'[q].chosen)
    <3>1. ~conn[q].todc /\ conn[q].guildcard # g BY <1>4, <2>3
    <3>2. Current(q) /\ program[q].who # g BY <2>2, <2>3, <3>1 DEF LoginInv, ConnsOwned
    <3> QED BY <1>4, <1>7, <2>2, <2>3, <3>1, <3>2 DEF LoginInv, ConnsOwned
  <2>4. ASSUME NEW q \in Programs, conn'[q].open, conn'[q].todc, Current(q)' PROVE conn'[q].slotnum # NoSlot
    <3>1. Current(q) /\ program[q].who # g BY <1>6, <2>2, <2>4
    <3>2. conn[q].todc BY <1>4, <2>2, <2>4, <3>1
    <3> QED BY <1>4, <2>2, <2>4, <3>1, <3>2 DEF LoginInv, ConnsOwned
  <2> QED BY <2>1, <2>2, <2>3, <2>4 DEF ConnsOwned
<1>9. ChoiceKept'
  <2> SUFFICES ASSUME NEW q \in Programs, Current(q)', program'[q].chosen # NoSlot
               PROVE  /\ security'[program'[q].who].slot = program'[q].chosen
                      /\ \A r \in Programs : r # q /\ conn'[r].todc => conn'[r].guildcard # program'[q].who
    BY DEF ChoiceKept
  <2>1. q # p BY <1>2
  <2>2. Current(q) /\ program[q].who # g /\ program'[q] = program[q] BY <1>2, <1>6, <2>1
  <2>3. program[q].who \in Users BY <2>2 DEF Current
  <2>4. security'[program[q].who] = security[program[q].who] BY <1>2, <2>2, <2>3
  <2> QED BY <1>4, <2>2, <2>4 DEF LoginInv, ChoiceKept
<1> QED BY <1>3, <1>5, <1>8, <1>9 DEF LoginInv

LEMMA ConnectedLogin ==
  ASSUME LoginInv, NEW p \in Programs, Connect(p)
  PROVE  LoginInv'
<1> DEFINE g == program[p].who
           slot == security[g].slot
<1>1. Nobody \notin Users /\ g \in Users
  <2>1. g # Nobody BY DEF Connect
  <2> QED BY <2>1, AccountsAssumption DEF LoginInv, LoginTyped
<1>2. Current(p) BY <1>1 DEF Connect, Known, Current
<1>3. /\ ~conn[p].open
      /\ conn' = [conn EXCEPT ![p] =
           [NoConn EXCEPT !.open = TRUE, !.guildcard = g, !.todc = OutOfStep(p, slot),
              !.sendingchars = program[p].thirtytwo = 0, !.slotnum = slot,
              !.dress_flag = \E i \in DOMAIN dress : dress[i].guildcard = g]]
      /\ security' = [security EXCEPT ![g].thirtytwo = IF @ = 0 THEN @ + 1 ELSE @]
      /\ program' = [program EXCEPT ![p].thirtytwo = security'[g].thirtytwo]
      /\ logins' = logins
  BY DEF Connect
<1>4. slot \in Slots \cup {NoSlot} BY <1>1 DEF LoginInv, LoginTyped
<1> HIDE DEF slot
<1>5. /\ conn'[p].open /\ conn'[p].guildcard = g /\ conn'[p].slotnum = slot
      /\ conn'[p].todc <=> (slot # NoSlot /\ program[p].chosen = NoSlot)
      /\ \A q \in Programs : q # p => conn'[q] = conn[q]
  <2>1. conn'[p] = [NoConn EXCEPT !.open = TRUE, !.guildcard = g, !.todc = OutOfStep(p, slot),
                     !.sendingchars = program[p].thirtytwo = 0, !.slotnum = slot,
                     !.dress_flag = \E i \in DOMAIN dress : dress[i].guildcard = g]
    BY <1>3 DEF LoginInv, LoginTyped
  <2>2. /\ conn'[p].open /\ conn'[p].guildcard = g /\ conn'[p].slotnum = slot
        /\ conn'[p].todc = OutOfStep(p, slot)
    BY <2>1 DEF NoConn
  <2>3. \A q \in Programs : q # p => conn'[q] = conn[q] BY <1>3 DEF LoginInv, LoginTyped
  <2> QED BY <2>2, <2>3 DEF OutOfStep
<1>6. /\ security' \in [Users -> [sixtyfour : Nat, thirtytwo : Nat, slot : Slots \cup {NoSlot}]]
      /\ \A h \in Users : /\ security'[h].sixtyfour = security[h].sixtyfour
                           /\ security'[h].slot = security[h].slot
  BY <1>1, <1>3 DEF LoginInv, LoginTyped
<1>7. /\ program' \in [Programs ->
           [who : Users \cup {Nobody}, sixtyfour : Nat, thirtytwo : Nat, chosen : Slots \cup {NoSlot},
            dressing : Slots \cup {NoSlot}]]
      /\ \A q \in Programs : /\ program'[q].who = program[q].who /\ program'[q].sixtyfour = program[q].sixtyfour
                              /\ program'[q].chosen = program[q].chosen
  <2>1. security'[g].thirtytwo \in Nat BY <1>1, <1>6
  <2> QED BY <1>3, <2>1, ZenonT(60) DEF LoginInv, LoginTyped
<1>8. LoginTyped'
  <2>1. [NoConn EXCEPT !.open = TRUE, !.guildcard = g, !.todc = OutOfStep(p, slot),
            !.sendingchars = program[p].thirtytwo = 0, !.slotnum = slot,
            !.dress_flag = \E i \in DOMAIN dress : dress[i].guildcard = g]
          \in [open : BOOLEAN, todc : BOOLEAN, spent : BOOLEAN, guildcard : Users \cup {Nobody},
               sendingchars : BOOLEAN, slotnum : Slots \cup {NoSlot}, dress_flag : BOOLEAN]
    BY <1>1, <1>4 DEF NoConn, OutOfStep
  <2>2. conn' \in [Programs -> [open : BOOLEAN, todc : BOOLEAN, spent : BOOLEAN, guildcard : Users \cup {Nobody},
               sendingchars : BOOLEAN, slotnum : Slots \cup {NoSlot}, dress_flag : BOOLEAN]]
    BY <1>3, <2>1 DEF LoginInv, LoginTyped
  <2> QED BY <1>3, <1>6, <1>7, <2>2 DEF LoginInv, LoginTyped
<1>9. LoginsApart'
  <2>1. \A q \in Programs : program'[q].sixtyfour <= logins' BY <1>3, <1>7 DEF LoginInv, LoginsApart
  <2>2. \A h \in Users : security'[h].sixtyfour <= logins' BY <1>3, <1>6 DEF LoginInv, LoginsApart
  <2>3. \A q, r \in Programs :
          program'[q].who \in Users /\ program'[r].who \in Users /\ program'[q].sixtyfour = program'[r].sixtyfour
            => q = r
    BY <1>7 DEF LoginInv, LoginsApart
  <2> QED BY <2>1, <2>2, <2>3 DEF LoginsApart
<1>10. \A q \in Programs : Current(q)' <=> Current(q) BY <1>6, <1>7 DEF Current
<1>11. \A q \in Programs : Current(q) /\ program[q].chosen # NoSlot =>
         security[program[q].who].slot = program[q].chosen
  BY DEF LoginInv, ChoiceKept
<1>12. ConnsOwned'
  <2>1. ASSUME NEW q \in Programs, q # p
        PROVE  /\ ~conn'[q].open => conn'[q] = NoConn
               /\ conn'[q].open => conn'[q].guildcard \in Users /\ program'[q].who = conn'[q].guildcard
               /\ conn'[q].open /\ ~conn'[q].todc => Current(q)'
               /\ conn'[q].open /\ conn'[q].todc /\ Current(q)' => conn'[q].slotnum # NoSlot
               /\ conn'[q].open /\ ~conn'[q].todc /\ conn'[q].slotnum # NoSlot
                    => conn'[q].slotnum = program'[q].chosen
    <3>1. conn'[q] = conn[q] /\ (Current(q)' <=> Current(q)) BY <1>5, <1>10, <2>1
    <3>2. program'[q].who = program[q].who /\ program'[q].chosen = program[q].chosen BY <1>7
    <3> QED BY <3>1, <3>2 DEF LoginInv, ConnsOwned
  <2>2. /\ conn'[p].open /\ conn'[p].guildcard \in Users /\ program'[p].who = conn'[p].guildcard
        /\ Current(p)'
        /\ conn'[p].todc => conn'[p].slotnum # NoSlot
        /\ ~conn'[p].todc /\ conn'[p].slotnum # NoSlot => conn'[p].slotnum = program'[p].chosen
    BY <1>1, <1>2, <1>5, <1>7, <1>10, <1>11 DEF slot
  <2> QED BY <2>1, <2>2 DEF ConnsOwned
<1>13. ChoiceKept'
  <2> SUFFICES ASSUME NEW q \in Programs, Current(q)', program'[q].chosen # NoSlot
               PROVE  /\ security'[program'[q].who].slot = program'[q].chosen
                      /\ \A r \in Programs : r # q /\ conn'[r].todc => conn'[r].guildcard # program'[q].who
    BY DEF ChoiceKept
  <2>1. Current(q) /\ program[q].chosen # NoSlot /\ program'[q].who = program[q].who
        /\ program'[q].chosen = program[q].chosen
    BY <1>7, <1>10
  <2>2. program[q].who \in Users BY <2>1 DEF Current
  <2>3. security'[program'[q].who].slot = program'[q].chosen BY <1>6, <1>11, <2>1, <2>2
  <2>4. ASSUME NEW r \in Programs, r # q, conn'[r].todc PROVE conn'[r].guildcard # program'[q].who
    <3>1. CASE r = p
      <4>1. program[p].who # program[q].who BY <1>2, <2>1, <2>4, <3>1, OneCurrent
      <4> QED BY <1>5, <2>1, <3>1, <4>1
    <3>2. CASE r # p BY <1>5, <2>1, <2>4, <3>2 DEF LoginInv, ChoiceKept
    <3> QED BY <3>1, <3>2
  <2> QED BY <2>3, <2>4
<1> QED BY <1>8, <1>9, <1>12, <1>13 DEF LoginInv

\* p writes the slot it chose.
LEMMA ChosenLogin ==
  ASSUME LoginInv, NEW p \in Programs, NEW n \in Slots, Choosing(p), SetSlot(p, n), logins' = logins,
         conn' = [conn EXCEPT ![p].spent = conn[p].todc]
  PROVE  LoginInv'
<1> DEFINE g == conn[p].guildcard
<1>1. /\ conn[p].open /\ conn[p].slotnum = NoSlot /\ program[p].chosen = NoSlot
      /\ \A q \in Programs \ {p} : conn[q].todc => conn[p].todc
  BY DEF Choosing, Turn
<1>2. g \in Users /\ program[p].who = g BY <1>1 DEF LoginInv, ConnsOwned
<1>3. n # NoSlot BY AccountsAssumption DEF NoSlot
<1>4. LoginTyped'
  <2>1. security' \in [Users -> [sixtyfour : Nat, thirtytwo : Nat, slot : Slots \cup {NoSlot}]]
    BY <1>2 DEF LoginInv, LoginTyped, SetSlot
  <2>2. program' \in [Programs ->
          [who : Users \cup {Nobody}, sixtyfour : Nat, thirtytwo : Nat, chosen : Slots \cup {NoSlot},
           dressing : Slots \cup {NoSlot}]]
    BY <1>2 DEF LoginInv, LoginTyped, SetSlot
  <2>3. conn' \in [Programs ->
          [open : BOOLEAN, todc : BOOLEAN, spent : BOOLEAN, guildcard : Users \cup {Nobody},
           sendingchars : BOOLEAN, slotnum : Slots \cup {NoSlot}, dress_flag : BOOLEAN]]
    BY ZenonT(60) DEF LoginInv, LoginTyped
  <2> QED BY <2>1, <2>2, <2>3 DEF LoginInv, LoginTyped
<1>5. /\ \A q \in Programs : /\ conn'[q].open = conn[q].open /\ conn'[q].todc = conn[q].todc
                              /\ conn'[q].guildcard = conn[q].guildcard /\ conn'[q].slotnum = conn[q].slotnum
      /\ \A q \in Programs : q # p => conn'[q] = conn[q]
  BY DEF LoginInv, LoginTyped
<1>6. /\ \A q \in Programs : program'[q].who = program[q].who /\ program'[q].sixtyfour = program[q].sixtyfour
      /\ \A q \in Programs : q # p => program'[q] = program[q]
      /\ program'[p].chosen = n
      /\ \A h \in Users : security'[h].sixtyfour = security[h].sixtyfour
      /\ \A h \in Users : h # g => security'[h] = security[h]
      /\ security'[g].slot = n
  BY <1>2 DEF LoginInv, LoginTyped, SetSlot
<1> HIDE DEF g
<1>7. LoginsApart' BY <1>6 DEF LoginInv, LoginsApart
<1>8. \A q \in Programs : Current(q)' <=> Current(q) BY <1>6 DEF Current
<1>9. ConnsOwned'
  <2>1. ASSUME NEW q \in Programs, ~conn'[q].open PROVE conn'[q] = NoConn
    <3>1. q # p BY <1>1, <1>5, <2>1
    <3> QED BY <1>5, <2>1, <3>1 DEF LoginInv, ConnsOwned
  <2>2. ASSUME NEW q \in Programs, conn'[q].open
        PROVE  /\ conn'[q].guildcard \in Users /\ program'[q].who = conn'[q].guildcard
               /\ ~conn'[q].todc => Current(q)'
               /\ conn'[q].todc /\ Current(q)' => conn'[q].slotnum # NoSlot
    BY <1>5, <1>6, <1>8, <2>2 DEF LoginInv, ConnsOwned
  <2>3. ASSUME NEW q \in Programs, conn'[q].open, ~conn'[q].todc, conn'[q].slotnum # NoSlot
        PROVE  conn'[q].slotnum = program'[q].chosen
    <3>1. q # p BY <1>1, <1>5, <2>3
    <3> QED BY <1>5, <1>6, <2>3, <3>1 DEF LoginInv, ConnsOwned
  <2> QED BY <2>1, <2>2, <2>3 DEF ConnsOwned
<1>10. ChoiceKept'
  <2> SUFFICES ASSUME NEW q \in Programs, Current(q)', program'[q].chosen # NoSlot
               PROVE  /\ security'[program'[q].who].slot = program'[q].chosen
                      /\ \A r \in Programs : r # q /\ conn'[r].todc => conn'[r].guildcard # program'[q].who
    BY DEF ChoiceKept
  <2>1. Current(q) /\ program'[q].who = program[q].who /\ program[q].who \in Users BY <1>6, <1>8 DEF Current
  <2>2. CASE q = p
    <3>1. ~conn[p].todc BY <1>1, <2>1, <2>2 DEF LoginInv, ConnsOwned
    <3>2. \A r \in Programs : r # q => ~conn'[r].todc BY <1>1, <1>5, <2>2, <3>1
    <3> QED BY <1>2, <1>6, <2>1, <2>2, <3>2
  <2>3. CASE q # p
    <3>1. program[q].chosen # NoSlot /\ program'[q] = program[q] BY <1>6, <2>3
    <3>2. program[q].who # g
      <4>1. CASE conn[p].todc BY <2>1, <2>3, <3>1, <4>1 DEF LoginInv, ChoiceKept, g
      <4>2. CASE ~conn[p].todc
        <5>1. Current(p) BY <1>1, <4>2 DEF LoginInv, ConnsOwned
        <5> QED BY <1>2, <2>1, <2>3, <5>1, OneCurrent
      <4> QED BY <4>1, <4>2
    <3>3. security'[program[q].who] = security[program[q].who] BY <1>6, <2>1, <3>2
    <3> QED BY <1>5, <2>1, <3>1, <3>3 DEF LoginInv, ChoiceKept
  <2> QED BY <2>2, <2>3
<1> QED BY <1>4, <1>7, <1>9, <1>10 DEF LoginInv

LEMMA DressedLogin ==
  ASSUME LoginInv, NEW p \in Programs, NEW n \in Slots, DressingRoom(p, n)
  PROVE  LoginInv'
<1>1. /\ conn[p].open
      /\ conn' = [conn EXCEPT ![p] = [@ EXCEPT !.dress_flag = TRUE, !.spent = conn[p].todc]]
      /\ program' = [program EXCEPT ![p].dressing = n]
      /\ security' = security /\ logins' = logins
  BY DEF DressingRoom, Choosing, Turn
<1>2. LoginTyped'
  <2>1. program' \in [Programs ->
          [who : Users \cup {Nobody}, sixtyfour : Nat, thirtytwo : Nat, chosen : Slots \cup {NoSlot},
           dressing : Slots \cup {NoSlot}]]
    BY <1>1, SMTT(60) DEF LoginInv, LoginTyped
  <2>2. conn' \in [Programs ->
          [open : BOOLEAN, todc : BOOLEAN, spent : BOOLEAN, guildcard : Users \cup {Nobody},
           sendingchars : BOOLEAN, slotnum : Slots \cup {NoSlot}, dress_flag : BOOLEAN]]
    <3> DEFINE Conn == [open : BOOLEAN, todc : BOOLEAN, spent : BOOLEAN, guildcard : Users \cup {Nobody},
                        sendingchars : BOOLEAN, slotnum : Slots \cup {NoSlot}, dress_flag : BOOLEAN]
    <3>1. conn \in [Programs -> Conn] BY DEF LoginInv, LoginTyped
    <3> DEFINE c == conn[p]
    <3>2. c \in Conn BY <3>1
    <3>3. [c EXCEPT !.dress_flag = TRUE, !.spent = c.todc] \in Conn
      <4> HIDE DEF c
      <4> QED BY <3>2
    <3> HIDE DEF Conn
    <3>4. conn' = [conn EXCEPT ![p] = [c EXCEPT !.dress_flag = TRUE, !.spent = c.todc]] BY <1>1
    <3> HIDE DEF c
    <3>5. conn' \in [Programs -> Conn] BY <3>1, <3>3, <3>4
    <3> QED BY <3>5 DEF Conn
  <2> QED BY <1>1, <2>1, <2>2 DEF LoginInv, LoginTyped
<1>3. /\ \A q \in Programs : /\ conn'[q].open = conn[q].open /\ conn'[q].todc = conn[q].todc
                              /\ conn'[q].guildcard = conn[q].guildcard /\ conn'[q].slotnum = conn[q].slotnum
      /\ \A q \in Programs : q # p => conn'[q] = conn[q]
  BY <1>1 DEF LoginInv, LoginTyped
<1>4. \A q \in Programs : /\ program'[q].who = program[q].who /\ program'[q].sixtyfour = program[q].sixtyfour
                          /\ program'[q].chosen = program[q].chosen
  BY <1>1 DEF LoginInv, LoginTyped
<1>5. LoginsApart' BY <1>1, <1>4 DEF LoginInv, LoginsApart
<1>6. \A q \in Programs : Current(q)' <=> Current(q) BY <1>1, <1>4 DEF Current
<1>7. ConnsOwned'
  <2>1. ASSUME NEW q \in Programs, ~conn'[q].open PROVE conn'[q] = NoConn
    <3>1. q # p BY <1>1, <1>3, <2>1
    <3> QED BY <1>3, <2>1, <3>1 DEF LoginInv, ConnsOwned
  <2> QED BY <1>3, <1>4, <1>6, <2>1 DEF LoginInv, ConnsOwned
<1>8. ChoiceKept' BY <1>1, <1>3, <1>4, <1>6 DEF LoginInv, ChoiceKept
<1> QED BY <1>2, <1>5, <1>7, <1>8 DEF LoginInv

LEMMA SameLogin ==
  ASSUME LoginInv, UNCHANGED <<security, conn, program, logins>>
  PROVE  LoginInv'
BY DEF LoginInv, LoginTyped, LoginsApart, ConnsOwned, ChoiceKept, Current

LEMMA NextLogin ==
  ASSUME LoginInv, [AccountsNext]_accountVars
  PROVE  LoginInv'
<1>1. ASSUME NEW p \in Programs, NEW g \in Users, LoginProcessPacket(p, g) PROVE LoginInv'
  BY <1>1, LoggedIn
<1>2. ASSUME NEW p \in Programs, NEW n \in Slots, Select(p, n) \/ AckCharacter_Creation(p, n) PROVE LoginInv'
  <2>1. /\ Choosing(p) /\ SetSlot(p, n) /\ conn' = [conn EXCEPT ![p].spent = conn[p].todc]
        /\ logins' = logins
    BY <1>2 DEF Select, AckCharacter_Creation, Choosing, Turn
  <2> QED BY <2>1, ChosenLogin
<1>3. ASSUME NEW p \in Programs, NEW n \in Slots, DressingRoom(p, n) PROVE LoginInv' BY <1>3, DressedLogin
<1>4. ASSUME NEW p \in Programs, Close(p) \/ Leave(p) \/ ChooseShip(p) PROVE LoginInv'
  <2>1. /\ conn' = [conn EXCEPT ![p] = NoConn] /\ UNCHANGED <<security, logins>>
        /\ program' = program \/ program' = [program EXCEPT ![p] = Idle]
    BY <1>4 DEF Close, Leave, ChooseShip, Turn
  <2> QED BY <2>1, ClosedLogin
<1>5. ASSUME NEW p \in Programs, Refuse(p) PROVE LoginInv' BY <1>5, RefusedLogin
<1>6. ASSUME NEW p \in Programs, Connect(p) PROVE LoginInv' BY <1>6, ConnectedLogin
<1>7. CASE FlagsAge BY <1>7, SameLogin DEF FlagsAge
<1>8. CASE UNCHANGED accountVars BY <1>8, SameLogin DEF accountVars
<1> QED BY <1>1, <1>2, <1>3, <1>4, <1>5, <1>6, <1>7, <1>8 DEF AccountsNext

\* However often an account logs in, what each login was dealt holds for one
\* client at a time, and a choice is that client's own (security_data).
THEOREM LoginsAlwaysApart == AccountsSpec => []LoginInv
<1>1. LoginInv /\ [AccountsNext]_accountVars => LoginInv' BY NextLogin
<1> QED BY <1>1, InitLogin, PTL DEF AccountsSpec

\* One connection of an account at most is not being closed, and it goes on with
\* the character its client chose, whatever a connection that is being closed
\* still writes (security_data, "Client/Server synchronization error.").
THEOREM LoginAlwaysSound == AccountsSpec => []LoginSound
<1>1. LoginInv => OnePerAccount
  <2> SUFFICES ASSUME LoginInv, NEW p \in Programs, NEW q \in Programs,
                      conn[p].guildcard # Nobody, conn[p].guildcard = conn[q].guildcard,
                      ~conn[p].todc, ~conn[q].todc
               PROVE  p = q
    BY DEF OnePerAccount
  <2>1. NoConn.guildcard = Nobody BY DEF NoConn
  <2>2. conn[p].open /\ conn[q].open BY <2>1 DEF LoginInv, ConnsOwned
  <2> QED BY <2>2, OneCurrent DEF LoginInv, ConnsOwned
<1>2. LoginInv => SlotIsOwnChoice BY DEF LoginInv, ConnsOwned, SlotIsOwnChoice
<1>3. LoginInv => LoginSound BY <1>1, <1>2 DEF LoginSound
<1> QED BY <1>3, LoginsAlwaysApart, PTL

----------------------------------------------------------------------------
(* Guild cards: taken as often as shown, and kept as taken                 *)

CardRecord == [account : Holders \cup {0}, friend : Friends, priority : Nat, commented : BOOLEAN]
CardShown == [pair : Pairs, at : Nat]

\* Where r's entries are for pair.
ShownIn(r, pair) == {i \in DOMAIN r : r[i].pair = pair}
\* The records of g in data.
KeptFor(data, g) == {i \in DOMAIN data : data[i].account = g}

\* Each account has records for its cards, one each.
StoreSound(data) ==
  /\ data \in Seq(CardRecord)
  /\ \A g \in Holders : Cardinality(KeptFor(data, g)) <= MaxCards
  /\ \A i, j \in DOMAIN data :
       data[i].account # 0 /\ data[i].account = data[j].account /\ data[i].friend = data[j].friend => i = j

\* Every entry is for a card that was shown and has not been taken.
ShownSound ==
  /\ ship_gcsend_list \in Seq(CardShown) /\ clock \in Nat /\ owed \in [Pairs -> Int]
  /\ \A pair \in Pairs : owed[pair] >= Cardinality(ShownIn(ship_gcsend_list, pair))

CardsInv == file = guild_data /\ StoreSound(guild_data) /\ ShownSound

\* A set of numbers that has an element has a first one.
LEMMA FirstIs ==
  ASSUME NEW S \in SUBSET Nat, S # {}
  PROVE  First(S) \in S
<1>1. Min(S) \in S /\ \A n \in S : Min(S) <= n BY MinIs
<1>2. \E i \in S : \A j \in S : i <= j BY <1>1
<1> QED BY <1>2 DEF First

LEMMA PlacesFinite ==
  ASSUME NEW S, NEW s \in Seq(S), NEW T \in SUBSET (DOMAIN s)
  PROVE  IsFiniteSet(T) /\ Cardinality(T) \in Nat /\ T \in SUBSET Nat /\ \A i \in T : i <= Len(s)
<1>1. DOMAIN s = 1 .. Len(s) /\ Len(s) \in Nat OBVIOUS
<1>2. IsFiniteSet(DOMAIN s) BY <1>1, FS_Interval
<1>3. IsFiniteSet(T) BY <1>2, FS_Subset
<1> QED BY <1>1, <1>3, FS_CardinalityType

\* What is in r is in other places of s, each at one, and none of them i.
LEMMA FewerShown ==
  ASSUME NEW r \in Seq(CardShown), NEW s \in Seq(CardShown), NEW i \in DOMAIN s, NEW pair,
         NEW place \in [DOMAIN r -> DOMAIN s \ {i}],
         \A k \in DOMAIN r : r[k] = s[place[k]],
         \A k, l \in DOMAIN r : place[k] = place[l] => k = l
  PROVE  Cardinality(ShownIn(r, pair)) <= Cardinality(ShownIn(s, pair) \ {i})
<1> DEFINE A == ShownIn(r, pair)
           B == ShownIn(s, pair) \ {i}
           f == [k \in A |-> place[k]]
<1>1. IsFiniteSet(B) BY PlacesFinite DEF ShownIn
<1>2. f \in Injection(A, B) BY DEF ShownIn, Injection, IsInjective
<1> HIDE DEF A, B, f
<1>3. Cardinality(A) <= Cardinality(B) BY <1>1, <1>2, FS_Injection
<1> QED BY <1>3 DEF A, B

\* A list that is closed up has lost entry i, and nothing has been added.
LEMMA CleanedUpIs ==
  ASSUME NEW s \in Seq(CardShown), NEW i \in DOMAIN s, NEW pair
  PROVE  /\ CleanedUp(s, i) \in Seq(CardShown)
         /\ Cardinality(ShownIn(CleanedUp(s, i), pair)) <= Cardinality(ShownIn(s, pair) \ {i})
<1>1. /\ Len(s) \in Nat /\ DOMAIN s = 1 .. Len(s) /\ s # <<>>
      /\ Tail(s) \in Seq(CardShown) /\ Len(Tail(s)) = Len(s) - 1 /\ DOMAIN Tail(s) = 1 .. Len(s) - 1
      /\ \A k \in 1 .. Len(s) - 1 : Tail(s)[k] = s[k + 1]
  BY TailIs
<1>2. CASE i = 1
  <2> DEFINE place == [k \in DOMAIN Tail(s) |-> k + 1]
  <2>1. place \in [DOMAIN Tail(s) -> DOMAIN s \ {i}] BY <1>1, <1>2
  <2>2. \A k \in DOMAIN Tail(s) : Tail(s)[k] = s[place[k]] BY <1>1
  <2>3. \A k, l \in DOMAIN Tail(s) : place[k] = place[l] => k = l BY <1>1
  <2> HIDE DEF place
  <2> QED BY <1>1, <1>2, <2>1, <2>2, <2>3, FewerShown DEF CleanedUp
<1>3. CASE i # 1
  <2> DEFINE t == Tail(s)
             r == RemoveAt(t, i - 1)
             place == [k \in DOMAIN r |-> IF k < i - 1 THEN k + 1 ELSE k + 2]
  <2>1. i - 1 \in 1 .. Len(t) BY <1>1, <1>3
  <2>2. /\ r \in Seq(CardShown) /\ Len(r) = Len(t) - 1
        /\ \A k \in 1 .. Len(t) - 1 : r[k] = IF k < i - 1 THEN t[k] ELSE t[k + 1]
    <3> HIDE DEF t
    <3> QED BY <1>1, <2>1, RemoveAtIs DEF t
  <2>3. DOMAIN r = 1 .. Len(s) - 2 /\ i \in 2 .. Len(s) BY <1>1, <1>3, <2>2
  <2>4. \A k \in DOMAIN r : r[k] = IF k < i - 1 THEN s[k + 1] ELSE s[k + 2] BY <1>1, <2>2, <2>3
  <2> HIDE DEF r
  <2>5. place \in [DOMAIN r -> DOMAIN s \ {i}] BY <1>1, <2>3
  <2>6. \A k \in DOMAIN r : r[k] = s[place[k]] BY <2>3, <2>4
  <2>7. \A k, l \in DOMAIN r : place[k] = place[l] => k = l BY <2>3
  <2> HIDE DEF place
  <2>8. CleanedUp(s, i) = r BY <1>3 DEF CleanedUp, r
  <2> QED BY <2>2, <2>5, <2>6, <2>7, <2>8, FewerShown, ZenonT(60)
<1> QED BY <1>2, <1>3

\* One place of a sequence is written.
LEMMA WrittenIn ==
  ASSUME NEW S, NEW s \in Seq(S), NEW k, NEW x \in S
  PROVE  [s EXCEPT ![k] = x] \in Seq(S) /\ DOMAIN [s EXCEPT ![k] = x] = DOMAIN s
<1>1. CASE k \in 1 .. Len(s)
  <2>1. [s EXCEPT ![k] = x] \in Seq(S) BY <1>1, ExceptSeq
  <2>2. DOMAIN [s EXCEPT ![k] = x] = DOMAIN s OBVIOUS
  <2> QED BY <2>1, <2>2
<1>2. CASE k \notin 1 .. Len(s)
  <2>1. DOMAIN s = 1 .. Len(s) OBVIOUS
  <2>2. s = [i \in DOMAIN s |-> s[i]] BY <2>1
  <2>3. [s EXCEPT ![k] = x] = s BY <1>2, <2>1, <2>2
  <2> QED BY <2>3
<1> QED BY <1>1, <1>2

\* A card shown is one entry more at most, and that for it.
LEMMA PrepIs ==
  ASSUME ShownSound, NEW pair \in Pairs, PrepGuildCard(pair), NEW q \in Pairs
  PROVE  /\ ship_gcsend_list' \in Seq(CardShown)
         /\ Cardinality(ShownIn(ship_gcsend_list', q))
              <= Cardinality(ShownIn(ship_gcsend_list, q)) + (IF q = pair THEN 1 ELSE 0)
<1> DEFINE s == ship_gcsend_list
           card == [pair |-> pair, at |-> clock]
<1>1. s \in Seq(CardShown) /\ card \in CardShown /\ card.pair = pair BY DEF ShownSound, CardShown
<1>2. \/ \E k : s' = [s EXCEPT ![k] = card]
      \/ s' = Append(s, card)
  BY DEF PrepGuildCard
<1>3. PICK k : s' \in Seq(CardShown) /\ \A i \in DOMAIN s' : (i \in DOMAIN s /\ s'[i] = s[i]) \/ (i = k /\ s'[i] = card)
  <2>1. CASE \E k : s' = [s EXCEPT ![k] = card]
    <3>1. PICK k : s' = [s EXCEPT ![k] = card] BY <2>1
    <3>2. s' \in Seq(CardShown) /\ DOMAIN s' = DOMAIN s
      <4> HIDE DEF card, s
      <4>1. [s EXCEPT ![k] = card] \in Seq(CardShown) /\ DOMAIN [s EXCEPT ![k] = card] = DOMAIN s
        BY <1>1, WrittenIn
      <4> QED BY <3>1, <4>1 DEF s
    <3>3. \A i \in DOMAIN s' : s'[i] = IF i = k THEN card ELSE s[i] BY <3>1, <3>2
    <3> QED BY <3>2, <3>3
  <2>2. CASE s' = Append(s, card)
    <3> HIDE DEF card
    <3>1. /\ s' \in Seq(CardShown) /\ Len(s) \in Nat /\ DOMAIN s = 1 .. Len(s) /\ DOMAIN s' = 1 .. Len(s) + 1
          /\ \A i \in 1 .. Len(s) : s'[i] = s[i]
          /\ s'[Len(s) + 1] = card
      BY <1>1, <2>2, AppendIs
    <3> HIDE DEF s
    <3>2. \A i \in DOMAIN s' : (i \in DOMAIN s /\ s'[i] = s[i]) \/ (i = Len(s) + 1 /\ s'[i] = card) BY <3>1
    <3> QED BY <3>1, <3>2
  <2> QED BY <1>2, <2>1, <2>2
<1> DEFINE A == ShownIn(s', q)
           B == ShownIn(s, q)
<1>4. IsFiniteSet(B) /\ Cardinality(B) \in Nat BY <1>1, PlacesFinite DEF ShownIn
<1>5. IsFiniteSet(A) /\ Cardinality(A) \in Nat BY <1>3, PlacesFinite DEF ShownIn
<1>6. CASE q = pair
  <2>1. A \subseteq B \cup {k} BY <1>3 DEF ShownIn
  <2> HIDE DEF A, B
  <2>2. IsFiniteSet(B \cup {k}) /\ Cardinality(B \cup {k}) <= Cardinality(B) + 1
    <3>1. /\ IsFiniteSet(B \cup {k})
          /\ Cardinality(B \cup {k}) = IF k \in B THEN Cardinality(B) ELSE Cardinality(B) + 1
      BY <1>4, FS_AddElement
    <3> QED BY <1>4, <3>1
  <2>3. Cardinality(A) <= Cardinality(B \cup {k}) BY <2>1, <2>2, FS_Subset
  <2>4. Cardinality(B \cup {k}) \in Nat BY <2>2, FS_CardinalityType
  <2>5. Cardinality(A) <= Cardinality(B) + 1 BY <1>4, <1>5, <2>2, <2>3, <2>4
  <2> QED BY <1>3, <1>6, <2>5 DEF A, B
<1>7. CASE q # pair
  <2>1. A \subseteq B BY <1>1, <1>3, <1>7 DEF ShownIn
  <2> HIDE DEF A, B
  <2>2. Cardinality(A) <= Cardinality(B) BY <1>4, <2>1, FS_Subset
  <2>3. Cardinality(A) <= Cardinality(B) + 0 BY <1>4, <2>2
  <2> QED BY <1>3, <1>7, <2>3 DEF A, B
<1> QED BY <1>6, <1>7

\* A record is freed, or written again for the same card.
LEMMA StoreWritten ==
  ASSUME NEW data, StoreSound(data), NEW i \in DOMAIN data, NEW r \in CardRecord,
         r.account = 0 \/ (r.account = data[i].account /\ r.friend = data[i].friend)
  PROVE  StoreSound([data EXCEPT ![i] = r])
<1> DEFINE new == [data EXCEPT ![i] = r]
<1>0. 0 \notin Holders BY GuildCardsAssumption
<1>1. data \in Seq(CardRecord) BY DEF StoreSound
<1>2. /\ new \in Seq(CardRecord) /\ DOMAIN new = DOMAIN data /\ new[i] = r
      /\ \A k \in DOMAIN data : k # i => new[k] = data[k]
  BY <1>1
<1> HIDE DEF new
<1>3. ASSUME NEW g \in Holders PROVE Cardinality(KeptFor(new, g)) <= MaxCards
  <2>1. KeptFor(new, g) \in SUBSET KeptFor(data, g) BY <1>0, <1>2 DEF KeptFor
  <2>2. IsFiniteSet(KeptFor(data, g)) /\ Cardinality(KeptFor(data, g)) \in Nat
    BY <1>1, PlacesFinite DEF KeptFor
  <2>3. IsFiniteSet(KeptFor(new, g)) /\ Cardinality(KeptFor(new, g)) \in Nat
    BY <1>2, PlacesFinite DEF KeptFor
  <2>4. Cardinality(KeptFor(new, g)) <= Cardinality(KeptFor(data, g)) BY <2>1, <2>2, FS_Subset
  <2>5. Cardinality(KeptFor(data, g)) <= MaxCards /\ MaxCards \in Nat BY GuildCardsAssumption DEF StoreSound
  <2> QED BY <2>2, <2>3, <2>4, <2>5
<1>4. ASSUME NEW k \in DOMAIN new, NEW l \in DOMAIN new, new[k].account # 0,
             new[k].account = new[l].account, new[k].friend = new[l].friend
      PROVE  k = l
  <2>1. \A m \in {k, l} : data[m].account = new[m].account /\ data[m].friend = new[m].friend BY <1>2, <1>4
  <2> QED BY <1>2, <1>4, <2>1 DEF StoreSound
<1>5. StoreSound(new) BY <1>2, <1>3, <1>4 DEF StoreSound
<1> QED BY <1>5 DEF new

\* A card that g did not have takes a free record, or a new one.
LEMMA StoreAdded ==
  ASSUME NEW data, StoreSound(data), NEW g \in Holders, NEW r \in CardRecord, r.account = g,
         Cardinality(KeptFor(data, g)) < MaxCards,
         \A k \in KeptFor(data, g) : data[k].friend # r.friend,
         NEW i \in 1 .. Len(data) + 1, i \in DOMAIN data => data[i].account = 0
  PROVE  StoreSound(UpdateDataFile(data, i, r))
<1> DEFINE new == UpdateDataFile(data, i, r)
<1>0. 0 \notin Holders BY GuildCardsAssumption
<1>1. data \in Seq(CardRecord) /\ DOMAIN data = 1 .. Len(data) /\ Len(data) \in Nat BY DEF StoreSound
<1>2. /\ new \in Seq(CardRecord) /\ DOMAIN new = DOMAIN data \cup {i} /\ new[i] = r
      /\ \A k \in DOMAIN data : k # i => new[k] = data[k]
  <2>1. CASE i = Len(data) + 1
    <3>1. new = Append(data, r) BY <2>1 DEF UpdateDataFile
    <3> HIDE DEF new
    <3>2. /\ Append(data, r) \in Seq(CardRecord) /\ DOMAIN Append(data, r) = 1 .. Len(data) + 1
          /\ \A k \in 1 .. Len(data) : Append(data, r)[k] = data[k]
          /\ Append(data, r)[Len(data) + 1] = r
      BY <1>1, AppendIs
    <3> QED BY <1>1, <2>1, <3>1, <3>2
  <2>2. CASE i # Len(data) + 1
    <3>1. i \in DOMAIN data BY <1>1, <2>2
    <3>2. new = [data EXCEPT ![i] = r] BY <2>2 DEF UpdateDataFile
    <3> HIDE DEF new
    <3> QED BY <1>1, <3>1, <3>2
  <2> QED BY <2>1, <2>2
<1> HIDE DEF new
<1>3. ASSUME NEW h \in Holders PROVE Cardinality(KeptFor(new, h)) <= MaxCards
  <2>1. IsFiniteSet(KeptFor(data, h)) /\ Cardinality(KeptFor(data, h)) \in Nat
    BY <1>1, PlacesFinite DEF KeptFor
  <2>2. IsFiniteSet(KeptFor(new, h)) /\ Cardinality(KeptFor(new, h)) \in Nat
    BY <1>2, PlacesFinite DEF KeptFor
  <2>3. Cardinality(KeptFor(data, h)) <= MaxCards /\ MaxCards \in Nat BY GuildCardsAssumption DEF StoreSound
  <2>4. CASE h = g
    <3>1. KeptFor(new, h) \in SUBSET (KeptFor(data, h) \cup {i}) BY <1>2 DEF KeptFor
    <3>2. /\ IsFiniteSet(KeptFor(data, h) \cup {i})
          /\ Cardinality(KeptFor(data, h) \cup {i}) <= Cardinality(KeptFor(data, h)) + 1
      <4>1. /\ IsFiniteSet(KeptFor(data, h) \cup {i})
            /\ Cardinality(KeptFor(data, h) \cup {i})
                 = IF i \in KeptFor(data, h) THEN Cardinality(KeptFor(data, h)) ELSE Cardinality(KeptFor(data, h)) + 1
        BY <2>1, FS_AddElement
      <4> QED BY <2>1, <4>1
    <3>3. Cardinality(KeptFor(data, h) \cup {i}) \in Nat BY <3>2, FS_CardinalityType
    <3>4. Cardinality(KeptFor(new, h)) <= Cardinality(KeptFor(data, h) \cup {i}) BY <3>1, <3>2, FS_Subset
    <3> QED BY <2>1, <2>2, <2>3, <2>4, <3>2, <3>3, <3>4
  <2>5. CASE h # g
    <3>1. KeptFor(new, h) \in SUBSET KeptFor(data, h) BY <1>2, <2>5 DEF KeptFor
    <3>2. Cardinality(KeptFor(new, h)) <= Cardinality(KeptFor(data, h)) BY <2>1, <3>1, FS_Subset
    <3> QED BY <2>1, <2>2, <2>3, <3>2
  <2> QED BY <2>4, <2>5
<1>4. ASSUME NEW k \in DOMAIN new, NEW l \in DOMAIN new, new[k].account # 0,
             new[k].account = new[l].account, new[k].friend = new[l].friend
      PROVE  k = l
  <2>1. ASSUME NEW m \in DOMAIN new, m # i, new[m].account = g, new[m].friend = r.friend PROVE FALSE
    BY <1>2, <2>1 DEF KeptFor
  <2>2. CASE k # i /\ l # i BY <1>2, <1>4, <2>2 DEF StoreSound
  <2>3. CASE k = i BY <1>2, <1>4, <2>1, <2>3
  <2>4. CASE l = i BY <1>2, <1>4, <2>1, <2>4
  <2> QED BY <2>2, <2>3, <2>4
<1>5. StoreSound(new) BY <1>2, <1>3, <1>4 DEF StoreSound
<1> QED BY <1>5 DEF new

LEMMA UpdateIs ==
  ASSUME NEW data \in Seq(CardRecord), NEW i \in DOMAIN data, NEW r
  PROVE  UpdateDataFile(data, i, r) = [data EXCEPT ![i] = r]
BY DEF UpdateDataFile

LEMMA CardOfIs ==
  ASSUME CardsInv, NEW g, NEW f, CardOf(g, f) # {}
  PROVE  /\ First(CardOf(g, f)) \in DOMAIN guild_data /\ guild_data[First(CardOf(g, f))] \in CardRecord
         /\ guild_data[First(CardOf(g, f))].account = g /\ guild_data[First(CardOf(g, f))].friend = f
<1>1. guild_data \in Seq(CardRecord) BY DEF CardsInv, StoreSound
<1>2. CardOf(g, f) \in SUBSET Nat BY <1>1 DEF CardOf, CardsOf
<1>3. First(CardOf(g, f)) \in CardOf(g, f) BY <1>2, FirstIs
<1> QED BY <1>1, <1>3 DEF CardOf, CardsOf

LEMMA StoredCard ==
  ASSUME CardsInv, NEW g \in Holders, NEW f \in Friends, AddGuildCard(g, f)
  PROVE  file' = guild_data' /\ StoreSound(guild_data')
<1> DEFINE i == RecordFor(g, f)
           card == [account |-> g, friend |-> f, priority |-> Priority(g), commented |-> FALSE]
<1>0. /\ guild_data \in Seq(CardRecord) /\ StoreSound(guild_data) /\ file = guild_data
      /\ DOMAIN guild_data = 1 .. Len(guild_data) /\ Len(guild_data) \in Nat
  BY DEF CardsInv, StoreSound
<1>1. CardsOf(g) = KeptFor(guild_data, g) BY DEF CardsOf, KeptFor
<1>2. Priority(g) \in Nat
  <2> DEFINE P == {guild_data[k].priority : k \in CardsOf(g)} \cup {0}
  <2>0. \A k \in DOMAIN guild_data : guild_data[k].priority \in Nat
    <3>1. \A k \in DOMAIN guild_data : guild_data[k] \in CardRecord BY <1>0
    <3> QED BY <3>1 DEF CardRecord
  <2>1. P \in SUBSET Nat /\ P # {} BY <2>0 DEF CardsOf
  <2>2. \E b \in Nat : \A n \in P : n <= b
    <3> DEFINE p == [k \in DOMAIN guild_data |-> guild_data[k].priority]
    <3>1. \A k \in 1 .. Len(guild_data) : p[k] \in Nat BY <1>0, <2>0
    <3>2. \A k \in DOMAIN guild_data : p[k] = guild_data[k].priority OBVIOUS
    <3> HIDE DEF p
    <3>3. \E b \in Nat : \A k \in 1 .. Len(guild_data) : p[k] <= b BY <1>0, <3>1, SeqBounded
    <3>4. PICK b \in Nat : \A k \in DOMAIN guild_data : p[k] <= b BY <1>0, <3>3
    <3>5. \A k \in CardsOf(g) : guild_data[k].priority <= b BY <3>4, <3>2 DEF CardsOf
    <3> QED BY <3>5
  <2> HIDE DEF P
  <2>3. Max(P) \in P BY <2>1, <2>2, MaxIs
  <2>4. Max(P) \in Nat BY <2>1, <2>3
  <2> QED BY <2>4 DEF Priority, P
<1>3. card \in CardRecord /\ card.account = g /\ card.friend = f BY <1>2 DEF CardRecord
<1>4. CASE CardOf(g, f) # {}
  <2>1. i = First(CardOf(g, f)) BY <1>4 DEF RecordFor
  <2>2. i \in DOMAIN guild_data /\ guild_data[i].account = g /\ guild_data[i].friend = f BY <1>4, <2>1, CardOfIs
  <2>3. guild_data' = UpdateDataFile(guild_data, i, card) /\ file' = UpdateDataFile(file, i, card)
    BY <1>4 DEF AddGuildCard
  <2> HIDE DEF i, card
  <2>4. guild_data' = [guild_data EXCEPT ![i] = card] BY <1>0, <2>2, <2>3, UpdateIs
  <2>5. StoreSound([guild_data EXCEPT ![i] = card]) BY <1>0, <1>3, <2>2, StoreWritten
  <2> QED BY <1>0, <2>3, <2>4, <2>5
<1>5. CASE CardOf(g, f) = {} /\ Cardinality(CardsOf(g)) < MaxCards
  <2>1. i \in 1 .. Len(guild_data) + 1 /\ (i \in DOMAIN guild_data => guild_data[i].account = 0)
    <3>1. CASE Free # {}
      <4>1. Free \in SUBSET Nat /\ \A n \in Free : n <= Len(guild_data) BY <1>0 DEF Free
      <4>2. Max(Free) \in Free BY <1>0, <3>1, <4>1, MaxIs
      <4>3. i = Max(Free) BY <1>5, <3>1 DEF RecordFor
      <4> QED BY <1>0, <4>2, <4>3 DEF Free
    <3>2. CASE Free = {}
      <4>1. i = Len(guild_data) + 1 BY <1>5, <3>2 DEF RecordFor
      <4> HIDE DEF i
      <4> QED BY <1>0, <4>1
    <3> QED BY <3>1, <3>2
  <2>2. guild_data' = UpdateDataFile(guild_data, i, card) /\ file' = UpdateDataFile(file, i, card)
    BY <1>5 DEF AddGuildCard
  <2>3. \A k \in KeptFor(guild_data, g) : guild_data[k].friend # f BY <1>1, <1>5 DEF CardOf
  <2> HIDE DEF i, card
  <2> QED BY <1>0, <1>1, <1>3, <1>5, <2>1, <2>2, <2>3, StoreAdded
<1>6. CASE CardOf(g, f) = {} /\ ~(Cardinality(CardsOf(g)) < MaxCards)
  BY <1>0, <1>6 DEF AddGuildCard
<1> QED BY <1>4, <1>5, <1>6

LEMMA ChangedCard ==
  ASSUME CardsInv, NEW i \in DOMAIN guild_data, NEW r \in CardRecord, Change(i, r),
         r.account = 0 \/ (r.account = guild_data[i].account /\ r.friend = guild_data[i].friend)
  PROVE  CardsInv'
<1>1. guild_data \in Seq(CardRecord) /\ StoreSound(guild_data) /\ file = guild_data BY DEF CardsInv, StoreSound
<1>2. StoreSound([guild_data EXCEPT ![i] = r]) BY <1>1, StoreWritten
<1>3. guild_data' = [guild_data EXCEPT ![i] = r] /\ file' = guild_data' BY <1>1, UpdateIs DEF Change
<1>4. ShownSound' BY DEF Change, CardsInv, ShownSound, ShownIn
<1> QED BY <1>2, <1>3, <1>4 DEF CardsInv

LEMMA SortedCards ==
  ASSUME CardsInv, NEW g \in Holders, NEW f1 \in Friends, NEW f2 \in Friends, SortGuildCard(g, f1, f2)
  PROVE  CardsInv'
<1> DEFINE i == First(CardOf(g, f1))
           j == First(CardOf(g, f2))
           one == guild_data[i]
           two == [guild_data[j] EXCEPT !.priority = one.priority]
<1>1. guild_data \in Seq(CardRecord) /\ StoreSound(guild_data) /\ file = guild_data BY DEF CardsInv, StoreSound
<1>2. /\ i \in DOMAIN guild_data /\ one \in CardRecord /\ one.account = g /\ one.friend = f1
      /\ j \in DOMAIN guild_data /\ guild_data[j] \in CardRecord
      /\ guild_data[j].account = g /\ guild_data[j].friend = f2
  BY CardOfIs DEF SortGuildCard
<1>3. f1 # f2 /\ i # j
  <2>1. f1 # f2 BY DEF SortGuildCard
  <2> HIDE DEF i, j
  <2> QED BY <1>2, <2>1
<1>4. two \in CardRecord /\ two.account = g /\ two.friend = f2
  <2> HIDE DEF i, j
  <2> QED BY <1>2 DEF CardRecord
<1>5. guild_data' = [guild_data EXCEPT ![i] = two, ![j] = one] /\ file' = SortedFile(i, j, one, two)
  BY DEF SortGuildCard
<1> HIDE DEF i, j, one, two
<1>6. /\ guild_data' \in Seq(CardRecord) /\ DOMAIN guild_data' = DOMAIN guild_data
      /\ guild_data'[i] = two /\ guild_data'[j] = one
      /\ \A k \in DOMAIN guild_data : k \notin {i, j} => guild_data'[k] = guild_data[k]
  BY <1>1, <1>2, <1>3, <1>4, <1>5
<1>7. file' = guild_data'
  <2>1. UpdateDataFile(file, i, two) = [guild_data EXCEPT ![i] = two] BY <1>1, <1>2, UpdateIs
  <2>2. [guild_data EXCEPT ![i] = two] \in Seq(CardRecord) /\ j \in DOMAIN [guild_data EXCEPT ![i] = two]
    BY <1>1, <1>2, <1>4
  <2>3. SortedFile(i, j, one, two) = [[guild_data EXCEPT ![i] = two] EXCEPT ![j] = one]
    <3> DEFINE mid == [guild_data EXCEPT ![i] = two]
    <3> HIDE DEF mid
    <3>1. mid \in Seq(CardRecord) /\ j \in DOMAIN mid BY <2>2 DEF mid
    <3>2. UpdateDataFile(mid, j, one) = [mid EXCEPT ![j] = one] BY <3>1, UpdateIs
    <3>3. SortedFile(i, j, one, two) = UpdateDataFile(mid, j, one) BY <2>1 DEF SortedFile, mid
    <3> QED BY <3>2, <3>3 DEF mid
  <2>4. [[guild_data EXCEPT ![i] = two] EXCEPT ![j] = one] = [guild_data EXCEPT ![i] = two, ![j] = one] OBVIOUS
  <2> QED BY <1>5, <2>3, <2>4
<1>8. ASSUME NEW h \in Holders PROVE Cardinality(KeptFor(guild_data', h)) <= MaxCards
  <2>1. KeptFor(guild_data', h) = KeptFor(guild_data, h)
    <3>0. \A k \in DOMAIN guild_data : guild_data'[k].account = guild_data[k].account
      BY <1>2, <1>4, <1>6 DEF one
    <3> QED BY <1>6, <3>0 DEF KeptFor
  <2> QED BY <1>1, <2>1 DEF StoreSound
<1>9. ASSUME NEW k \in DOMAIN guild_data', NEW l \in DOMAIN guild_data', guild_data'[k].account # 0,
             guild_data'[k].account = guild_data'[l].account, guild_data'[k].friend = guild_data'[l].friend
      PROVE  k = l
  <2> DEFINE old == [m \in DOMAIN guild_data |-> IF m = i THEN j ELSE IF m = j THEN i ELSE m]
  <2>1. \A m \in DOMAIN guild_data :
          /\ old[m] \in DOMAIN guild_data
          /\ guild_data'[m].account = guild_data[old[m]].account
          /\ guild_data'[m].friend = guild_data[old[m]].friend
    BY <1>2, <1>3, <1>4, <1>6 DEF one
  <2>2. old[k] = old[l] => k = l BY <1>3, <1>6
  <2> HIDE DEF old
  <2>3. old[k] \in DOMAIN guild_data /\ old[l] \in DOMAIN guild_data BY <1>6, <2>1
  <2>4. /\ guild_data[old[k]].account # 0 /\ guild_data[old[k]].account = guild_data[old[l]].account
        /\ guild_data[old[k]].friend = guild_data[old[l]].friend
    BY <1>6, <1>9, <2>1
  <2>5. old[k] = old[l] BY <1>1, <2>3, <2>4 DEF StoreSound
  <2> QED BY <2>2, <2>5
<1>10. StoreSound(guild_data') BY <1>6, <1>8, <1>9 DEF StoreSound
<1>11. ShownSound' BY DEF SortGuildCard, CardsInv, ShownSound, ShownIn
<1> QED BY <1>7, <1>10, <1>11 DEF CardsInv

LEMMA CardsInvInit == CardsInit => CardsInv
<1> SUFFICES ASSUME CardsInit PROVE CardsInv OBVIOUS
<1>1. \A g : KeptFor(<<>>, g) = {} /\ ShownIn(<<>>, g) = {} BY DEF KeptFor, ShownIn
<1>2. Cardinality({}) = 0 /\ MaxCards \in Nat BY FS_EmptySet, GuildCardsAssumption
<1>3. StoreSound(<<>>) BY <1>1, <1>2 DEF StoreSound
<1>4. ShownSound BY <1>1, <1>2, SMTT(60) DEF CardsInit, ShownSound
<1> QED BY <1>3, <1>4 DEF CardsInit, CardsInv

LEMMA CardsInvNext == CardsInv /\ [CardsNext]_cardVars => CardsInv'
<1> SUFFICES ASSUME CardsInv, [CardsNext]_cardVars PROVE CardsInv' OBVIOUS
<1>0. guild_data \in Seq(CardRecord) /\ ship_gcsend_list \in Seq(CardShown) /\ owed \in [Pairs -> Int]
  BY DEF CardsInv, StoreSound, ShownSound
<1>1. ASSUME NEW g \in Holders, NEW f \in Friends, ShowCard(f, g) PROVE CardsInv'
  <2> DEFINE pair == <<f, g>>
  <2>1. pair \in Pairs BY DEF Pairs
  <2>2. PrepGuildCard(pair) /\ owed' = [owed EXCEPT ![pair] = @ + 1] /\ clock' \in {clock, clock + 1}
    BY <1>1 DEF ShowCard
  <2> HIDE DEF pair
  <2>3. ship_gcsend_list' \in Seq(CardShown) BY <2>1, <2>2, PrepIs DEF CardsInv
  <2>4. ASSUME NEW q \in Pairs PROVE owed'[q] >= Cardinality(ShownIn(ship_gcsend_list', q))
    <3>1. owed'[q] = owed[q] + (IF q = pair THEN 1 ELSE 0) BY <1>0, <2>1, <2>2
    <3>2. Cardinality(ShownIn(ship_gcsend_list', q))
            <= Cardinality(ShownIn(ship_gcsend_list, q)) + (IF q = pair THEN 1 ELSE 0)
      BY <2>1, <2>2, PrepIs DEF CardsInv
    <3>3. owed[q] \in Int /\ owed[q] >= Cardinality(ShownIn(ship_gcsend_list, q))
      BY <1>0 DEF CardsInv, ShownSound
    <3>4. /\ Cardinality(ShownIn(ship_gcsend_list, q)) \in Nat
          /\ Cardinality(ShownIn(ship_gcsend_list', q)) \in Nat
      BY <1>0, <2>3, PlacesFinite DEF ShownIn
    <3> QED BY <3>1, <3>2, <3>3, <3>4
  <2>5. clock' \in Nat /\ owed' \in [Pairs -> Int] BY <1>0, <2>1, <2>2 DEF CardsInv, ShownSound
  <2>6. ShownSound' BY <2>3, <2>4, <2>5 DEF ShownSound
  <2> QED BY <1>1, <2>6 DEF ShowCard, CardsInv
<1>2. ASSUME NEW g \in Holders, NEW f \in Friends, TakeCard(g, f) PROVE CardsInv'
  <2> DEFINE pair == <<f, g>>
             i == First({k \in DOMAIN ship_gcsend_list : Sent(k, pair)})
  <2>1. pair \in Pairs BY DEF Pairs
  <2>2. /\ Present(pair) /\ ship_gcsend_list' = CleanedUp(ship_gcsend_list, i)
        /\ owed' = [owed EXCEPT ![pair] = @ - 1] /\ AddGuildCard(g, f) /\ clock' = clock
    BY <1>2 DEF TakeCard
  <2> HIDE DEF pair
  <2>3. i \in ShownIn(ship_gcsend_list, pair)
    <3>1. {k \in DOMAIN ship_gcsend_list : Sent(k, pair)} # {} BY <2>2 DEF Present
    <3>2. {k \in DOMAIN ship_gcsend_list : Sent(k, pair)} \in SUBSET Nat BY <1>0
    <3> QED BY <3>1, <3>2, FirstIs DEF Sent, ShownIn
  <2> HIDE DEF i
  <2>4. i \in DOMAIN ship_gcsend_list BY <2>3 DEF ShownIn
  <2>5. ship_gcsend_list' \in Seq(CardShown) BY <1>0, <2>2, <2>4, CleanedUpIs
  <2>6. ASSUME NEW q \in Pairs PROVE owed'[q] >= Cardinality(ShownIn(ship_gcsend_list', q))
    <3>1. owed'[q] = owed[q] - (IF q = pair THEN 1 ELSE 0) BY <1>0, <2>1, <2>2
    <3>2. Cardinality(ShownIn(ship_gcsend_list', q)) <= Cardinality(ShownIn(ship_gcsend_list, q) \ {i})
      BY <1>0, <2>2, <2>4, CleanedUpIs
    <3>3. owed[q] \in Int /\ owed[q] >= Cardinality(ShownIn(ship_gcsend_list, q))
      BY <1>0 DEF CardsInv, ShownSound
    <3>4. /\ Cardinality(ShownIn(ship_gcsend_list, q)) \in Nat /\ IsFiniteSet(ShownIn(ship_gcsend_list, q))
          /\ Cardinality(ShownIn(ship_gcsend_list', q)) \in Nat
      BY <1>0, <2>5, PlacesFinite DEF ShownIn
    <3>5. Cardinality(ShownIn(ship_gcsend_list, q) \ {i})
            = IF i \in ShownIn(ship_gcsend_list, q) THEN Cardinality(ShownIn(ship_gcsend_list, q)) - 1
              ELSE Cardinality(ShownIn(ship_gcsend_list, q))
      BY <3>4, FS_RemoveElement
    <3> QED BY <2>3, <3>1, <3>2, <3>3, <3>4, <3>5
  <2>7. clock' \in Nat /\ owed' \in [Pairs -> Int] BY <1>0, <2>1, <2>2 DEF CardsInv, ShownSound
  <2>8. ShownSound' BY <2>5, <2>6, <2>7 DEF ShownSound
  <2> QED BY <2>2, <2>8, StoredCard DEF CardsInv
<1>3. ASSUME NEW g \in Holders, NEW f \in Friends, DeleteGuildCard(g, f) PROVE CardsInv'
  <2> DEFINE i == First(CardOf(g, f))
             r == [guild_data[i] EXCEPT !.account = 0]
  <2>1. i \in DOMAIN guild_data /\ guild_data[i] \in CardRecord BY <1>3, CardOfIs DEF DeleteGuildCard
  <2>2. Change(i, r) BY <1>3 DEF DeleteGuildCard
  <2> HIDE DEF i
  <2>3. r \in CardRecord /\ r.account = 0 BY <2>1 DEF CardRecord
  <2> QED BY <2>1, <2>2, <2>3, ChangedCard
<1>4. ASSUME NEW g \in Holders, NEW f \in Friends, ModifyGuildCardComment(g, f) PROVE CardsInv'
  <2>1. PICK i \in CardOf(g, f) : Change(i, [guild_data[i] EXCEPT !.commented = TRUE])
    BY <1>4 DEF ModifyGuildCardComment
  <2> DEFINE r == [guild_data[i] EXCEPT !.commented = TRUE]
  <2>2. i \in DOMAIN guild_data /\ guild_data[i] \in CardRecord BY <1>0 DEF CardOf, CardsOf
  <2>3. r \in CardRecord /\ r.account = guild_data[i].account /\ r.friend = guild_data[i].friend
    BY <2>2 DEF CardRecord
  <2> QED BY <2>1, <2>2, <2>3, ChangedCard
<1>5. ASSUME NEW g \in Holders, NEW f \in Friends, NEW f2 \in Friends, SortGuildCard(g, f, f2) PROVE CardsInv'
  BY <1>5, SortedCards
<1>6. CASE LoadDataFile BY <1>6 DEF LoadDataFile, CardsInv, ShownSound, ShownIn
<1>7. CASE UNCHANGED cardVars BY <1>7 DEF cardVars, CardsInv, ShownSound, ShownIn
<1> QED BY <1>1, <1>2, <1>3, <1>4, <1>5, <1>6, <1>7 DEF CardsNext

\* What a ship remembers of cards shown, and what is kept of those taken
\* (PreppedGuildCard, AddGuildCard, UpdateDataFile).
THEOREM CardsAlwaysKept == CardsSpec => []CardsInv
<1>1. CardsInv /\ [CardsNext]_cardVars => CardsInv' BY CardsInvNext
<1> QED BY <1>1, CardsInvInit, PTL DEF CardsSpec

\* A card is taken only as often as it was shown, though closing up the list
\* loses entries that are not meant; and an account's cards are kept once each,
\* within the limit and in the file as in memory, whichever records are used
\* again.
THEOREM CardsAlwaysSound == CardsSpec => []CardsSound
<1>1. CardsInv => TakenWasShown
  <2> SUFFICES ASSUME CardsInv, NEW pair \in Pairs PROVE owed[pair] >= 0 BY DEF TakenWasShown
  <2>1. Cardinality(ShownIn(ship_gcsend_list, pair)) \in Nat BY PlacesFinite DEF CardsInv, ShownSound, ShownIn
  <2> QED BY <2>1 DEF CardsInv, ShownSound
<1>2. CardsInv => CardsStored
  <2> SUFFICES ASSUME CardsInv PROVE CardsStored OBVIOUS
  <2>1. guild_data \in Seq(CardRecord) /\ 0 \notin Holders BY GuildCardsAssumption DEF CardsInv, StoreSound
  <2>2. ASSUME NEW g \in Holders PROVE Cardinality(CardsOf(g)) <= MaxCards
    BY DEF CardsInv, StoreSound, CardsOf, KeptFor
  <2>3. ASSUME NEW g \in Holders, NEW f \in Friends PROVE Cardinality(CardOf(g, f)) <= 1
    <3>1. \A i, j \in CardOf(g, f) : i = j BY <2>1 DEF CardOf, CardsOf, CardsInv, StoreSound
    <3>2. CardOf(g, f) = {} \/ \E i \in CardOf(g, f) : CardOf(g, f) = {i} BY <3>1
    <3> QED BY <3>2, FS_EmptySet, FS_Singleton
  <2> QED BY <2>2, <2>3 DEF CardsInv, CardsStored
<1>3. CardsInv => CardsSound BY <1>1, <1>2 DEF CardsSound
<1> QED BY <1>3, CardsAlwaysKept, PTL
=============================================================================
