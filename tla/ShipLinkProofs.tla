--------------------------- MODULE ShipLinkProofs ---------------------------
(***************************************************************************)
(* Proofs about the links between ships and the login server, for any      *)
(* number of ships, links, faults and packets: both ends stay in step on   *)
(* every link on which nobody spoke too early and whose ship did not come  *)
(* with a record that is off, and a key that is taken is that of a         *)
(* connected ship.                                                         *)
(***************************************************************************)
EXTENDS ShipLink, SequenceTheorems, TLAPS

Crypts == {"plain", "public", "own"}
Packets == [kind : (Kinds \ {"garbage"}) \cup {"eof"}, key : Crypts \cup {"again"}]

LinkRecs ==
  [ship : Ships \cup {None}, open : BOOLEAN, cut : BOOLEAN, crypt : Crypts, authed : BOOLEAN,
   key : {KeyOf[h] : h \in Ships} \cup {None}, age : Nat, since : Nat, pinged : BOOLEAN,
   in : Seq(Kinds), traffic : Nat, toLogin : Seq(Packets), toShip : Seq(Packets),
   lostL : BOOLEAN, lostS : BOOLEAN, early : BOOLEAN, off : BOOLEAN]

Logons ==
  [link : Links \cup {None}, crypt : Crypts, ready : BOOLEAN, age : Nat, wait : Nat, in : Seq(Kinds),
   off : BOOLEAN]

NodeRecs == [run : {"up", "down", "shut_out"}, logon : Logons]

Types == links \in [Links -> LinkRecs] /\ node \in [Ships -> NodeRecs]

\* The ship of this wire uses it.
On(w) == links[w].ship # None /\ node[links[w].ship].logon.link = w
Logon(w) == node[links[w].ship].logon

Sites ==
  /\ \A h \in Ships : node[h].logon.link # None =>
       links[node[h].logon.link].ship = h /\ node[h].run = "up"
  /\ \A w \in Links : links[w].open => links[w].ship # None

----------------------------------------------------------------------------
(* What is on a link                                                       *)

\* A packet of this kind has been read, or is on the wire.
Holds(in, kind) == \E i \in 1 .. Len(in) : in[i] = kind
Carries(wire, kind) == \E i \in 1 .. Len(wire) : wire[i].kind = kind

\* All on the wire can be read with this key, and only the last is its end.
Clear(wire, key, ended) ==
  /\ ended => wire # <<>>
  /\ \A i \in 1 .. Len(wire) :
       IF ended /\ i = Len(wire) THEN wire[i].kind = "eof"
                                 ELSE wire[i].kind # "eof" /\ wire[i].key = key

\* One packet is what there is on the way between the wire and the turn.
OnlyOne(wire, in, kind, key) ==
  (wire = <<Packet(kind, key)>> /\ in = <<>>) \/ (wire = <<>> /\ in = <<kind>>)
Nothing(wire, in) == wire = <<>> /\ in = <<>>

\* The stages of a link that holds and on which nobody spoke too early.
Welcoming(l, n) ==
  /\ l.crypt = "public" /\ ~l.authed /\ n.crypt = "plain"
  /\ OnlyOne(l.toShip, n.in, "welcome", "plain") /\ Nothing(l.toLogin, l.in)
Introducing(l, n) ==
  /\ l.crypt = "public" /\ ~l.authed /\ n.crypt = "public"
  /\ OnlyOne(l.toLogin, l.in, "auth", "public") /\ Nothing(l.toShip, n.in)
Accepting(l, n) ==
  /\ l.crypt = "own" /\ n.crypt = "public"
  /\ OnlyOne(l.toShip, n.in, "accepted", "public") /\ Nothing(l.toLogin, l.in)
Opening(l, n) ==
  /\ l.open /\ l.age = 0 /\ l.since = 0
  /\ Welcoming(l, n) \/ Introducing(l, n) \/ Accepting(l, n)
Talking(l, n) ==
  /\ l.open /\ l.crypt = "own" /\ n.crypt = "own"
  /\ Clear(l.toShip, "own", FALSE) /\ Clear(l.toLogin, "own", FALSE)
  /\ ~Carries(l.toLogin, "auth") /\ ~Holds(l.in, "auth")
  /\ \A kind \in {"welcome", "accepted"} : ~Carries(l.toShip, kind) /\ ~Holds(n.in, kind)

\* The login server has ended it, or the ship has.
Ended(l, n) ==
  /\ ~l.open /\ Clear(l.toShip, n.crypt, TRUE)
  /\ \A kind \in {"welcome", "accepted"} : ~Carries(l.toShip, kind) /\ ~Holds(n.in, kind)
LeftBehind(l) ==
  /\ l.open /\ Clear(l.toLogin, l.crypt, TRUE)
  /\ Carries(l.toLogin, "auth") => Len(l.toLogin) = 2 /\ l.in = <<>> /\ l.crypt = "public"
  /\ Holds(l.in, "auth") => Len(l.toLogin) = 1

Stage(l, on, n) ==
  IF on THEN Opening(l, n) \/ Talking(l, n) \/ Ended(l, n) ELSE ~l.open \/ LeftBehind(l)

Steady(l, on, n) ==
  /\ ~l.lostL /\ ~l.lostS
  /\ Holds(l.in, "auth") => Len(l.in) = 1 /\ l.crypt = "public"
  /\ IF l.cut THEN l.toLogin = <<>> /\ l.toShip = <<>> ELSE Stage(l, on, n)

\* The key a slot has, and that its ship takes it only once it has one.
Keyed(l) ==
  /\ l.open /\ l.crypt = "own" => l.key = KeyOf[l.ship]
  /\ l.open /\ Holds(l.in, "charts") => l.crypt = "own"
  /\ \A i \in 1 .. Len(l.toLogin) : l.toLogin[i].kind = "charts" => l.toLogin[i].key = "own"

\* What a ship is refused with is the last it hears; what is not understood
\* shows that the stream is lost.
Refusals == {"inuse", "unreachable"}
Heard(l, on, n) ==
  /\ \A kind \in Refusals \cup {"eof"} : Carries(l.toShip, kind) => ~l.open
  /\ on => /\ \A kind \in Refusals : Holds(n.in, kind) => ~l.open
           /\ Holds(n.in, "garbage") => l.lostS

\* Nobody spoke too early, and the ship did not come with a record that is off.
Quiet(l) == ~l.early /\ ~l.off

LinkOK(l, on, n) ==
  /\ Keyed(l)
  /\ on /\ n.off => l.off
  /\ Quiet(l) => Heard(l, on, n) /\ Steady(l, on, n)

LinksInv == Types /\ Sites /\ \A w \in Links : LinkOK(links[w], On(w), Logon(w))

\* Who holds a key that is taken.
HasHolder(k) == \E w \in Links : links[w].open /\ links[w].crypt = "own" /\ links[w].key = k
KeysTaken == \A k \in inuse : HasHolder(k)

----------------------------------------------------------------------------
(* Buffers                                                                 *)

LEMMA AddsOne ==
  ASSUME NEW S, NEW q \in Seq(S), NEW x \in S
  PROVE  /\ Append(q, x) \in Seq(S) /\ Len(Append(q, x)) = Len(q) + 1 /\ Len(q) \in Nat
         /\ Append(q, x)[Len(q) + 1] = x
         /\ \A i \in 1 .. Len(q) : Append(q, x)[i] = q[i]
OBVIOUS

LEMMA DropsOne ==
  ASSUME NEW S, NEW q \in Seq(S), q # <<>>
  PROVE  /\ Tail(q) \in Seq(S) /\ Len(Tail(q)) = Len(q) - 1 /\ Len(q) \in Nat \ {0}
         /\ Head(q) = q[1] /\ Head(q) \in S
         /\ \A i \in 1 .. Len(q) - 1 : Tail(q)[i] = q[i + 1]
BY HeadTailProperties

LEMMA HoldsIs ==
  ASSUME NEW q \in Seq(Kinds), NEW kind
  PROVE  /\ \A x \in Kinds : Holds(Append(q, x), kind) <=> Holds(q, kind) \/ x = kind
         /\ q # <<>> => /\ Holds(Tail(q), kind) => Holds(q, kind)
                        /\ Holds(q, Head(q))
         /\ ~Holds(<<>>, kind)
<1>1. ASSUME NEW x \in Kinds PROVE Holds(Append(q, x), kind) <=> Holds(q, kind) \/ x = kind
  <2>1. /\ Len(Append(q, x)) = Len(q) + 1 /\ Len(q) \in Nat /\ Append(q, x)[Len(q) + 1] = x
        /\ \A i \in 1 .. Len(q) : Append(q, x)[i] = q[i]
    BY AddsOne
  <2>2. ASSUME NEW i \in 1 .. Len(q), q[i] = kind PROVE Holds(Append(q, x), kind)
    <3>1. i \in 1 .. Len(Append(q, x)) /\ Append(q, x)[i] = kind BY <2>1, <2>2
    <3> QED BY <3>1 DEF Holds
  <2>3. ASSUME x = kind PROVE Holds(Append(q, x), kind)
    <3>1. Len(q) + 1 \in 1 .. Len(Append(q, x)) BY <2>1
    <3> QED BY <2>1, <2>3, <3>1 DEF Holds
  <2>4. ASSUME NEW i \in 1 .. Len(Append(q, x)), Append(q, x)[i] = kind
        PROVE  Holds(q, kind) \/ x = kind
    <3>1. i \in 1 .. Len(q) \/ i = Len(q) + 1 BY <2>1
    <3> QED BY <2>1, <2>4, <3>1 DEF Holds
  <2> QED BY <2>2, <2>3, <2>4 DEF Holds
<1>2. ASSUME q # <<>> PROVE (Holds(Tail(q), kind) => Holds(q, kind)) /\ Holds(q, Head(q))
  <2>1. /\ Len(Tail(q)) = Len(q) - 1 /\ Len(q) \in Nat \ {0} /\ Head(q) = q[1]
        /\ \A i \in 1 .. Len(q) - 1 : Tail(q)[i] = q[i + 1]
    BY <1>2, DropsOne
  <2>2. Holds(q, Head(q))
    <3>1. 1 \in 1 .. Len(q) BY <2>1
    <3> QED BY <2>1, <3>1 DEF Holds
  <2>3. ASSUME NEW i \in 1 .. Len(Tail(q)), Tail(q)[i] = kind PROVE Holds(q, kind)
    <3>1. i + 1 \in 1 .. Len(q) /\ q[i + 1] = kind BY <2>1, <2>3
    <3> QED BY <3>1 DEF Holds
  <2> QED BY <2>2, <2>3 DEF Holds
<1>3. ~Holds(<<>>, kind) BY DEF Holds
<1> QED BY <1>1, <1>2, <1>3

LEMMA CarriesIs ==
  ASSUME NEW q \in Seq(Packets), NEW kind
  PROVE  /\ \A x \in Packets : Carries(Append(q, x), kind) <=> Carries(q, kind) \/ x.kind = kind
         /\ q # <<>> => /\ Carries(Tail(q), kind) => Carries(q, kind)
                        /\ Carries(q, Head(q).kind)
         /\ ~Carries(<<>>, kind)
<1>1. ASSUME NEW x \in Packets PROVE Carries(Append(q, x), kind) <=> Carries(q, kind) \/ x.kind = kind
  <2>1. /\ Len(Append(q, x)) = Len(q) + 1 /\ Len(q) \in Nat /\ Append(q, x)[Len(q) + 1] = x
        /\ \A i \in 1 .. Len(q) : Append(q, x)[i] = q[i]
    BY AddsOne
  <2>2. ASSUME NEW i \in 1 .. Len(q), q[i].kind = kind PROVE Carries(Append(q, x), kind)
    <3>1. i \in 1 .. Len(Append(q, x)) /\ Append(q, x)[i].kind = kind BY <2>1, <2>2
    <3> QED BY <3>1 DEF Carries
  <2>3. ASSUME x.kind = kind PROVE Carries(Append(q, x), kind)
    <3>1. Len(q) + 1 \in 1 .. Len(Append(q, x)) BY <2>1
    <3> QED BY <2>1, <2>3, <3>1 DEF Carries
  <2>4. ASSUME NEW i \in 1 .. Len(Append(q, x)), Append(q, x)[i].kind = kind
        PROVE  Carries(q, kind) \/ x.kind = kind
    <3>1. i \in 1 .. Len(q) \/ i = Len(q) + 1 BY <2>1
    <3> QED BY <2>1, <2>4, <3>1 DEF Carries
  <2> QED BY <2>2, <2>3, <2>4 DEF Carries
<1>2. ASSUME q # <<>> PROVE (Carries(Tail(q), kind) => Carries(q, kind)) /\ Carries(q, Head(q).kind)
  <2>1. /\ Len(Tail(q)) = Len(q) - 1 /\ Len(q) \in Nat \ {0} /\ Head(q) = q[1]
        /\ \A i \in 1 .. Len(q) - 1 : Tail(q)[i] = q[i + 1]
    BY <1>2, DropsOne
  <2>2. Carries(q, Head(q).kind)
    <3>1. 1 \in 1 .. Len(q) BY <2>1
    <3> QED BY <2>1, <3>1 DEF Carries
  <2>3. ASSUME NEW i \in 1 .. Len(Tail(q)), Tail(q)[i].kind = kind PROVE Carries(q, kind)
    <3>1. i + 1 \in 1 .. Len(q) /\ q[i + 1].kind = kind BY <2>1, <2>3
    <3> QED BY <3>1 DEF Carries
  <2> QED BY <2>2, <2>3 DEF Carries
<1>3. ~Carries(<<>>, kind) BY DEF Carries
<1> QED BY <1>1, <1>2, <1>3

LEMMA ClearIs ==
  ASSUME NEW q \in Seq(Packets), NEW key
  PROVE  /\ Clear(<<>>, key, FALSE)
         /\ Clear(q, key, FALSE) =>
              \A x \in Packets : IF x.kind = "eof" THEN Clear(Append(q, x), key, TRUE)
                                 ELSE x.key = key => Clear(Append(q, x), key, FALSE)
         /\ \A ended \in BOOLEAN : Clear(q, key, ended) /\ q # <<>> /\ ~EndOf(q) =>
              Clear(Tail(q), key, ended) /\ Head(q).key = key
<1>1. Clear(<<>>, key, FALSE) BY DEF Clear
<1>2. ASSUME Clear(q, key, FALSE), NEW x \in Packets
      PROVE  IF x.kind = "eof" THEN Clear(Append(q, x), key, TRUE)
             ELSE x.key = key => Clear(Append(q, x), key, FALSE)
  <2>1. /\ Len(Append(q, x)) = Len(q) + 1 /\ Len(q) \in Nat /\ Append(q, x)[Len(q) + 1] = x
        /\ \A i \in 1 .. Len(q) : Append(q, x)[i] = q[i]
        /\ Append(q, x) \in Seq(Packets)
    BY AddsOne
  <2>2. Append(q, x) # <<>> BY <2>1
  <2>3. \A i \in 1 .. Len(Append(q, x)) :
          \/ i = Len(Append(q, x)) /\ Append(q, x)[i] = x
          \/ i # Len(Append(q, x)) /\ Append(q, x)[i].kind # "eof" /\ Append(q, x)[i].key = key
    BY <1>2, <2>1 DEF Clear
  <2> QED BY <2>2, <2>3 DEF Clear
<1>3. ASSUME NEW ended \in BOOLEAN, Clear(q, key, ended), q # <<>>, ~EndOf(q)
      PROVE  Clear(Tail(q), key, ended) /\ Head(q).key = key
  <2>1. /\ Len(Tail(q)) = Len(q) - 1 /\ Len(q) \in Nat \ {0} /\ Head(q) = q[1]
        /\ \A i \in 1 .. Len(q) - 1 : Tail(q)[i] = q[i + 1]
    BY <1>3, DropsOne
  <2>2. q[1].kind # "eof" /\ 1 \in 1 .. Len(q) BY <1>3, <2>1 DEF EndOf
  <2>3. ~(ended /\ Len(q) = 1) /\ Head(q).key = key BY <1>3, <2>1, <2>2 DEF Clear
  <2>4. ended => Tail(q) # <<>>
    <3>1. ended => Len(Tail(q)) # 0 BY <2>1, <2>3
    <3>2. Len(<<>>) = 0 OBVIOUS
    <3> QED BY <3>1, <3>2
  <2>5. ASSUME NEW i \in 1 .. Len(Tail(q))
        PROVE  IF ended /\ i = Len(Tail(q)) THEN Tail(q)[i].kind = "eof"
                                            ELSE Tail(q)[i].kind # "eof" /\ Tail(q)[i].key = key
    <3>1. i + 1 \in 1 .. Len(q) /\ Tail(q)[i] = q[i + 1] /\ (i = Len(Tail(q)) <=> i + 1 = Len(q))
      BY <2>1
    <3> QED BY <1>3, <3>1 DEF Clear
  <2> QED BY <2>3, <2>4, <2>5 DEF Clear
<1> QED BY <1>1, <1>2, <1>3

\* One more packet on a wire on which the end is not yet, and the end itself.
LEMMA ClearAdds ==
  ASSUME NEW q \in Seq(Packets), NEW key, NEW x \in Packets, Clear(q, key, FALSE), x.kind # "eof", x.key = key
  PROVE  Clear(Append(q, x), key, FALSE)
BY ClearIs

LEMMA ClearEnds ==
  ASSUME NEW q \in Seq(Packets), NEW key, NEW x \in Packets, Clear(q, key, FALSE), x.kind = "eof"
  PROVE  Clear(Append(q, x), key, TRUE)
BY ClearIs

LEMMA Short ==
  ASSUME NEW S, NEW x \in S, NEW y \in S
  PROVE  /\ Append(<<>>, x) = <<x>> /\ Append(<<x>>, y) = <<x, y>>
         /\ <<x>> # <<>> /\ Head(<<x>>) = x /\ Tail(<<x>>) = <<>> /\ Len(<<x>>) = 1
         /\ <<x, y>> # <<>> /\ Head(<<x, y>>) = x /\ Tail(<<x, y>>) = <<y>> /\ Len(<<x, y>>) = 2
         /\ \A kind : /\ Holds(<<x>>, kind) <=> x = kind
                      /\ Carries(<<x>>, kind) <=> x.kind = kind
                      /\ Carries(<<x, y>>, kind) <=> x.kind = kind \/ y.kind = kind
<1>1. /\ Append(<<>>, x) = <<x>> /\ Append(<<x>>, y) = <<x, y>>
      /\ <<x>> # <<>> /\ Head(<<x>>) = x /\ Tail(<<x>>) = <<>> /\ Len(<<x>>) = 1
  <2>1. Append(<<>>, x) = <<x>> OBVIOUS
  <2>2. Append(<<x>>, y) = <<x, y>>
    <3>1. <<x>> \in Seq(S) /\ <<x, y>> \in Seq(S) /\ Len(<<x>>) = 1 /\ Len(<<x, y>>) = 2
          /\ <<x>>[1] = x /\ <<x, y>>[1] = x /\ <<x, y>>[2] = y
      OBVIOUS
    <3>2. /\ Append(<<x>>, y) \in Seq(S) /\ Len(Append(<<x>>, y)) = 2
          /\ Append(<<x>>, y)[1] = x /\ Append(<<x>>, y)[2] = y
      BY <3>1, AddsOne
    <3>3. \A i \in 1 .. 2 : Append(<<x>>, y)[i] = <<x, y>>[i] BY <3>1, <3>2
    <3> QED BY <3>1, <3>2, <3>3, SeqEqual
  <2>3. <<x>> # <<>> /\ Head(<<x>>) = x /\ Len(<<x>>) = 1 OBVIOUS
  <2>4. Tail(<<x>>) = <<>> OBVIOUS
  <2> QED BY <2>1, <2>2, <2>3, <2>4
<1>2. <<x, y>> # <<>> /\ Head(<<x, y>>) = x /\ Tail(<<x, y>>) = <<y>> /\ Len(<<x, y>>) = 2
  <2>1. <<x, y>> # <<>> /\ Head(<<x, y>>) = x /\ Len(<<x, y>>) = 2 OBVIOUS
  <2>2. Tail(<<x, y>>) = <<y>> OBVIOUS
  <2> QED BY <2>1, <2>2
<1>3. ASSUME NEW kind
      PROVE  /\ Holds(<<x>>, kind) <=> x = kind
             /\ Carries(<<x>>, kind) <=> x.kind = kind
             /\ Carries(<<x, y>>, kind) <=> x.kind = kind \/ y.kind = kind
  <2>1. 1 .. 1 = {1} /\ 1 .. 2 = {1, 2} OBVIOUS
  <2>2. <<x>>[1] = x /\ <<x, y>>[1] = x /\ <<x, y>>[2] = y OBVIOUS
  <2> QED BY <1>1, <1>2, <2>1, <2>2 DEF Holds, Carries
<1> QED BY <1>1, <1>2, <1>3

\* A packet has been handled, or none.
Shrinks(q, r) == r = q \/ (q # <<>> /\ r = Tail(q))

LEMMA ShrinksIs ==
  ASSUME NEW q \in Seq(Kinds), NEW r, Shrinks(q, r)
  PROVE  /\ r \in Seq(Kinds) /\ Len(r) \in Nat /\ Len(q) \in Nat /\ Len(r) <= Len(q)
         /\ q = <<>> => r = <<>>
         /\ \A kind : Holds(r, kind) => Holds(q, kind)
         /\ Holds(r, "auth") /\ Len(q) = 1 => r = q
<1>1. CASE r = q BY <1>1
<1>2. CASE q # <<>> /\ r = Tail(q)
  <2>1. /\ Len(r) = Len(q) - 1 /\ r \in Seq(Kinds) /\ Len(q) \in Nat \ {0}
        /\ Len(r) \in Nat /\ Len(r) <= Len(q)
    <3>1. Len(r) = Len(q) - 1 /\ r \in Seq(Kinds) /\ Len(q) \in Nat \ {0} BY <1>2, DropsOne
    <3> QED BY <3>1
  <2>2. \A kind : Holds(r, kind) => Holds(q, kind) BY <1>2, HoldsIs
  <2>3. Len(q) = 1 => ~Holds(r, "auth")
    <3>1. Len(q) = 1 => 1 .. Len(r) = {} BY <2>1
    <3> QED BY <3>1 DEF Holds
  <2> QED BY <1>2, <2>1, <2>2, <2>3
<1> QED BY <1>1, <1>2 DEF Shrinks

LEMMA PacketFacts ==
  /\ \A kind \in Kinds \ {"garbage"}, key \in Crypts \cup {"again"} : Packet(kind, key) \in Packets
  /\ \A kind, key : Packet(kind, key).kind = kind /\ Packet(kind, key).key = key
  /\ \A key \in Crypts : Packet("eof", key) \in Packets
  /\ \A p \in Packets : p.kind \in (Kinds \ {"garbage"}) \cup {"eof"}
  /\ {"welcome", "accepted", "inuse", "unreachable", "rates", "ping", "notice",
      "auth", "charts", "pong", "data"} \subseteq Kinds \ {"garbage"}
  /\ "garbage" \in Kinds /\ "eof" \notin Kinds /\ {"plain", "public", "own"} \subseteq Crypts
BY DEF Packets, Packet, Kinds, Crypts

----------------------------------------------------------------------------
(* One link                                                                *)

LEMMA LinkServes ==
  ASSUME NEW l \in LinkRecs, NEW m \in LinkRecs, NEW on \in BOOLEAN, NEW n \in Logons,
         LinkOK(l, on, n), l.open, m.open, m.ship = l.ship, m.cut = l.cut, m.crypt = l.crypt,
         m.key = l.key, m.lostL = l.lostL, m.lostS = l.lostS, m.off = l.off, l.early => m.early,
         m.toLogin = l.toLogin, Shrinks(l.in, m.in),
         \/ m.toShip = l.toShip
         \/ /\ ~l.cut
            /\ \E kind \in {"rates", "ping", "notice"} : m.toShip = Append(l.toShip, Packet(kind, l.crypt)),
         m.age = l.age \/ Holds(l.in, "pong"),
         on /\ Quiet(m) /\ ~l.cut => ~Opening(l, n)
  PROVE  LinkOK(m, on, n)
<1>1. /\ l.in \in Seq(Kinds) /\ l.toShip \in Seq(Packets) /\ l.toLogin \in Seq(Packets)
      /\ l.crypt \in Crypts /\ l.age \in Nat /\ m.age \in Nat /\ n.age \in Nat
  BY DEF LinkRecs, Logons
<1>2. /\ m.in \in Seq(Kinds) /\ Len(m.in) \in Nat /\ Len(l.in) \in Nat /\ Len(m.in) <= Len(l.in)
      /\ l.in = <<>> => m.in = <<>>
      /\ \A kind : Holds(m.in, kind) => Holds(l.in, kind)
      /\ Holds(m.in, "auth") /\ Len(l.in) = 1 => m.in = l.in
  BY <1>1, ShrinksIs
<1>3. /\ \A kind \in Refusals \cup {"eof", "welcome", "accepted"} : Carries(m.toShip, kind) => Carries(l.toShip, kind)
      /\ l.crypt = "own" /\ Clear(l.toShip, "own", FALSE) => Clear(m.toShip, "own", FALSE)
  <2>1. CASE m.toShip = l.toShip BY <2>1
  <2>2. CASE /\ ~l.cut
             /\ \E kind \in {"rates", "ping", "notice"} : m.toShip = Append(l.toShip, Packet(kind, l.crypt))
    <3>1. PICK kind \in {"rates", "ping", "notice"} : m.toShip = Append(l.toShip, Packet(kind, l.crypt))
      BY <2>2
    <3>2. Packet(kind, l.crypt) \in Packets /\ Packet(kind, l.crypt).kind = kind /\ Packet(kind, l.crypt).key = l.crypt
      BY <1>1, PacketFacts
    <3>3. \A k : Carries(m.toShip, k) <=> Carries(l.toShip, k) \/ kind = k
      BY <1>1, <3>1, <3>2, CarriesIs
    <3>4. kind \notin Refusals \cup {"eof", "welcome", "accepted"} BY DEF Refusals
    <3>5. l.crypt = "own" /\ Clear(l.toShip, "own", FALSE) => Clear(m.toShip, "own", FALSE)
      BY <1>1, <3>1, <3>2, ClearAdds
    <3> QED BY <3>3, <3>4, <3>5
  <2> QED BY <2>1, <2>2
<1>4. Keyed(m) BY <1>2 DEF LinkOK, Keyed
<1>5. Quiet(m) => Heard(m, on, n) BY <1>3 DEF LinkOK, Heard, Quiet
<1>7. ASSUME Quiet(m) PROVE Steady(m, on, n)
  <2>1. ~l.lostL /\ ~l.lostS /\ (Holds(l.in, "auth") => Len(l.in) = 1 /\ l.crypt = "public")
    BY <1>7 DEF LinkOK, Quiet, Steady
  <2>2. CASE l.cut BY <1>2, <1>7, <2>1, <2>2 DEF LinkOK, Quiet, Steady
  <2>3. CASE ~l.cut /\ on
    <3>1. Talking(l, n) BY <1>7, <2>3 DEF LinkOK, Quiet, Steady, Stage, Ended
    <3>2. Talking(m, n) BY <1>2, <1>3, <3>1 DEF Talking
    <3> QED BY <1>2, <2>1, <2>3, <3>2 DEF Steady, Stage
  <2>4. CASE ~l.cut /\ ~on
    <3>1. LeftBehind(l) BY <1>7, <2>4 DEF LinkOK, Quiet, Steady, Stage
    <3>2. LeftBehind(m) BY <1>2, <3>1 DEF LeftBehind
    <3> QED BY <1>2, <2>1, <2>4, <3>2 DEF Steady, Stage
  <2> QED BY <2>2, <2>3, <2>4
<1> QED BY <1>4, <1>5, <1>7 DEF LinkOK

LEMMA LinkCloses ==
  ASSUME NEW l \in LinkRecs, NEW m \in LinkRecs, NEW on \in BOOLEAN, NEW n \in Logons,
         LinkOK(l, on, n), l.open, ~m.open, m.in = <<>>, m.toLogin = <<>>, m.cut = l.cut,
         m.lostL = l.lostL, m.lostS = l.lostS, m.early = l.early, m.off = l.off,
         NEW q \in Seq(Packets), m.toShip = IF l.cut THEN l.toShip ELSE Append(q, Packet("eof", l.crypt)),
         \/ q = l.toShip /\ (on /\ Quiet(l) /\ ~l.cut => Talking(l, n))
         \/ Holds(l.in, "auth") /\ \E kind \in Refusals : q = Append(l.toShip, Packet(kind, l.crypt))
  PROVE  LinkOK(m, on, n)
<1>1. /\ l.in \in Seq(Kinds) /\ l.toShip \in Seq(Packets) /\ l.toLogin \in Seq(Packets)
      /\ l.crypt \in Crypts /\ m.in = <<>> /\ m.toLogin = <<>>
  BY DEF LinkRecs
<1>2. /\ Packet("eof", l.crypt) \in Packets /\ Packet("eof", l.crypt).kind = "eof"
      /\ \A kind \in Refusals : /\ Packet(kind, l.crypt) \in Packets
                                /\ Packet(kind, l.crypt).kind = kind /\ Packet(kind, l.crypt).key = l.crypt
  BY <1>1, PacketFacts DEF Refusals
<1>3. Keyed(m)
  <2>1. Len(m.toLogin) = 0 BY <1>1
  <2> QED BY <2>1 DEF Keyed
<1>4. Quiet(m) => Heard(m, on, n) BY DEF LinkOK, Heard, Quiet
<1>6. ASSUME Quiet(m) PROVE Steady(m, on, n)
  <2>1. ~m.lostL /\ ~m.lostS /\ ~Holds(m.in, "auth")
    BY <1>1, <1>6, HoldsIs DEF LinkOK, Quiet, Steady
  <2>2. CASE l.cut BY <1>1, <1>6, <2>1, <2>2 DEF LinkOK, Quiet, Steady
  <2>3. CASE ~l.cut /\ ~on BY <1>6, <2>1, <2>3 DEF Steady, Stage
  <2>4. CASE ~l.cut /\ on
    <3>1. Opening(l, n) \/ Talking(l, n) BY <1>6, <2>4 DEF LinkOK, Quiet, Steady, Stage, Ended
    <3>2. /\ Clear(q, n.crypt, FALSE)
          /\ \A kind \in {"welcome", "accepted"} : ~Carries(q, kind) /\ ~Holds(n.in, kind)
      <4>1. CASE Talking(l, n) /\ q = l.toShip BY <4>1 DEF Talking
      <4>2. CASE Holds(l.in, "auth") /\ \E kind \in Refusals : q = Append(l.toShip, Packet(kind, l.crypt))
        <5>1. l.in # <<>> BY <4>2, HoldsIs, <1>1
        <5>2. Introducing(l, n)
          BY <3>1, <4>2, <5>1 DEF Opening, Welcoming, Accepting, Talking, Nothing
        <5>3. l.toShip = <<>> /\ n.in = <<>> /\ n.crypt = l.crypt BY <5>2 DEF Introducing, Nothing
        <5>4. PICK kind \in Refusals : q = Append(<<>>, Packet(kind, l.crypt)) BY <4>2, <5>3
        <5>5. <<>> \in Seq(Packets) BY <1>1, <5>3
        <5>6. Clear(q, n.crypt, FALSE) BY <1>2, <5>3, <5>4, <5>5, ClearIs DEF Refusals
        <5> DEFINE x == Packet(kind, l.crypt)
        <5>10. x \in Packets /\ x.kind = kind /\ q = Append(<<>>, x) BY <1>2, <5>4
        <5> HIDE DEF x
        <5>7. \A k : Carries(q, k) <=> Carries(<<>>, k) \/ kind = k BY <5>10, <5>5, CarriesIs
        <5>8. \A k : ~Carries(<<>>, k) BY <5>5, CarriesIs
        <5>9. \A k : ~Holds(n.in, k) BY <5>3, HoldsIs, <1>1 DEF Logons
        <5> QED BY <5>6, <5>7, <5>8, <5>9 DEF Refusals
      <4> QED BY <2>4, <1>6, <3>1, <4>1, <4>2 DEF Quiet
    <3>3. Clear(m.toShip, n.crypt, TRUE)
      <4>1. m.toShip = Append(q, Packet("eof", l.crypt)) BY <2>4
      <4> QED BY <1>2, <3>2, <4>1, ClearEnds
    <3>4. \A kind \in {"welcome", "accepted"} : ~Carries(m.toShip, kind)
      BY <1>2, <2>4, <3>2, CarriesIs
    <3>5. Ended(m, n) BY <3>2, <3>3, <3>4 DEF Ended
    <3> QED BY <2>1, <2>4, <3>5 DEF Steady, Stage
  <2> QED BY <2>2, <2>3, <2>4
<1> QED BY <1>3, <1>4, <1>6 DEF LinkOK

LEMMA LinkReads ==
  ASSUME NEW l \in LinkRecs, NEW m \in LinkRecs, NEW on \in BOOLEAN, NEW n \in Logons,
         LinkOK(l, on, n), l.open, m.open, m.ship = l.ship, m.cut = l.cut, m.crypt = l.crypt,
         m.key = l.key, m.lostS = l.lostS, m.early = l.early, m.off = l.off, m.toShip = l.toShip, m.age = l.age,
         m.authed = l.authed, m.since = l.since, l.toLogin # <<>>, ~EndOf(l.toLogin),
         NEW kind, kind = Read(Head(l.toLogin), l.crypt, l.lostL),
         m.toLogin = Tail(l.toLogin), m.in = Append(l.in, kind), m.lostL = (l.lostL \/ kind = "garbage")
  PROVE  LinkOK(m, on, n)
<1>1. /\ l.in \in Seq(Kinds) /\ l.toLogin \in Seq(Packets) /\ l.crypt \in Crypts
      /\ Head(l.toLogin) \in Packets
  BY DropsOne DEF LinkRecs
<1> DEFINE p == Head(l.toLogin)
<1>2. /\ Len(m.toLogin) = Len(l.toLogin) - 1 /\ Len(l.toLogin) \in Nat \ {0} /\ p = l.toLogin[1]
      /\ \A i \in 1 .. Len(l.toLogin) - 1 : m.toLogin[i] = l.toLogin[i + 1]
      /\ \A k : Carries(m.toLogin, k) => Carries(l.toLogin, k)
      /\ Carries(l.toLogin, p.kind)
  BY <1>1, DropsOne, CarriesIs
<1>3. p.kind # "eof" /\ p.kind \in Kinds /\ kind \in Kinds /\ (kind = p.kind \/ kind = "garbage")
  BY <1>1, PacketFacts DEF EndOf, Read
<1>4. \A k : Holds(m.in, k) <=> Holds(l.in, k) \/ kind = k BY <1>1, <1>3, HoldsIs
<1>5. Len(m.in) = Len(l.in) + 1 /\ Len(l.in) \in Nat BY <1>1, <1>3, AddsOne
<1>6. Keyed(m)
  <2>1. 1 \in 1 .. Len(l.toLogin) BY <1>2
  <2>2. kind = "charts" => l.crypt = "own" BY <1>1, <1>2, <2>1 DEF LinkOK, Keyed, Read
  <2>3. \A i \in 1 .. Len(m.toLogin) : m.toLogin[i].kind = "charts" => m.toLogin[i].key = "own"
    <3>1. \A i \in 1 .. Len(m.toLogin) : i + 1 \in 1 .. Len(l.toLogin) /\ m.toLogin[i] = l.toLogin[i + 1]
      BY <1>2
    <3> QED BY <3>1 DEF LinkOK, Keyed
  <2> QED BY <1>4, <2>2, <2>3 DEF LinkOK, Keyed
<1>7. Quiet(m) => Heard(m, on, n) BY DEF LinkOK, Heard, Quiet
<1>9. ASSUME Quiet(m) PROVE Steady(m, on, n)
  <2>1. ~l.lostL /\ ~l.lostS /\ (Holds(l.in, "auth") => Len(l.in) = 1 /\ l.crypt = "public") /\ ~l.cut
    BY <1>9 DEF LinkOK, Quiet, Steady
  <2>2. ASSUME p.key = l.crypt PROVE ~m.lostL /\ ~m.lostS /\ kind = p.kind
    <3>1. kind = p.kind BY <2>1, <2>2 DEF Read
    <3>2. p.kind # "garbage" BY <1>1, PacketFacts
    <3> QED BY <2>1, <3>1, <3>2
  <2>3. CASE on
    <3>1. (Introducing(l, n) /\ Opening(l, n)) \/ Talking(l, n)
      BY <1>9, <2>1, <2>3 DEF LinkOK, Quiet, Steady, Stage, Ended, Opening, Welcoming, Accepting, Nothing
    <3>2. CASE Introducing(l, n) /\ Opening(l, n)
      <4>1. l.toLogin = <<Packet("auth", "public")>> /\ l.in = <<>> /\ l.crypt = "public"
        BY <3>2 DEF Introducing, OnlyOne
      <4>2. p = Packet("auth", "public") /\ m.toLogin = <<>> BY <1>1, <4>1, Short
      <4>3. ~m.lostL /\ ~m.lostS /\ kind = "auth" BY <2>2, <4>1, <4>2, PacketFacts
      <4>4. m.in = <<"auth">> /\ Len(m.in) = 1 BY <4>1, <4>3, Short
      <4>5. Introducing(m, n) BY <3>2, <4>2, <4>4 DEF Introducing, OnlyOne
      <4>6. Opening(m, n) BY <3>2, <4>5 DEF Opening
      <4> QED BY <2>1, <2>3, <4>1, <4>3, <4>4, <4>6 DEF Steady, Stage
    <3>3. CASE Talking(l, n)
      <4>1. Clear(m.toLogin, "own", FALSE) /\ p.key = l.crypt BY <1>1, <3>3, ClearIs DEF Talking
      <4>2. kind # "auth" BY <1>2, <2>2, <3>3, <4>1 DEF Talking
      <4>3. Talking(m, n) BY <1>2, <1>4, <3>3, <4>1, <4>2 DEF Talking
      <4>4. ~Holds(m.in, "auth") BY <4>3 DEF Talking
      <4> QED BY <2>1, <2>2, <2>3, <4>1, <4>3, <4>4 DEF Steady, Stage
    <3> QED BY <3>1, <3>2, <3>3
  <2>4. CASE ~on
    <3>1. LeftBehind(l) BY <1>9, <2>1, <2>4 DEF LinkOK, Quiet, Steady, Stage
    <3>2. Clear(m.toLogin, l.crypt, TRUE) /\ p.key = l.crypt BY <1>1, <3>1, ClearIs DEF LeftBehind
    <3>3. ~m.lostL /\ ~m.lostS /\ kind = p.kind BY <2>2, <3>2
    <3>4. ~Holds(l.in, "auth")
      <4>1. Len(l.toLogin) # 1
        <5>1. Len(l.toLogin) = 1 => 1 \in 1 .. Len(l.toLogin) /\ l.toLogin[1].kind = "eof"
          BY <1>2, <3>1 DEF LeftBehind, Clear
        <5> QED BY <1>2, <1>3, <5>1
      <4> QED BY <3>1, <4>1 DEF LeftBehind
    <3>5. ~Carries(m.toLogin, "auth")
      <4>1. SUFFICES ASSUME Len(m.toLogin) = 1 PROVE ~Carries(m.toLogin, "auth")
        BY <1>2, <3>1 DEF LeftBehind
      <4>2. 1 .. Len(m.toLogin) = {1}
        <5>1. 1 .. 1 = {1} OBVIOUS
        <5> QED BY <4>1, <5>1
      <4>3. m.toLogin[1].kind = "eof" BY <3>2, <4>1, <4>2 DEF Clear
      <4> QED BY <4>2, <4>3 DEF Carries
    <3>6. Holds(m.in, "auth") => Len(m.toLogin) = 1 /\ Len(m.in) = 1 /\ l.crypt = "public"
      <4>1. SUFFICES ASSUME kind = "auth"
                     PROVE  Len(m.toLogin) = 1 /\ Len(m.in) = 1 /\ l.crypt = "public"
        BY <1>4, <3>4
      <4>2. Len(l.toLogin) = 2 /\ l.in = <<>> /\ l.crypt = "public"
        BY <1>2, <3>1, <3>3, <4>1 DEF LeftBehind
      <4>3. Len(l.in) = 0 BY <4>2
      <4> QED BY <1>2, <1>5, <4>2, <4>3
    <3>7. LeftBehind(m) BY <3>2, <3>5, <3>6 DEF LeftBehind
    <3> QED BY <2>1, <2>4, <3>3, <3>6, <3>7 DEF Steady, Stage
  <2> QED BY <2>3, <2>4
<1> QED BY <1>6, <1>7, <1>9 DEF LinkOK

LEMMA LinkAccepts ==
  ASSUME NEW l \in LinkRecs, NEW m \in LinkRecs, NEW on \in BOOLEAN, NEW n \in Logons,
         LinkOK(l, on, n), l.open, l.in # <<>>, Head(l.in) = "auth", m.open, m.ship = l.ship,
         m.cut = l.cut, m.crypt = "own", m.key = KeyOf[l.ship], m.lostL = l.lostL, m.lostS = l.lostS,
         m.early = l.early, m.off = l.off, m.age = l.age, m.since = l.since, m.toLogin = l.toLogin, m.in = Tail(l.in),
         m.toShip = IF l.cut THEN l.toShip ELSE Append(l.toShip, Packet("accepted", l.crypt))
  PROVE  LinkOK(m, on, n)
<1>1. /\ l.in \in Seq(Kinds) /\ l.toShip \in Seq(Packets) /\ l.toLogin \in Seq(Packets)
      /\ l.crypt \in Crypts /\ Shrinks(l.in, m.in)
  BY DEF LinkRecs, Shrinks
<1>2. /\ \A k : Holds(m.in, k) => Holds(l.in, k)
      /\ Holds(l.in, "auth") /\ Len(m.in) = Len(l.in) - 1 /\ m.in \in Seq(Kinds) /\ Len(l.in) \in Nat
  BY <1>1, ShrinksIs, HoldsIs, DropsOne
<1> DEFINE x == Packet("accepted", l.crypt)
<1>3. x \in Packets /\ x.kind = "accepted" /\ x.key = l.crypt BY <1>1, PacketFacts
<1>4. m.toShip = IF l.cut THEN l.toShip ELSE Append(l.toShip, x) OBVIOUS
<1> HIDE DEF x
<1>5. Keyed(m) BY DEF LinkOK, Keyed
<1>6. Quiet(m) => Heard(m, on, n)
  <2>1. \A k : Carries(m.toShip, k) => Carries(l.toShip, k) \/ k = "accepted"
    BY <1>1, <1>3, <1>4, CarriesIs
  <2> QED BY <2>1 DEF LinkOK, Heard, Quiet, Refusals
<1>8. ASSUME Quiet(m) PROVE Steady(m, on, n)
  <2>1. ~l.lostL /\ ~l.lostS /\ Len(l.in) = 1 /\ l.crypt = "public"
    BY <1>2, <1>8 DEF LinkOK, Quiet, Steady
  <2>2. m.in = <<>> /\ \A k : ~Holds(m.in, k)
    <3>1. Len(m.in) = 0 /\ m.in \in Seq(Kinds) BY <1>2, <2>1
    <3>2. m.in = <<>> BY <3>1, EmptySeq
    <3> QED BY <3>1, <3>2, HoldsIs
  <2>3. CASE l.cut BY <1>4, <1>8, <2>1, <2>2, <2>3 DEF LinkOK, Quiet, Steady
  <2>4. CASE ~l.cut /\ on
    <3>1. l.in # <<>> OBVIOUS
    <3>2. Introducing(l, n) /\ Opening(l, n)
      BY <1>2, <1>8, <2>4, <3>1 DEF LinkOK, Quiet, Steady, Stage, Ended, Opening, Welcoming, Accepting, Nothing, Talking
    <3>3. l.toLogin = <<>> /\ l.toShip = <<>> /\ n.in = <<>> /\ n.crypt = "public"
      BY <3>1, <3>2 DEF Introducing, OnlyOne, Nothing
    <3>4. x = Packet("accepted", "public") BY <2>1 DEF x
    <3>5. m.toShip = <<x>> BY <1>3, <1>4, <2>4, <3>3, Short
    <3>6. Accepting(m, n) BY <2>2, <3>3, <3>4, <3>5 DEF Accepting, OnlyOne, Nothing
    <3>7. Opening(m, n) BY <3>2, <3>6 DEF Opening
    <3> QED BY <2>1, <2>2, <2>4, <3>7 DEF Steady, Stage
  <2>5. CASE ~l.cut /\ ~on
    <3>1. LeftBehind(l) BY <1>8, <2>5 DEF LinkOK, Quiet, Steady, Stage
    <3>2. Len(l.toLogin) = 1 BY <1>2, <3>1 DEF LeftBehind
    <3>3. 1 .. Len(l.toLogin) = {1}
      <4>1. 1 .. 1 = {1} OBVIOUS
      <4> QED BY <3>2, <4>1
    <3>4. l.toLogin # <<>> /\ l.toLogin[1].kind = "eof" BY <3>1, <3>2, <3>3 DEF LeftBehind, Clear
    <3>5. Clear(m.toLogin, "own", TRUE) BY <3>2, <3>3, <3>4 DEF Clear
    <3>6. ~Carries(m.toLogin, "auth") BY <3>3, <3>4 DEF Carries
    <3>7. LeftBehind(m) BY <2>2, <3>5, <3>6 DEF LeftBehind
    <3> QED BY <2>1, <2>2, <2>5, <3>7 DEF Steady, Stage
  <2> QED BY <2>3, <2>4, <2>5
<1> QED BY <1>5, <1>6, <1>8 DEF LinkOK

LEMMA LinkReceives ==
  ASSUME NEW l \in LinkRecs, NEW m \in LinkRecs, NEW n \in Logons, NEW o \in Logons,
         LinkOK(l, TRUE, n), m.open = l.open, m.ship = l.ship, m.cut = l.cut, m.crypt = l.crypt,
         m.key = l.key, m.lostL = l.lostL, m.early = l.early, m.off = l.off, m.toLogin = l.toLogin, m.age = l.age,
         m.in = l.in, m.authed = l.authed, m.since = l.since, l.toShip # <<>>, ~EndOf(l.toShip),
         NEW kind, kind = Read(Head(l.toShip), n.crypt, l.lostS),
         m.toShip = Tail(l.toShip), m.lostS = (l.lostS \/ kind = "garbage"),
         o.in = Append(n.in, kind), o.crypt = n.crypt, o.age = n.age, o.off => n.off
  PROVE  LinkOK(m, TRUE, o)
<1>1. /\ n.in \in Seq(Kinds) /\ l.toShip \in Seq(Packets) /\ l.crypt \in Crypts
      /\ Head(l.toShip) \in Packets
  BY DropsOne DEF LinkRecs, Logons
<1> DEFINE p == Head(l.toShip)
<1>2. /\ \A k : Carries(m.toShip, k) => Carries(l.toShip, k)
      /\ Carries(l.toShip, p.kind)
  BY <1>1, CarriesIs
<1>3. p.kind # "eof" /\ p.kind # "garbage" /\ kind \in Kinds /\ (kind = p.kind \/ kind = "garbage")
  BY <1>1, PacketFacts DEF EndOf, Read
<1>4. \A k : Holds(o.in, k) <=> Holds(n.in, k) \/ kind = k BY <1>1, <1>3, HoldsIs
<1>5. Keyed(m) BY DEF LinkOK, Keyed
<1>6. Quiet(m) => Heard(m, TRUE, o)
  <2>1. SUFFICES ASSUME Quiet(m) PROVE Heard(m, TRUE, o) OBVIOUS
  <2>2. Heard(l, TRUE, n) BY <2>1 DEF LinkOK, Quiet
  <2>3. \A k \in Refusals : Holds(o.in, k) => ~l.open
    <3>1. "garbage" \notin Refusals BY DEF Refusals
    <3> QED BY <1>2, <1>3, <1>4, <2>2, <3>1 DEF Heard
  <2>4. Holds(o.in, "garbage") => m.lostS BY <1>4, <2>2 DEF Heard
  <2> QED BY <1>2, <2>2, <2>3, <2>4 DEF Heard
<1>8. ASSUME Quiet(m) PROVE Steady(m, TRUE, o)
  <2>1. ~l.lostL /\ ~l.lostS /\ (Holds(l.in, "auth") => Len(l.in) = 1 /\ l.crypt = "public") /\ ~l.cut
    BY <1>8 DEF LinkOK, Quiet, Steady
  <2>2. ASSUME p.key = n.crypt PROVE ~m.lostL /\ ~m.lostS /\ kind = p.kind
    BY <1>3, <2>1, <2>2 DEF Read
  <2>3. \/ Welcoming(l, n) /\ Opening(l, n)
        \/ Accepting(l, n) /\ Opening(l, n)
        \/ Talking(l, n)
        \/ Ended(l, n)
    BY <1>8, <2>1 DEF LinkOK, Quiet, Steady, Stage, Opening, Introducing, Nothing
  <2>4. CASE Welcoming(l, n) /\ Opening(l, n)
    <3>1. l.toShip = <<Packet("welcome", "plain")>> /\ n.in = <<>> /\ n.crypt = "plain"
      BY <2>4 DEF Welcoming, OnlyOne
    <3>2. p = Packet("welcome", "plain") /\ m.toShip = <<>> BY <1>1, <3>1, Short
    <3>3. ~m.lostL /\ ~m.lostS /\ kind = "welcome" BY <2>2, <3>1, <3>2, PacketFacts
    <3>4. o.in = <<"welcome">> BY <3>1, <3>3, Short
    <3>5. Welcoming(m, o) BY <2>4, <3>2, <3>4 DEF Welcoming, OnlyOne
    <3>6. Opening(m, o) BY <2>4, <3>5 DEF Opening
    <3> QED BY <2>1, <3>3, <3>6 DEF Steady, Stage
  <2>5. CASE Accepting(l, n) /\ Opening(l, n)
    <3>1. l.toShip = <<Packet("accepted", "public")>> /\ n.in = <<>> /\ n.crypt = "public"
      BY <2>5 DEF Accepting, OnlyOne
    <3>2. p = Packet("accepted", "public") /\ m.toShip = <<>> BY <1>1, <3>1, Short
    <3>3. ~m.lostL /\ ~m.lostS /\ kind = "accepted" BY <2>2, <3>1, <3>2, PacketFacts
    <3>4. o.in = <<"accepted">> BY <3>1, <3>3, Short
    <3>5. Accepting(m, o) BY <2>5, <3>2, <3>4 DEF Accepting, OnlyOne
    <3>6. Opening(m, o) BY <2>5, <3>5 DEF Opening
    <3> QED BY <2>1, <3>3, <3>6 DEF Steady, Stage
  <2>6. CASE Talking(l, n)
    <3>1. Clear(m.toShip, "own", FALSE) /\ p.key = n.crypt BY <1>1, <2>6, ClearIs DEF Talking
    <3>2. kind \notin {"welcome", "accepted"} BY <1>2, <2>2, <2>6, <3>1 DEF Talking
    <3>3. Talking(m, o) BY <1>2, <1>4, <2>6, <3>1, <3>2 DEF Talking
    <3> QED BY <2>1, <2>2, <3>1, <3>3 DEF Steady, Stage
  <2>7. CASE Ended(l, n)
    <3>1. Clear(m.toShip, n.crypt, TRUE) /\ p.key = n.crypt BY <1>1, <2>7, ClearIs DEF Ended
    <3>2. kind \notin {"welcome", "accepted"} BY <1>2, <2>2, <2>7, <3>1 DEF Ended
    <3>3. Ended(m, o) BY <1>2, <1>4, <2>7, <3>1, <3>2 DEF Ended
    <3> QED BY <2>1, <2>2, <3>1, <3>3 DEF Steady, Stage
  <2> QED BY <2>3, <2>4, <2>5, <2>6, <2>7
<1> QED BY <1>5, <1>6, <1>8 DEF LinkOK

LEMMA LinkIntroduces ==
  ASSUME NEW l \in LinkRecs, NEW m \in LinkRecs, NEW n \in Logons, NEW o \in Logons,
         LinkOK(l, TRUE, n), n.in # <<>>, Head(n.in) \in {"welcome", "accepted"},
         NEW kind, NEW key, kind = (IF Head(n.in) = "welcome" THEN "auth" ELSE "charts"),
         key = (IF Head(n.in) = "welcome" THEN "public" ELSE "own"),
         m.open = l.open, m.ship = l.ship, m.cut = l.cut, m.crypt = l.crypt,
         m.key = l.key, m.lostL = l.lostL, m.lostS = l.lostS, m.early = l.early, m.off = l.off, m.age = l.age,
         m.in = l.in, m.authed = l.authed, m.since = l.since, m.toShip = l.toShip,
         m.toLogin = IF l.cut THEN l.toLogin ELSE Append(l.toLogin, Packet(kind, key)),
         o.in = Tail(n.in), o.crypt = key, o.age = n.age, o.off => n.off
  PROVE  LinkOK(m, TRUE, o)
<1>1. /\ n.in \in Seq(Kinds) /\ l.toLogin \in Seq(Packets) /\ l.toShip \in Seq(Packets)
      /\ l.in \in Seq(Kinds) /\ Shrinks(n.in, o.in)
  BY DEF LinkRecs, Logons, Shrinks
<1>2. (\A k : Holds(o.in, k) => Holds(n.in, k)) /\ Holds(n.in, Head(n.in))
  BY <1>1, ShrinksIs, HoldsIs
<1> DEFINE x == Packet(kind, key)
<1>3. x \in Packets /\ x.kind = kind /\ x.key = key /\ (kind = "charts" => key = "own") /\ kind \in {"auth", "charts"}
  BY PacketFacts
<1>4. m.toLogin = (IF l.cut THEN l.toLogin ELSE Append(l.toLogin, x)) OBVIOUS
<1> HIDE DEF x
<1>5. \A k : Carries(m.toLogin, k) => Carries(l.toLogin, k) \/ k = kind
  BY <1>1, <1>3, <1>4, CarriesIs
<1>6. Keyed(m)
  <2>1. CASE l.cut BY <1>4, <2>1 DEF LinkOK, Keyed
  <2>2. CASE ~l.cut
    <3>1. /\ Len(m.toLogin) = Len(l.toLogin) + 1 /\ Len(l.toLogin) \in Nat
          /\ m.toLogin[Len(l.toLogin) + 1] = x
          /\ \A i \in 1 .. Len(l.toLogin) : m.toLogin[i] = l.toLogin[i]
      BY <1>1, <1>3, <1>4, <2>2, AddsOne
    <3>2. \A i \in 1 .. Len(m.toLogin) : i \in 1 .. Len(l.toLogin) \/ m.toLogin[i] = x
      BY <3>1
    <3>3. \A i \in 1 .. Len(m.toLogin) : m.toLogin[i].kind = "charts" => m.toLogin[i].key = "own"
      BY <1>3, <3>1, <3>2 DEF LinkOK, Keyed
    <3> QED BY <3>3 DEF LinkOK, Keyed
  <2> QED BY <2>1, <2>2
<1>7. Quiet(m) => Heard(m, TRUE, o) BY <1>2 DEF LinkOK, Heard, Quiet
<1>9. ASSUME Quiet(m) PROVE Steady(m, TRUE, o)
  <2>1. ~l.lostL /\ ~l.lostS /\ (Holds(l.in, "auth") => Len(l.in) = 1 /\ l.crypt = "public")
    BY <1>9 DEF LinkOK, Quiet, Steady
  <2>2. CASE l.cut BY <1>4, <1>9, <2>1, <2>2 DEF LinkOK, Quiet, Steady
  <2>3. CASE ~l.cut
    <3>1. Opening(l, n)
      BY <1>2, <1>9, <2>3 DEF LinkOK, Quiet, Steady, Stage, Talking, Ended
    <3>2. n.in # <<>> OBVIOUS
    <3>3. Welcoming(l, n) \/ Accepting(l, n) BY <3>1, <3>2 DEF Opening, Introducing, Nothing
    <3>4. n.in = <<Head(n.in)>> /\ l.toShip = <<>> /\ l.toLogin = <<>> /\ l.in = <<>>
      <4>1. Head(<<"welcome">>) = "welcome" /\ Head(<<"accepted">>) = "accepted" OBVIOUS
      <4>2. CASE Welcoming(l, n) BY <3>2, <4>1, <4>2 DEF Welcoming, OnlyOne, Nothing
      <4>3. CASE Accepting(l, n) BY <3>2, <4>1, <4>3 DEF Accepting, OnlyOne, Nothing
      <4> QED BY <3>3, <4>2, <4>3
    <3>5. o.in = <<>>
      <4>1. Head(n.in) \in Kinds BY <1>1, <3>2, DropsOne
      <4>2. \A y \in Kinds : Tail(<<y>>) = <<>> BY Short
      <4> QED BY <3>4, <4>1, <4>2
    <3>6. m.toLogin = <<x>> BY <1>3, <1>4, <2>3, <3>4, Short
    <3>7. CASE Head(n.in) = "welcome"
      <4>1. Welcoming(l, n)
        <5>1. Head(<<"accepted">>) = "accepted" OBVIOUS
        <5> QED BY <3>2, <3>3, <3>7, <5>1 DEF Accepting, OnlyOne
      <4>2. x = Packet("auth", "public") BY <3>7 DEF x
      <4>3. Introducing(m, o) BY <3>4, <3>5, <3>6, <3>7, <4>1, <4>2 DEF Welcoming, Introducing, OnlyOne, Nothing
      <4>4. Opening(m, o) BY <3>1, <4>3 DEF Opening
      <4> QED BY <2>1, <2>3, <4>4 DEF Steady, Stage
    <3>8. CASE Head(n.in) = "accepted"
      <4>1. Accepting(l, n)
        <5>1. Head(<<"welcome">>) = "welcome" OBVIOUS
        <5> QED BY <3>2, <3>3, <3>8, <5>1 DEF Welcoming, OnlyOne
      <4>2. key = "own" /\ kind = "charts" BY <3>8
      <4>3. /\ <<>> \in Seq(Packets) /\ <<>> \in Seq(Kinds) /\ Append(<<>>, x) = <<x>>
            /\ l.toLogin = <<>>
        BY <1>3, <3>4, Short
      <4>4. Clear(m.toShip, "own", FALSE) /\ Clear(m.toLogin, "own", FALSE)
        <5>1. x.kind # "eof" /\ x.key = "own" BY <1>3, <4>2
        <5>2. Clear(<<>>, "own", FALSE) BY <4>3, ClearIs
        <5>3. Clear(<<x>>, "own", FALSE) BY <1>3, <4>3, <5>1, <5>2, ClearIs
        <5> QED BY <3>4, <3>6, <5>2, <5>3
      <4>5. \A k : ~Carries(<<>>, k) /\ ~Holds(<<>>, k) BY <4>3, CarriesIs, HoldsIs
      <4>6. ~Carries(m.toLogin, "auth")
        <5>1. Carries(<<x>>, "auth") <=> x.kind = "auth"
          <6>1. Carries(Append(<<>>, x), "auth") <=> Carries(<<>>, "auth") \/ x.kind = "auth"
            BY <1>3, <4>3, CarriesIs
          <6> QED BY <4>3, <4>5, <6>1
        <5> QED BY <1>3, <3>6, <4>2, <5>1
      <4>7. Talking(m, o) BY <3>1, <3>4, <3>5, <4>1, <4>2, <4>4, <4>5, <4>6 DEF Talking, Accepting, Opening
      <4> QED BY <2>1, <2>3, <4>7 DEF Steady, Stage
    <3> QED BY <3>7, <3>8
  <2> QED BY <2>2, <2>3
<1> QED BY <1>6, <1>7, <1>9 DEF LinkOK

LEMMA LinkWorks ==
  ASSUME NEW l \in LinkRecs, NEW m \in LinkRecs, NEW n \in Logons, NEW o \in Logons,
         LinkOK(l, TRUE, n), m.open = l.open, m.ship = l.ship, m.cut = l.cut, m.crypt = l.crypt,
         m.key = l.key, m.lostL = l.lostL, m.lostS = l.lostS, m.off = l.off, l.early => m.early, m.age = l.age,
         m.in = l.in, m.toShip = l.toShip, Shrinks(n.in, o.in), o.crypt = n.crypt, o.off => n.off,
         o.age = n.age \/ o.age = 0,
         \/ m.toLogin = l.toLogin
         \/ /\ ~l.cut
            /\ \E kind \in {"pong", "data"} : /\ m.toLogin = Append(l.toLogin, Packet(kind, n.crypt))
                                              /\ kind = "pong" => o.age = 0,
         Quiet(m) /\ ~l.cut => ~Opening(l, n)
  PROVE  LinkOK(m, TRUE, o)
<1>1. /\ n.in \in Seq(Kinds) /\ l.toLogin \in Seq(Packets) /\ l.toShip \in Seq(Packets)
      /\ l.in \in Seq(Kinds) /\ n.crypt \in Crypts /\ n.age \in Nat /\ o.age \in Nat /\ l.age \in Nat
  BY DEF LinkRecs, Logons
<1>2. \A k : Holds(o.in, k) => Holds(n.in, k) BY <1>1, ShrinksIs
<1>3. /\ \A k : Carries(m.toLogin, k) => Carries(l.toLogin, k) \/ k = "data" \/ (k = "pong" /\ o.age = 0)
      /\ n.crypt = "own" /\ Clear(l.toLogin, "own", FALSE) => Clear(m.toLogin, "own", FALSE)
      /\ \A i \in 1 .. Len(m.toLogin) : m.toLogin[i].kind = "charts" =>
           i \in 1 .. Len(l.toLogin) /\ m.toLogin[i] = l.toLogin[i]
  <2>1. CASE m.toLogin = l.toLogin BY <2>1
  <2>2. CASE ~l.cut /\ \E kind \in {"pong", "data"} : /\ m.toLogin = Append(l.toLogin, Packet(kind, n.crypt))
                                                      /\ kind = "pong" => o.age = 0
    <3>1. PICK kind \in {"pong", "data"} : /\ m.toLogin = Append(l.toLogin, Packet(kind, n.crypt))
                                           /\ kind = "pong" => o.age = 0
      BY <2>2
    <3> DEFINE x == Packet(kind, n.crypt)
    <3>2. x \in Packets /\ x.kind = kind /\ x.key = n.crypt /\ m.toLogin = Append(l.toLogin, x)
      BY <1>1, <3>1, PacketFacts, SMTT(60)
    <3> HIDE DEF x
    <3>3. \A k : Carries(m.toLogin, k) => Carries(l.toLogin, k) \/ k = kind BY <1>1, <3>2, CarriesIs
    <3>4. n.crypt = "own" /\ Clear(l.toLogin, "own", FALSE) => Clear(m.toLogin, "own", FALSE)
      BY <1>1, <3>1, <3>2, ClearAdds
    <3>5. /\ Len(m.toLogin) = Len(l.toLogin) + 1 /\ Len(l.toLogin) \in Nat
          /\ m.toLogin[Len(l.toLogin) + 1] = x
          /\ \A i \in 1 .. Len(l.toLogin) : m.toLogin[i] = l.toLogin[i]
      BY <1>1, <3>2, AddsOne
    <3>6. \A i \in 1 .. Len(m.toLogin) : i \in 1 .. Len(l.toLogin) \/ m.toLogin[i] = x
      BY <3>5
    <3> QED BY <3>1, <3>2, <3>3, <3>4, <3>5, <3>6
  <2> QED BY <2>1, <2>2
<1>4. Keyed(m) BY <1>3 DEF LinkOK, Keyed
<1>5. Quiet(m) => Heard(m, TRUE, o) BY <1>2 DEF LinkOK, Heard, Quiet
<1>7. ASSUME Quiet(m) PROVE Steady(m, TRUE, o)
  <2>1. ~l.lostL /\ ~l.lostS /\ (Holds(l.in, "auth") => Len(l.in) = 1 /\ l.crypt = "public")
    BY <1>7 DEF LinkOK, Quiet, Steady
  <2>2. CASE l.cut BY <1>7, <2>1, <2>2 DEF LinkOK, Quiet, Steady
  <2>3. CASE ~l.cut /\ Talking(l, n)
    <3>1. /\ l.open /\ l.crypt = "own" /\ n.crypt = "own"
          /\ Clear(l.toShip, "own", FALSE) /\ Clear(l.toLogin, "own", FALSE)
          /\ ~Carries(l.toLogin, "auth") /\ ~Holds(l.in, "auth")
          /\ \A kind \in {"welcome", "accepted"} : ~Carries(l.toShip, kind) /\ ~Holds(n.in, kind)
      BY <2>3 DEF Talking
    <3>2. Clear(m.toLogin, "own", FALSE) /\ ~Carries(m.toLogin, "auth")
      <4>1. Clear(m.toLogin, "own", FALSE) BY <1>3, <3>1
      <4>2. Carries(m.toLogin, "auth") => Carries(l.toLogin, "auth") BY <1>3
      <4> QED BY <3>1, <4>1, <4>2
    <3>3. Talking(m, o) BY <1>2, <3>1, <3>2 DEF Talking
    <3> QED BY <2>1, <2>3, <3>3 DEF Steady, Stage
  <2>4. CASE ~l.cut /\ Ended(l, n)
    <3>1. Ended(m, o) BY <1>2, <2>4 DEF Ended
    <3> QED BY <2>1, <2>4, <3>1 DEF Steady, Stage
  <2> QED BY <1>7, <2>2, <2>3, <2>4 DEF LinkOK, Quiet, Steady, Stage
<1> QED BY <1>4, <1>5, <1>7 DEF LinkOK

LEMMA LinkLeft ==
  ASSUME NEW l \in LinkRecs, NEW m \in LinkRecs, NEW n \in Logons, NEW o,
         LinkOK(l, TRUE, n), m.open = l.open, m.ship = l.ship, m.cut = l.cut, m.crypt = l.crypt,
         m.key = l.key, m.lostL = l.lostL, m.lostS = l.lostS, m.early = l.early, m.off = l.off, m.in = l.in,
         m.toShip = <<>>,
         m.toLogin = IF l.cut THEN l.toLogin ELSE Append(l.toLogin, Packet("eof", l.crypt))
  PROVE  LinkOK(m, FALSE, o)
<1>1. /\ l.toLogin \in Seq(Packets) /\ l.toShip \in Seq(Packets) /\ l.in \in Seq(Kinds)
      /\ l.crypt \in Crypts /\ <<>> \in Seq(Packets) /\ <<>> \in Seq(Kinds)
  BY EmptySeq DEF LinkRecs
<1> DEFINE x == Packet("eof", l.crypt)
<1>2. x \in Packets /\ x.kind = "eof" BY <1>1, PacketFacts
<1>3. m.toLogin = (IF l.cut THEN l.toLogin ELSE Append(l.toLogin, x)) OBVIOUS
<1> HIDE DEF x
<1>4. /\ ~l.cut => /\ Len(m.toLogin) = Len(l.toLogin) + 1
                   /\ m.toLogin[Len(l.toLogin) + 1] = x
                   /\ \A i \in 1 .. Len(l.toLogin) : m.toLogin[i] = l.toLogin[i]
                   /\ \A k : Carries(m.toLogin, k) <=> Carries(l.toLogin, k) \/ k = "eof"
      /\ Len(l.toLogin) \in Nat
  <2>1. /\ Len(Append(l.toLogin, x)) = Len(l.toLogin) + 1
        /\ Append(l.toLogin, x)[Len(l.toLogin) + 1] = x /\ Len(l.toLogin) \in Nat
        /\ \A i \in 1 .. Len(l.toLogin) : Append(l.toLogin, x)[i] = l.toLogin[i]
    BY <1>1, <1>2, AddsOne
  <2>2. \A k : Carries(Append(l.toLogin, x), k) <=> Carries(l.toLogin, k) \/ k = "eof"
    BY <1>1, <1>2, CarriesIs
  <2> QED BY <1>3, <2>1, <2>2
<1>5. \A k : ~Carries(m.toShip, k) BY <1>1, CarriesIs
<1>6. Keyed(m)
  <2>1. CASE l.cut BY <1>3, <2>1 DEF LinkOK, Keyed
  <2>2. CASE ~l.cut
    <3>1. \A i \in 1 .. Len(m.toLogin) : i \in 1 .. Len(l.toLogin) \/ m.toLogin[i] = x
      BY <1>4, <2>2
    <3>2. \A i \in 1 .. Len(m.toLogin) : m.toLogin[i].kind = "charts" => m.toLogin[i].key = "own"
      BY <1>2, <1>4, <2>2, <3>1 DEF LinkOK, Keyed
    <3> QED BY <3>2 DEF LinkOK, Keyed
  <2> QED BY <2>1, <2>2
<1>7. Quiet(m) => Heard(m, FALSE, o) BY <1>5 DEF Heard
<1>9. ASSUME Quiet(m) PROVE Steady(m, FALSE, o)
  <2>1. ~l.lostL /\ ~l.lostS /\ (Holds(l.in, "auth") => Len(l.in) = 1 /\ l.crypt = "public")
    BY <1>9 DEF LinkOK, Quiet, Steady
  <2>2. CASE l.cut BY <1>3, <1>9, <2>1, <2>2 DEF LinkOK, Quiet, Steady
  <2>3. CASE ~l.cut /\ ~l.open BY <2>1, <2>3 DEF Steady, Stage
  <2>4. CASE ~l.cut /\ l.open
    <3>1. Opening(l, n) \/ Talking(l, n) BY <1>9, <2>4 DEF LinkOK, Quiet, Steady, Stage, Ended
    <3>2. /\ Clear(l.toLogin, l.crypt, FALSE)
          /\ Carries(l.toLogin, "auth") => Len(l.toLogin) = 1 /\ l.in = <<>> /\ l.crypt = "public"
          /\ Holds(l.in, "auth") => Len(l.toLogin) = 0
      <4>1. CASE Talking(l, n) BY <4>1 DEF Talking
      <4>2. CASE l.toLogin = <<>>
        <5>1. Clear(<<>>, l.crypt, FALSE) /\ ~Carries(<<>>, "auth") BY <1>1, CarriesIs, ClearIs
        <5>2. Len(<<>>) = 0 BY EmptySeq
        <5> QED BY <4>2, <5>1, <5>2
      <4>3. CASE Opening(l, n) /\ l.toLogin # <<>>
        <5>1. l.toLogin = <<Packet("auth", "public")>> /\ l.in = <<>> /\ l.crypt = "public"
          BY <4>3 DEF Opening, Welcoming, Introducing, Accepting, OnlyOne, Nothing
        <5> DEFINE y == Packet("auth", "public")
        <5>2. y \in Packets /\ y.kind # "eof" /\ y.key = "public" BY PacketFacts
        <5> HIDE DEF y
        <5>3. l.toLogin = <<y>> BY <5>1 DEF y
        <5>4. Clear(<<>>, "public", FALSE) BY <1>1, ClearIs
        <5>5. Clear(Append(<<>>, y), "public", FALSE) BY <1>1, <5>2, <5>4, ClearIs
        <5>6. Append(<<>>, y) = <<y>> /\ Len(<<y>>) = 1 BY <5>2, Short
        <5>7. ~Holds(<<>>, "auth") BY <1>1, HoldsIs
        <5> QED BY <5>1, <5>3, <5>5, <5>6, <5>7
      <4> QED BY <3>1, <4>1, <4>2, <4>3
    <3>3. Clear(m.toLogin, l.crypt, TRUE) BY <1>1, <1>2, <1>3, <2>4, <3>2, ClearIs
    <3>4. Carries(m.toLogin, "auth") => Len(m.toLogin) = 2 /\ m.in = <<>> /\ m.crypt = "public"
      <4>1. SUFFICES ASSUME Carries(m.toLogin, "auth")
                     PROVE  Len(m.toLogin) = 2 /\ m.in = <<>> /\ m.crypt = "public"
        OBVIOUS
      <4>2. Carries(l.toLogin, "auth") BY <1>4, <2>4, <4>1
      <4>3. Len(l.toLogin) = 1 /\ l.in = <<>> /\ l.crypt = "public" BY <3>2, <4>2
      <4>4. Len(m.toLogin) = Len(l.toLogin) + 1 BY <1>4, <2>4
      <4> QED BY <4>3, <4>4
    <3>5. Holds(m.in, "auth") => Len(m.toLogin) = 1 BY <1>4, <2>4, <3>2
    <3>6. LeftBehind(m) BY <2>4, <3>3, <3>4, <3>5 DEF LeftBehind
    <3> QED BY <2>1, <2>4, <3>6 DEF Steady, Stage
  <2> QED BY <2>2, <2>3, <2>4
<1> QED BY <1>6, <1>7, <1>9 DEF LinkOK

LEMMA LinkCutOff ==
  ASSUME NEW l \in LinkRecs, NEW on \in BOOLEAN, NEW n, LinkOK(l, on, n),
         NEW m \in LinkRecs, m.open = l.open, m.ship = l.ship, m.cut, m.crypt = l.crypt,
         m.key = l.key, m.lostL = l.lostL, m.lostS = l.lostS, m.early = l.early, m.off = l.off, m.in = l.in,
         m.age = l.age, m.toLogin = <<>>, m.toShip = <<>>
  PROVE  LinkOK(m, on, n)
<1>1. <<>> \in Seq(Packets) /\ Len(m.toLogin) = 0 BY EmptySeq
<1>2. \A k : ~Carries(m.toLogin, k) /\ ~Carries(m.toShip, k) BY <1>1, CarriesIs
<1>3. Keyed(m) BY <1>1 DEF LinkOK, Keyed
<1>4. Quiet(m) => Heard(m, on, n) BY <1>2 DEF LinkOK, Heard, Quiet
<1>6. Quiet(m) => Steady(m, on, n) BY DEF LinkOK, Quiet, Steady
<1> QED BY <1>3, <1>4, <1>6 DEF LinkOK

LEMMA LinkAges ==
  ASSUME NEW l \in LinkRecs, NEW m \in LinkRecs, NEW on \in BOOLEAN, NEW n, NEW o,
         LinkOK(l, on, n), on => n \in Logons, m.open = l.open, m.ship = l.ship, m.cut = l.cut, m.crypt = l.crypt,
         m.key = l.key, m.lostL = l.lostL, m.lostS = l.lostS, m.early = l.early, m.off = l.off, m.in = l.in,
         m.toLogin = l.toLogin, m.toShip = l.toShip,
         l.open => l.in = <<>> /\ l.toLogin = <<>> /\ m.age = l.age + 1,
         on => n.in = <<>> /\ l.toShip = <<>> /\ o.in = n.in /\ o.crypt = n.crypt /\ o.age = n.age + 1 /\ (o.off => n.off)
  PROVE  LinkOK(m, on, o)
<1>1. <<>> \in Seq(Packets) /\ <<>> \in Seq(Kinds) /\ l.age \in Nat /\ (on => n.age \in Nat)
  BY EmptySeq DEF LinkRecs, Logons
<1>2. \A k : ~Carries(<<>>, k) /\ ~Holds(<<>>, k) BY <1>1, CarriesIs, HoldsIs
<1>3. Keyed(m) BY DEF LinkOK, Keyed
<1>4. Quiet(m) => Heard(m, on, o) BY DEF LinkOK, Heard, Quiet
<1>6. ASSUME Quiet(m) PROVE Steady(m, on, o)
  <2>1. CASE l.cut \/ ~on BY <1>6, <2>1 DEF LinkOK, Quiet, Steady, Stage, LeftBehind
  <2>2. CASE ~l.cut /\ on
    <3>1. ~Opening(l, n)
      <4>1. \A x : <<x>> # <<>> OBVIOUS
      <4>2. SUFFICES ASSUME l.open PROVE ~Opening(l, n) BY DEF Opening
      <4> QED BY <2>2, <4>1, <4>2 DEF Opening, Welcoming, Introducing, Accepting, OnlyOne
    <3>2. CASE Talking(l, n)
      <4>1. Talking(m, o) BY <2>2, <3>2 DEF Talking
      <4> QED BY <1>6, <2>2, <4>1 DEF LinkOK, Quiet, Steady, Stage
    <3>3. CASE Ended(l, n)
      <4>1. Ended(m, o) BY <2>2, <3>3 DEF Ended
      <4> QED BY <1>6, <2>2, <4>1 DEF LinkOK, Quiet, Steady, Stage
    <3> QED BY <1>6, <2>2, <3>1, <3>2, <3>3 DEF LinkOK, Quiet, Steady, Stage
  <2> QED BY <2>1, <2>2
<1> QED BY <1>3, <1>4, <1>6 DEF LinkOK

\* A ship with a record that is off may do whatever it likes with its end.
LEMMA LinkAstray ==
  ASSUME NEW l \in LinkRecs, NEW m \in LinkRecs, NEW n, NEW o, LinkOK(l, TRUE, n), n.off,
         m.open = l.open, m.ship = l.ship, m.crypt = l.crypt, m.key = l.key, m.in = l.in, m.off = l.off,
         \A i \in 1 .. Len(m.toLogin) : m.toLogin[i].kind = "charts" => m.toLogin[i].key = "own"
  PROVE  LinkOK(m, TRUE, o)
BY DEF LinkOK, Keyed, Quiet

LEMMA LinkFree ==
  ASSUME NEW n
  PROVE  NoLink \in LinkRecs /\ LinkOK(NoLink, FALSE, n)
<1>1. <<>> \in Seq(Packets) /\ <<>> \in Seq(Kinds) /\ Len(<<>>) = 0 BY EmptySeq
<1>2. \A k : ~Carries(<<>>, k) /\ ~Holds(<<>>, k) BY <1>1, CarriesIs, HoldsIs
<1>3. NoLink \in LinkRecs BY <1>1 DEF NoLink, LinkRecs, Crypts
<1>4. /\ NoLink.toLogin = <<>> /\ NoLink.toShip = <<>> /\ NoLink.in = <<>> /\ ~NoLink.open
      /\ ~NoLink.lostL /\ ~NoLink.lostS /\ ~NoLink.cut
  BY DEF NoLink
<1>5. Keyed(NoLink) BY <1>1, <1>4 DEF Keyed
<1>6. Heard(NoLink, FALSE, n) BY <1>2, <1>4 DEF Heard
<1>8. Steady(NoLink, FALSE, n) BY <1>2, <1>4 DEF Steady, Stage
<1> QED BY <1>3, <1>5, <1>6, <1>8 DEF LinkOK

LEMMA LinkOff ==
  ASSUME NEW l, NEW n, NEW o, LinkOK(l, FALSE, n)
  PROVE  LinkOK(l, FALSE, o)
BY DEF LinkOK, Heard, Quiet, Steady, Stage

LEMMA LinkOpens ==
  ASSUME NEW m \in LinkRecs, NEW n \in Logons, m.open, m.crypt = "public", ~m.authed, ~m.cut,
         m.age = 0, m.since = 0, m.in = <<>>, m.toLogin = <<>>, ~m.lostL, ~m.lostS,
         m.toShip = <<Packet("welcome", "plain")>>, n.crypt = "plain", n.in = <<>>, n.age = 0,
         n.off => m.off
  PROVE  LinkOK(m, TRUE, n)
<1>1. <<>> \in Seq(Packets) /\ <<>> \in Seq(Kinds) /\ Len(<<>>) = 0 BY EmptySeq
<1>2. \A k : ~Carries(<<>>, k) /\ ~Holds(<<>>, k) BY <1>1, CarriesIs, HoldsIs
<1> DEFINE x == Packet("welcome", "plain")
<1>3. x \in Packets /\ x.kind = "welcome" /\ m.toShip = <<x>> BY PacketFacts
<1> HIDE DEF x
<1>4. \A k : Carries(<<x>>, k) <=> x.kind = k BY <1>3, Short, ZenonT(60)
<1>5. Keyed(m) BY <1>1, <1>2 DEF Keyed
<1>6. Quiet(m) => Heard(m, TRUE, n) BY <1>2, <1>3, <1>4 DEF Heard, Refusals
<1>8. Steady(m, TRUE, n)
  <2>1. Welcoming(m, n) BY DEF Welcoming, OnlyOne, Nothing, x
  <2>2. Opening(m, n) BY <2>1 DEF Opening
  <2> QED BY <1>2, <2>2 DEF Steady, Stage
<1> QED BY <1>5, <1>6, <1>8 DEF LinkOK

----------------------------------------------------------------------------
(* One step moves one link                                                 *)

LEMMA OnIs ==
  ASSUME Types, Sites
  PROVE  /\ \A w \in Links : On(w) \in BOOLEAN
         /\ \A w \in Links : links[w] \in LinkRecs /\ (links[w].ship # None => Logon(w) \in Logons /\ links[w].ship \in Ships)
         /\ \A h \in Ships : /\ node[h] \in NodeRecs /\ node[h].logon \in Logons
                             /\ Online(h) <=> node[h].logon.link # None
                             /\ Online(h) => LET w == node[h].logon.link IN
                                  w \in Links /\ links[w].ship = h /\ On(w) /\ Logon(w) = node[h].logon
         /\ \A w \in Links : links[w].open => links[w].ship # None
         /\ None \notin Links /\ None \notin Ships
<1>1. \A w \in Links : On(w) \in BOOLEAN BY DEF On
<1>2. \A w \in Links : links[w] \in LinkRecs /\ (links[w].ship # None => Logon(w) \in Logons /\ links[w].ship \in Ships)
  <2>1. TAKE w \in Links
  <2>2. links[w] \in LinkRecs BY DEF Types
  <2>3. links[w].ship \in Ships \cup {None} BY <2>2 DEF LinkRecs
  <2>4. links[w].ship \in Ships => node[links[w].ship] \in NodeRecs BY DEF Types
  <2>5. links[w].ship \in Ships => Logon(w) \in Logons BY <2>4 DEF Logon, NodeRecs
  <2> QED BY <2>2, <2>3, <2>5
<1>3. None \notin Links /\ None \notin Ships BY ShipLinkAssumption
<1>4. ASSUME NEW h \in Ships
      PROVE  /\ node[h] \in NodeRecs /\ node[h].logon \in Logons
             /\ Online(h) <=> node[h].logon.link # None
             /\ Online(h) => LET w == node[h].logon.link IN
                  w \in Links /\ links[w].ship = h /\ On(w) /\ Logon(w) = node[h].logon
  <2>1. node[h] \in NodeRecs BY DEF Types
  <2>2. node[h].logon \in Logons BY <2>1 DEF NodeRecs
  <2>3. node[h].logon.link \in Links \cup {None} BY <2>2 DEF Logons
  <2> QED BY <1>3, <2>1, <2>2, <2>3 DEF Online, Sites, On, Logon
<1> QED BY <1>1, <1>2, <1>3, <1>4 DEF Sites

LEMMA LoginMoves ==
  ASSUME LinksInv, NEW w \in Links, NEW m \in LinkRecs, m.ship = links[w].ship,
         m.open => links[w].open, node' = node,
         links' = [links EXCEPT ![w] = Settled(m, node, w)], LinkOK(m, On(w), Logon(w))
  PROVE  LinksInv'
<1>1. /\ Types /\ Sites /\ \A v \in Links : LinkOK(links[v], On(v), Logon(v))
      /\ links \in [Links -> LinkRecs] /\ None \notin Links /\ None \notin Ships
  BY ShipLinkAssumption DEF LinksInv, Types
<1>2. NoLink \in LinkRecs /\ NoLink.ship = None /\ ~NoLink.open /\ \A n : LinkOK(NoLink, FALSE, n)
  BY LinkFree DEF NoLink
<1>3. /\ links' \in [Links -> LinkRecs] /\ \A v \in Links \ {w} : links'[v] = links[v]
      /\ links'[w] = m \/ (links'[w] = NoLink /\ \A h \in Ships : node[h].logon.link # w)
  <2> DEFINE k == Settled(m, node, w)
  <2>1. (k = m \/ (k = NoLink /\ \A h \in Ships : node[h].logon.link # w)) /\ k \in LinkRecs
    BY <1>2 DEF Settled
  <2>2. links' = [links EXCEPT ![w] = k] OBVIOUS
  <2> HIDE DEF k
  <2>3. links'[w] = k /\ links' \in [Links -> LinkRecs] /\ \A v \in Links \ {w} : links'[v] = links[v]
    BY <1>1, <2>1, <2>2
  <2> QED BY <2>1, <2>3
<1>4. Types' BY <1>1, <1>3 DEF Types
<1>5. Sites'
  <2>1. ASSUME NEW h \in Ships, node[h].logon.link # None
        PROVE  links'[node[h].logon.link].ship = h /\ node[h].run = "up"
    <3>1. node[h].logon.link \in Links BY <1>1, <2>1 DEF Types, NodeRecs, Logons
    <3> QED BY <1>1, <1>3, <2>1, <3>1 DEF Sites
  <2>2. \A v \in Links : links'[v].open => links'[v].ship # None BY <1>1, <1>2, <1>3 DEF Sites
  <2> QED BY <2>1, <2>2 DEF Sites
<1>6. ASSUME NEW v \in Links PROVE LinkOK(links'[v], On(v)', Logon(v)')
  <2>1. CASE v # w
    <3>1. links'[v] = links[v] /\ On(v)' = On(v) /\ Logon(v)' = Logon(v) BY <1>3, <2>1 DEF On, Logon
    <3> QED BY <1>1, <3>1
  <2>2. CASE v = w /\ links'[w] = m
    <3>1. On(v)' = On(w) /\ Logon(v)' = Logon(w) BY <2>2 DEF On, Logon
    <3> QED BY <2>2, <3>1
  <2>3. CASE v = w /\ links'[w] = NoLink
    <3>1. On(v)' = FALSE BY <1>2, <2>3 DEF On
    <3> QED BY <1>2, <2>3, <3>1
  <2> QED BY <1>3, <2>1, <2>2, <2>3
<1> QED BY <1>4, <1>5, <1>6 DEF LinksInv

LEMMA ShipMoves ==
  ASSUME LinksInv, NEW h \in Ships, Online(h), NEW w, w = node[h].logon.link,
         NEW m \in LinkRecs, NEW o \in Logons, o.link = w, m.ship = links[w].ship, m.open = links[w].open,
         node' = [node EXCEPT ![h].logon = o], links' = [links EXCEPT ![w] = m],
         LinkOK(m, TRUE, o)
  PROVE  LinksInv'
<1>1. /\ Types /\ Sites /\ \A v \in Links : LinkOK(links[v], On(v), Logon(v))
      /\ links \in [Links -> LinkRecs] /\ node \in [Ships -> NodeRecs]
  BY DEF LinksInv, Types
<1>2. /\ w \in Links /\ w # None /\ links[w].ship = h /\ h # None /\ node[h] \in NodeRecs
      /\ \A v \in Links : On(v) \in BOOLEAN
  BY <1>1, OnIs
<1>3. /\ links' \in [Links -> LinkRecs] /\ \A v \in Links \ {w} : links'[v] = links[v]
      /\ links'[w] = m
  BY <1>1, <1>2
<1>4. [node[h] EXCEPT !.logon = o] \in NodeRecs BY <1>2 DEF NodeRecs
<1>5. /\ node' \in [Ships -> NodeRecs] /\ \A g \in Ships \ {h} : node'[g] = node[g]
      /\ node'[h] = [node[h] EXCEPT !.logon = o] /\ node'[h].logon = o /\ node'[h].run = node[h].run
  <2>1. node' = [node EXCEPT ![h] = [node[h] EXCEPT !.logon = o]] OBVIOUS
  <2>2. node'[h] = [node[h] EXCEPT !.logon = o] BY <1>1, <2>1
  <2>3. node'[h].logon = o /\ node'[h].run = node[h].run BY <1>2, <2>2 DEF NodeRecs
  <2> QED BY <1>1, <1>4, <2>1, <2>2, <2>3
<1>6. Types' BY <1>3, <1>5 DEF Types
<1>7. Sites'
  <2>1. ASSUME NEW g \in Ships, node'[g].logon.link # None
        PROVE  links'[node'[g].logon.link].ship = g /\ node'[g].run = "up"
    <3>1. node'[g].logon.link \in Links BY <1>5, <2>1 DEF NodeRecs, Logons
    <3>2. CASE g = h BY <1>1, <1>2, <1>3, <1>5, <3>2 DEF Sites
    <3>3. CASE g # h
      <4>1. node'[g] = node[g] /\ links[node[g].logon.link].ship = g /\ node[g].run = "up"
        BY <1>1, <1>5, <2>1, <3>3 DEF Sites
      <4>2. node[g].logon.link # w BY <1>2, <3>3, <4>1
      <4> QED BY <1>3, <3>1, <4>1, <4>2
    <3> QED BY <3>2, <3>3
  <2>2. \A v \in Links : links'[v].open => links'[v].ship # None BY <1>1, <1>2, <1>3 DEF Sites
  <2> QED BY <2>1, <2>2 DEF Sites
<1>8. ASSUME NEW v \in Links PROVE LinkOK(links'[v], On(v)', Logon(v)')
  <2>1. CASE v = w
    <3>1. On(v)' = TRUE /\ Logon(v)' = o BY <1>2, <1>3, <1>5, <2>1 DEF On, Logon
    <3> QED BY <1>3, <2>1, <3>1
  <2>2. CASE v # w /\ links[v].ship = h
    <3>1. ~On(v) /\ ~On(v)' BY <1>3, <1>5, <2>2 DEF On
    <3>2. LinkOK(links[v], FALSE, Logon(v)) BY <1>1, <1>2, <3>1
    <3>3. LinkOK(links[v], FALSE, Logon(v)') BY <3>2, LinkOff
    <3>4. links'[v] = links[v] /\ On(v)' = FALSE BY <1>3, <2>2, <3>1 DEF On
    <3> QED BY <3>3, <3>4
  <2>3. CASE v # w /\ links[v].ship # h
    <3>1. links[v].ship \in Ships \cup {None} BY <1>1 DEF LinkRecs
    <3>2. links'[v] = links[v] BY <1>3, <2>3
    <3>3. CASE links[v].ship \in Ships
      <4>1. On(v)' = On(v) /\ Logon(v)' = Logon(v) BY <1>5, <2>3, <3>2, <3>3 DEF On, Logon
      <4> QED BY <1>1, <3>2, <4>1
    <3>4. CASE links[v].ship = None
      <4>1. On(v)' = FALSE /\ On(v) = FALSE BY <3>2, <3>4 DEF On
      <4>2. LinkOK(links[v], FALSE, Logon(v)) BY <1>1, <4>1
      <4>3. LinkOK(links[v], FALSE, Logon(v)') BY <4>2, LinkOff
      <4> QED BY <3>2, <4>1, <4>3
    <3> QED BY <3>1, <3>3, <3>4
  <2> QED BY <2>1, <2>2, <2>3
<1> QED BY <1>6, <1>7, <1>8 DEF LinksInv

LEMMA ShipLeaves ==
  ASSUME LinksInv, NEW h \in Ships, Online(h), NEW w, w = node[h].logon.link,
         NEW r \in NodeRecs, r.logon.link = None, node' = [node EXCEPT ![h] = r],
         links' = [links EXCEPT ![w] = Settled(CloseS(links[w]), node', w)]
  PROVE  /\ LinksInv'
         /\ \A v \in Links : /\ ~links[v].open => ~links'[v].open
                             /\ links[v].open =>
                                  /\ links'[v].open /\ links'[v].ship = links[v].ship /\ links'[v].age = links[v].age
                                  /\ links'[v].crypt = links[v].crypt /\ links'[v].key = links[v].key
                                  /\ On(v)' <=> On(v) /\ v # w
                             /\ links'[v] # NoLink => /\ links'[v].ship = links[v].ship
                                                      /\ links'[v].early = links[v].early
                                                      /\ links'[v].toShip = links[v].toShip \/ links'[v].toShip = <<>>
                             /\ On(v)' => v # w /\ links'[v] = links[v] /\ On(v) /\ Logon(v)' = Logon(v)
<1>1. /\ Types /\ Sites /\ \A v \in Links : LinkOK(links[v], On(v), Logon(v))
      /\ links \in [Links -> LinkRecs] /\ node \in [Ships -> NodeRecs]
  BY DEF LinksInv, Types
<1>2. /\ w \in Links /\ w # None /\ links[w].ship = h /\ h # None /\ node[h] \in NodeRecs
      /\ \A v \in Links : On(v) \in BOOLEAN
      /\ On(w) /\ Logon(w) = node[h].logon /\ node[h].logon \in Logons /\ None \notin Links
  BY <1>1, OnIs
<1> DEFINE l == links[w]
           m == CloseS(links[w])
<1>3. /\ l \in LinkRecs /\ m \in LinkRecs
      /\ m.open = l.open /\ m.ship = l.ship /\ m.cut = l.cut /\ m.crypt = l.crypt /\ m.age = l.age
      /\ m.key = l.key /\ m.lostL = l.lostL /\ m.lostS = l.lostS /\ m.early = l.early /\ m.off = l.off /\ m.in = l.in
      /\ m.toShip = <<>>
      /\ m.toLogin = IF l.cut THEN l.toLogin ELSE Append(l.toLogin, Packet("eof", l.crypt))
  <2>1. l \in LinkRecs /\ l.toLogin \in Seq(Packets) /\ l.crypt \in Crypts /\ <<>> \in Seq(Packets)
    BY <1>1, <1>2, EmptySeq DEF LinkRecs
  <2>2. Append(l.toLogin, Packet("eof", l.crypt)) \in Seq(Packets) BY <2>1, PacketFacts, AddsOne
  <2> DEFINE q == IF l.cut THEN l.toLogin ELSE Append(l.toLogin, Packet("eof", l.crypt))
  <2>3. m = [l EXCEPT !.toLogin = q, !.toShip = <<>>] BY <2>1 DEF CloseS, PutL, LinkRecs
  <2>4. q \in Seq(Packets) BY <2>1, <2>2
  <2> HIDE DEF q, m
  <2>5. /\ m \in LinkRecs
        /\ m.open = l.open /\ m.ship = l.ship /\ m.cut = l.cut /\ m.crypt = l.crypt /\ m.age = l.age
        /\ m.key = l.key /\ m.lostL = l.lostL /\ m.lostS = l.lostS /\ m.early = l.early /\ m.off = l.off /\ m.in = l.in
        /\ m.toShip = <<>> /\ m.toLogin = q
    BY <2>1, <2>3, <2>4 DEF LinkRecs
  <2> QED BY <2>1, <2>5 DEF q
<1>4. \A o : LinkOK(m, FALSE, o)
  <2>1. LinkOK(l, TRUE, node[h].logon) BY <1>1, <1>2
  <2> HIDE DEF m
  <2> QED BY <1>2, <1>3, <2>1, LinkLeft
<1> HIDE DEF m, l
<1>5. NoLink \in LinkRecs /\ NoLink.ship = None /\ ~NoLink.open /\ \A n : LinkOK(NoLink, FALSE, n)
  BY LinkFree DEF NoLink
<1>6. /\ links' \in [Links -> LinkRecs] /\ \A v \in Links \ {w} : links'[v] = links[v]
      /\ links'[w] = m \/ (links'[w] = NoLink /\ ~l.open)
  <2>1. Settled(m, node', w) = m \/ (Settled(m, node', w) = NoLink /\ ~l.open) BY <1>3 DEF Settled
  <2>2. links' = [links EXCEPT ![w] = Settled(m, node', w)] BY DEF m
  <2> QED BY <1>1, <1>2, <1>3, <1>5, <2>1, <2>2
<1>7. /\ node' \in [Ships -> NodeRecs] /\ \A g \in Ships \ {h} : node'[g] = node[g] /\ node'[h] = r
  BY <1>1
<1>8. Types' BY <1>6, <1>7 DEF Types
<1>9. Sites'
  <2>1. ASSUME NEW g \in Ships, node'[g].logon.link # None
        PROVE  links'[node'[g].logon.link].ship = g /\ node'[g].run = "up"
    <3>1. node'[g].logon.link \in Links BY <1>7, <2>1 DEF NodeRecs, Logons
    <3>2. g # h /\ node'[g] = node[g] BY <1>7, <2>1
    <3>3. links[node[g].logon.link].ship = g /\ node[g].run = "up" BY <1>1, <2>1, <3>2 DEF Sites
    <3>4. node[g].logon.link # w BY <1>2, <3>2, <3>3
    <3> QED BY <1>6, <3>1, <3>2, <3>3, <3>4
  <2>2. \A v \in Links : links'[v].open => links'[v].ship # None
    <3>1. \A v \in Links : links[v].open => links[v].ship # None BY <1>1 DEF Sites
    <3>2. m.open = links[w].open /\ m.ship = links[w].ship BY <1>3 DEF l
    <3> SUFFICES ASSUME NEW v \in Links, links'[v].open PROVE links'[v].ship # None OBVIOUS
    <3>3. CASE v = w /\ links'[w] = m BY <3>1, <3>2, <3>3
    <3>4. CASE v = w /\ links'[w] = NoLink BY <1>5, <3>4
    <3>5. CASE v # w BY <1>6, <3>1, <3>5
    <3> QED BY <1>6, <3>3, <3>4, <3>5
  <2> QED BY <2>1, <2>2 DEF Sites
<1>10. ASSUME NEW v \in Links
       PROVE  /\ LinkOK(links'[v], On(v)', Logon(v)')
              /\ On(v)' <=> On(v) /\ v # w
              /\ On(v)' => Logon(v)' = Logon(v)
  <2>1. CASE v = w
    <3>1. node'[h].logon.link # w BY <1>2, <1>7
    <3>2. On(v)' = FALSE
      <4>1. links'[w] = m \/ links'[w] = NoLink BY <1>6
      <4>2. m.ship = h BY <1>2, <1>3 DEF l
      <4>3. CASE links'[w] = m BY <2>1, <3>1, <4>2, <4>3 DEF On
      <4>4. CASE links'[w] = NoLink BY <1>5, <2>1, <4>4 DEF On
      <4> QED BY <4>1, <4>3, <4>4
    <3>3. LinkOK(links'[v], FALSE, Logon(v)')
      <4>1. LinkOK(m, FALSE, Logon(v)') /\ LinkOK(NoLink, FALSE, Logon(v)') BY <1>4, <1>5
      <4> QED BY <1>6, <2>1, <4>1
    <3> QED BY <2>1, <3>2, <3>3
  <2>2. CASE v # w /\ links[v].ship = h
    <3>1. ~On(v) /\ ~On(v)' BY <1>2, <1>6, <1>7, <2>2 DEF On
    <3>2. LinkOK(links[v], FALSE, Logon(v)) BY <1>1, <1>2, <3>1
    <3>3. LinkOK(links[v], FALSE, Logon(v)') BY <3>2, LinkOff
    <3>4. links'[v] = links[v] /\ On(v)' = FALSE BY <1>6, <2>2, <3>1 DEF On
    <3> QED BY <3>1, <3>3, <3>4
  <2>3. CASE v # w /\ links[v].ship # h
    <3>1. links[v].ship \in Ships \cup {None} BY <1>1 DEF LinkRecs
    <3>2. links'[v] = links[v] BY <1>6, <2>3
    <3>3. CASE links[v].ship \in Ships
      <4>1. On(v)' = On(v) /\ Logon(v)' = Logon(v) BY <1>7, <2>3, <3>2, <3>3 DEF On, Logon
      <4> QED BY <1>1, <2>3, <3>2, <4>1
    <3>4. CASE links[v].ship = None
      <4>1. On(v)' = FALSE /\ On(v) = FALSE BY <3>2, <3>4 DEF On
      <4>2. LinkOK(links[v], FALSE, Logon(v)) BY <1>1, <4>1
      <4>3. LinkOK(links[v], FALSE, Logon(v)') BY <4>2, LinkOff
      <4> QED BY <3>2, <4>1, <4>3
    <3> QED BY <3>1, <3>3, <3>4
  <2> QED BY <2>1, <2>2, <2>3
<1>11. LinksInv' BY <1>8, <1>9, <1>10 DEF LinksInv
<1>12. ASSUME NEW v \in Links
       PROVE  /\ ~links[v].open => ~links'[v].open
              /\ links[v].open =>
                   /\ links'[v].open /\ links'[v].ship = links[v].ship /\ links'[v].age = links[v].age
                   /\ links'[v].crypt = links[v].crypt /\ links'[v].key = links[v].key
              /\ links'[v] # NoLink => /\ links'[v].ship = links[v].ship
                                       /\ links'[v].early = links[v].early
                                       /\ links'[v].toShip = links[v].toShip \/ links'[v].toShip = <<>>
              /\ v # w => links'[v] = links[v]
  BY <1>3, <1>5, <1>6 DEF l
<1> QED BY <1>10, <1>11, <1>12

LEMMA ShipJoins ==
  ASSUME LinksInv, NEW h \in Ships, reconnect_logon(h)
  PROVE  /\ LinksInv' /\ inuse' = inuse
         /\ \E w \in Links : links[w] = NoLink /\ \A v \in Links \ {w} : links'[v] = links[v]
<1>1. /\ Types /\ Sites /\ \A v \in Links : LinkOK(links[v], On(v), Logon(v))
      /\ links \in [Links -> LinkRecs] /\ node \in [Ships -> NodeRecs]
      /\ None \notin Links /\ None \notin Ships /\ node[h] \in NodeRecs
  BY OnIs DEF LinksInv, Types
<1> DEFINE f == node[h].logon.off
           o(w) == [NoLogon EXCEPT !.link = w, !.age = Fresh, !.off = f]
           m == [PutS([NoLink EXCEPT !.ship = h, !.open = TRUE, !.off = f], "welcome") EXCEPT !.crypt = "public"]
<1>2. PICK w \in Links :
        /\ node[h].run = "up" /\ node[h].logon.link = None
        /\ links[w] = NoLink
        /\ node' = [node EXCEPT ![h].logon = o(w)] /\ links' = [links EXCEPT ![w] = m]
        /\ UNCHANGED <<inuse, faults>>
  BY DEF reconnect_logon
<1>0. f \in BOOLEAN BY <1>1 DEF NodeRecs, Logons
<1> HIDE DEF f
<1>3. /\ o(w) \in Logons /\ o(w).link = w /\ o(w).crypt = "plain" /\ o(w).in = <<>> /\ o(w).age = 0
      /\ o(w).off = f
  <2>1. <<>> \in Seq(Kinds) BY EmptySeq
  <2> QED BY <1>0, <2>1 DEF NoLogon, Fresh, Logons, Crypts
<1> DEFINE x == Packet("welcome", "plain")
<1>4. /\ m \in LinkRecs /\ m.ship = h /\ m.open /\ m.crypt = "public" /\ ~m.authed /\ ~m.cut
      /\ m.age = 0 /\ m.since = 0 /\ m.in = <<>> /\ m.toLogin = <<>> /\ ~m.lostL /\ ~m.lostS
      /\ m.toShip = <<x>> /\ m.off = f
  <2>1. x \in Packets /\ <<>> \in Seq(Packets) /\ <<>> \in Seq(Kinds) BY EmptySeq, PacketFacts
  <2>2. Append(<<>>, x) = <<x>> BY <2>1, Short
  <2>3. m = [NoLink EXCEPT !.ship = h, !.open = TRUE, !.off = f, !.toShip = <<x>>, !.crypt = "public"]
    BY <2>2 DEF NoLink, PutS
  <2>4. <<x>> \in Seq(Packets) BY <2>1
  <2> HIDE DEF x, m
  <2> QED BY <1>0, <2>1, <2>3, <2>4 DEF NoLink, LinkRecs, Crypts
<1>5. LinkOK(m, TRUE, o(w))
  <2> HIDE DEF m, o
  <2> QED BY <1>3, <1>4, LinkOpens DEF x
<1> HIDE DEF m, o
<1>6. /\ links' \in [Links -> LinkRecs] /\ \A v \in Links \ {w} : links'[v] = links[v]
      /\ links'[w] = m
  BY <1>1, <1>2, <1>4
<1>7. /\ node' \in [Ships -> NodeRecs] /\ \A g \in Ships \ {h} : node'[g] = node[g]
      /\ node'[h].logon = o(w) /\ node'[h].run = node[h].run
  <2>1. node' = [node EXCEPT ![h] = [node[h] EXCEPT !.logon = o(w)]] BY <1>2
  <2>2. [node[h] EXCEPT !.logon = o(w)] \in NodeRecs BY <1>1, <1>3 DEF NodeRecs
  <2>3. node'[h] = [node[h] EXCEPT !.logon = o(w)] BY <1>1, <2>1
  <2>4. node'[h].logon = o(w) /\ node'[h].run = node[h].run BY <1>1, <2>3 DEF NodeRecs
  <2> QED BY <1>1, <2>1, <2>2, <2>4
<1>8. Types' BY <1>6, <1>7 DEF Types
<1>9. links[w].ship = None BY <1>2 DEF NoLink
<1>10. Sites'
  <2>1. ASSUME NEW g \in Ships, node'[g].logon.link # None
        PROVE  links'[node'[g].logon.link].ship = g /\ node'[g].run = "up"
    <3>1. node'[g].logon.link \in Links BY <1>7, <2>1 DEF NodeRecs, Logons
    <3>2. CASE g = h BY <1>2, <1>3, <1>4, <1>6, <1>7, <3>2
    <3>3. CASE g # h
      <4>1. node'[g] = node[g] /\ links[node[g].logon.link].ship = g /\ node[g].run = "up"
        BY <1>1, <1>7, <2>1, <3>3 DEF Sites
      <4>2. node[g].logon.link # w BY <1>1, <1>9, <4>1
      <4> QED BY <1>6, <3>1, <4>1, <4>2
    <3> QED BY <3>2, <3>3
  <2>2. \A v \in Links : links'[v].open => links'[v].ship # None BY <1>1, <1>4, <1>6 DEF Sites
  <2> QED BY <2>1, <2>2 DEF Sites
<1>11. ASSUME NEW v \in Links
       PROVE  /\ LinkOK(links'[v], On(v)', Logon(v)')
              /\ v = w => On(v)'
              /\ v # w => On(v)' = On(v)
  <2>1. CASE v = w
    <3>1. On(v)' = TRUE /\ Logon(v)' = o(w) BY <1>1, <1>3, <1>4, <1>6, <1>7, <2>1 DEF On, Logon
    <3> QED BY <1>5, <1>6, <2>1, <3>1
  <2>2. CASE v # w /\ links[v].ship = h
    <3>1. On(v) = FALSE /\ On(v)' = FALSE BY <1>1, <1>2, <1>3, <1>6, <1>7, <2>2 DEF On
    <3>2. LinkOK(links[v], FALSE, Logon(v)) BY <1>1, <3>1
    <3>3. LinkOK(links[v], FALSE, Logon(v)') BY <3>2, LinkOff
    <3> QED BY <1>6, <2>2, <3>1, <3>3
  <2>3. CASE v # w /\ links[v].ship # h
    <3>1. links[v].ship \in Ships \cup {None} BY <1>1 DEF LinkRecs
    <3>2. links'[v] = links[v] BY <1>6, <2>3
    <3>3. CASE links[v].ship \in Ships
      <4>1. On(v)' = On(v) /\ Logon(v)' = Logon(v) BY <1>7, <2>3, <3>2, <3>3 DEF On, Logon
      <4> QED BY <1>1, <2>3, <3>2, <4>1
    <3>4. CASE links[v].ship = None
      <4>1. On(v)' = FALSE /\ On(v) = FALSE BY <3>2, <3>4 DEF On
      <4>2. LinkOK(links[v], FALSE, Logon(v)) BY <1>1, <4>1
      <4>3. LinkOK(links[v], FALSE, Logon(v)') BY <4>2, LinkOff
      <4> QED BY <2>3, <3>2, <4>1, <4>3
    <3> QED BY <3>1, <3>3, <3>4
  <2> QED BY <2>1, <2>2, <2>3
<1>12. LinksInv' BY <1>8, <1>10, <1>11 DEF LinksInv
<1> QED BY <1>2, <1>6, <1>12

\* A key that is taken stays that of a connected ship.
KeysKept == KeysTaken => KeysTaken'

\* What every step does.
StaysSound == LinksInv' /\ KeysKept

LEMMA KeysHeld ==
  ASSUME \A k \in inuse' : \/ k \in inuse
                           \/ \E v \in Links : links'[v].open /\ links'[v].crypt = "own" /\ links'[v].key = k,
         \A v \in Links : links[v].open /\ links[v].crypt = "own" /\ links[v].key \in inuse'
           => links'[v].open /\ links'[v].crypt = "own" /\ links'[v].key = links[v].key
  PROVE  KeysKept
BY DEF KeysKept, KeysTaken, HasHolder

LEMMA LoginGoesOn ==
  ASSUME LinksInv, NEW w \in Links, NEW m \in LinkRecs, links[w].open, m.open, m.ship = links[w].ship,
         (m.key = links[w].key /\ m.crypt = links[w].crypt) \/ links[w].crypt # "own",
         LinkOK(m, On(w), Logon(w)), links' = [links EXCEPT ![w] = Settled(m, node, w)],
         node' = node,
         \A k \in inuse' : k \in inuse \/ (m.crypt = "own" /\ k = m.key)
  PROVE  StaysSound
<1>1. LinksInv' BY LoginMoves
<1>2. links'[w] = m /\ \A v \in Links \ {w} : links'[v] = links[v]
  <2>1. Settled(m, node, w) = m BY DEF Settled
  <2>2. links \in [Links -> LinkRecs] BY DEF LinksInv, Types
  <2> QED BY <2>1, <2>2
<1>3. KeysKept
  <2>1. \A v \in Links : links[v].open /\ links[v].crypt = "own" /\ links[v].key \in inuse'
           => links'[v].open /\ links'[v].crypt = "own" /\ links'[v].key = links[v].key
    BY <1>2
  <2> QED BY <1>2, <2>1, KeysHeld
<1> QED BY <1>1, <1>3 DEF StaysSound

LEMMA LoginLetsGo ==
  ASSUME LinksInv, NEW w \in Links, NEW m \in LinkRecs, links[w].open, ~m.open, m.ship = links[w].ship,
         LinkOK(m, On(w), Logon(w)),
         links' = [links EXCEPT ![w] = Settled(m, node, w)], node' = node,
         NEW k, inuse' = inuse \ {k}, links[w].crypt = "own" => links[w].key = k
  PROVE  StaysSound
<1>1. LinksInv' BY LoginMoves
<1>2. (links'[w] = m \/ links'[w] = NoLink) /\ \A v \in Links \ {w} : links'[v] = links[v]
  <2> DEFINE s == Settled(m, node, w)
  <2>1. s = m \/ s = NoLink BY DEF Settled
  <2>2. links \in [Links -> LinkRecs] /\ links' = [links EXCEPT ![w] = s] BY DEF LinksInv, Types
  <2> HIDE DEF s
  <2>3. links'[w] = s /\ \A v \in Links \ {w} : links'[v] = links[v] BY <2>2
  <2> QED BY <2>1, <2>3
<1>3. KeysKept
  <2>1. \A v \in Links : links[v].open /\ links[v].crypt = "own" /\ links[v].key \in inuse' => v # w
    OBVIOUS
  <2>2. \A v \in Links : links[v].open /\ links[v].crypt = "own" /\ links[v].key \in inuse'
           => links'[v].open /\ links'[v].crypt = "own" /\ links'[v].key = links[v].key
    BY <1>2, <2>1
  <2>3. \A j \in inuse' : j \in inuse OBVIOUS
  <2> QED BY <2>2, <2>3, KeysHeld
<1> QED BY <1>1, <1>3 DEF StaysSound

LEMMA ShipGoesOn ==
  ASSUME LinksInv, NEW h \in Ships, Online(h), NEW w, w = node[h].logon.link,
         NEW m \in LinkRecs, NEW o \in Logons, o.link = w, m.ship = links[w].ship, m.open = links[w].open,
         m.key = links[w].key, m.crypt = links[w].crypt,
         node' = [node EXCEPT ![h].logon = o], links' = [links EXCEPT ![w] = m],
         LinkOK(m, TRUE, o), inuse' = inuse
  PROVE  StaysSound
<1>1. LinksInv' BY ShipMoves
<1>2. links \in [Links -> LinkRecs] /\ w \in Links
  <2>1. Types /\ Sites BY DEF LinksInv
  <2> QED BY <2>1, OnIs DEF Types
<1>3. links'[w] = m /\ \A v \in Links \ {w} : links'[v] = links[v] BY <1>2
<1>4. KeysKept
  <2>1. \A v \in Links : links[v].open /\ links[v].crypt = "own" /\ links[v].key \in inuse'
           => links'[v].open /\ links'[v].crypt = "own" /\ links'[v].key = links[v].key
    BY <1>3
  <2> QED BY <2>1, KeysHeld
<1> QED BY <1>1, <1>4 DEF StaysSound

LEMMA ShipGoesOff ==
  ASSUME LinksInv, NEW h \in Ships, Online(h), NEW r \in NodeRecs, r.logon.link = None, Leave(h, r)
  PROVE  StaysSound
<1>1. /\ LinksInv'
      /\ \A v \in Links : links[v].open => /\ links'[v].open /\ links'[v].crypt = links[v].crypt
                                            /\ links'[v].key = links[v].key
  <2> DEFINE w == node[h].logon.link
             m == [node EXCEPT ![h] = r]
  <2>1. node' = m /\ links' = [links EXCEPT ![w] = Settled(CloseS(@), m, w)] BY DEF Leave
  <2> HIDE DEF m
  <2>2. links' = [links EXCEPT ![w] = Settled(CloseS(links[w]), node', w)] BY <2>1
  <2> QED BY <2>1, <2>2, ShipLeaves DEF m
<1>2. KeysKept
  <2>1. inuse' = inuse BY DEF Leave
  <2> QED BY <1>1, <2>1, KeysHeld
<1> QED BY <1>1, <1>2 DEF StaysSound

LEMMA ShipComesOn ==
  ASSUME LinksInv, NEW h \in Ships, reconnect_logon(h)
  PROVE  StaysSound
<1>1. LinksInv' /\ inuse' = inuse BY ShipJoins
<1>2. PICK w \in Links : links[w] = NoLink /\ \A v \in Links \ {w} : links'[v] = links[v]
  BY ShipJoins
<1>3. ~links[w].open BY <1>2 DEF NoLink
<1>4. KeysKept
  <2>1. \A v \in Links : links[v].open /\ links[v].crypt = "own" /\ links[v].key \in inuse'
           => links'[v].open /\ links'[v].crypt = "own" /\ links'[v].key = links[v].key
    BY <1>2, <1>3
  <2> QED BY <1>1, <2>1, KeysHeld
<1> QED BY <1>1, <1>4 DEF StaysSound

----------------------------------------------------------------------------
(* What the login server does                                              *)

LEMMA AtLogin ==
  ASSUME LinksInv, NEW w \in Links
  PROVE  /\ links[w] \in LinkRecs /\ On(w) \in BOOLEAN /\ LinkOK(links[w], On(w), Logon(w))
         /\ links[w].open => Logon(w) \in Logons /\ links[w].ship \in Ships
BY OnIs DEF LinksInv

LEMMA PutSIs ==
  ASSUME NEW l \in LinkRecs, l.open, NEW kind \in (Kinds \ {"garbage"}) \cup {"eof"}
  PROVE  /\ Append(l.toShip, Packet(kind, l.crypt)) \in Seq(Packets)
         /\ PutS(l, kind) \in LinkRecs
         /\ PutS(l, kind) = [l EXCEPT !.toShip = IF l.cut THEN l.toShip ELSE Append(l.toShip, Packet(kind, l.crypt))]
<1> DEFINE x == Packet(kind, l.crypt)
<1>1. x \in Packets BY PacketFacts DEF LinkRecs
<1>2. Append(l.toShip, x) \in Seq(Packets)
  <2> HIDE DEF x
  <2> QED BY <1>1, AddsOne DEF LinkRecs
<1> DEFINE q == Append(l.toShip, x)
<1>3. PutS(l, kind) = IF l.cut THEN l ELSE [l EXCEPT !.toShip = q] BY DEF PutS
<1> HIDE DEF q
<1>4. l = [l EXCEPT !.toShip = l.toShip] BY DEF LinkRecs
<1>5. [l EXCEPT !.toShip = q] \in LinkRecs BY <1>2 DEF LinkRecs, q
<1>6. PutS(l, kind) = [l EXCEPT !.toShip = IF l.cut THEN l.toShip ELSE q] BY <1>3, <1>4
<1> QED BY <1>2, <1>3, <1>5, <1>6 DEF q

LEMMA CloseIs ==
  ASSUME NEW l \in LinkRecs, l.open
  PROVE  LET m == CloseL(l) IN
         /\ m \in LinkRecs /\ ~m.open /\ m.in = <<>> /\ m.toLogin = <<>> /\ m.ship = l.ship /\ m.cut = l.cut
         /\ m.lostL = l.lostL /\ m.lostS = l.lostS /\ m.early = l.early /\ m.off = l.off /\ m.age = l.age
         /\ m.toShip = IF l.cut THEN l.toShip ELSE Append(l.toShip, Packet("eof", l.crypt))
<1> DEFINE q == IF l.cut THEN l.toShip ELSE Append(l.toShip, Packet("eof", l.crypt))
<1>1. PutS(l, "eof") = [l EXCEPT !.toShip = q] /\ q \in Seq(Packets)
  <2>1. PutS(l, "eof") = [l EXCEPT !.toShip = q] /\ Append(l.toShip, Packet("eof", l.crypt)) \in Seq(Packets)
    BY PutSIs
  <2> QED BY <2>1 DEF LinkRecs
<1>2. <<>> \in Seq(Kinds) /\ <<>> \in Seq(Packets) BY EmptySeq
<1> DEFINE m == CloseL(l)
<1>3. m = [l EXCEPT !.toShip = q, !.open = FALSE, !.in = <<>>, !.toLogin = <<>>, !.authed = FALSE, !.key = None]
  BY <1>1 DEF CloseL
<1> HIDE DEF q, m
<1>4. /\ m \in LinkRecs /\ ~m.open /\ m.in = <<>> /\ m.toLogin = <<>> /\ m.ship = l.ship /\ m.cut = l.cut
      /\ m.lostL = l.lostL /\ m.lostS = l.lostS /\ m.early = l.early /\ m.off = l.off /\ m.age = l.age /\ m.toShip = q
  BY <1>1, <1>2, <1>3 DEF LinkRecs
<1> QED BY <1>4 DEF q, m

LEMMA OpeningIs ==
  ASSUME NEW l \in LinkRecs, NEW n, Opening(l, n)
  PROVE  /\ l.age = 0 /\ l.since = 0
         /\ l.in # <<>> => Head(l.in) = "auth"
         /\ l.toLogin # <<>> => Head(l.toLogin).kind = "auth"
<1>1. l.age = 0 /\ l.since = 0 BY DEF Opening
<1>2. CASE Nothing(l.toLogin, l.in) BY <1>1, <1>2 DEF Nothing
<1>3. CASE OnlyOne(l.toLogin, l.in, "auth", "public")
  <2>1. Packet("auth", "public") \in Packets /\ Packet("auth", "public").kind = "auth" BY PacketFacts
  <2>2. Head(<<"auth">>) = "auth" BY Short
  <2>3. Head(<<Packet("auth", "public")>>) = Packet("auth", "public") BY <2>1, Short
  <2> QED BY <1>1, <1>3, <2>1, <2>2, <2>3 DEF OnlyOne
<1> QED BY <1>2, <1>3 DEF Opening, Welcoming, Introducing, Accepting

LEMMA TalkingIs ==
  ASSUME LinksInv, NEW w \in Links, links[w].open, On(w), Quiet(links[w]), ~links[w].cut,
         ~Opening(links[w], Logon(w))
  PROVE  Talking(links[w], Logon(w))
BY AtLogin DEF LinkOK, Steady, Stage, Ended

LEMMA LoginReadsHolds ==
  ASSUME LinksInv, NEW w \in Links, LoginReads(w)
  PROVE  StaysSound
<1> DEFINE l == links[w]
           kind == Read(Head(l.toLogin), l.crypt, l.lostL)
           m == [l EXCEPT !.toLogin = Tail(@), !.in = Append(@, kind), !.lostL = @ \/ kind = "garbage"]
<1>1. /\ l \in LinkRecs /\ On(w) \in BOOLEAN /\ LinkOK(l, On(w), Logon(w))
      /\ Logon(w) \in Logons /\ l.open /\ l.toLogin # <<>> /\ ~EndOf(l.toLogin)
      /\ links' = [links EXCEPT ![w] = Settled(m, node, w)] /\ inuse' = inuse /\ node' = node
  BY AtLogin DEF LoginReads, LoginGets, LoginStep
<1>2. kind \in Kinds
  <2>1. Head(l.toLogin) \in Packets BY <1>1, DropsOne DEF LinkRecs
  <2>2. Head(l.toLogin).kind \in Kinds BY <1>1, <2>1, PacketFacts DEF EndOf
  <2>3. "garbage" \in Kinds BY DEF Kinds
  <2> QED BY <2>2, <2>3 DEF Read
<1>3. Tail(l.toLogin) \in Seq(Packets) /\ Append(l.in, kind) \in Seq(Kinds)
  <2> HIDE DEF kind
  <2> QED BY <1>1, <1>2, DropsOne, AddsOne DEF LinkRecs
<1> DEFINE q == Tail(l.toLogin)
           r == Append(l.in, kind)
           b == (l.lostL \/ kind = "garbage")
<1>4. m = [l EXCEPT !.toLogin = q, !.in = r, !.lostL = b] /\ b \in BOOLEAN OBVIOUS
<1>5. /\ m \in LinkRecs /\ m.open = l.open /\ m.ship = l.ship /\ m.cut = l.cut /\ m.crypt = l.crypt
      /\ m.key = l.key /\ m.lostS = l.lostS /\ m.early = l.early /\ m.off = l.off /\ m.toShip = l.toShip /\ m.age = l.age
      /\ m.authed = l.authed /\ m.since = l.since /\ m.toLogin = q /\ m.in = r /\ m.lostL = b
  <2>1. q \in Seq(Packets) /\ r \in Seq(Kinds) BY <1>3
  <2> HIDE DEF q, r, b, m, kind, l
  <2> QED BY <1>1, <1>4, <2>1 DEF LinkRecs
<1>6. LinkOK(m, On(w), Logon(w))
  <2> HIDE DEF m, kind, l
  <2> QED BY <1>1, <1>5, LinkReads DEF kind
<1> HIDE DEF m, kind, q, r, b
<1> QED BY <1>1, <1>5, <1>6, LoginGoesOn

LEMMA LoginHangsUp ==
  ASSUME LinksInv, NEW w \in Links, links[w].open, Close(w, links[w]), node' = node,
         On(w) /\ Quiet(links[w]) /\ ~links[w].cut => ~Opening(links[w], Logon(w))
  PROVE  StaysSound
<1> DEFINE l == links[w]
           m == CloseL(l)
<1>1. /\ l \in LinkRecs /\ On(w) \in BOOLEAN /\ LinkOK(l, On(w), Logon(w)) /\ Logon(w) \in Logons /\ l.open
      /\ l.toShip \in Seq(Packets) /\ l.crypt \in Crypts
  BY AtLogin DEF LinkRecs
<1>2. links' = [links EXCEPT ![w] = Settled(m, node, w)] /\ inuse' = inuse \ {l.key}
  BY DEF Close, LoginStep, initialize_ship
<1>3. /\ m \in LinkRecs /\ ~m.open /\ m.in = <<>> /\ m.toLogin = <<>> /\ m.ship = l.ship /\ m.cut = l.cut
      /\ m.lostL = l.lostL /\ m.lostS = l.lostS /\ m.early = l.early /\ m.off = l.off
      /\ m.toShip = IF l.cut THEN l.toShip ELSE Append(l.toShip, Packet("eof", l.crypt))
  BY <1>1, CloseIs
<1>4. On(w) /\ Quiet(l) /\ ~l.cut => Talking(l, Logon(w)) BY TalkingIs
<1>5. LinkOK(m, On(w), Logon(w))
  <2> HIDE DEF m, l
  <2> QED BY <1>1, <1>3, <1>4, LinkCloses
<1> HIDE DEF m
<1> QED BY <1>1, <1>2, <1>3, <1>5, LoginLetsGo

LEMMA LoginEnds ==
  ASSUME LinksInv, NEW w \in Links, LoginReadsEnd(w) \/ LoginRefuses(w) \/ LoginRejects(w) \/ LoginTimeout(w)
  PROVE  StaysSound
<1>1. links[w] \in LinkRecs /\ links[w].age \in Nat /\ links[w].since \in Nat BY AtLogin DEF LinkRecs
<1>2. /\ links[w].open /\ Close(w, links[w]) /\ node' = node
      /\ On(w) /\ Quiet(links[w]) /\ ~links[w].cut => ~Opening(links[w], Logon(w))
  <2>1. CASE LoginReadsEnd(w) BY <1>1, <2>1, OpeningIs DEF LoginReadsEnd, EndOf
  <2>2. CASE LoginRejects(w) BY <1>1, <2>2, OpeningIs DEF LoginRejects, LoginTurn
  <2>3. CASE LoginTimeout(w)
    BY <1>1, <2>3, OpeningIs DEF LoginTimeout, LoginExpired, TimeoutAfter, AuthLimit
  <2>4. CASE LoginRefuses(w)
    <3>1. /\ links[w].open /\ Close(w, links[w]) /\ node' = node /\ links[w].toLogin # <<>>
          /\ Read(Head(links[w].toLogin), links[w].crypt, links[w].lostL) = "garbage"
      BY <2>4 DEF LoginRefuses, LoginGets
    <3>2. SUFFICES ASSUME On(w), Quiet(links[w]), Opening(links[w], Logon(w)) PROVE FALSE BY <3>1
    <3>3. ~links[w].lostL BY <3>2, AtLogin DEF LinkOK, Steady
    <3>4. links[w].toLogin = <<Packet("auth", "public")>> /\ links[w].crypt = "public"
      BY <3>1, <3>2 DEF Opening, Welcoming, Introducing, Accepting, OnlyOne, Nothing
    <3>5. Head(links[w].toLogin) = Packet("auth", "public") BY <3>4, PacketFacts, Short
    <3> QED BY <3>1, <3>3, <3>4, <3>5, PacketFacts DEF Read
  <2> QED BY <2>1, <2>2, <2>3, <2>4
<1> QED BY <1>2, LoginHangsUp

LEMMA LoginTurnsAway ==
  ASSUME LinksInv, NEW w \in Links, links[w].open, links[w].in # <<>>, Head(links[w].in) = "auth",
         NEW kind \in Refusals, node' = node,
         Close(w, PutS([Handled(w) EXCEPT !.key = KeyOf[links[w].ship]], kind))
  PROVE  StaysSound
<1> DEFINE l == links[w]
           k == KeyOf[l.ship]
           t == Tail(l.in)
           e == [l EXCEPT !.in = t, !.key = k]
           x == Packet(kind, l.crypt)
           q == Append(l.toShip, x)
           p == PutS(e, kind)
           m == CloseL(p)
<1>1. /\ l \in LinkRecs /\ On(w) \in BOOLEAN /\ LinkOK(l, On(w), Logon(w)) /\ Logon(w) \in Logons /\ l.open
      /\ l.toShip \in Seq(Packets) /\ l.crypt \in Crypts /\ l.ship \in Ships /\ l.in \in Seq(Kinds)
  BY AtLogin DEF LinkRecs
<1>2. k \in {KeyOf[h] : h \in Ships} \cup {None} /\ t \in Seq(Kinds) BY <1>1, DropsOne
<1>3. /\ e \in LinkRecs /\ e.open /\ e.ship = l.ship /\ e.cut = l.cut /\ e.crypt = l.crypt /\ e.key = k
      /\ e.lostL = l.lostL /\ e.lostS = l.lostS /\ e.early = l.early /\ e.off = l.off /\ e.toShip = l.toShip
  <2> HIDE DEF k, t, l
  <2> QED BY <1>1, <1>2 DEF LinkRecs
<1>4. x \in Packets /\ x.kind = kind BY <1>1, PacketFacts DEF Refusals
<1>5. q \in Seq(Packets) /\ p \in LinkRecs /\ p = [e EXCEPT !.toShip = IF l.cut THEN l.toShip ELSE q]
  <2>1. kind \in (Kinds \ {"garbage"}) \cup {"eof"} BY PacketFacts DEF Refusals
  <2> HIDE DEF e, l
  <2> DEFINE z == Append(e.toShip, Packet(kind, e.crypt))
  <2>2. e \in LinkRecs /\ e.open BY <1>3
  <2>3. z \in Seq(Packets) /\ PutS(e, kind) \in LinkRecs /\ PutS(e, kind) = [e EXCEPT !.toShip = IF e.cut THEN e.toShip ELSE z]
    BY <2>1, <2>2, PutSIs
  <2>4. z = q /\ e.cut = l.cut /\ e.toShip = l.toShip BY <1>3
  <2> HIDE DEF z, q
  <2> QED BY <2>3, <2>4
<1>6. /\ p.open /\ p.ship = l.ship /\ p.cut = l.cut /\ p.crypt = l.crypt /\ p.key = k
      /\ p.lostL = l.lostL /\ p.lostS = l.lostS /\ p.early = l.early /\ p.off = l.off
      /\ p.toShip = IF l.cut THEN l.toShip ELSE q
  <2> DEFINE s == IF l.cut THEN l.toShip ELSE q
  <2> HIDE DEF e, l, k, q, p, s
  <2>1. p = [e EXCEPT !.toShip = s] BY <1>5 DEF s
  <2> QED BY <1>3, <2>1 DEF LinkRecs, s
<1>7. /\ m \in LinkRecs /\ ~m.open /\ m.in = <<>> /\ m.toLogin = <<>> /\ m.ship = l.ship /\ m.cut = l.cut
      /\ m.lostL = l.lostL /\ m.lostS = l.lostS /\ m.early = l.early /\ m.off = l.off
      /\ m.toShip = IF l.cut THEN l.toShip ELSE Append(q, Packet("eof", l.crypt))
  <2> HIDE DEF p, l, q
  <2>1. /\ m \in LinkRecs /\ ~m.open /\ m.in = <<>> /\ m.toLogin = <<>> /\ m.ship = p.ship /\ m.cut = p.cut
        /\ m.lostL = p.lostL /\ m.lostS = p.lostS /\ m.early = p.early /\ m.off = p.off
        /\ m.toShip = IF p.cut THEN p.toShip ELSE Append(p.toShip, Packet("eof", p.crypt))
    BY <1>5, <1>6, CloseIs
  <2>2. m.toShip = IF l.cut THEN l.toShip ELSE Append(q, Packet("eof", l.crypt))
    <3> HIDE DEF m
    <3>1. CASE l.cut BY <1>6, <2>1, <3>1
    <3>2. CASE ~l.cut
      <4>1. p.toShip = q /\ p.crypt = l.crypt /\ p.cut = l.cut BY <1>6, <3>2
      <4> QED BY <2>1, <3>2, <4>1
    <3> QED BY <3>1, <3>2
  <2> HIDE DEF m
  <2> QED BY <1>6, <2>1, <2>2
<1>8. Holds(l.in, "auth") BY <1>1, HoldsIs
<1>9. LinkOK(m, On(w), Logon(w))
  <2> HIDE DEF m, l
  <2> QED BY <1>1, <1>5, <1>7, <1>8, LinkCloses DEF q, x
<1>10. links' = [links EXCEPT ![w] = Settled(m, node, w)] /\ inuse' = inuse \ {k}
  <2>1. links' = [links EXCEPT ![w] = Settled(m, node, w)] /\ inuse' = inuse \ {p.key}
    BY DEF Close, LoginStep, initialize_ship, Handled
  <2> QED BY <1>6, <2>1
<1>11. l.crypt = "own" => l.key = k BY <1>1 DEF LinkOK, Keyed
<1> HIDE DEF m, k
<1> QED BY <1>1, <1>7, <1>9, <1>10, <1>11, LoginLetsGo

LEMMA TestFailsHolds ==
  ASSUME LinksInv, NEW w \in Links, TestFails(w)
  PROVE  StaysSound
BY LoginTurnsAway DEF TestFails, Refusals

LEMMA AuthenticateShipHolds ==
  ASSUME LinksInv, NEW w \in Links, AuthenticateShip(w)
  PROVE  StaysSound
<1> DEFINE l == links[w]
           k == KeyOf[l.ship]
           t == Tail(l.in)
           e == [l EXCEPT !.in = t, !.key = k]
<1>1. /\ l \in LinkRecs /\ On(w) \in BOOLEAN /\ LinkOK(l, On(w), Logon(w)) /\ Logon(w) \in Logons /\ l.open
      /\ l.toShip \in Seq(Packets) /\ l.crypt \in Crypts /\ l.ship \in Ships /\ l.in \in Seq(Kinds)
      /\ l.in # <<>> /\ Head(l.in) = "auth" /\ node' = node
  BY AtLogin DEF LinkRecs, AuthenticateShip, LoginTurn
<1>2. k \in {KeyOf[h] : h \in Ships} \cup {None} /\ t \in Seq(Kinds) BY <1>1, DropsOne
<1>3. /\ e \in LinkRecs /\ e.open /\ e.ship = l.ship /\ e.cut = l.cut /\ e.crypt = l.crypt /\ e.key = k
      /\ e.lostL = l.lostL /\ e.lostS = l.lostS /\ e.early = l.early /\ e.off = l.off /\ e.toShip = l.toShip
      /\ e.age = l.age /\ e.since = l.since /\ e.toLogin = l.toLogin /\ e.in = t
  <2> HIDE DEF k, t, l
  <2> QED BY <1>1, <1>2 DEF LinkRecs
<1>4. IF k \in inuse THEN Close(w, PutS(e, "inuse")) ELSE LoginStep(w, Accepted(e), inuse)
  BY <1>3 DEF AuthenticateShip, Handled
<1>5. l.crypt = "own" => l.key = k BY <1>1 DEF LinkOK, Keyed
<1>6. CASE k \in inuse
  <2>2. Close(w, PutS([Handled(w) EXCEPT !.key = KeyOf[links[w].ship]], "inuse")) BY <1>4, <1>6 DEF Handled
  <2> QED BY <1>1, <2>2, LoginTurnsAway DEF Refusals
<1>7. CASE k \notin inuse
  <2> DEFINE x == Packet("accepted", l.crypt)
             s == IF l.cut THEN l.toShip ELSE Append(l.toShip, x)
             m == Accepted(e)
  <2>1. x \in Packets /\ x.kind = "accepted" BY <1>1, PacketFacts
  <2>2. PutS(e, "accepted") = [e EXCEPT !.toShip = s] /\ s \in Seq(Packets)
    <3>1. "accepted" \in (Kinds \ {"garbage"}) \cup {"eof"} BY PacketFacts
    <3> HIDE DEF e, l
    <3>2. /\ PutS(e, "accepted") = [e EXCEPT !.toShip = s]
          /\ Append(l.toShip, x) \in Seq(Packets)
      BY <1>3, <3>1, PutSIs
    <3> QED BY <1>1, <3>2
  <2>3. m = [e EXCEPT !.toShip = s, !.crypt = "own", !.authed = TRUE] BY <2>2 DEF Accepted
  <2>4. /\ m \in LinkRecs /\ m.open /\ m.ship = l.ship /\ m.cut = l.cut /\ m.crypt = "own" /\ m.key = k
        /\ m.lostL = l.lostL /\ m.lostS = l.lostS /\ m.early = l.early /\ m.off = l.off /\ m.toShip = s
        /\ m.age = l.age /\ m.since = l.since /\ m.toLogin = l.toLogin /\ m.in = t
    <3>1. "own" \in Crypts BY DEF Crypts
    <3> HIDE DEF e, l, k, s, m, t
    <3> QED BY <1>3, <2>2, <2>3, <3>1 DEF LinkRecs
  <2>5. LinkOK(m, On(w), Logon(w))
    <3> HIDE DEF m, l
    <3> QED BY <1>1, <2>4, LinkAccepts DEF s, x, k, t
  <2>6. links' = [links EXCEPT ![w] = Settled(m, node, w)] /\ inuse' = inuse
    BY <1>4, <1>7 DEF LoginStep
  <2> HIDE DEF m, k
  <2> QED BY <1>1, <1>5, <2>4, <2>5, <2>6, LoginGoesOn
<1> QED BY <1>6, <1>7

\* A turn that leaves the link open and its keys as they are.
LEMMA LoginAnswers ==
  ASSUME LinksInv, NEW w \in Links, links[w].open, NEW m \in LinkRecs, NEW taken,
         LoginStep(w, m, taken), node' = node,
         \A k \in taken : k \in inuse \/ (links[w].crypt = "own" /\ k = links[w].key),
         m.open, m.ship = links[w].ship, m.cut = links[w].cut, m.crypt = links[w].crypt,
         m.key = links[w].key, m.lostL = links[w].lostL, m.lostS = links[w].lostS,
         m.early = links[w].early, m.off = links[w].off, m.toLogin = links[w].toLogin, Shrinks(links[w].in, m.in),
         m.age = links[w].age \/ (links[w].age <= TimeoutAfter /\ Holds(links[w].in, "pong")),
         \/ m.toShip = links[w].toShip
         \/ /\ ~links[w].cut
            /\ \E kind \in {"rates", "ping"} : m.toShip = Append(links[w].toShip, Packet(kind, links[w].crypt)),
         On(w) => ~Opening(links[w], Logon(w))
  PROVE  StaysSound
<1> DEFINE l == links[w]
<1>1. /\ l \in LinkRecs /\ On(w) \in BOOLEAN /\ LinkOK(l, On(w), Logon(w)) /\ Logon(w) \in Logons /\ l.open
      /\ l.toShip \in Seq(Packets) /\ l.crypt \in Crypts
      /\ links' = [links EXCEPT ![w] = Settled(m, node, w)] /\ inuse' = taken
  BY AtLogin DEF LinkRecs, LoginStep
<1>2. \/ m.toShip = l.toShip
      \/ /\ ~l.cut
         /\ \E kind \in {"rates", "ping", "notice"} : m.toShip = Append(l.toShip, Packet(kind, l.crypt))
  OBVIOUS
<1>3. LinkOK(m, On(w), Logon(w))
  <2> HIDE DEF l
  <2> QED BY <1>1, <1>2, LinkServes DEF l
<1> QED BY <1>1, <1>3, LoginGoesOn

LEMMA LoginTurnIs ==
  ASSUME LinksInv, NEW w \in Links, NEW kind, LoginTurn(w, kind)
  PROVE  LET l == links[w]
             e == Handled(w) IN
         /\ l \in LinkRecs /\ l.open /\ l.age <= TimeoutAfter /\ l.in # <<>> /\ Head(l.in) = kind /\ Holds(l.in, kind)
         /\ node' = node
         /\ kind # "auth" => ~Opening(l, Logon(w))
         /\ e \in LinkRecs /\ e.open /\ e.ship = l.ship /\ e.cut = l.cut /\ e.crypt = l.crypt /\ e.key = l.key
         /\ e.lostL = l.lostL /\ e.lostS = l.lostS /\ e.early = l.early /\ e.off = l.off /\ e.toLogin = l.toLogin
         /\ e.toShip = l.toShip /\ e.age = l.age /\ e.in = Tail(l.in) /\ Shrinks(l.in, e.in)
<1> DEFINE l == links[w]
           t == Tail(l.in)
           e == [l EXCEPT !.in = t]
<1>1. /\ l \in LinkRecs /\ l.open /\ l.age <= TimeoutAfter /\ l.in # <<>> /\ Head(l.in) = kind
      /\ node' = node /\ l.in \in Seq(Kinds)
  BY AtLogin DEF LoginTurn, LinkRecs
<1>2. Holds(l.in, kind) /\ t \in Seq(Kinds) BY <1>1, HoldsIs, DropsOne
<1>3. kind # "auth" => ~Opening(l, Logon(w)) BY <1>1, OpeningIs
<1>4. Handled(w) = e BY DEF Handled
<1>5. /\ e \in LinkRecs /\ e.open = l.open /\ e.ship = l.ship /\ e.cut = l.cut /\ e.crypt = l.crypt /\ e.key = l.key
      /\ e.lostL = l.lostL /\ e.lostS = l.lostS /\ e.early = l.early /\ e.off = l.off /\ e.toLogin = l.toLogin
      /\ e.toShip = l.toShip /\ e.age = l.age /\ e.in = t
  <2> HIDE DEF t, l
  <2> QED BY <1>1, <1>2 DEF LinkRecs
<1>6. Shrinks(l.in, t) BY <1>1 DEF Shrinks
<1> QED BY <1>1, <1>2, <1>3, <1>4, <1>5, <1>6

LEMMA LoginServesHolds ==
  ASSUME LinksInv, NEW w \in Links, SendCharts(w) \/ Pong(w) \/ LoginIgnores(w) \/ LoginPings(w)
  PROVE  StaysSound
<1> DEFINE l == links[w]
           e == Handled(w)
<1>1. CASE SendCharts(w)
  <2>1. /\ l.open /\ node' = node /\ ~Opening(l, Logon(w)) /\ Holds(l.in, "charts")
        /\ e \in LinkRecs /\ e.open /\ e.ship = l.ship /\ e.cut = l.cut /\ e.crypt = l.crypt /\ e.key = l.key
        /\ e.lostL = l.lostL /\ e.lostS = l.lostS /\ e.early = l.early /\ e.off = l.off /\ e.toLogin = l.toLogin
        /\ e.toShip = l.toShip /\ e.age = l.age /\ Shrinks(l.in, e.in)
    BY <1>1, LoginTurnIs DEF SendCharts
  <2>2. l.crypt = "own" BY <2>1, AtLogin DEF LinkOK, Keyed
  <2> DEFINE s == IF e.cut THEN e.toShip ELSE Append(e.toShip, Packet("rates", e.crypt))
             m == [e EXCEPT !.toShip = s]
  <2>3. PutS(e, "rates") = m /\ m \in LinkRecs
    <3>1. "rates" \in (Kinds \ {"garbage"}) \cup {"eof"} BY PacketFacts
    <3> HIDE DEF e, l
    <3> QED BY <2>1, <3>1, PutSIs
  <2>4. /\ m.open /\ m.ship = l.ship /\ m.cut = l.cut /\ m.crypt = l.crypt /\ m.key = l.key
        /\ m.lostL = l.lostL /\ m.lostS = l.lostS /\ m.early = l.early /\ m.off = l.off /\ m.toLogin = l.toLogin
        /\ m.toShip = s /\ m.age = l.age /\ m.in = e.in
    <3> HIDE DEF e, l, s
    <3> QED BY <2>1 DEF LinkRecs
  <2>5. LoginStep(w, m, inuse \cup {l.key}) BY <1>1, <2>3 DEF SendCharts
  <2>6. m.toShip = l.toShip \/ (~l.cut /\ m.toShip = Append(l.toShip, Packet("rates", l.crypt)))
    BY <2>1, <2>4
  <2>7. \A k \in inuse \cup {l.key} : k \in inuse \/ (l.crypt = "own" /\ k = l.key) BY <2>2
  <2> DEFINE taken == inuse \cup {l.key}
  <2> HIDE DEF m, taken
  <2>8. LoginStep(w, m, taken) /\ \A k \in taken : k \in inuse \/ (l.crypt = "own" /\ k = l.key)
    BY <2>5, <2>7 DEF taken
  <2> QED BY <2>1, <2>3, <2>4, <2>6, <2>8, LoginAnswers
<1>2. CASE Pong(w)
  <2>1. /\ l.open /\ node' = node /\ ~Opening(l, Logon(w)) /\ Holds(l.in, "pong")
        /\ e \in LinkRecs /\ e.open /\ e.ship = l.ship /\ e.cut = l.cut /\ e.crypt = l.crypt /\ e.key = l.key
        /\ e.lostL = l.lostL /\ e.lostS = l.lostS /\ e.early = l.early /\ e.off = l.off /\ e.toLogin = l.toLogin
        /\ e.toShip = l.toShip /\ l.age <= TimeoutAfter /\ Shrinks(l.in, e.in)
    BY <1>2, LoginTurnIs DEF Pong
  <2> DEFINE m == [e EXCEPT !.age = 0, !.pinged = FALSE]
  <2>2. m = [links[w] EXCEPT !.in = Tail(@), !.age = 0, !.pinged = FALSE] BY DEF Handled
  <2>3. LoginStep(w, m, inuse) BY <1>2, <2>2 DEF Pong
  <2>4. /\ m \in LinkRecs /\ m.open /\ m.ship = l.ship /\ m.cut = l.cut /\ m.crypt = l.crypt /\ m.key = l.key
        /\ m.lostL = l.lostL /\ m.lostS = l.lostS /\ m.early = l.early /\ m.off = l.off /\ m.toLogin = l.toLogin
        /\ m.toShip = l.toShip /\ m.in = e.in
    <3> HIDE DEF e, l
    <3> QED BY <2>1 DEF LinkRecs
  <2> HIDE DEF m
  <2> QED BY <2>1, <2>3, <2>4, LoginAnswers
<1>3. CASE LoginIgnores(w)
  <2>1. PICK kind \in {"data", "garbage"} : LoginTurn(w, kind) BY <1>3 DEF LoginIgnores
  <2>2. /\ l.open /\ node' = node /\ ~Opening(l, Logon(w))
        /\ e \in LinkRecs /\ e.open /\ e.ship = l.ship /\ e.cut = l.cut /\ e.crypt = l.crypt /\ e.key = l.key
        /\ e.lostL = l.lostL /\ e.lostS = l.lostS /\ e.early = l.early /\ e.off = l.off /\ e.toLogin = l.toLogin
        /\ e.toShip = l.toShip /\ e.age = l.age /\ Shrinks(l.in, e.in)
    BY <2>1, LoginTurnIs
  <2>3. LoginStep(w, e, inuse) BY <1>3 DEF LoginIgnores
  <2> HIDE DEF e
  <2> QED BY <2>2, <2>3, LoginAnswers
<1>4. CASE LoginPings(w)
  <2>1. /\ l \in LinkRecs /\ l.open /\ l.age >= PingAfter /\ node' = node /\ l.age \in Nat
        /\ LoginStep(w, [PutS(l, "ping") EXCEPT !.pinged = TRUE], inuse)
    BY <1>4, AtLogin DEF LoginPings, LinkRecs
  <2>2. ~Opening(l, Logon(w)) BY <2>1, OpeningIs DEF PingAfter
  <2> DEFINE s == IF l.cut THEN l.toShip ELSE Append(l.toShip, Packet("ping", l.crypt))
             m == [l EXCEPT !.toShip = s, !.pinged = TRUE]
  <2>3. PutS(l, "ping") = [l EXCEPT !.toShip = s] /\ s \in Seq(Packets)
    <3>1. "ping" \in (Kinds \ {"garbage"}) \cup {"eof"} BY PacketFacts
    <3> HIDE DEF l
    <3>2. /\ PutS(l, "ping") = [l EXCEPT !.toShip = s]
          /\ Append(l.toShip, Packet("ping", l.crypt)) \in Seq(Packets)
      BY <2>1, <3>1, PutSIs
    <3> QED BY <2>1, <3>2 DEF LinkRecs
  <2>4. LoginStep(w, m, inuse)
    <3>1. [PutS(l, "ping") EXCEPT !.pinged = TRUE] = m BY <2>3
    <3> QED BY <2>1, <3>1
  <2>5. /\ m \in LinkRecs /\ m.open /\ m.ship = l.ship /\ m.cut = l.cut /\ m.crypt = l.crypt /\ m.key = l.key
        /\ m.lostL = l.lostL /\ m.lostS = l.lostS /\ m.early = l.early /\ m.off = l.off /\ m.toLogin = l.toLogin
        /\ m.toShip = s /\ m.age = l.age /\ m.in = l.in
    <3> HIDE DEF l, s
    <3> QED BY <2>1, <2>3 DEF LinkRecs
  <2>6. m.toShip = l.toShip \/ (~l.cut /\ m.toShip = Append(l.toShip, Packet("ping", l.crypt)))
    BY <2>5
  <2>7. Shrinks(l.in, m.in) BY <2>5 DEF Shrinks
  <2> HIDE DEF m
  <2> QED BY <2>1, <2>2, <2>4, <2>5, <2>6, <2>7, LoginAnswers
<1> QED BY <1>1, <1>2, <1>3, <1>4

LEMMA AnnounceHolds ==
  ASSUME LinksInv, Announce
  PROVE  StaysSound
<1> DEFINE to == {w \in Links : links[w].open /\ links[w].authed}
           ahead == {w \in to : \A h \in Ships : node[h].logon.link = w => node[h].logon.crypt # "own"}
           new(w) == IF w \in to
                     THEN [PutS(links[w], "notice") EXCEPT !.early = @ \/ w \in ahead, !.traffic = @ + 1]
                     ELSE links[w]
<1>1. /\ links' = [w \in Links |-> new(w)]
      /\ inuse' = inuse /\ node' = node
  BY DEF Announce
<1>2. ASSUME NEW w \in to
      PROVE  LET l == links[w]
                 m == new(w)
             IN /\ m \in LinkRecs /\ m.open = l.open /\ m.ship = l.ship /\ m.cut = l.cut /\ m.crypt = l.crypt
                /\ m.key = l.key /\ m.lostL = l.lostL /\ m.lostS = l.lostS /\ m.toLogin = l.toLogin
                /\ m.in = l.in /\ m.age = l.age /\ m.early = (l.early \/ w \in ahead) /\ m.off = l.off
                /\ m.toShip = IF l.cut THEN l.toShip ELSE Append(l.toShip, Packet("notice", l.crypt))
  <2> DEFINE l == links[w]
             s == IF l.cut THEN l.toShip ELSE Append(l.toShip, Packet("notice", l.crypt))
             b == (l.early \/ w \in ahead)
             c == l.traffic + 1
             m == [l EXCEPT !.toShip = s, !.early = b, !.traffic = c]
  <2>1. l \in LinkRecs /\ l.open BY AtLogin
  <2>2. PutS(l, "notice") = [l EXCEPT !.toShip = s] /\ s \in Seq(Packets)
    <3>1. "notice" \in (Kinds \ {"garbage"}) \cup {"eof"} BY PacketFacts
    <3> HIDE DEF l
    <3>2. /\ PutS(l, "notice") = [l EXCEPT !.toShip = s]
          /\ Append(l.toShip, Packet("notice", l.crypt)) \in Seq(Packets)
      BY <2>1, <3>1, PutSIs
    <3> QED BY <2>1, <3>2 DEF LinkRecs
  <2>3. new(w) = [[l EXCEPT !.toShip = s] EXCEPT !.early = @ \/ w \in ahead, !.traffic = @ + 1]
    BY <2>2
  <2>4. b \in BOOLEAN /\ c \in Nat BY <2>1 DEF LinkRecs
  <2>5. new(w) = m
    <3> HIDE DEF l, s, ahead, new
    <3> QED BY <2>1, <2>3 DEF LinkRecs
  <2>6. /\ m \in LinkRecs /\ m.open = l.open /\ m.ship = l.ship /\ m.cut = l.cut /\ m.crypt = l.crypt
        /\ m.key = l.key /\ m.lostL = l.lostL /\ m.lostS = l.lostS /\ m.toLogin = l.toLogin
        /\ m.in = l.in /\ m.age = l.age /\ m.early = b /\ m.off = l.off /\ m.toShip = s
    <3> HIDE DEF l, s, b, c
    <3> QED BY <2>1, <2>2, <2>4 DEF LinkRecs
  <2> HIDE DEF m, new
  <2> QED BY <2>5, <2>6
<1> HIDE DEF new
<1>3. \A w \in Links : links'[w] = new(w) BY <1>1
<1>4. \A w \in Links \ to : links'[w] = links[w] BY <1>1 DEF new
<1>5. ASSUME NEW w \in to
      PROVE  LinkOK(links'[w], On(w), Logon(w))
  <2> DEFINE l == links[w]
             m == links'[w]
             x == Packet("notice", l.crypt)
  <2>1. /\ l \in LinkRecs /\ On(w) \in BOOLEAN /\ LinkOK(l, On(w), Logon(w)) /\ Logon(w) \in Logons /\ l.open
        /\ l.toShip \in Seq(Packets) /\ l.crypt \in Crypts /\ l.authed
    BY AtLogin DEF LinkRecs
  <2>2. /\ m \in LinkRecs /\ m.open = l.open /\ m.ship = l.ship /\ m.cut = l.cut /\ m.crypt = l.crypt
        /\ m.key = l.key /\ m.lostL = l.lostL /\ m.lostS = l.lostS /\ m.toLogin = l.toLogin
        /\ m.in = l.in /\ m.age = l.age /\ m.early = (l.early \/ w \in ahead) /\ m.off = l.off
        /\ m.toShip = IF l.cut THEN l.toShip ELSE Append(l.toShip, x)
    BY <1>2, <1>3
  <2>3. On(w) /\ w \notin ahead => ~Opening(l, Logon(w))
    <3>1. SUFFICES ASSUME On(w), w \notin ahead PROVE ~Opening(l, Logon(w)) OBVIOUS
    <3>2. PICK h \in Ships : node[h].logon.link = w /\ node[h].logon.crypt = "own" BY <3>1
    <3>3. links[w].ship = h
      <4>1. None \notin Links BY ShipLinkAssumption
      <4> QED BY <3>2, <4>1 DEF LinksInv, Sites
    <3>4. Logon(w).crypt = "own" BY <3>2, <3>3 DEF Logon
    <3> QED BY <2>1, <3>4 DEF Opening, Welcoming, Introducing, Accepting
  <2>4. Shrinks(l.in, m.in) BY <2>2 DEF Shrinks
  <2>5. m.toShip = l.toShip \/ (~l.cut /\ m.toShip = Append(l.toShip, x)) BY <2>2
  <2>6. LinkOK(m, On(w), Logon(w))
    <3>1. On(w) /\ Quiet(m) => ~Opening(l, Logon(w)) BY <2>2, <2>3 DEF Quiet
    <3> HIDE DEF m, l, ahead
    <3> QED BY <2>1, <2>2, <2>4, <2>5, <3>1, LinkServes DEF x
  <2> QED BY <2>6
<1>6. \A v \in Links : /\ links'[v].open = links[v].open /\ links'[v].ship = links[v].ship
                       /\ links'[v].age = links[v].age /\ links'[v].crypt = links[v].crypt
                       /\ links'[v].key = links[v].key /\ links'[v] \in LinkRecs
  BY <1>2, <1>3, <1>4, AtLogin
<1>7. \A v \in Links : On(v)' = On(v) /\ Logon(v)' = Logon(v) BY <1>1, <1>6 DEF On, Logon
<1>8. LinksInv'
  <2>1. \A v \in Links : LinkOK(links'[v], On(v), Logon(v)) BY <1>4, <1>5, AtLogin
  <2>2. Types' BY <1>1, <1>6 DEF LinksInv, Types
  <2>3. Sites'
    <3>1. Types /\ Sites BY DEF LinksInv
    <3>2. \A h \in Ships : node[h].logon.link \in Links \cup {None}
      BY <3>1 DEF Types, NodeRecs, Logons
    <3> QED BY <1>1, <1>6, <3>1, <3>2 DEF Sites
  <2> QED BY <1>7, <2>1, <2>2, <2>3 DEF LinksInv
<1>9. KeysKept
  <2>1. \A v \in Links : links[v].open /\ links[v].crypt = "own" /\ links[v].key \in inuse'
           => links'[v].open /\ links'[v].crypt = "own" /\ links'[v].key = links[v].key
    BY <1>6
  <2> QED BY <1>1, <2>1, KeysHeld
<1> QED BY <1>8, <1>9 DEF StaysSound

LEMMA CutHolds ==
  ASSUME LinksInv, NEW w \in Links, Cut(w)
  PROVE  StaysSound
<1> DEFINE l == links[w]
           m == [l EXCEPT !.cut = TRUE, !.toLogin = <<>>, !.toShip = <<>>]
<1>1. /\ links' = [links EXCEPT ![w] = m] /\ inuse' = inuse /\ node' = node
      /\ l \in LinkRecs /\ On(w) \in BOOLEAN /\ LinkOK(l, On(w), Logon(w))
      /\ links \in [Links -> LinkRecs]
  BY AtLogin DEF Cut, LinksInv, Types
<1>2. /\ m \in LinkRecs /\ m.open = l.open /\ m.ship = l.ship /\ m.cut /\ m.crypt = l.crypt
      /\ m.key = l.key /\ m.lostL = l.lostL /\ m.lostS = l.lostS /\ m.early = l.early /\ m.off = l.off /\ m.in = l.in
      /\ m.age = l.age /\ m.toLogin = <<>> /\ m.toShip = <<>>
  <2>1. <<>> \in Seq(Packets) BY EmptySeq
  <2> HIDE DEF l
  <2> QED BY <1>1, <2>1 DEF LinkRecs
<1>3. LinkOK(m, On(w), Logon(w))
  <2> HIDE DEF m, l
  <2> QED BY <1>1, <1>2, LinkCutOff
<1>4. links'[w] = m /\ \A v \in Links \ {w} : links'[v] = links[v] BY <1>1
<1> HIDE DEF m
<1>5. \A v \in Links : /\ links'[v].open = links[v].open /\ links'[v].ship = links[v].ship
                       /\ links'[v].age = links[v].age /\ links'[v].crypt = links[v].crypt
                       /\ links'[v].key = links[v].key /\ links'[v] \in LinkRecs
                       /\ links'[v].early = links[v].early
  BY <1>1, <1>2, <1>4
<1>6. \A v \in Links : On(v)' = On(v) /\ Logon(v)' = Logon(v) BY <1>1, <1>5 DEF On, Logon
<1>7. LinksInv'
  <2>1. \A v \in Links : LinkOK(links'[v], On(v), Logon(v)) BY <1>3, <1>4, AtLogin
  <2>2. Types' BY <1>1, <1>2 DEF LinksInv, Types
  <2>3. Sites'
    <3>1. Types /\ Sites BY DEF LinksInv
    <3>2. \A h \in Ships : node[h].logon.link \in Links \cup {None}
      BY <3>1 DEF Types, NodeRecs, Logons
    <3> QED BY <1>1, <1>5, <3>1, <3>2 DEF Sites
  <2> QED BY <1>6, <2>1, <2>2, <2>3 DEF LinksInv
<1>8. KeysKept
  <2>1. \A v \in Links : links[v].open /\ links[v].crypt = "own" /\ links[v].key \in inuse'
           => links'[v].open /\ links'[v].crypt = "own" /\ links'[v].key = links[v].key
    BY <1>5
  <2> QED BY <1>1, <2>1, KeysHeld
<1> QED BY <1>7, <1>8 DEF StaysSound

----------------------------------------------------------------------------
(* What a ship does                                                        *)

LEMMA AtShip ==
  ASSUME LinksInv, NEW h \in Ships, Online(h)
  PROVE  LET n == node[h].logon
             l == links[n.link]
         IN /\ l \in LinkRecs /\ n \in Logons /\ n.link \in Links /\ l.ship = h
            /\ LinkOK(l, TRUE, n)
            /\ l.toShip \in Seq(Packets) /\ l.toLogin \in Seq(Packets) /\ n.in \in Seq(Kinds)
            /\ node \in [Ships -> NodeRecs] /\ node[h].run = "up"
<1> DEFINE n == node[h].logon
           w == n.link
<1>1. n \in Logons /\ w \in Links /\ links[w].ship = h /\ On(w) /\ Logon(w) = n /\ links[w] \in LinkRecs
  BY OnIs DEF LinksInv
<1>2. On(w) = TRUE BY <1>1 DEF On
<1>3. LinkOK(links[w], TRUE, n) BY <1>1, <1>2 DEF LinksInv
<1> QED BY <1>1, <1>3 DEF LinkRecs, Logons, LinksInv, Types, Online

LEMMA PutLIs ==
  ASSUME NEW l \in LinkRecs, NEW kind \in Kinds \ {"garbage"}, NEW key \in Crypts \cup {"again"}
  PROVE  /\ PutL(l, kind, key) \in LinkRecs
         /\ PutL(l, kind, key) = [l EXCEPT !.toLogin = IF l.cut THEN l.toLogin ELSE Append(l.toLogin, Packet(kind, key))]
<1> DEFINE x == Packet(kind, key)
           q == Append(l.toLogin, x)
<1>1. q \in Seq(Packets)
  <2>1. x \in Packets BY PacketFacts
  <2> HIDE DEF x
  <2> QED BY <2>1, AddsOne DEF LinkRecs
<1>2. PutL(l, kind, key) = IF l.cut THEN l ELSE [l EXCEPT !.toLogin = q] BY DEF PutL
<1> HIDE DEF q
<1>3. l = [l EXCEPT !.toLogin = l.toLogin] BY DEF LinkRecs
<1>4. [l EXCEPT !.toLogin = q] \in LinkRecs BY <1>1 DEF LinkRecs
<1>5. PutL(l, kind, key) = [l EXCEPT !.toLogin = IF l.cut THEN l.toLogin ELSE q] BY <1>2, <1>3
<1> QED BY <1>2, <1>4, <1>5 DEF q

\* A ship whose record is off does as it likes with its end.
LEMMA ShipStrays ==
  ASSUME LinksInv, NEW h \in Ships, Online(h), node[h].logon.off,
         NEW l, l = links[node[h].logon.link], NEW m \in LinkRecs, NEW o \in Logons, o.link = node[h].logon.link,
         m.open = l.open, m.ship = l.ship, m.crypt = l.crypt, m.key = l.key, m.in = l.in, m.off = l.off,
         \A i \in 1 .. Len(m.toLogin) : m.toLogin[i].kind = "charts" => m.toLogin[i].key = "own",
         ShipStep(h, o, m)
  PROVE  StaysSound
<1> DEFINE n == node[h].logon
<1>1. l \in LinkRecs /\ LinkOK(l, TRUE, n) BY AtShip
<1>2. LinkOK(m, TRUE, o) BY <1>1, LinkAstray
<1>3. node' = [node EXCEPT ![h].logon = o] /\ links' = [links EXCEPT ![n.link] = m] /\ inuse' = inuse
  BY DEF ShipStep
<1> QED BY <1>2, <1>3, ShipGoesOn

\* What waits for the login server of a ship that is there.
LEMMA ChartsOwn ==
  ASSUME NEW l, NEW n, LinkOK(l, TRUE, n)
  PROVE  \A i \in 1 .. Len(l.toLogin) : l.toLogin[i].kind = "charts" => l.toLogin[i].key = "own"
BY DEF LinkOK, Keyed

LEMMA OpeningShip ==
  ASSUME NEW l, NEW n, Opening(l, n)
  PROVE  n.crypt # "own" /\ (n.in # <<>> => Head(n.in) \in {"welcome", "accepted"})
<1>1. Head(<<"welcome">>) = "welcome" /\ Head(<<"accepted">>) = "accepted" BY Short
<1> QED BY <1>1 DEF Opening, Welcoming, Introducing, Accepting, Nothing, OnlyOne

LEMMA ShipTurnIs ==
  ASSUME LinksInv, NEW h \in Ships, NEW kind, ShipTurn(h, kind)
  PROVE  LET n == node[h].logon
             e == Done(h) IN
         /\ Online(h) /\ n.in # <<>> /\ Head(n.in) = kind /\ Holds(n.in, kind)
         /\ kind \notin {"welcome", "accepted"} => ~Opening(links[n.link], n)
         /\ e \in Logons /\ e.link = n.link /\ e.crypt = n.crypt /\ e.age = n.age
         /\ e.off = n.off /\ (~n.off => e.in = Tail(n.in))
         /\ Shrinks(n.in, e.in)
<1> DEFINE n == node[h].logon
           t == IF n.off THEN n.in ELSE Tail(n.in)
           e == [n EXCEPT !.in = t]
<1>1. Online(h) /\ n.in # <<>> /\ Head(n.in) = kind BY DEF ShipTurn
<1>2. n \in Logons /\ n.in \in Seq(Kinds) BY <1>1, AtShip
<1>3. Holds(n.in, kind) /\ t \in Seq(Kinds) BY <1>1, <1>2, HoldsIs, DropsOne
<1>4. kind \notin {"welcome", "accepted"} => ~Opening(links[n.link], n) BY <1>1, OpeningShip
<1>5. Done(h) = e BY DEF Done
<1>6. e \in Logons /\ e.link = n.link /\ e.crypt = n.crypt /\ e.age = n.age /\ e.in = t /\ e.off = n.off
  <2> HIDE DEF t, n
  <2> QED BY <1>2, <1>3 DEF Logons
<1>7. Shrinks(n.in, t) BY <1>1 DEF Shrinks
<1> QED BY <1>1, <1>3, <1>4, <1>5, <1>6, <1>7

LEMMA ShipReceivesHolds ==
  ASSUME LinksInv, NEW h \in Ships, ShipReceives(h)
  PROVE  StaysSound
<1> DEFINE n == node[h].logon
           l == links[n.link]
<1>1. PICK kind \in Kinds :
        /\ ShipGets(h, kind)
        /\ ShipStep(h, [n EXCEPT !.in = IF n.off THEN <<kind>> ELSE Append(@, kind)],
                       [l EXCEPT !.toShip = Tail(@), !.lostS = @ \/ kind = "garbage"])
  BY DEF ShipReceives
<1> DEFINE r == IF n.off THEN <<kind>> ELSE Append(n.in, kind)
           q == Tail(l.toShip)
           b == (l.lostS \/ kind = "garbage")
           o == [n EXCEPT !.in = r]
           m == [l EXCEPT !.toShip = q, !.lostS = b]
<1>2. /\ Online(h) /\ l.toShip # <<>> /\ ~EndOf(l.toShip) /\ ShipStep(h, o, m)
      /\ kind = Read(Head(l.toShip), n.crypt, l.lostS)
  BY <1>1 DEF ShipGets
<1>3. /\ l \in LinkRecs /\ n \in Logons /\ n.link \in Links /\ l.ship = h /\ LinkOK(l, TRUE, n)
      /\ l.toShip \in Seq(Packets) /\ n.in \in Seq(Kinds)
  BY <1>2, AtShip, Zenon
<1>4. q \in Seq(Packets) BY <1>2, <1>3, DropsOne
<1>5. r \in Seq(Kinds)
  <2>1. <<kind>> \in Seq(Kinds) OBVIOUS
  <2>2. Append(n.in, kind) \in Seq(Kinds) BY <1>3, AddsOne
  <2> QED BY <2>1, <2>2
<1>6. o \in Logons /\ o.link = n.link /\ o.in = r /\ o.crypt = n.crypt /\ o.age = n.age /\ o.off = n.off
  <2> HIDE DEF n, r
  <2> QED BY <1>3, <1>5 DEF Logons
<1>7. /\ m \in LinkRecs /\ m.open = l.open /\ m.ship = l.ship /\ m.cut = l.cut /\ m.crypt = l.crypt
      /\ m.key = l.key /\ m.lostL = l.lostL /\ m.early = l.early /\ m.off = l.off /\ m.toLogin = l.toLogin /\ m.age = l.age
      /\ m.in = l.in /\ m.authed = l.authed /\ m.since = l.since /\ m.toShip = q /\ m.lostS = b
  <2>1. b \in BOOLEAN BY <1>3 DEF LinkRecs
  <2> HIDE DEF l, q, b
  <2> QED BY <1>3, <1>4, <2>1 DEF LinkRecs
<1>8. CASE n.off
  <2> HIDE DEF m, o, n, r, q, b
  <2>1. \A i \in 1 .. Len(m.toLogin) : m.toLogin[i].kind = "charts" => m.toLogin[i].key = "own"
    BY <1>3, <1>7 DEF LinkOK, Keyed
  <2>2. n.off /\ o.link = node[h].logon.link /\ node[h].logon.off /\ l = links[node[h].logon.link]
    BY <1>6, <1>8 DEF n
  <2> HIDE DEF l
  <2> QED BY <1>2, <1>6, <1>7, <2>1, <2>2, ShipStrays
<1>9. CASE ~n.off
  <2>1. o.in = Append(n.in, kind) BY <1>6, <1>9
  <2>2. LinkOK(m, TRUE, o)
    <3> HIDE DEF m, l, n, o, r, q
    <3> QED BY <1>2, <1>3, <1>6, <1>7, <2>1, LinkReceives DEF q
  <2>3. node' = [node EXCEPT ![h].logon = o] /\ links' = [links EXCEPT ![n.link] = m] /\ inuse' = inuse
    <3> HIDE DEF o, m
    <3> QED BY <1>2, <1>6 DEF ShipStep
  <2> HIDE DEF m, o, r, q, b
  <2> QED BY <1>2, <1>3, <1>6, <1>7, <2>2, <2>3, ShipGoesOn
<1> QED BY <1>8, <1>9

LEMMA IntroducedIs ==
  ASSUME NEW l \in LinkRecs, NEW key \in Crypts \cup {"again"},
         \A i \in 1 .. Len(l.toLogin) : l.toLogin[i].kind = "charts" => l.toLogin[i].key = "own"
  PROVE  LET m == PutL(l, "auth", key) IN
         /\ m \in LinkRecs /\ m.open = l.open /\ m.ship = l.ship /\ m.crypt = l.crypt /\ m.key = l.key
         /\ m.in = l.in /\ m.off = l.off
         /\ \A i \in 1 .. Len(m.toLogin) : m.toLogin[i].kind = "charts" => m.toLogin[i].key = "own"
<1> DEFINE x == Packet("auth", key)
           q == IF l.cut THEN l.toLogin ELSE Append(l.toLogin, x)
           m == PutL(l, "auth", key)
<1>1. "auth" \in Kinds \ {"garbage"} BY DEF Kinds
<1>2. m \in LinkRecs /\ m = [l EXCEPT !.toLogin = q] BY <1>1, PutLIs
<1>3. /\ m.open = l.open /\ m.ship = l.ship /\ m.crypt = l.crypt /\ m.key = l.key
      /\ m.in = l.in /\ m.off = l.off /\ m.toLogin = q
  <2> HIDE DEF q, m
  <2> QED BY <1>2 DEF LinkRecs
<1>4. \A i \in 1 .. Len(q) : q[i].kind = "charts" => q[i].key = "own"
  <2>1. x.kind = "auth" BY DEF Packet
  <2>2. l.toLogin \in Seq(Packets) BY DEF LinkRecs
  <2> HIDE DEF x
  <2>3. CASE l.cut BY <2>3
  <2>4. CASE ~l.cut
    <3>1. q = Append(l.toLogin, x) BY <2>4
    <3> HIDE DEF q
    <3>2. Len(q) = Len(l.toLogin) + 1 /\ \A i \in 1 .. Len(l.toLogin) : q[i] = l.toLogin[i] BY <2>2, <3>1
    <3>3. q[Len(l.toLogin) + 1] = x BY <2>2, <3>1
    <3>4. Len(l.toLogin) \in Nat BY <2>2
    <3> QED BY <2>1, <3>2, <3>3, <3>4
  <2> QED BY <2>3, <2>4
<1> HIDE DEF m, q
<1> QED BY <1>2, <1>3, <1>4 DEF m

LEMMA ShipIntroducesHolds ==
  ASSUME LinksInv, NEW h \in Ships, Welcomed(h) \/ Registered(h)
  PROVE  StaysSound
<1> DEFINE n == node[h].logon
           l == links[n.link]
           first == IF Welcomed(h) THEN "welcome" ELSE "accepted"
           kind == IF Welcomed(h) THEN "auth" ELSE "charts"
           key == IF Welcomed(h) THEN "public" ELSE "own"
           o == [Done(h) EXCEPT !.crypt = key]
           s == IF l.cut THEN l.toLogin ELSE Append(l.toLogin, Packet(kind, key))
           m == [l EXCEPT !.toLogin = s]
<1>1. ShipTurn(h, first) /\ ShipStep(h, o, Says(h, kind, key)) BY DEF Welcomed, Registered
<1>2. /\ Online(h) /\ n.in # <<>> /\ Head(n.in) = first
      /\ Done(h) \in Logons /\ Done(h).link = n.link /\ Done(h).age = n.age /\ Done(h).off = n.off
      /\ ~n.off => Done(h).in = Tail(n.in)
  BY <1>1, ShipTurnIs
<1>3. /\ l \in LinkRecs /\ n \in Logons /\ n.link \in Links /\ l.ship = h /\ LinkOK(l, TRUE, n)
      /\ l.toShip \in Seq(Packets) /\ l.toLogin \in Seq(Packets) /\ n.in \in Seq(Kinds)
  BY <1>2, AtShip
<1>4. kind \in Kinds \ {"garbage"} /\ key \in Crypts BY DEF Kinds, Crypts
<1>5. PutL(l, kind, key) = m /\ m \in LinkRecs
  <2> HIDE DEF l, kind, key
  <2>1. /\ PutL(l, kind, key) \in LinkRecs
        /\ PutL(l, kind, key) = [l EXCEPT !.toLogin = IF l.cut THEN l.toLogin ELSE Append(l.toLogin, Packet(kind, key))]
    BY <1>3, <1>4, PutLIs
  <2>2. PutL(l, kind, key) = m BY <2>1
  <2> QED BY <2>1, <2>2
<1>6. /\ o \in Logons /\ o.link = n.link /\ o.crypt = key /\ o.age = n.age /\ o.off = n.off
      /\ ~n.off => o.in = Tail(n.in)
  <2> HIDE DEF n, key
  <2> QED BY <1>2, <1>4 DEF Logons
<1>7. /\ m.open = l.open /\ m.ship = l.ship /\ m.cut = l.cut /\ m.crypt = l.crypt
      /\ m.key = l.key /\ m.lostL = l.lostL /\ m.lostS = l.lostS /\ m.early = l.early /\ m.off = l.off /\ m.age = l.age
      /\ m.in = l.in /\ m.authed = l.authed /\ m.since = l.since /\ m.toShip = l.toShip /\ m.toLogin = s
  <2> HIDE DEF l, s
  <2> QED BY <1>3 DEF LinkRecs
<1>8. /\ Head(n.in) \in {"welcome", "accepted"} /\ kind = (IF Head(n.in) = "welcome" THEN "auth" ELSE "charts")
      /\ key = (IF Head(n.in) = "welcome" THEN "public" ELSE "own")
  BY <1>2
<1>9. CASE ~n.off
  <2>1. LinkOK(m, TRUE, o)
    <3> HIDE DEF m, l, n, o, kind, key
    <3>1. m.toLogin = IF l.cut THEN l.toLogin ELSE Append(l.toLogin, Packet(kind, key)) BY <1>7 DEF s
    <3>2. m \in LinkRecs /\ n.in # <<>> BY <1>2, <1>5
    <3> HIDE DEF s
    <3> QED BY <1>3, <1>6, <1>7, <1>8, <1>9, <3>1, <3>2, LinkIntroduces
  <2>2. ShipStep(h, o, m)
    <3> HIDE DEF o, m
    <3> QED BY <1>1, <1>5, <1>9 DEF Says, Mine
  <2>3. node' = [node EXCEPT ![h].logon = o] /\ links' = [links EXCEPT ![n.link] = m] /\ inuse' = inuse
    <3> HIDE DEF o, m
    <3> QED BY <1>6, <2>2 DEF ShipStep
  <2> HIDE DEF m, o, kind, key
  <2> QED BY <1>2, <1>3, <1>5, <1>6, <1>7, <2>1, <2>3, ShipGoesOn
<1>10. CASE n.off
  <2> DEFINE once == PutL(l, "auth", "public")
             c == IF Welcomed(h) THEN PutL(once, "auth", "again") ELSE l
  <2>1. ShipStep(h, o, c)
    <3>2. Says(h, kind, key) = c
      <4>1. CASE Welcomed(h) BY <1>10, <4>1 DEF Says, Mine
      <4>2. CASE ~Welcomed(h) BY <1>10, <4>2 DEF Says, Mine
      <4> QED BY <4>1, <4>2
    <3> HIDE DEF o, c
    <3> QED BY <1>1, <3>2
  <2>2. /\ c \in LinkRecs /\ c.open = l.open /\ c.ship = l.ship /\ c.crypt = l.crypt /\ c.key = l.key
        /\ c.in = l.in /\ c.off = l.off
        /\ \A i \in 1 .. Len(c.toLogin) : c.toLogin[i].kind = "charts" => c.toLogin[i].key = "own"
    <3>1. \A i \in 1 .. Len(l.toLogin) : l.toLogin[i].kind = "charts" => l.toLogin[i].key = "own"
      BY <1>3, ChartsOwn
    <3> HIDE DEF l
    <3>2. /\ once \in LinkRecs /\ once.open = l.open /\ once.ship = l.ship /\ once.crypt = l.crypt
          /\ once.key = l.key /\ once.in = l.in /\ once.off = l.off
          /\ \A i \in 1 .. Len(once.toLogin) : once.toLogin[i].kind = "charts" => once.toLogin[i].key = "own"
      BY <1>3, <3>1, IntroducedIs DEF Crypts
    <3> HIDE DEF once
    <3>3. LET t == PutL(once, "auth", "again") IN
          /\ t \in LinkRecs /\ t.open = once.open /\ t.ship = once.ship /\ t.crypt = once.crypt
          /\ t.key = once.key /\ t.in = once.in /\ t.off = once.off
          /\ \A i \in 1 .. Len(t.toLogin) : t.toLogin[i].kind = "charts" => t.toLogin[i].key = "own"
      BY <3>2, IntroducedIs
    <3>4. CASE Welcomed(h) BY <3>2, <3>3, <3>4
    <3>5. CASE ~Welcomed(h) BY <1>3, <3>1, <3>5
    <3> QED BY <3>4, <3>5
  <2> HIDE DEF o, c, key, kind, l, n
  <2> QED BY <1>2, <1>6, <1>10, <2>1, <2>2, ShipStrays DEF l, n
<1> QED BY <1>9, <1>10

\* What a turn of ship h may do to its link l and its logon n.
Answers(h, n, l, m, o) ==
  /\ n = node[h].logon /\ l = links[n.link]
  /\ m \in LinkRecs /\ o \in Logons
  /\ m.open = l.open /\ m.ship = l.ship /\ m.cut = l.cut /\ m.crypt = l.crypt
  /\ m.key = l.key /\ m.lostL = l.lostL /\ m.lostS = l.lostS /\ m.age = l.age
  /\ m.in = l.in /\ m.toShip = l.toShip
  /\ (l.early => m.early) /\ m.off = l.off /\ (o.off => n.off)
  /\ o.link = n.link /\ Shrinks(n.in, o.in) /\ o.crypt = n.crypt /\ (o.age = n.age \/ o.age = 0)
  /\ \/ m.toLogin = l.toLogin
     \/ /\ ~l.cut
        /\ \E kind \in {"pong", "data"} : /\ m.toLogin = Append(l.toLogin, Packet(kind, n.crypt))
                                          /\ kind = "pong" => o.age = 0
  /\ Quiet(m) => ~Opening(l, n)

\* A turn of a registered ship, or one whose packet comes too early.
LEMMA ShipAnswers ==
  ASSUME LinksInv, NEW h \in Ships, Online(h), NEW n, NEW l, NEW m, NEW o,
         Answers(h, n, l, m, o), ShipStep(h, o, m)
  PROVE  StaysSound
<1>0. /\ n = node[h].logon /\ l = links[n.link]
      /\ m \in LinkRecs /\ o \in Logons
      /\ m.open = l.open /\ m.ship = l.ship /\ m.cut = l.cut /\ m.crypt = l.crypt
      /\ m.key = l.key /\ m.lostL = l.lostL /\ m.lostS = l.lostS /\ m.age = l.age
      /\ m.in = l.in /\ m.toShip = l.toShip
      /\ (l.early => m.early) /\ m.off = l.off /\ (o.off => n.off)
      /\ o.link = n.link /\ Shrinks(n.in, o.in) /\ o.crypt = n.crypt /\ (o.age = n.age \/ o.age = 0)
      /\ \/ m.toLogin = l.toLogin
         \/ /\ ~l.cut
            /\ \E kind \in {"pong", "data"} : /\ m.toLogin = Append(l.toLogin, Packet(kind, n.crypt))
                                              /\ kind = "pong" => o.age = 0
      /\ Quiet(m) => ~Opening(l, n)
  BY Zenon DEF Answers
<1>1. /\ l \in LinkRecs /\ n \in Logons /\ n.link \in Links /\ l.ship = h /\ LinkOK(l, TRUE, n)
      /\ n.in \in Seq(Kinds)
  BY <1>0, AtShip, Zenon
<1>2. LinkOK(m, TRUE, o)
  <2>1. LinkOK(l, TRUE, n) /\ (Quiet(m) /\ ~l.cut => ~Opening(l, n)) BY <1>0, <1>1, Zenon
  <2>2. CASE m.toLogin = l.toLogin
    <3>1. /\ m.off = l.off /\ (l.early => m.early) /\ (o.off => n.off)
          /\ o.crypt = n.crypt /\ (o.age = n.age \/ o.age = 0) /\ Shrinks(n.in, o.in)
      BY <1>0, Zenon
    <3>2. /\ m.open = l.open /\ m.ship = l.ship /\ m.cut = l.cut /\ m.crypt = l.crypt
          /\ m.key = l.key /\ m.lostL = l.lostL /\ m.lostS = l.lostS /\ m.age = l.age
          /\ m.in = l.in /\ m.toShip = l.toShip /\ m \in LinkRecs /\ o \in Logons
      BY <1>0, Zenon
    <3> QED BY <1>1, <2>1, <2>2, <3>1, <3>2, LinkWorks
  <2>3. CASE ~l.cut /\ m.toLogin = Append(l.toLogin, Packet("pong", n.crypt)) /\ o.age = 0
    BY <1>0, <1>1, <2>1, <2>3, LinkWorks
  <2>4. CASE ~l.cut /\ m.toLogin = Append(l.toLogin, Packet("data", n.crypt))
    BY <1>0, <1>1, <2>1, <2>4, LinkWorks, ZenonT(60)
  <2> QED BY <1>0, <2>2, <2>3, <2>4, Zenon
<1>3. node' = [node EXCEPT ![h].logon = o] /\ links' = [links EXCEPT ![n.link] = m] /\ inuse' = inuse
  BY <1>0, Zenon DEF ShipStep
<1> QED BY <1>0, <1>1, <1>2, <1>3, ShipGoesOn, Zenon

LEMMA ShipWorksHolds ==
  ASSUME LinksInv, NEW h \in Ships, Ready(h) \/ Ping(h) \/ ShipIgnores(h)
  PROVE  StaysSound
<1> DEFINE n == node[h].logon
           l == links[n.link]
           e == Done(h)
<1>1. CASE Ready(h)
  <2>1. /\ Online(h) /\ ~Opening(l, n) /\ e \in Logons
        /\ e.link = n.link /\ e.crypt = n.crypt /\ e.age = n.age /\ e.off = n.off /\ Shrinks(n.in, e.in)
    BY <1>1, ShipTurnIs DEF Ready
  <2>2. l \in LinkRecs BY <2>1, AtShip
  <2> DEFINE o == [e EXCEPT !.ready = TRUE]
  <2>3. o \in Logons /\ o.link = n.link /\ o.crypt = n.crypt /\ o.age = n.age /\ o.in = e.in /\ o.off = n.off
    <3> HIDE DEF n, e
    <3> QED BY <2>1 DEF Logons
  <2>4. ShipStep(h, o, l) BY <1>1 DEF Ready, Mine
  <2> HIDE DEF o, e
  <2>5. Answers(h, n, l, l, o) BY <2>1, <2>2, <2>3 DEF Answers
  <2> QED BY <2>1, <2>4, <2>5, ShipAnswers
<1>2. CASE Ping(h)
  <2>1. /\ Online(h) /\ ~Opening(l, n) /\ e \in Logons
        /\ e.link = n.link /\ e.crypt = n.crypt /\ e.off = n.off /\ Shrinks(n.in, e.in)
    BY <1>2, ShipTurnIs DEF Ping
  <2>2. l \in LinkRecs /\ n.crypt \in Crypts BY <2>1, AtShip DEF Logons
  <2> DEFINE o == [e EXCEPT !.age = 0]
             s == IF l.cut \/ n.off THEN l.toLogin ELSE Append(l.toLogin, Packet("pong", n.crypt))
             m == [l EXCEPT !.toLogin = s]
  <2>3. o \in Logons /\ o.link = n.link /\ o.crypt = n.crypt /\ o.age = 0 /\ o.in = e.in /\ o.off = n.off
    <3>1. 0 \in Nat OBVIOUS
    <3> HIDE DEF n, e
    <3> QED BY <2>1, <3>1, SMTT(30) DEF Logons
  <2>4. Says(h, "pong", n.crypt) = m /\ m \in LinkRecs
    <3>1. "pong" \in Kinds \ {"garbage"} BY DEF Kinds
    <3>2. Says(h, "pong", n.crypt) = IF n.off THEN l ELSE PutL(l, "pong", n.crypt) BY DEF Says, Mine
    <3> HIDE DEF l, n
    <3>3. CASE n.off
      <4>1. m = l BY <2>2, <3>3 DEF LinkRecs
      <4> QED BY <2>2, <3>2, <3>3, <4>1
    <3>4. CASE ~n.off
      <4>1. m = [l EXCEPT !.toLogin = IF l.cut THEN l.toLogin ELSE Append(l.toLogin, Packet("pong", n.crypt))]
        BY <3>4
      <4> QED BY <2>2, <3>1, <3>2, <3>4, <4>1, PutLIs, SMTT(60)
    <3> QED BY <3>3, <3>4
  <2>5. ShipStep(h, o, m) BY <1>2, <2>4 DEF Ping, Mine
  <2>6. /\ m.open = l.open /\ m.ship = l.ship /\ m.cut = l.cut /\ m.crypt = l.crypt
        /\ m.key = l.key /\ m.lostL = l.lostL /\ m.lostS = l.lostS /\ m.early = l.early /\ m.off = l.off /\ m.age = l.age
        /\ m.in = l.in /\ m.toShip = l.toShip /\ m.toLogin = s
    <3> HIDE DEF l, s
    <3> QED BY <2>2 DEF LinkRecs
  <2>7. \/ m.toLogin = l.toLogin
        \/ ~l.cut /\ \E kind \in {"pong", "data"} : /\ m.toLogin = Append(l.toLogin, Packet(kind, n.crypt))
                                                    /\ kind = "pong" => o.age = 0
    <3> HIDE DEF m, o, l, n
    <3> QED BY <2>3, <2>6
  <2>8. \/ m.toLogin = l.toLogin
        \/ /\ ~l.cut
           /\ \E kind \in {"pong", "data"} : /\ m.toLogin = Append(l.toLogin, Packet(kind, n.crypt))
                                             /\ kind = "pong" => o.age = 0
    <3> HIDE DEF m, o, l, n
    <3> QED BY <2>7, Zenon
  <2>9. (l.early => m.early) /\ m.off = l.off /\ (o.off => n.off) /\ (Quiet(m) => ~Opening(l, n))
    <3> HIDE DEF m, o, l, n
    <3> QED BY <2>1, <2>3, <2>6, Zenon
  <2>10. /\ o.link = n.link /\ Shrinks(n.in, o.in) /\ o.crypt = n.crypt /\ (o.age = n.age \/ o.age = 0)
    <3> HIDE DEF m, o, l, n, e
    <3> QED BY <2>1, <2>3, Zenon
  <2>11. n = node[h].logon /\ l = links[n.link] OBVIOUS
  <2> HIDE DEF o, e, m, s, l, n
  <2>12. Answers(h, n, l, m, o) BY <2>3, <2>4, <2>6, <2>8, <2>9, <2>10, <2>11, Zenon DEF Answers
  <2> QED BY <2>1, <2>5, <2>12, ShipAnswers
<1>3. CASE ShipIgnores(h)
  <2>1. PICK kind \in {"notice", "garbage"} : ShipTurn(h, kind) BY <1>3 DEF ShipIgnores
  <2>2. /\ Online(h) /\ ~Opening(l, n) /\ e \in Logons
        /\ e.link = n.link /\ e.crypt = n.crypt /\ e.age = n.age /\ e.off = n.off /\ Shrinks(n.in, e.in)
    BY <2>1, ShipTurnIs
  <2>3. l \in LinkRecs BY <2>2, AtShip
  <2>4. ShipStep(h, e, l) BY <1>3 DEF ShipIgnores, Mine
  <2> HIDE DEF e
  <2>5. Answers(h, n, l, l, e) BY <2>2, <2>3 DEF Answers
  <2> QED BY <2>2, <2>4, <2>5, ShipAnswers
<1> QED BY <1>1, <1>2, <1>3

LEMMA SendHolds ==
  ASSUME LinksInv, NEW h \in Ships, Send(h)
  PROVE  StaysSound
<1> DEFINE n == node[h].logon
           l == links[n.link]
           ahead == n.crypt # "own"
           s == IF l.cut THEN l.toLogin ELSE Append(l.toLogin, Packet("data", n.crypt))
           b == (l.early \/ ahead)
           c == l.traffic + 1
           m == [l EXCEPT !.toLogin = s, !.early = b, !.traffic = c]
<1>1. /\ Online(h)
      /\ ShipStep(h, n, [PutL(l, "data", n.crypt) EXCEPT !.early = @ \/ ahead, !.traffic = @ + 1])
  BY DEF Send, Mine
<1>2. l \in LinkRecs /\ n \in Logons /\ n.crypt \in Crypts /\ l.toLogin \in Seq(Packets)
  BY <1>1, AtShip DEF Logons
<1>3. PutL(l, "data", n.crypt) = [l EXCEPT !.toLogin = s] /\ s \in Seq(Packets) /\ b \in BOOLEAN /\ c \in Nat
  <2>1. "data" \in Kinds \ {"garbage"} BY DEF Kinds
  <2>2. b \in BOOLEAN /\ c \in Nat BY <1>2 DEF LinkRecs
  <2> HIDE DEF l, n, b, c
  <2>3. PutL(l, "data", n.crypt) = [l EXCEPT !.toLogin = s] /\ PutL(l, "data", n.crypt) \in LinkRecs
    BY <1>2, <2>1, PutLIs
  <2>4. [l EXCEPT !.toLogin = s].toLogin = s /\ [l EXCEPT !.toLogin = s].toLogin \in Seq(Packets)
    <3> HIDE DEF s
    <3> QED BY <1>2, <2>3 DEF LinkRecs
  <2> QED BY <2>2, <2>3, <2>4
<1>4. [PutL(l, "data", n.crypt) EXCEPT !.early = @ \/ ahead, !.traffic = @ + 1] = m
  <2>1. [[l EXCEPT !.toLogin = s] EXCEPT !.early = @ \/ ahead, !.traffic = @ + 1] = m
    <3> HIDE DEF l, s, ahead
    <3> QED BY <1>2 DEF LinkRecs
  <2> QED BY <1>3, <2>1
<1>5. /\ m \in LinkRecs /\ m.open = l.open /\ m.ship = l.ship /\ m.cut = l.cut /\ m.crypt = l.crypt
      /\ m.key = l.key /\ m.lostL = l.lostL /\ m.lostS = l.lostS /\ m.early = b /\ m.off = l.off /\ m.age = l.age
      /\ m.in = l.in /\ m.toShip = l.toShip /\ m.toLogin = s
  <2> HIDE DEF l, s, b, c
  <2> QED BY <1>2, <1>3 DEF LinkRecs
<1>6. \/ m.toLogin = l.toLogin
      \/ ~l.cut /\ \E kind \in {"pong", "data"} : /\ m.toLogin = Append(l.toLogin, Packet(kind, n.crypt))
                                                  /\ kind = "pong" => n.age = 0
  <2> HIDE DEF m, l, n
  <2> QED BY <1>5
<1>7. Quiet(m) => ~Opening(l, n) BY <1>5, OpeningShip DEF Quiet
<1>9. ShipStep(h, n, m) BY <1>1, <1>4
<1>10. Shrinks(n.in, n.in) BY DEF Shrinks
<1>11. n = node[h].logon /\ l = links[n.link] OBVIOUS
<1>12. l.early => m.early BY <1>5
<1>13. \/ m.toLogin = l.toLogin
       \/ /\ ~l.cut
          /\ \E kind \in {"pong", "data"} : /\ m.toLogin = Append(l.toLogin, Packet(kind, n.crypt))
                                            /\ kind = "pong" => n.age = 0
  <2> HIDE DEF m, l, n
  <2> QED BY <1>6, Zenon
<1> HIDE DEF m, l, n, b, s, c, ahead
<1>14. Answers(h, n, l, m, n) BY <1>2, <1>5, <1>7, <1>10, <1>11, <1>12, <1>13, Zenon DEF Answers
<1> QED BY <1>1, <1>9, <1>14, ShipAnswers

\* initialize_logon, of the main loop and of the handler.
LEMMA LogonLost ==
  /\ NoLogon \in Logons /\ NoLogon.link = None
  /\ NoLogonOff \in Logons /\ NoLogonOff.link = None
<1>1. <<>> \in Seq(Kinds) BY EmptySeq
<1>2. NoLogon \in Logons /\ NoLogon.link = None BY <1>1 DEF NoLogon, Logons, Crypts
<1> QED BY <1>2 DEF NoLogonOff, Logons

LEMMA ShipEnds ==
  ASSUME LinksInv, NEW h \in Ships,
         ShipReadsEnd(h) \/ ShipRejects(h) \/ ShipTimeout(h) \/ ShipOverflows(h) \/ Refused(h)
  PROVE  StaysSound
<1>1. Online(h) BY DEF ShipReadsEnd, Refused, ShipRejects, ShipTimeout, ShipOverflows, ShipTurn, ShipGets
<1>2. node[h] \in NodeRecs BY <1>1, AtShip
<1>3. PICK o \in {NoLogon, NoLogonOff} : Leave(h, [node[h] EXCEPT !.logon = o])
  BY DEF ShipReadsEnd, Refused, ShipRejects, ShipTimeout, ShipOverflows, initialize_logon
<1> DEFINE r == [node[h] EXCEPT !.logon = o]
<1>4. o \in Logons /\ o.link = None BY LogonLost
<1>5. r \in NodeRecs /\ r.logon.link = None
  <2>1. r \in NodeRecs /\ r.logon = o BY <1>2, <1>4 DEF NodeRecs
  <2> QED BY <1>4, <2>1
<1> HIDE DEF r
<1>6. Leave(h, r) BY <1>3 DEF r
<1> QED BY <1>1, <1>5, <1>6, ShipGoesOff

LEMMA ShipDies ==
  ASSUME LinksInv, NEW h \in Ships, Online(h), NEW run \in {"down", "shut_out"},
         Leave(h, [run |-> run, logon |-> NoLogon])
  PROVE  StaysSound
<1> DEFINE r == [run |-> run, logon |-> NoLogon]
<1>1. r \in NodeRecs /\ r.logon.link = None BY LogonLost DEF NodeRecs
<1>2. Leave(h, r) OBVIOUS
<1> HIDE DEF r
<1> QED BY <1>1, <1>2, ShipGoesOff

LEMMA ShipStops ==
  ASSUME LinksInv, NEW h \in Ships, KeyInUse(h) \/ Crash(h)
  PROVE  StaysSound
<1>1. CASE KeyInUse(h) BY <1>1, ShipDies DEF KeyInUse, ShipTurn
<1>2. CASE Crash(h) BY <1>2, ShipDies DEF Crash
<1> QED BY <1>1, <1>2

LEMMA ShipMisreadsHolds ==
  ASSUME LinksInv, NEW h \in Ships, ShipMisreads(h)
  PROVE  StaysSound
<1> DEFINE n == node[h].logon
           l == links[n.link]
           o1 == [n EXCEPT !.in = <<"garbage">>]
           o2 == [n EXCEPT !.in = <<>>, !.off = FALSE]
<1>1. /\ Online(h) /\ n.off
      /\ ShipStep(h, o1, l) \/ ShipStep(h, o2, l) \/ Leave(h, [run |-> "down", logon |-> NoLogon])
  BY DEF ShipMisreads, Mine
<1>2. l \in LinkRecs /\ n \in Logons /\ LinkOK(l, TRUE, n) BY <1>1, AtShip
<1>3. o1 \in Logons /\ o1.link = n.link /\ o2 \in Logons /\ o2.link = n.link
  <2>1. <<>> \in Seq(Kinds) /\ <<"garbage">> \in Seq(Kinds)
    <3>1. "garbage" \in Kinds BY DEF Kinds
    <3> QED BY <3>1, EmptySeq
  <2> HIDE DEF n
  <2> QED BY <1>2, <2>1 DEF Logons
<1>4. \A i \in 1 .. Len(l.toLogin) : l.toLogin[i].kind = "charts" => l.toLogin[i].key = "own"
  BY <1>2, ChartsOwn
<1>5. n.off /\ n.link = node[h].logon.link /\ l = links[node[h].logon.link] BY <1>1
<1> HIDE DEF l, o1, o2
<1>6. CASE ShipStep(h, o1, l) BY <1>1, <1>2, <1>3, <1>4, <1>5, <1>6, ShipStrays
<1>7. CASE ShipStep(h, o2, l) BY <1>1, <1>2, <1>3, <1>4, <1>5, <1>7, ShipStrays
<1>8. CASE Leave(h, [run |-> "down", logon |-> NoLogon]) BY <1>1, <1>8, ShipDies
<1> QED BY <1>1, <1>6, <1>7, <1>8

LEMMA StartHolds ==
  ASSUME LinksInv, NEW h \in Ships, Start(h)
  PROVE  StaysSound
<1>1. /\ node[h].run = "down" /\ links' = links /\ inuse' = inuse
      /\ node' = [node EXCEPT ![h] = Started]
  BY DEF Start
<1>2. /\ node \in [Ships -> NodeRecs] /\ links \in [Links -> LinkRecs] /\ Sites
      /\ None \notin Links /\ None \notin Ships
  BY ShipLinkAssumption DEF LinksInv, Types
<1>3. Started \in NodeRecs /\ Started.logon.link = None /\ Started.run = "up"
  <2>1. <<>> \in Seq(Kinds) BY EmptySeq
  <2>2. [NoLogon EXCEPT !.wait = RetryWithin] \in Logons
        /\ [NoLogon EXCEPT !.wait = RetryWithin].link = None
    BY <2>1 DEF NoLogon, Logons, Crypts, RetryWithin
  <2> QED BY <2>2 DEF Started, NodeRecs
<1>4. node' \in [Ships -> NodeRecs] /\ node'[h] = Started /\ \A g \in Ships \ {h} : node'[g] = node[g]
  BY <1>1, <1>2, <1>3
<1>5. ASSUME NEW v \in Links
      PROVE  On(v)' = On(v) /\ LinkOK(links[v], On(v), Logon(v)')
  <2>1. links[v].ship \in Ships \cup {None} /\ LinkOK(links[v], On(v), Logon(v)) BY <1>2 DEF LinksInv, LinkRecs
  <2>2. CASE links[v].ship \in Ships
    <3>1. CASE links[v].ship # h
      <4>1. node'[links[v].ship] = node[links[v].ship] BY <1>4, <2>2, <3>1
      <4> QED BY <1>1, <2>1, <4>1 DEF On, Logon
    <3>2. CASE links[v].ship = h
      <4>1. node[h].logon.link = None /\ node'[h].logon.link = None BY <1>1, <1>2, <1>3, <1>4 DEF Sites
      <4>2. On(v) = FALSE /\ On(v)' = FALSE BY <1>1, <1>2, <3>2, <4>1 DEF On
      <4>3. LinkOK(links[v], FALSE, Logon(v)) BY <2>1, <4>2
      <4>4. LinkOK(links[v], FALSE, Logon(v)') BY <4>3, LinkOff
      <4> QED BY <4>2, <4>4
    <3> QED BY <3>1, <3>2
  <2>3. CASE links[v].ship = None
    <3>1. On(v) = FALSE /\ On(v)' = FALSE BY <1>1, <2>3 DEF On
    <3>2. LinkOK(links[v], FALSE, Logon(v)) BY <2>1, <3>1
    <3>3. LinkOK(links[v], FALSE, Logon(v)') BY <3>2, LinkOff
    <3> QED BY <1>2, <2>3, <3>1, <3>3
  <2> QED BY <2>1, <2>2, <2>3
<1>6. LinksInv'
  <2>1. Types' BY <1>1, <1>2, <1>4 DEF Types
  <2>2. Sites'
    <3>1. \A g \in Ships : node'[g].logon.link # None => node'[g] = node[g] BY <1>3, <1>4
    <3> QED BY <1>1, <1>2, <3>1 DEF Sites
  <2>3. \A v \in Links : LinkOK(links'[v], On(v)', Logon(v)')
    <3>1. ASSUME NEW v \in Links PROVE LinkOK(links'[v], On(v)', Logon(v)')
      <4>1. links'[v] = links[v] /\ On(v)' = On(v) /\ LinkOK(links[v], On(v), Logon(v)') BY <1>1, <1>5
      <4> QED BY <4>1
    <3> QED BY <3>1
  <2> QED BY <2>1, <2>2, <2>3 DEF LinksInv
<1>7. KeysKept BY <1>1 DEF KeysKept, KeysTaken, HasHolder
<1> QED BY <1>6, <1>7 DEF StaysSound

LEMMA TickHolds ==
  ASSUME LinksInv, Tick
  PROVE  StaysSound
<1> DEFINE aged(l) == IF l.open
                      THEN [l EXCEPT !.age = @ + 1, !.since = AtMost(@, AuthLimit), !.traffic = 0]
                      ELSE [l EXCEPT !.traffic = 0]
           older(h) == IF Online(h) THEN [node[h] EXCEPT !.logon.age = @ + 1]
                       ELSE [node[h] EXCEPT !.logon.wait = AtMost(@, RetryWithin)]
<1>1. /\ links' = [w \in Links |-> aged(links[w])] /\ node' = [h \in Ships |-> older(h)]
      /\ inuse' = inuse
      /\ \A w \in Links : links[w].open =>
           links[w].in = <<>> /\ links[w].toLogin = <<>> /\ ~LoginExpired(links[w])
      /\ \A h \in Ships : Online(h) => /\ node[h].logon.in = <<>> \/ node[h].logon.off
                                       /\ links[node[h].logon.link].toShip = <<>>
  BY DEF Tick, Mine
<1>2. /\ node \in [Ships -> NodeRecs] /\ links \in [Links -> LinkRecs] /\ Sites
      /\ None \notin Links /\ None \notin Ships
  BY ShipLinkAssumption DEF LinksInv, Types
<1>3. ASSUME NEW v \in Links
      PROVE  LET l == links[v]
                 m == links'[v]
             IN /\ m \in LinkRecs /\ m.open = l.open /\ m.ship = l.ship /\ m.cut = l.cut
                /\ m.crypt = l.crypt /\ m.key = l.key /\ m.lostL = l.lostL /\ m.lostS = l.lostS
                /\ m.early = l.early /\ m.off = l.off /\ m.in = l.in /\ m.toLogin = l.toLogin /\ m.toShip = l.toShip
                /\ l.open => m.age = l.age + 1 /\ l.age <= TimeoutAfter
  <2> DEFINE l == links[v]
             m == links'[v]
  <2>1. l \in LinkRecs /\ m = aged(l) /\ (l.open => ~LoginExpired(l)) BY <1>1, <1>2
  <2>2. l.age \in Nat /\ l.since \in Nat BY <2>1 DEF LinkRecs
  <2>3. l.open => l.age <= TimeoutAfter BY <2>1, <2>2 DEF LoginExpired, TimeoutAfter
  <2> DEFINE a == l.age + 1
             b == AtMost(l.since, AuthLimit)
  <2>4. a \in Nat /\ b \in Nat BY <2>2 DEF AtMost, AuthLimit
  <2>5. m = IF l.open THEN [l EXCEPT !.age = a, !.since = b, !.traffic = 0] ELSE [l EXCEPT !.traffic = 0]
    BY <2>1
  <2> HIDE DEF l, a, b, m, aged, older
  <2>6. CASE l.open
    <3>1. m = [l EXCEPT !.age = a, !.since = b, !.traffic = 0] BY <2>5, <2>6
    <3>2. /\ m \in LinkRecs /\ m.open = l.open /\ m.ship = l.ship /\ m.cut = l.cut
          /\ m.crypt = l.crypt /\ m.key = l.key /\ m.lostL = l.lostL /\ m.lostS = l.lostS
          /\ m.early = l.early /\ m.off = l.off /\ m.in = l.in /\ m.toLogin = l.toLogin /\ m.toShip = l.toShip
          /\ m.age = a
      <4>1. l \in LinkRecs BY <2>1
      <4> QED BY <2>4, <3>1, <4>1 DEF LinkRecs
    <3> QED BY <2>3, <2>6, <3>2 DEF a, l, m
  <2>7. CASE ~l.open
    <3>1. m = [l EXCEPT !.traffic = 0] BY <2>5, <2>7
    <3>2. /\ m \in LinkRecs /\ m.open = l.open /\ m.ship = l.ship /\ m.cut = l.cut
          /\ m.crypt = l.crypt /\ m.key = l.key /\ m.lostL = l.lostL /\ m.lostS = l.lostS
          /\ m.early = l.early /\ m.off = l.off /\ m.in = l.in /\ m.toLogin = l.toLogin /\ m.toShip = l.toShip
      <4>1. l \in LinkRecs BY <2>1
      <4> QED BY <3>1, <4>1 DEF LinkRecs
    <3> QED BY <2>7, <3>2 DEF l, m
  <2> QED BY <2>6, <2>7
<1>4. ASSUME NEW h \in Ships
      PROVE  LET n == node[h].logon
                 o == node'[h].logon
             IN /\ node'[h] \in NodeRecs /\ node'[h].run = node[h].run
                /\ o.link = n.link /\ o.crypt = n.crypt /\ o.in = n.in /\ o.off = n.off
                /\ Online(h) => o.age = n.age + 1
  <2> DEFINE n == node[h].logon
  <2>1. node'[h] = older(h) /\ node[h] \in NodeRecs /\ n \in Logons BY <1>1, <1>2 DEF NodeRecs
  <2> DEFINE a == n.age + 1
             b == AtMost(n.wait, RetryWithin)
             o == IF Online(h) THEN [n EXCEPT !.age = a] ELSE [n EXCEPT !.wait = b]
  <2>2. a \in Nat /\ b \in Nat BY <2>1 DEF AtMost, RetryWithin, Logons
  <2>3. node'[h] = [node[h] EXCEPT !.logon = o] BY <2>1
  <2>4. /\ o \in Logons /\ o.link = n.link /\ o.crypt = n.crypt /\ o.in = n.in /\ o.off = n.off
        /\ Online(h) => o.age = a
    <3> HIDE DEF n, a, b
    <3> QED BY <2>1, <2>2 DEF Logons
  <2>5. node'[h] \in NodeRecs /\ node'[h].logon = o /\ node'[h].run = node[h].run
    <3> HIDE DEF o
    <3> QED BY <2>1, <2>3, <2>4 DEF NodeRecs
  <2> HIDE DEF o
  <2> QED BY <2>4, <2>5
<1>5. ASSUME NEW v \in Links
      PROVE  On(v)' = On(v) /\ LinkOK(links'[v], On(v)', Logon(v)')
  <2>1. /\ links[v].ship \in Ships \cup {None} /\ links[v] \in LinkRecs /\ links'[v].ship = links[v].ship
        /\ On(v) \in BOOLEAN /\ LinkOK(links[v], On(v), Logon(v))
    BY <1>2, <1>3, AtLogin DEF LinkRecs
  <2>2. CASE links[v].ship \in Ships
    <3> DEFINE h == links[v].ship
               n == Logon(v)
               o == Logon(v)'
    <3>1. n = node[h].logon /\ o = node'[h].logon BY <2>1 DEF Logon
    <3>2. o.link = n.link /\ o.crypt = n.crypt /\ o.in = n.in /\ o.off = n.off /\ (Online(h) => o.age = n.age + 1)
      BY <1>4, <2>2, <3>1
    <3>3. On(v)' = On(v) BY <1>2, <2>1, <2>2, <3>1, <3>2 DEF On
    <3>4. On(v) => /\ Online(h) /\ n \in Logons /\ (n.in = <<>> \/ n.off) /\ links[v].toShip = <<>>
      <4>1. SUFFICES ASSUME On(v) PROVE Online(h) /\ n \in Logons /\ (n.in = <<>> \/ n.off) /\ links[v].toShip = <<>>
        OBVIOUS
      <4>2. n.link = v /\ v # None BY <1>2, <3>1, <4>1 DEF On
      <4>3. Online(h) BY <1>2, <2>2, <3>1, <4>2 DEF Sites, Online
      <4>4. n \in Logons BY <2>2, <3>1, <4>3, AtShip
      <4>5. (node[h].logon.in = <<>> \/ node[h].logon.off) /\ links[node[h].logon.link].toShip = <<>> BY <1>1, <2>2, <4>3
      <4> QED BY <3>1, <4>2, <4>3, <4>4, <4>5
    <3>5. links[v].open => links[v].in = <<>> /\ links[v].toLogin = <<>> BY <1>1
    <3>6. LinkOK(links'[v], On(v), o)
      <4> DEFINE l == links[v]
                 m == links'[v]
      <4>1. /\ m \in LinkRecs /\ m.open = l.open /\ m.ship = l.ship /\ m.cut = l.cut
            /\ m.crypt = l.crypt /\ m.key = l.key /\ m.lostL = l.lostL /\ m.lostS = l.lostS
            /\ m.early = l.early /\ m.off = l.off /\ m.in = l.in /\ m.toLogin = l.toLogin /\ m.toShip = l.toShip
            /\ l.open => m.age = l.age + 1
        BY <1>3
      <4>2. CASE On(v) /\ n.off
        <5> HIDE DEF l, m, n, o, h
        <5>1. On(v) = TRUE BY <2>1, <4>2
        <5>2. LinkOK(l, TRUE, n) BY <2>1, <5>1 DEF l, n
        <5>3. l \in LinkRecs BY <2>1 DEF l
        <5>5. \A i \in 1 .. Len(m.toLogin) : m.toLogin[i].kind = "charts" => m.toLogin[i].key = "own"
          BY <4>1, <5>2 DEF LinkOK, Keyed
        <5>4. LinkOK(m, TRUE, o) BY <4>1, <4>2, <5>2, <5>3, <5>5, LinkAstray
        <5> QED BY <5>1, <5>4 DEF m
      <4>3. CASE ~(On(v) /\ n.off)
        <5> HIDE DEF l, m, n, o, h
        <5> QED BY <2>1, <3>2, <3>4, <3>5, <4>1, <4>3, LinkAges DEF l, m, n
      <4> QED BY <4>2, <4>3
    <3> QED BY <2>2, <3>2, <3>3, <3>6
  <2>3. CASE links[v].ship = None
    <3>1. On(v) = FALSE /\ On(v)' = FALSE BY <2>1, <2>3 DEF On
    <3>2. LinkOK(links'[v], FALSE, Logon(v)')
      <4> DEFINE l == links[v]
                 m == links'[v]
      <4>1. /\ m \in LinkRecs /\ m.open = l.open /\ m.ship = l.ship /\ m.cut = l.cut
            /\ m.crypt = l.crypt /\ m.key = l.key /\ m.lostL = l.lostL /\ m.lostS = l.lostS
            /\ m.early = l.early /\ m.off = l.off /\ m.in = l.in /\ m.toLogin = l.toLogin /\ m.toShip = l.toShip
            /\ l.open => m.age = l.age + 1
        BY <1>3
      <4>2. l.open => l.in = <<>> /\ l.toLogin = <<>> BY <1>1
      <4>3. l \in LinkRecs /\ LinkOK(l, FALSE, Logon(v)) BY <2>1, <3>1
      <4> HIDE DEF l, m
      <4> QED BY <4>1, <4>2, <4>3, LinkAges DEF m
    <3> QED BY <1>2, <2>3, <3>1, <3>2
  <2> QED BY <2>1, <2>2, <2>3
<1>6. LinksInv'
  <2>1. Types'
    <3>1. links' \in [Links -> LinkRecs]
      <4> HIDE DEF aged
      <4> QED BY <1>1, <1>3
    <3>2. node' \in [Ships -> NodeRecs]
      <4> HIDE DEF older
      <4> QED BY <1>1, <1>4
    <3> QED BY <3>1, <3>2 DEF Types
  <2>2. Sites'
    <3>1. \A h \in Ships : node[h].logon.link \in Links \cup {None} BY <1>2 DEF NodeRecs, Logons
    <3> QED BY <1>2, <1>3, <1>4, <3>1 DEF Sites
  <2> QED BY <1>5, <2>1, <2>2 DEF LinksInv
<1>7. KeysKept
  <2>1. \A v \in Links : links[v].open /\ links[v].crypt = "own" /\ links[v].key \in inuse'
           => links'[v].open /\ links'[v].crypt = "own" /\ links'[v].key = links[v].key
    BY <1>3
  <2> QED BY <1>1, <2>1, KeysHeld
<1> QED BY <1>6, <1>7 DEF StaysSound

----------------------------------------------------------------------------
(* Every behaviour                                                         *)

LEMMA LinksStart ==
  ASSUME LinkInit
  PROVE  LinksInv /\ KeysTaken
<1>1. /\ links = [w \in Links |-> NoLink] /\ inuse = {} /\ node = [h \in Ships |-> Started]
      /\ None \notin Ships /\ None \notin Links
  BY ShipLinkAssumption DEF LinkInit
<1>2. Started \in NodeRecs /\ Started.logon.link = None /\ Started.run = "up"
  <2>1. <<>> \in Seq(Kinds) BY EmptySeq
  <2>2. [NoLogon EXCEPT !.wait = RetryWithin] \in Logons
        /\ [NoLogon EXCEPT !.wait = RetryWithin].link = None
    BY <2>1 DEF NoLogon, Logons, Crypts, RetryWithin
  <2> QED BY <2>2 DEF Started, NodeRecs
<1>3. \A v \in Links : /\ links[v] = NoLink /\ links[v].ship = None /\ ~links[v].open
                       /\ ~links[v].early /\ links[v].toShip = <<>>
  BY <1>1 DEF NoLink
<1>4. Types BY <1>1, <1>2, LinkFree DEF Types
<1>5. Sites BY <1>1, <1>2, <1>3 DEF Sites
<1>6. \A v \in Links : On(v) = FALSE BY <1>3 DEF On
<1>7. \A v \in Links : LinkOK(links[v], On(v), Logon(v)) BY <1>3, <1>6, LinkFree
<1>8. KeysTaken BY <1>1 DEF KeysTaken
<1> QED BY <1>4, <1>5, <1>7, <1>8 DEF LinksInv

LEMMA LinksGoOn ==
  ASSUME LinksInv, [LinkNext]_linkVars
  PROVE  StaysSound
<1>1. CASE \E w \in Links : LinkLogin(w) \/ TestFails(w) \/ Cut(w)
  <2>1. PICK w \in Links : LinkLogin(w) \/ TestFails(w) \/ Cut(w) BY <1>1
  <2>2. CASE LoginReads(w) BY <2>2, LoginReadsHolds
  <2>3. CASE LoginReadsEnd(w) \/ LoginRefuses(w) \/ LoginRejects(w) \/ LoginTimeout(w) BY <2>3, LoginEnds
  <2>4. CASE AuthenticateShip(w) BY <2>4, AuthenticateShipHolds
  <2>5. CASE SendCharts(w) \/ Pong(w) \/ LoginIgnores(w) \/ LoginPings(w) BY <2>5, LoginServesHolds
  <2>6. CASE TestFails(w) BY <2>6, TestFailsHolds
  <2>7. CASE Cut(w) BY <2>7, CutHolds
  <2> QED BY <2>1, <2>2, <2>3, <2>4, <2>5, <2>6, <2>7 DEF LinkLogin
<1>2. CASE \E h \in Ships : LinkShip(h) \/ Send(h) \/ Crash(h)
  <2>1. PICK h \in Ships : LinkShip(h) \/ Send(h) \/ Crash(h) BY <1>2
  <2>2. CASE reconnect_logon(h) BY <2>2, ShipComesOn DEF StaysSound
  <2>3. CASE ShipReceives(h) BY <2>3, ShipReceivesHolds
  <2>4. CASE ShipReadsEnd(h) \/ ShipRejects(h) \/ ShipTimeout(h) \/ ShipOverflows(h) \/ Refused(h)
    BY <2>4, ShipEnds
  <2>5. CASE Welcomed(h) \/ Registered(h) BY <2>5, ShipIntroducesHolds
  <2>6. CASE KeyInUse(h) \/ Crash(h) BY <2>6, ShipStops
  <2>7. CASE Ready(h) \/ Ping(h) \/ ShipIgnores(h) BY <2>7, ShipWorksHolds
  <2>8. CASE Start(h) BY <2>8, StartHolds
  <2>9. CASE Send(h) BY <2>9, SendHolds
  <2>10. CASE ShipMisreads(h) BY <2>10, ShipMisreadsHolds
  <2> QED BY <2>1, <2>2, <2>3, <2>4, <2>5, <2>6, <2>7, <2>8, <2>9, <2>10 DEF LinkShip
<1>3. CASE Announce BY <1>3, AnnounceHolds
<1>4. CASE Tick BY <1>4, TickHolds
<1>5. CASE UNCHANGED linkVars
  <2>1. links' = links /\ inuse' = inuse /\ node' = node BY <1>5 DEF linkVars
  <2>2. \A v \in Links : On(v)' = On(v) /\ Logon(v)' = Logon(v) BY <2>1 DEF On, Logon
  <2>3. LinksInv' BY <2>1, <2>2 DEF LinksInv, Types, Sites
  <2>4. KeysKept BY <2>1 DEF KeysKept, KeysTaken, HasHolder
  <2> QED BY <2>3, <2>4 DEF StaysSound
<1> QED BY <1>1, <1>2, <1>3, <1>4, <1>5 DEF LinkNext

\* What is on a link, and what the two ends have read of it, always goes with
\* the stage both are at: ORANGE's crypt_on and the keys changed by
\* ShipSend02 and LogonProcessPacket.
THEOREM LinksAlwaysSound == LinkSpec => []LinksInv
<1>1. LinkInit => LinksInv BY LinksStart
<1>2. LinksInv /\ [LinkNext]_linkVars => LinksInv' BY LinksGoOn DEF StaysSound
<1> QED BY <1>1, <1>2, PTL DEF LinkSpec

LEMMA LinksInvGives ==
  /\ LinksInv => InStep
  /\ KeysTaken => KeysReturned
<1>1. LinksInv => InStep BY DEF LinksInv, LinkOK, Quiet, Steady, InStep
<1>2. KeysTaken => KeysReturned BY DEF KeysTaken, HasHolder, KeysReturned
<1> QED BY <1>1, <1>2

\* Both ends decrypt every packet with the key, and at the place in its
\* stream, it was encrypted with, on any link on which neither spoke before
\* the keys were changed and whose ship did not come with a record that is off.
THEOREM AlwaysInStep == LinkSpec => []InStep
<1>1. LinksInv => InStep BY LinksInvGives
<1> QED BY <1>1, LinksAlwaysSound, PTL

\* keys_in_use never names a ship that has gone.
THEOREM KeysAlwaysReturned == LinkSpec => []KeysReturned
<1>1. LinkInit => LinksInv /\ KeysTaken BY LinksStart
<1>2. LinksInv /\ KeysTaken /\ [LinkNext]_linkVars => LinksInv' /\ KeysTaken'
  BY LinksGoOn DEF StaysSound, KeysKept
<1>3. KeysTaken => KeysReturned BY LinksInvGives
<1> QED BY <1>1, <1>2, <1>3, PTL DEF LinkSpec
=============================================================================
