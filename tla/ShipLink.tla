------------------------------ MODULE ShipLink ------------------------------
(***************************************************************************)
(* The links between ships and the login server: connecting and the change *)
(* of RC4 keys, the keys ships register with, pings, timeouts and          *)
(* reconnection.  Both servers decrypt a packet when they read it from the *)
(* socket and handle it, one a turn of their main loop, later.             *)
(*                                                                         *)
(* Time passes in units of half a minute, which all the timeouts are made  *)
(* of.  What is counted in turns of the main loop, of five milliseconds at *)
(* most, is not counted but happens at some time within a unit.  Ages are  *)
(* counted, not dates, so time has no end.                                 *)
(***************************************************************************)
EXTENDS Integers, Sequences, FiniteSets, SequencesExt

CONSTANTS
  Ships,      \* ship servers
  KeyOf,      \* the registration key each of them has been given
  Links,      \* connections there can be at a time, the login server's slots
  MaxFaults,  \* cuts, crashes, failed tests and packets ahead of the handshake
  MaxTraffic, \* packets of clients' business on a link in a unit of time
  None

ASSUME ShipLinkAssumption ==
  /\ MaxFaults \in Nat
  /\ MaxTraffic \in Nat
  /\ None \notin Ships \cup Links

PingAfter      == 1    \* 30 seconds
TimeoutAfter   == 2    \* more than 60 seconds
AuthLimit      == 2    \* 60 seconds
RetryWithin    == 1    \* 1500 turns, seven seconds and a half if no more is done in one

VARIABLES
  links,   \* the login server's ORANGE of each connection, and the wire to it
  inuse,   \* keys_in_use
  node,    \* each ship's process and its ORANGE "logon"
  faults

linkVars == <<links, inuse, node, faults>>

\* A slot of the login server without a connection.  age and since are the
\* time since last_ping and connected; in is what has been read and not handled.
\* Of the history, early: something was said before the keys were changed, and
\* off: the ship came with a record that is off.
NoLink ==
  [ship |-> None, open |-> FALSE, cut |-> FALSE, crypt |-> "plain", authed |-> FALSE,
   key |-> None, age |-> 0, since |-> 0, pinged |-> FALSE, in |-> <<>>, traffic |-> 0,
   toLogin |-> <<>>, toShip |-> <<>>, lostL |-> FALSE, lostS |-> FALSE, early |-> FALSE,
   off |-> FALSE]

\* logon after initialize_logon.  A record that is off has its packetread
\* where no packet begins: it is that of a ship whose handler called
\* initialize_logon, to which the main loop then added the handled packet.
NoLogon ==
  [link |-> None, crypt |-> "plain", ready |-> FALSE, age |-> 0, wait |-> 0, in |-> <<>>,
   off |-> FALSE]

NoLogonOff == [NoLogon EXCEPT !.off = TRUE]

\* The server as it comes up: it connects at once.
Started == [run |-> "up", logon |-> [NoLogon EXCEPT !.wait = RetryWithin]]

LinkInit ==
  /\ links = [w \in Links |-> NoLink]
  /\ inuse = {}
  /\ node = [h \in Ships |-> Started]
  /\ faults = 0

----------------------------------------------------------------------------
(* The wire.  A packet is its kind and the key it was encrypted with.      *)

Packet(kind, key) == [kind |-> kind, key |-> key]

\* compressShipPacket of the login server and of a ship.
PutS(l, kind) ==
  IF l.cut \/ ~l.open THEN l ELSE [l EXCEPT !.toShip = Append(@, Packet(kind, l.crypt))]

PutL(l, kind, key) ==
  IF l.cut THEN l ELSE [l EXCEPT !.toLogin = Append(@, Packet(kind, key))]

Kinds == {"welcome", "accepted", "inuse", "unreachable", "rates", "ping", "notice",
          "auth", "charts", "pong", "data", "garbage"}

\* What is read: RC4 runs on, so that after one packet taken for another
\* nothing more makes sense.
Read(packet, key, lost) == IF lost \/ packet.key # key THEN "garbage" ELSE packet.kind

EndOf(packets) == packets # <<>> /\ Head(packets).kind = "eof"

\* A wire neither end knows of is a free slot again.
Settled(l, n, w) ==
  IF ~l.open /\ \A h \in Ships : n[h].logon.link # w THEN NoLink ELSE l

\* Faulty: the key stays in use, or is never noticed to be.
initialize_ship_keeps(l) == inuse

\* initialize_ship: the slot's key is free again, whoever uses it.
initialize_ship(l) == inuse \ {l.key}

\* The login server's end of w is closed.
CloseL(l) == [PutS(l, "eof") EXCEPT !.open = FALSE, !.in = <<>>, !.toLogin = <<>>,
                                    !.authed = FALSE, !.key = None]

\* The ship's end is closed.
CloseS(l) == [PutL(l, "eof", l.crypt) EXCEPT !.toShip = <<>>]

\* Steps of the two ends.
LoginStep(w, l, keys) ==
  /\ links' = [links EXCEPT ![w] = Settled(l, node, w)]
  /\ inuse' = keys

Close(w, l) == LoginStep(w, CloseL(l), initialize_ship(l))

\* The ship's end is closed and its process goes on as n.
Leave(h, n) ==
  LET w == node[h].logon.link
      m == [node EXCEPT ![h] = n]
  IN /\ node' = m
     /\ links' = [links EXCEPT ![w] = Settled(CloseS(@), m, w)]
     /\ UNCHANGED inuse

\* By the main loop, when it reads, sends or looks at the time.
initialize_logon(h) == Leave(h, [node[h] EXCEPT !.logon = NoLogon])

\* Ship h goes on as "logon".
ShipStep(h, logon, l) ==
  /\ node' = [node EXCEPT ![h].logon = logon]
  /\ links' = [links EXCEPT ![logon.link] = l]
  /\ UNCHANGED inuse

----------------------------------------------------------------------------
(* The login server                                                        *)

\* ShipProcessPacket handles the first packet of w's buffer, of this kind.
LoginTurn(w, kind) ==
  /\ links[w].open /\ links[w].age <= TimeoutAfter
  /\ links[w].in # <<>> /\ Head(links[w].in) = kind
  /\ UNCHANGED <<node, faults>>

Handled(w) == [links[w] EXCEPT !.in = Tail(@)]

\* A packet is there for w, which is read as one of this kind.
LoginGets(w, kind) ==
  LET l == links[w]
  IN /\ l.open /\ l.toLogin # <<>> /\ ~EndOf(l.toLogin)
     /\ kind = Read(Head(l.toLogin), l.crypt, l.lostL)
     /\ UNCHANGED <<node, faults>>

LoginReads(w) ==
  \E kind \in Kinds :
    /\ LoginGets(w, kind)
    /\ LoginStep(w, [links[w] EXCEPT !.toLogin = Tail(@), !.in = Append(@, kind),
                                     !.lostL = @ \/ kind = "garbage"], inuse)

\* Its length, which is encrypted, comes out as one that cannot be.
LoginRefuses(w) ==
  /\ LoginGets(w, "garbage")
  /\ Close(w, links[w])

LoginReadsEnd(w) ==
  /\ links[w].open /\ EndOf(links[w].toLogin)
  /\ Close(w, links[w])
  /\ UNCHANGED <<node, faults>>

\* Faulty: the keys change before the answer is sent.
Accepted_first(l) == PutS([l EXCEPT !.crypt = "own", !.authed = TRUE], "accepted")

\* ShipSend02 (0x01), and then the keys change.
Accepted(l) == [PutS(l, "accepted") EXCEPT !.crypt = "own", !.authed = TRUE]

\* A ship introduces itself.  Its key is looked at, not yet taken.
AuthenticateShip(w) ==
  LET l == [Handled(w) EXCEPT !.key = KeyOf[links[w].ship]]
  IN /\ LoginTurn(w, "auth")
     /\ IF l.key \in inuse THEN Close(w, PutS(l, "inuse"))
                           ELSE LoginStep(w, Accepted(l), inuse)

\* The login server could not connect to the ship's address.
TestFails(w) ==
  /\ faults < MaxFaults /\ faults' = faults + 1
  /\ links[w].open /\ links[w].age <= TimeoutAfter /\ links[w].in # <<>> /\ Head(links[w].in) = "auth"
  /\ KeyOf[links[w].ship] \notin inuse
  /\ Close(w, PutS([Handled(w) EXCEPT !.key = KeyOf[links[w].ship]], "unreachable"))
  /\ UNCHANGED node

\* 0x0F: the drop charts, asked for one after the other, and the mob rates.
\* The first request takes the key.
SendCharts(w) ==
  /\ LoginTurn(w, "charts")
  /\ LoginStep(w, PutS(Handled(w), "rates"), inuse \cup {links[w].key})

Pong(w) ==
  /\ LoginTurn(w, "pong")
  /\ LoginStep(w, [Handled(w) EXCEPT !.age = 0, !.pinged = FALSE], inuse)

LoginIgnores(w) ==
  /\ \E kind \in {"data", "garbage"} : LoginTurn(w, kind)
  /\ LoginStep(w, Handled(w), inuse)

\* An unknown command.
LoginRejects(w) ==
  /\ LoginTurn(w, "garbage")
  /\ Close(w, links[w])

LoginPings(w) ==
  /\ links[w].open /\ ~links[w].pinged /\ links[w].age >= PingAfter
  /\ LoginStep(w, [PutS(links[w], "ping") EXCEPT !.pinged = TRUE], inuse)
  /\ UNCHANGED <<node, faults>>

LoginExpired(l) == l.age > TimeoutAfter \/ (~l.authed /\ l.since >= AuthLimit)

LoginTimeout(w) ==
  /\ links[w].open /\ LoginExpired(links[w])
  /\ Close(w, links[w])
  /\ UNCHANGED <<node, faults>>

\* Something for every ship: a kick, a search, mail, an announcement.  Only
\* those are sent it that are registered.
Announce ==
  LET to == {w \in Links : links[w].open /\ links[w].authed}
      ahead == {w \in to : \A h \in Ships : node[h].logon.link = w => node[h].logon.crypt # "own"}
  IN /\ to # {} /\ \A w \in to : links[w].traffic < MaxTraffic
     /\ faults' = IF ahead = {} THEN faults ELSE faults + 1
     /\ faults' <= MaxFaults
     /\ links' = [w \in Links |-> IF w \in to
                                 THEN [PutS(links[w], "notice") EXCEPT !.early = @ \/ w \in ahead, !.traffic = @ + 1]
                                 ELSE links[w]]
     /\ UNCHANGED <<inuse, node>>

----------------------------------------------------------------------------
(* The ship                                                                *)

Online(h) == node[h].run = "up" /\ node[h].logon.link # None

\* Faulty: last_ping is what memset left.
Fresh_stale == TimeoutAfter + 1

Fresh == 0

\* The first one free; the order of the slots does not matter.
free_shipconnection == CHOOSE w \in Links : links[w] = NoLink

\* reconnect_logon, which leaves the record as it is; the login server accepts,
\* sends its welcome in plain and goes on with the public key.
reconnect_logon(h) ==
  \E w \in Links :
    /\ node[h].run = "up" /\ node[h].logon.link = None
    /\ links[w] = NoLink /\ w = free_shipconnection
    /\ node' = [node EXCEPT ![h].logon = [NoLogon EXCEPT !.link = w, !.age = Fresh, !.off = node[h].logon.off]]
    /\ links' = [links EXCEPT ![w] = [PutS([NoLink EXCEPT !.ship = h, !.open = TRUE, !.off = node[h].logon.off],
                                          "welcome") EXCEPT !.crypt = "public"]]
    /\ UNCHANGED <<inuse, faults>>

\* A packet is there for h, which is read as one of this kind.
ShipGets(h, kind) ==
  LET l == links[node[h].logon.link]
  IN /\ Online(h) /\ l.toShip # <<>> /\ ~EndOf(l.toShip)
     /\ kind = Read(Head(l.toShip), node[h].logon.crypt, l.lostS)
     /\ UNCHANGED faults

\* Of a record that is off, decryptbuf is what will be handled: the last packet.
ShipReceives(h) ==
  LET n == node[h].logon
      l == links[n.link]
  IN \E kind \in Kinds :
       /\ ShipGets(h, kind)
       /\ ShipStep(h, [n EXCEPT !.in = IF n.off THEN <<kind>> ELSE Append(@, kind)],
                      [l EXCEPT !.toShip = Tail(@), !.lostS = @ \/ kind = "garbage"])

\* A length that cannot be; or the buffer is full, of packets that are not
\* taken out of it.
ShipRejects(h) ==
  /\ \E kind \in Kinds : ShipGets(h, kind) /\ (kind = "garbage" \/ node[h].logon.off)
  /\ initialize_logon(h)

ShipReadsEnd(h) ==
  /\ Online(h) /\ EndOf(links[node[h].logon.link].toShip)
  /\ initialize_logon(h)
  /\ UNCHANGED faults

\* LogonProcessPacket handles the first packet of the buffer, of this kind.
\* When the record is off there is no length where the packet would begin:
\* nothing is copied and decryptbuf handled, every turn again.
ShipTurn(h, kind) ==
  LET n == node[h].logon
  IN /\ Online(h) /\ n.age <= TimeoutAfter
     /\ n.in # <<>> /\ Head(n.in) = kind
     /\ UNCHANGED faults

Done(h) == [node[h].logon EXCEPT !.in = IF node[h].logon.off THEN @ ELSE Tail(@)]
Mine(h) == links[node[h].logon.link]

\* What the handler sends.  A record that is off introduces itself once more
\* before there can be an answer, and with the cipher begun anew; nothing it
\* sends after that can be read, and only its introductions are on the wire.
Says(h, kind, key) ==
  IF node[h].logon.off
  THEN IF kind = "auth" THEN PutL(PutL(Mine(h), "auth", key), "auth", "again") ELSE Mine(h)
  ELSE PutL(Mine(h), kind, key)

Welcomed(h) ==
  /\ ShipTurn(h, "welcome") /\ (node[h].logon.off => node[h].logon.crypt = "plain")
  /\ ShipStep(h, [Done(h) EXCEPT !.crypt = "public"], Says(h, "auth", "public"))

Registered(h) ==
  /\ ShipTurn(h, "accepted")
  /\ ShipStep(h, [Done(h) EXCEPT !.crypt = "own"], Says(h, "charts", "own"))

\* initialize_logon by the handler.
Refused(h) ==
  /\ ShipTurn(h, "unreachable")
  /\ Leave(h, [node[h] EXCEPT !.logon = NoLogonOff])

\* exit (1).
KeyInUse(h) ==
  /\ ShipTurn(h, "inuse")
  /\ Leave(h, [run |-> "shut_out", logon |-> NoLogon])

Ready(h) ==
  /\ ShipTurn(h, "rates")
  /\ ShipStep(h, [Done(h) EXCEPT !.ready = TRUE], Mine(h))

Ping(h) ==
  /\ ShipTurn(h, "ping")
  /\ ShipStep(h, [Done(h) EXCEPT !.age = 0], Says(h, "pong", node[h].logon.crypt))

ShipIgnores(h) ==
  /\ \E kind \in {"notice", "garbage"} : ShipTurn(h, kind)
  /\ ShipStep(h, Done(h), Mine(h))

\* A record that is off may have some bytes of a packet for its length, a
\* random one mostly: what is copied then is no packet, or the process dies of
\* it; by chance it ends where the buffer does, and the record is no longer off.
ShipMisreads(h) ==
  LET n == node[h].logon
  IN /\ Online(h) /\ n.age <= TimeoutAfter /\ n.off /\ n.in # <<>>
     /\ \/ ShipStep(h, [n EXCEPT !.in = <<"garbage">>], Mine(h))
        \/ ShipStep(h, [n EXCEPT !.in = <<>>, !.off = FALSE], Mine(h))
        \/ Leave(h, [run |-> "down", logon |-> NoLogon])
     /\ UNCHANGED faults

\* Of what a record that is off answers every turn, and of a ping that is
\* handled again and so keeps it alive, the send buffer is full in the end when
\* the wire takes nothing.
ShipOverflows(h) ==
  /\ Online(h) /\ node[h].logon.off /\ node[h].logon.in # <<>>
  /\ Head(node[h].logon.in) \in {"welcome", "accepted", "ping"} /\ Mine(h).cut
  /\ initialize_logon(h)
  /\ UNCHANGED faults

ShipTimeout(h) ==
  /\ Online(h) /\ node[h].logon.age > TimeoutAfter
  /\ initialize_logon(h)
  /\ UNCHANGED faults

\* A client's business.  That the ship is not registered does not hold it back.
Send(h) ==
  LET n == node[h].logon
      ahead == n.crypt # "own"
  IN /\ Online(h) /\ Mine(h).traffic < MaxTraffic
     /\ faults' = IF ahead THEN faults + 1 ELSE faults
     /\ faults' <= MaxFaults
     /\ ShipStep(h, n, [PutL(Mine(h), "data", n.crypt) EXCEPT !.early = @ \/ ahead, !.traffic = @ + 1])

----------------------------------------------------------------------------
(* The world                                                               *)

\* The way between the ends is lost, and neither is told.
Cut(w) ==
  /\ faults < MaxFaults /\ faults' = faults + 1
  /\ links[w].ship # None /\ ~links[w].cut
  /\ links' = [links EXCEPT ![w] = [@ EXCEPT !.cut = TRUE, !.toLogin = <<>>, !.toShip = <<>>]]
  /\ UNCHANGED <<inuse, node>>

\* The ship's process dies; its system closes the socket.
Crash(h) ==
  /\ faults < MaxFaults /\ faults' = faults + 1
  /\ Online(h)
  /\ Leave(h, [run |-> "down", logon |-> NoLogon])

Start(h) ==
  /\ node[h].run = "down"
  /\ node' = [node EXCEPT ![h] = Started]
  /\ UNCHANGED <<links, inuse, faults>>

AtMost(n, limit) == IF n < limit THEN n + 1 ELSE n

\* Half a minute passes.  The main loops go round every five milliseconds, so
\* what has come is read and handled and what is due is done before.
Tick ==
  /\ \A w \in Links :
       LET l == links[w] IN
       l.open => /\ l.in = <<>> /\ l.toLogin = <<>> /\ ~LoginExpired(l)
                 /\ l.pinged \/ l.age < PingAfter
  /\ \A h \in Ships :
       /\ Online(h) => /\ node[h].logon.in = <<>> \/ node[h].logon.off
                       /\ Mine(h).toShip = <<>>
                       /\ node[h].logon.age <= TimeoutAfter
       /\ node[h].run = "up" /\ ~Online(h) =>
            node[h].logon.wait < RetryWithin \/ \A w \in Links : links[w] # NoLink
  /\ links' = [w \in Links |-> IF links[w].open
                THEN [links[w] EXCEPT !.age = @ + 1, !.since = AtMost(@, AuthLimit), !.traffic = 0]
                ELSE [links[w] EXCEPT !.traffic = 0]]
  /\ node' = [h \in Ships |->
       IF Online(h) THEN [node[h] EXCEPT !.logon.age = @ + 1]
       ELSE [node[h] EXCEPT !.logon.wait = AtMost(@, RetryWithin)]]
  /\ UNCHANGED <<inuse, faults>>

LinkLogin(w) ==
  \/ LoginReads(w) \/ LoginRefuses(w) \/ LoginReadsEnd(w) \/ AuthenticateShip(w) \/ SendCharts(w) \/ Pong(w)
  \/ LoginIgnores(w) \/ LoginRejects(w) \/ LoginPings(w) \/ LoginTimeout(w)

LinkShip(h) ==
  \/ reconnect_logon(h) \/ ShipReceives(h) \/ ShipReadsEnd(h) \/ Welcomed(h) \/ Registered(h)
  \/ Refused(h) \/ KeyInUse(h) \/ Ready(h) \/ Ping(h) \/ ShipIgnores(h) \/ ShipRejects(h)
  \/ ShipMisreads(h) \/ ShipOverflows(h) \/ ShipTimeout(h) \/ Start(h)

LinkNext ==
  \/ \E w \in Links : LinkLogin(w) \/ TestFails(w) \/ Cut(w)
  \/ \E h \in Ships : LinkShip(h) \/ Send(h) \/ Crash(h)
  \/ Announce
  \/ Tick

\* The main loops go round, and time passes.
LinkFairness ==
  /\ \A w \in Links : WF_linkVars(LinkLogin(w))
  /\ \A h \in Ships : WF_linkVars(LinkShip(h)) /\ WF_linkVars(ShipOverflows(h))
  /\ SF_linkVars(Tick)

LinkSpec == LinkInit /\ [][LinkNext]_linkVars /\ LinkFairness

----------------------------------------------------------------------------

LinkTypeOK ==
  /\ \A w \in Links :
       LET l == links[w] IN
       /\ l.ship \in Ships \cup {None} /\ l.key \in {KeyOf[h] : h \in Ships} \cup {None}
       /\ l.crypt \in {"plain", "public", "own"}
       /\ l.age \in Nat /\ l.since \in 0 .. AuthLimit
       /\ ToSet(l.in) \subseteq Kinds
       /\ l.open => l.ship # None
       /\ l.authed => l.open
  /\ \A h \in Ships :
       LET n == node[h].logon IN
       /\ n.link \in Links \cup {None} /\ n.age \in Nat /\ ToSet(n.in) \subseteq Kinds
       /\ n.link # None => links[n.link].ship = h

\* A key marked as in use is that of a ship that is connected: no key stays
\* taken after its ship has gone (keys_in_use, initialize_ship).
KeysReturned == inuse \subseteq {links[w].key : w \in {v \in Links : links[v].open}}

\* On a link where neither side spoke before the keys were changed, and whose
\* ship did not come with packetread astray, every packet is decrypted with the
\* key, and at the place in its stream, it was encrypted with.
InStep == \A w \in Links : links[w].lostL \/ links[w].lostS => links[w].early \/ links[w].off

\* A ship that is not registered will be, whatever was lost, cut or garbled
\* before, unless it was told that its key is in use.
Registers ==
  \A h \in Ships : node[h].run # "shut_out" ~> node[h].logon.ready \/ node[h].run = "shut_out"

\* Two registered ships do not share a key (login_server.c:2763).
OneShipPerKey ==
  \A v, w \in Links : links[v].authed /\ links[w].authed /\ links[v].key = links[w].key => v = w
=============================================================================
