------------------------------ MODULE ShipMenu ------------------------------
(***************************************************************************)
(* The list of ships a client chooses from: the login server keeps one,    *)
(* built anew when a ship registers, goes or tells its number of clients.  *)
(* A client at the login server is shown it as it is; one on a ship asks   *)
(* its ship, which asks the login server and keeps the last answer, for    *)
(* all of its clients, to look a choice up in.  How a link comes about     *)
(* (and its keys) is in ShipLink; here a ship registers, is refused, or    *)
(* dies.                                                                   *)
(*                                                                         *)
(* A turn of the login server's loop handles a packet of each of its ships *)
(* in the order of serverShipList, and only then takes new connections and *)
(* ends those that are gone or refused.                                    *)
(***************************************************************************)
EXTENDS Integers, Sequences, FiniteSets, SequencesExt

CONSTANTS
  Fleet,      \* ship servers
  Piers,      \* the connections the login server has for ships
  Voyagers,   \* clients
  MaxWrecks,  \* bounds on the ships that are refused or die,
  MaxTrips,   \* on what clients ask and choose,
  MaxWire,    \* and on the packets that are on their way from a ship
  NoVessel

ASSUME ShipMenuAssumption ==
  /\ Piers \subseteq 0 .. 253 /\ NoVessel \notin Fleet
  /\ MaxWrecks \in Nat /\ MaxTrips \in Nat /\ MaxWire \in Nat

VARIABLES
  piers,      \* the login server's ships[], and the wire to it
  listed,     \* serverShipList
  menu,       \* PacketA0Data of the login server
  turn,       \* the place in serverShipList its loop has come to
  fleet,      \* the ship servers
  voyager,    \* the clients: where they are, and the list they see
  held,       \* history: which ships have registered where
  wrecks, trips

menuVars == <<piers, listed, menu, turn, fleet, voyager, held, wrecks, trips>>

Unlisted == 65535   \* what playerCount is at first

\* initialize_ship.
NoPier ==
  [ship |-> NoVessel, authed |-> FALSE, count |-> Unlisted, id |-> 0, todc |-> FALSE, up |-> <<>>, down |-> <<>>]

\* A ship without a connection.  missed is history: clients came or went while it could not tell.
AtSea == [run |-> TRUE, at |-> NoVessel, ready |-> FALSE, id |-> 0, shipdata |-> <<>>, last |-> <<>>, missed |-> FALSE]

Ashore == [at |-> "off", to |-> NoVessel, sock |-> 0, sees |-> <<>>, picked |-> NoVessel, sent |-> NoVessel]

----------------------------------------------------------------------------
(* The login server                                                        *)

\* Faulty: the place in the list.
ShipId_place(s) == 255 - Len(listed)

ShipId(s) == 255 - s

NoShips == [id |-> 1, ship |-> NoVessel, count |-> 0]

construct0xA0(ps, list) ==
  LET shown == SelectSeq(list, LAMBDA s : ps[s].count < 10000)
  IN IF shown = <<>> THEN <<NoShips>>
     ELSE [k \in DOMAIN shown |-> [id |-> ps[shown[k]].id, ship |-> ps[shown[k]].ship, count |-> ps[shown[k]].count]]

\* Faulty: the list is left as it was.
Rebuilt_not(ps, list) == menu

\* The list after something has changed in the table.
Rebuilt(ps, list) == construct0xA0(ps, list)

\* Faulty: of every connection, registered or not.
Addresses_all(ps) == [k \in DOMAIN listed |-> [id |-> ps[listed[k]].id, ship |-> ps[listed[k]].ship]]

\* ShipSend0D: the addresses behind the list, taken from the table.
Addresses(ps) ==
  LET there == SelectSeq(listed, LAMBDA s : ps[s].authed)
  IN [k \in DOMAIN there |-> [id |-> ps[there[k]].id, ship |-> ps[there[k]].ship]]

\* The accept loop, and what a ship answers the welcome with.
Connects(h) ==
  \E s \in Piers :
    /\ turn = 1
    /\ fleet[h].run /\ fleet[h].at = NoVessel
    /\ piers[s].ship = NoVessel /\ \A r \in Piers : r < s => piers[r].ship # NoVessel
    /\ piers' = [piers EXCEPT ![s] = [NoPier EXCEPT !.ship = h,
         !.up = <<[kind |-> "auth", count |-> Cardinality({v \in Voyagers : voyager[v].at = h})]>>]]
    /\ listed' = Append(listed, s)
    /\ fleet' = [fleet EXCEPT ![h].at = s, ![h].missed = FALSE]
    /\ UNCHANGED <<menu, turn, voyager, held, wrecks, trips>>

\* ShipProcessPacket handles the first packet of the ship in k-th place.
LoginTakes(k, kind) ==
  /\ k \in turn .. Len(listed) /\ turn' = k + 1
  /\ piers[listed[k]].up # <<>> /\ ~piers[listed[k]].todc /\ Head(piers[listed[k]].up).kind = kind
  /\ UNCHANGED <<listed, fleet, voyager, trips>>

Took(k) == [piers[listed[k]] EXCEPT !.up = Tail(@)]

Registers(k) ==
  LET s == listed[k]
      p == [Took(k) EXCEPT !.count = Head(piers[s].up).count, !.authed = TRUE, !.id = ShipId(s),
                           !.down = Append(@, [kind |-> "accepted", id |-> s])]
      ps == [piers EXCEPT ![s] = p]
  IN /\ LoginTakes(k, "auth")
     /\ piers' = ps /\ menu' = Rebuilt(ps, listed)
     /\ held' = held \cup {<<s, p.ship>>}
     /\ UNCHANGED wrecks

\* The key is wrong or in use, or the ship cannot be reached: its number is
\* there, and nothing else.
Refuses(k) ==
  /\ LoginTakes(k, "auth")
  /\ wrecks < MaxWrecks /\ wrecks' = wrecks + 1
  /\ piers' = [piers EXCEPT ![listed[k]] = [Took(k) EXCEPT !.count = Head(piers[listed[k]].up).count, !.todc = TRUE]]
  /\ UNCHANGED <<menu, held>>

\* 0x0E.
UpdateCount(k) ==
  LET told == Head(piers[listed[k]].up)
      ps == [[piers EXCEPT ![listed[k]] = Took(k)] EXCEPT ![told.id - 1].count = told.count]
  IN /\ LoginTakes(k, "count")
     /\ piers' = ps /\ menu' = Rebuilt(ps, listed)
     /\ UNCHANGED <<held, wrecks>>

\* 0x0D.
ShipSend0D(k) ==
  LET ask == Head(piers[listed[k]].up)
      answer == [kind |-> "list", sock |-> ask.sock, menu |-> menu, addresses |-> Addresses(piers)]
  IN /\ LoginTakes(k, "ask")
     /\ piers' = [piers EXCEPT ![listed[k]] = [Took(k) EXCEPT !.down = Append(@, answer)]]
     /\ UNCHANGED <<menu, held, wrecks>>

\* initialize_ship, for the connections that are refused.  A ship that is told so exits or comes again.
EndTurn ==
  LET refused == {s \in Piers : piers[s].todc}
      ps == [s \in Piers |-> IF s \in refused THEN NoPier ELSE piers[s]]
      list == SelectSeq(listed, LAMBDA s : s \notin refused)
  IN /\ turn > 1 /\ turn' = 1
     /\ piers' = ps /\ listed' = list
     /\ menu' = IF refused = {} THEN menu ELSE Rebuilt(ps, list)
     /\ \E exits \in SUBSET {h \in Fleet : fleet[h].at \in refused} :
          /\ fleet' = [h \in Fleet |-> IF h \in exits THEN [AtSea EXCEPT !.run = FALSE]
                       ELSE IF fleet[h].at \in refused
                       THEN [AtSea EXCEPT !.shipdata = fleet[h].shipdata, !.last = fleet[h].last]
                       ELSE fleet[h]]
          /\ voyager' = [v \in Voyagers |-> IF voyager[v].at \in exits THEN Ashore ELSE voyager[v]]
     /\ UNCHANGED <<held, wrecks, trips>>

\* recv () finds the other end gone; what was read and not handled is lost.
LostShip(s) ==
  LET ps == [piers EXCEPT ![s] = NoPier]
      list == SelectSeq(listed, LAMBDA r : r # s)
  IN /\ turn = 1
     /\ piers[s].ship # NoVessel /\ fleet[piers[s].ship].at # s
     /\ piers' = ps /\ listed' = list /\ menu' = Rebuilt(ps, list)
     /\ UNCHANGED <<turn, fleet, voyager, held, wrecks, trips>>

----------------------------------------------------------------------------
(* A ship                                                                  *)

\* What ship h sends.
Wired(ps, h, packet) == IF fleet[h].at = NoVessel THEN ps ELSE [ps EXCEPT ![fleet[h].at].up = Append(@, packet)]

\* Not too much is on the way from h (a bound).
WireFree(h) == fleet[h].at # NoVessel => Len(piers[fleet[h].at].up) < MaxWire

Passengers(vs, h) == {v \in Voyagers : vs[v].at = h}

\* Faulty: the number from before.
ShipSend0E_before(ps, h, vs) ==
  IF fleet[h].ready THEN Wired(ps, h, [kind |-> "count", id |-> fleet[h].id, count |-> Cardinality(Passengers(voyager, h))]) ELSE ps

ShipSend0E(ps, h, vs) ==
  IF fleet[h].ready THEN Wired(ps, h, [kind |-> "count", id |-> fleet[h].id, count |-> Cardinality(Passengers(vs, h))]) ELSE ps

\* LogonProcessPacket handles what came.
ShipTakes(h, kind) ==
  /\ fleet[h].at # NoVessel /\ piers[fleet[h].at].down # <<>> /\ Head(piers[fleet[h].at].down).kind = kind
  /\ UNCHANGED <<listed, menu, turn, held, wrecks, trips>>

Reply(h) == Head(piers[fleet[h].at].down)
Taken(h) == [piers EXCEPT ![fleet[h].at].down = Tail(@)]

\* 0x02, and the charts and rates that are asked for and come one after the
\* other before logon_ready is set, taken as one.
IsReady(h) ==
  /\ ShipTakes(h, "accepted")
  /\ fleet' = [fleet EXCEPT ![h].id = Reply(h).id + 1, ![h].ready = TRUE]
  /\ piers' = Taken(h)
  /\ UNCHANGED voyager

\* Faulty: the first entry is the server's name.
Kept_short(addresses, n, old) == [k \in 1 .. n - 1 |-> addresses[k]]

\* shipdata for a list of n; past the packet's end decryptbuf holds what an
\* earlier one left there, the place's entry of another list or nothing like it.
Kept(addresses, n, old) ==
  [k \in 1 .. n |-> IF k \in DOMAIN addresses THEN addresses[k]
                    ELSE IF k \in DOMAIN old THEN old[k] ELSE [id |-> 0, ship |-> NoVessel]]

\* 0x0D/01.  The list goes to whoever has the socket.
TakesList(h) ==
  /\ ShipTakes(h, "list")
  /\ fleet' = [fleet EXCEPT ![h].shipdata = Kept(Reply(h).addresses, Len(Reply(h).menu), @), ![h].last = Reply(h).menu]
  /\ voyager' = [v \in Voyagers |-> IF voyager[v].at = h /\ voyager[v].sock = Reply(h).sock
                                  THEN [voyager[v] EXCEPT !.sees = Reply(h).menu] ELSE voyager[v]]
  /\ piers' = Taken(h)

\* The process dies, and its clients are off.
Sinks(h) ==
  /\ wrecks < MaxWrecks /\ wrecks' = wrecks + 1
  /\ fleet[h].run
  /\ fleet' = [fleet EXCEPT ![h] = [AtSea EXCEPT !.run = FALSE]]
  /\ voyager' = [v \in Voyagers |-> IF voyager[v].at = h THEN Ashore ELSE voyager[v]]
  /\ UNCHANGED <<piers, listed, menu, turn, held, trips>>

Sails(h) ==
  /\ ~fleet[h].run
  /\ fleet' = [fleet EXCEPT ![h] = AtSea]
  /\ UNCHANGED <<piers, listed, menu, turn, voyager, held, wrecks, trips>>

----------------------------------------------------------------------------
(* A client                                                                *)

Trip == trips < MaxTrips /\ trips' = trips + 1

\* The end of login at the login server, which handles its clients before its ships.
SendA0(v) ==
  /\ voyager[v].at = "off" /\ turn = 1
  /\ voyager' = [voyager EXCEPT ![v] = [Ashore EXCEPT !.at = "login", !.sees = menu]]
  /\ UNCHANGED <<piers, listed, menu, turn, fleet, held, wrecks, trips>>

\* Login's 0x10.
ChoosesFirst(v) ==
  \E k \in DOMAIN voyager[v].sees, s \in ToSet(listed) :
    /\ voyager[v].at = "login" /\ turn = 1 /\ Trip
    /\ piers[s].authed /\ piers[s].id = voyager[v].sees[k].id
    /\ voyager' = [voyager EXCEPT ![v] = [Ashore EXCEPT !.at = "way", !.to = piers[s].ship,
                                        !.picked = voyager[v].sees[k].ship, !.sent = piers[s].ship]]
    /\ UNCHANGED <<piers, listed, menu, turn, fleet, held, wrecks>>

\* The ship's accept loop, with the lowest socket that is free.
Boards(v) ==
  LET h == voyager[v].to
      socks == {voyager[w].sock : w \in Passengers(voyager, h)}
      vs == [voyager EXCEPT ![v].at = h, ![v].sock = CHOOSE n \in 1 .. Cardinality(Voyagers) :
               n \notin socks /\ \A m \in 1 .. n - 1 : m \in socks,
               ![v].sees = <<>>]
  IN /\ voyager[v].at = "way" /\ fleet[h].run /\ WireFree(h)
     /\ voyager' = vs
     /\ piers' = ShipSend0E(piers, h, vs)
     /\ fleet' = [fleet EXCEPT ![h].missed = ~fleet[h].ready]
     /\ UNCHANGED <<listed, menu, turn, held, wrecks, trips>>

\* No ship is there.
GivesUp(v) ==
  /\ voyager[v].at = "way" /\ ~fleet[voyager[v].to].run
  /\ voyager' = [voyager EXCEPT ![v] = Ashore]
  /\ UNCHANGED <<piers, listed, menu, turn, fleet, held, wrecks, trips>>

\* BlockProcessPacket 0xA0, Command10 0xFF/00: the list is asked for.
AsksList(v) ==
  LET h == voyager[v].at
  IN /\ h \in Fleet /\ fleet[h].at # NoVessel /\ WireFree(h) /\ Trip
     /\ piers' = Wired(piers, h, [kind |-> "ask", sock |-> voyager[v].sock])
     /\ UNCHANGED <<listed, menu, turn, fleet, voyager, held, wrecks>>

\* The client's connection ends; initialize_connection.
Departs(v, becomes) ==
  LET h == voyager[v].at
      vs == [voyager EXCEPT ![v] = becomes]
  IN /\ h \in Fleet /\ WireFree(h)
     /\ voyager' = vs
     /\ piers' = ShipSend0E(piers, h, vs)
     /\ fleet' = [fleet EXCEPT ![h].missed = ~fleet[h].ready]
     /\ UNCHANGED <<listed, menu, turn, held, wrecks>>

\* Command10 0xFF: the first entry of shipdata with the number chosen.
ChoosesShip(v) ==
  \E k \in DOMAIN voyager[v].sees :
    LET data == fleet[voyager[v].at].shipdata
        chosen == voyager[v].sees[k].id
    IN /\ voyager[v].at \in Fleet /\ Trip /\ chosen # 0
       /\ \E i \in DOMAIN data :
            /\ data[i].id = chosen /\ \A j \in 1 .. i - 1 : data[j].id # chosen
            /\ Departs(v, [Ashore EXCEPT !.at = "way", !.to = data[i].ship,
                           !.picked = voyager[v].sees[k].ship, !.sent = data[i].ship])

Quits(v) == Trip /\ Departs(v, Ashore)

MenuInit ==
  /\ piers = [s \in Piers |-> NoPier] /\ listed = <<>> /\ menu = <<NoShips>> /\ turn = 1
  /\ fleet = [h \in Fleet |-> AtSea]
  /\ voyager = [v \in Voyagers |-> Ashore]
  /\ held = {} /\ wrecks = 0 /\ trips = 0

MenuNext ==
  \/ \E h \in Fleet : Connects(h) \/ IsReady(h) \/ TakesList(h) \/ Sinks(h) \/ Sails(h)
  \/ \E k \in 1 .. Cardinality(Piers) : Registers(k) \/ Refuses(k) \/ UpdateCount(k) \/ ShipSend0D(k)
  \/ EndTurn
  \/ \E s \in Piers : LostShip(s)
  \/ \E v \in Voyagers :
       SendA0(v) \/ ChoosesFirst(v) \/ Boards(v) \/ GivesUp(v) \/ AsksList(v) \/ ChoosesShip(v) \/ Quits(v)

----------------------------------------------------------------------------

MenuTypeOK ==
  /\ ToSet(listed) \subseteq Piers /\ turn \in 1 .. Cardinality(Piers) + 1 /\ held \subseteq Piers \X Fleet
  /\ \A s \in Piers : piers[s].ship \in Fleet \cup {NoVessel} /\ (s \in ToSet(listed) <=> piers[s].ship # NoVessel)
  /\ \A h \in Fleet : fleet[h].at \in Piers \cup {NoVessel} /\ fleet[h].id \in 0 .. 254
  /\ \A v \in Voyagers : voyager[v].at \in Fleet \cup {"off", "login", "way"} /\ voyager[v].to \in Fleet \cup {NoVessel}

\* When a client of the login server is shown the list, it is that of the
\* ships that are registered then, with their numbers as they were told last
\* (construct0xA0 is called wherever something of it has changed).
MenuCurrent ==
  turn = 1 =>
    /\ menu = construct0xA0(piers, listed)
    /\ \A k \in DOMAIN menu : menu[k] # NoShips => \E s \in Piers : piers[s].authed /\ ShipId(s) = menu[k].id

\* The number shown with a ship is that of its clients as soon as nothing is
\* on the way, unless somebody came or went while the ship was registering
\* and could not tell (ShipSend0E, logon_ready).
CountsTold ==
  \A k \in DOMAIN menu : \A h \in Fleet :
    LET s == fleet[h].at IN
    s # NoVessel /\ menu[k].ship = h /\ fleet[h].ready /\ ~fleet[h].missed /\ piers[s].up = <<>> /\ piers[s].id = menu[k].id
      => menu[k].count = Cardinality(Passengers(voyager, h))

\* A client is sent to the ship it chose by name, however old the list it
\* chose from and whoever else asked for one since; only where a ship has
\* gone and another has its number may it be sent to that one.
RightShip ==
  \A v \in Voyagers :
    voyager[v].sent = voyager[v].picked
      \/ \E s \in Piers : {<<s, voyager[v].sent>>, <<s, voyager[v].picked>>} \subseteq held

\* Every registered ship of the last list a ship was sent can be gone to from
\* there, even if the list named one that was being refused.
LatestReachable ==
  \A h \in Fleet : \A k \in DOMAIN fleet[h].last :
    fleet[h].last[k].id > 1 =>
      \E i \in DOMAIN fleet[h].shipdata :
        /\ fleet[h].shipdata[i] = [id |-> fleet[h].last[k].id, ship |-> fleet[h].last[k].ship]
        /\ \A j \in 1 .. i - 1 : fleet[h].shipdata[j].id # fleet[h].last[k].id

ShipMenuSound == MenuCurrent /\ CountsTold /\ RightShip /\ LatestReachable
=============================================================================
