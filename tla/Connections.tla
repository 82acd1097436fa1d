---------------------------- MODULE Connections ----------------------------
(***************************************************************************)
(* The table of client connections kept, in the same way, by the ship      *)
(* server and by the login server: the slots, the list of those in use,    *)
(* the limit on connections from one address and, on the ship, the number  *)
(* of clients of each block and the "dcall" command that empties the ship. *)
(* Constant IsShip says which of the two servers is meant.                 *)
(***************************************************************************)
EXTENDS Integers, Sequences, FiniteSets, SequencesExt, Ranking

CONSTANTS
  IsShip,          \* the ship server, or the login server
  MaxConnections,  \* serverMaxConnections
  Addresses,       \* IP addresses clients come from
  Services,        \* listening sockets: ship and blocks, or login and character
  Blocks,          \* those of them that are blocks of a ship
  Limit,           \* MAX_SIMULTANEOUS_CONNECTIONS, 6 in the code
  MaxTime,         \* bound on servertime
  MaxCount,        \* bound on BLOCK.count, which leaks and would grow for ever
  Unset            \* no address, no service

ASSUME ConnectionsAssumption ==
  /\ IsShip \in BOOLEAN
  /\ MaxConnections \in Nat \ {0}
  /\ Limit \in Nat \ {0}
  /\ MaxTime \in Nat \ {0}
  /\ MaxCount \in Nat
  /\ Blocks \subseteq Services
  /\ ~IsShip => Blocks = {}
  /\ Unset \notin Addresses \cup Services

VARIABLES
  connections,           \* the part of each slot's BANANA record that is modelled
  serverConnectionList,  \* of length serverNumConnections
  block_count,           \* BLOCK.count
  blockConnections,
  servertime

tableVars == <<connections, serverConnectionList, block_count, blockConnections, servertime>>

Slots == 0 .. MaxConnections - 1
Never == MaxTime + 1            \* 0xFFFFFFFF, later than any servertime

\* Faulty: "connected" is signed, or left at zero by both servers.
Closed_signed == [open |-> FALSE, index |-> 0, ip |-> Unset, service |-> Unset, connected |-> -1]
Closed_zero   == [open |-> FALSE, index |-> 0, ip |-> Unset, service |-> Unset, connected |-> 0]

\* A slot after initialize_connection: the ship leaves "connected" at the zero
\* of memset, the login server sets it to the largest value.
Closed ==
  [open |-> FALSE, index |-> 0, ip |-> Unset, service |-> Unset,
   connected |-> IF IsShip THEN 0 ELSE Never]

TableInit ==
  /\ connections = [s \in Slots |-> Closed]
  /\ serverConnectionList = <<>>
  /\ block_count = [b \in Blocks |-> 0]
  /\ blockConnections = FALSE
  /\ servertime = 1

----------------------------------------------------------------------------

FreeSlots == {s \in Slots : ~connections[s].open}

\* free_connection: the first slot without a socket.
free_connection == CHOOSE s \in FreeSlots : \A t \in FreeSlots : s <= t

\* Faulty: the entry stays, or the rest of the list goes with it.
Unlisted_never(l, i) == l
Unlisted_rest(l, i)  == SubSeq(l, 1, Cardinality({k \in 1 .. Len(l) : i \notin ToSet(SubSeq(l, 1, k))}))

\* The list without the entry that names index i.
Unlisted(l, i) == Kept(l, {k \in 1 .. Len(l) : l[k] # i})

\* Faulty: a client that comes is not counted.
Came_uncounted(n, b) == n

\* The counts once a client of service b has gone, and once one has come.
Left(n, b)  == IF b \in Blocks THEN [n EXCEPT ![b] = @ - 1] ELSE n
Came(n, b)  == IF b \in Blocks THEN [n EXCEPT ![b] = @ + 1] ELSE n

\* start_encryption: the slots of list l of which one must go (none, or the
\* first with the least "connected"), now that a client from ip is listed.
Oldest(l, cs, ip) ==
  LET same == {k \in 1 .. Len(l) : cs[l[k]].open /\ cs[l[k]].ip = ip}
      dated == {k \in same : cs[l[k]].connected < Never}
      first == {k \in dated : \A j \in dated :
                  \/ cs[l[k]].connected < cs[l[j]].connected
                  \/ cs[l[k]].connected = cs[l[j]].connected /\ k <= j}
  IN  IF Cardinality(same) > Limit THEN {l[k] : k \in first} ELSE {}

\* The accept loops: list the new client, let start_encryption close the oldest
\* connection of its address if there are too many, then date it and put it in
\* its service.
Accept(ip, service) ==
  /\ ~blockConnections
  /\ FreeSlots # {}
  /\ service \in Blocks => block_count[service] < MaxCount
  /\ LET s == free_connection
         listed == Append(serverConnectionList, s)
         came == [connections EXCEPT ![s] = [@ EXCEPT !.open = TRUE, !.index = s, !.ip = ip]]
         gone == Oldest(listed, came, ip)
         kept == [t \in Slots |-> IF t \in gone THEN Closed ELSE came[t]]
         left == [b \in Blocks |->
                    block_count[b] - Cardinality({t \in gone : came[t].service = b})]
     IN  /\ connections' = [kept EXCEPT ![s].connected = servertime, ![s].service = service]
         /\ serverConnectionList' = Kept(listed, {k \in 1 .. Len(listed) : listed[k] \notin gone})
         /\ block_count' = Came(left, service)
  /\ UNCHANGED <<blockConnections, servertime>>

\* The accept loops of a ship that is being emptied: the new socket goes
\* straight to initialize_connection, before connection_index is set.
RefuseNew ==
  /\ blockConnections
  /\ FreeSlots # {}
  /\ LET s == free_connection IN
     /\ connections' = [connections EXCEPT ![s] = Closed]
     /\ serverConnectionList' = Unlisted(serverConnectionList, connections[s].index)
     /\ block_count' = Left(block_count, connections[s].service)
  /\ UNCHANGED <<blockConnections, servertime>>

\* initialize_connection of a connected client.
Freed(s) ==
  /\ connections' = [connections EXCEPT ![s] = Closed]
  /\ serverConnectionList' = Unlisted(serverConnectionList, connections[s].index)
  /\ block_count' = Left(block_count, connections[s].service)

\* The server reaches a connection only through the list: it reads from it,
\* fails to, or finds it silent, too fast or marked "todc".
CloseConnection(s) ==
  /\ s \in ToSet(serverConnectionList) /\ connections[s].open
  /\ Freed(s)
  /\ UNCHANGED <<blockConnections, servertime>>

\* The "dcall" command of a GM on a block.
dcall(s) ==
  /\ IsShip /\ s \in ToSet(serverConnectionList) /\ connections[s].service \in Blocks
  /\ blockConnections' = TRUE
  /\ UNCHANGED <<connections, serverConnectionList, block_count, servertime>>

\* While it is being emptied the ship marks, every second, the first
\* connection of the list for disconnection.
KickFirst ==
  /\ blockConnections /\ serverConnectionList # <<>>
  /\ Freed(Head(serverConnectionList))
  /\ UNCHANGED <<blockConnections, servertime>>

\* The main loop stops refusing clients once the list is empty.
Unblock ==
  /\ blockConnections /\ serverConnectionList = <<>>
  /\ blockConnections' = FALSE
  /\ UNCHANGED <<connections, serverConnectionList, block_count, servertime>>

Second ==
  /\ servertime < MaxTime
  /\ servertime' = servertime + 1
  /\ UNCHANGED <<connections, serverConnectionList, block_count, blockConnections>>

TableNext ==
  \/ \E ip \in Addresses, service \in Services : Accept(ip, service)
  \/ RefuseNew
  \/ \E s \in Slots : CloseConnection(s) \/ dcall(s)
  \/ KickFirst
  \/ Unblock
  \/ Second

\* The main loop never stops: it wakes at least every five milliseconds.
TableFairness == WF_tableVars(KickFirst) /\ WF_tableVars(Unblock)

TableSpec == TableInit /\ [][TableNext]_tableVars /\ TableFairness

----------------------------------------------------------------------------
(* Properties                                                              *)

Open == {s \in Slots : connections[s].open}
From(ip) == {s \in Open : connections[s].ip = ip}

\* The types of the table.
TableTypeOK ==
  /\ connections \in [Slots -> [open : BOOLEAN, index : Slots, ip : Addresses \cup {Unset},
                         service : Services \cup {Unset}, connected : 0 .. Never]]
  /\ serverConnectionList \in Seq(Slots)
  /\ block_count \in [Blocks -> Int]
  /\ blockConnections \in BOOLEAN
  /\ servertime \in 0 .. MaxTime

\* Every entry of the list is a connected client, and none is listed twice:
\* the main loop never serves a dead slot nor serves a client twice.
ListSound ==
  /\ ToSet(serverConnectionList) \subseteq Open
  /\ \A i, j \in 1 .. Len(serverConnectionList) : serverConnectionList[i] = serverConnectionList[j] => i = j

\* Every connected client is listed: none is connected and never served.
ListComplete == Open \subseteq ToSet(serverConnectionList)

\* No address ever has more than Limit connections once a client is accepted.
AddressCap == \A ip \in Addresses : Cardinality(From(ip)) <= Limit

\* A new client is always let in; to make room, only a connection of its own
\* address goes, the one that has been connected longest
\* ("Delete oldest connection to server").
RoomIsMade ==
  \A ip \in Addresses, service \in Services : Accept(ip, service) =>
    /\ connections'[free_connection].open
    /\ \A s \in Open : ~connections'[s].open =>
         \A t \in From(ip) : s \in From(ip) /\ connections[s].connected <= connections[t].connected

\* RoomIsMade, of every step.
OldestMakesRoom == [][RoomIsMade]_tableVars

\* A block never counts fewer clients than it has: the count the "Block is
\* full" guard reads errs on the side of refusing.
CountNeverShort ==
  \A b \in Blocks : block_count[b] >= Cardinality({s \in Open : connections[s].service = b})

\* A ship that is being emptied takes clients again in the end.
UnblocksEventually == blockConnections ~> ~blockConnections

\* The ship stops blocking connections only after everyone has been
\* disconnected.
EmptyBeforeUnblocking == [][Unblock => Open = {}]_tableVars
=============================================================================
