------------------------------ MODULE CharSave ------------------------------
(***************************************************************************)
(* Where the character of one account lives: in the store of the login     *)
(* server, in the memory of a ship while it is played, and in the packets  *)
(* of the link between the two.  Characters travel when a client enters a  *)
(* block, every five minutes, when it changes block or ship, and when its  *)
(* connection ends.  The link is one TCP stream each way: packets arrive   *)
(* in order or, when it breaks, not at all.                                *)
(*                                                                         *)
(* One ship and one account.  A client closes one connection before it     *)
(* opens the next, and two clients of the account do not enter the ship at *)
(* the same moment; but a player may log on again at any moment while an   *)
(* earlier client of the account is still connected.                       *)
(***************************************************************************)
EXTENDS Naturals, FiniteSets, Sequences, SequencesExt, Ranking

CONSTANTS
  Conns,      \* sockets the ship may have open for the account
  Gains,      \* things a character can gain, each of them once
  MaxLogins,  \* bound on the logins of the account
  MaxLosses,  \* bound on the breaks of the link
  MaxQueue    \* bound on the packets on the link when a client starts something

ASSUME CharSaveAssumption == MaxLogins \in Nat /\ MaxLosses \in Nat /\ MaxQueue \in Nat

VARIABLES
  conn,    \* the BANANA of each socket
  list,    \* serverConnectionList, the account's sockets in the order of their arrival
  up,      \* packets from the ship to the login server
  down,    \* packets from the login server to the ship
  link,    \* the link is up and the ship authenticated
  stored,  \* character_data: what the stored character has gained
  logins,  \* number of logins; the security data stored are those of the last one
  losses,  \* number of breaks of the link
  gained,  \* history: everything the character has gained
  sent,    \* history: everything a save that was sent contained
  missed   \* history: a login whose 0x08 the ship never got

vars == <<conn, list, up, down, link, stored, logins, losses, gained, sent, missed>>
history == <<gained, sent, missed>>

Off == [on |-> FALSE, login |-> 0, guildcard |-> FALSE, gotchardata |-> FALSE,
        released |-> FALSE, told |-> FALSE, mode |-> FALSE, char |-> {}]

Init ==
  /\ conn = [c \in Conns |-> Off]
  /\ list = <<>>
  /\ up = <<>> /\ down = <<>>
  /\ link = FALSE
  /\ stored = {} /\ gained = {} /\ sent = {}
  /\ logins = 0 /\ losses = 0
  /\ missed = FALSE

----------------------------------------------------------------------------
(* Packets.  compressShipPacket drops a packet when the link is down.      *)

Auth(k)    == [type |-> "0B_auth", login |-> k]
Load(c)    == [type |-> "04/00_load", conn |-> c]
Save(x)    == [type |-> "04/02_save", char |-> x]
AuthOK     == [type |-> "0B_ok"]
AuthFail   == [type |-> "0B_fail"]
Data(c, x) == [type |-> "04/01_data", conn |-> c, char |-> x]
Saved      == [type |-> "04/03_saved"]
Kick       == [type |-> "08/00_kick"]

Queued(q, p) == IF link THEN Append(q, p) ELSE q

\* Faulty: a character that was never received is sent as well.
ShipSend04_unread(k, to) == IF ~k.mode THEN Queued(to, Save(k.char)) ELSE to

\* ShipSend04 (0x02): the character of k is sent, unless it is a temporary one
\* or none was received; "to" is the queue it joins.
ShipSend04(k, to) == IF ~k.mode /\ k.gotchardata THEN Queued(to, Save(k.char)) ELSE to
Sending(k) == IF ~k.mode /\ k.gotchardata /\ link THEN k.char ELSE {}

\* The first connection of the list that P holds of, as a set.
First(P(_)) ==
  LET hits == {i \in 1 .. Len(list) : P(conn[list[i]])}
  IN  {list[i] : i \in {j \in hits : \A k \in hits : j <= k}}

\* Faulty: the connection is not taken off the list.
initialize_connection_listed(c) ==
  /\ conn' = [conn EXCEPT ![c] = Off]
  /\ up' = ShipSend04(conn[c], up)
  /\ sent' = sent \cup Sending(conn[c])
  /\ UNCHANGED list

\* initialize_connection: the backup of a battle character is put back, the
\* character is sent to be saved and the socket closed.
initialize_connection(c) ==
  /\ conn' = [conn EXCEPT ![c] = Off]
  /\ list' = Kept(list, {i \in 1 .. Len(list) : list[i] # c})
  /\ up' = ShipSend04(conn[c], up)
  /\ sent' = sent \cup Sending(conn[c])

\* The packet the ship reads next, and what is left.
Arrives(type) == down # <<>> /\ Head(down).type = type
ShipReads == down' = Tail(down)

----------------------------------------------------------------------------
(* The login server                                                        *)

\* LoginProcessPacket: a player logs on; the ship is told to disconnect the
\* account, and new security data are stored.
Login ==
  /\ logins < MaxLogins
  /\ logins' = logins + 1
  /\ down' = Queued(down, Kick)
  /\ missed' = (missed \/ ~link)
  /\ UNCHANGED <<conn, list, up, link, stored, losses, gained, sent>>

Serves(type) == up # <<>> /\ Head(up).type = type /\ up' = Tail(up)

\* 0x0B: the security data of the client are compared with those stored.
Authenticate ==
  /\ Serves("0B_auth")
  /\ down' = Append(down, IF Head(up).login = logins THEN AuthOK ELSE AuthFail)
  /\ UNCHANGED <<conn, list, link, stored, logins, losses, history>>

\* 0x04/00: the stored character is sent to the ship.
LoadCharacter ==
  /\ Serves("04/00_load")
  /\ down' = Append(down, Data(Head(up).conn, stored))
  /\ UNCHANGED <<conn, list, link, stored, logins, losses, history>>

\* 0x04/02: the character is stored, and its save acknowledged.
SaveCharacter ==
  /\ Serves("04/02_save")
  /\ stored' = Head(up).char
  /\ down' = Append(down, Saved)
  /\ UNCHANGED <<conn, list, link, logins, losses, history>>

LoginServes == Authenticate \/ LoadCharacter \/ SaveCharacter

----------------------------------------------------------------------------
(* The ship: its clients                                                   *)

\* Nobody of the account waits to be let in, and no answer to a 0x93 is under
\* way: the ship finds the connection an answer is for by its account alone.
DoorFree ==
  /\ \A c \in Conns : conn[c].on => conn[c].guildcard
  /\ \A p \in ToSet(up) \cup ToSet(down) : p.type \notin {"0B_auth", "0B_ok", "0B_fail"}

\* 0x93 on a new connection by the client of login k.
Connect(c, k) ==
  /\ ~conn[c].on
  /\ DoorFree /\ \A d \in Conns : conn[d].on => conn[d].login # k
  /\ Len(up) + Len(down) < MaxQueue
  /\ conn' = [conn EXCEPT ![c] = [Off EXCEPT !.on = TRUE, !.login = k]]
  /\ list' = Append(list, c)
  /\ up' = Queued(up, Auth(k))
  /\ UNCHANGED <<down, link, stored, logins, losses, history>>

\* Play: the permanent character gains x.
Gain(c, x) ==
  /\ conn[c].gotchardata /\ ~conn[c].mode
  /\ x \notin gained
  /\ conn' = [conn EXCEPT ![c].char = @ \cup {x}]
  /\ gained' = gained \cup {x}
  /\ UNCHANGED <<list, up, down, link, stored, logins, losses, sent, missed>>

\* Command10/0F: a battle begins, with a temporary character.
StartBattle(c) ==
  /\ conn[c].gotchardata /\ ~conn[c].mode
  /\ conn' = [conn EXCEPT ![c].mode = TRUE]
  /\ UNCHANGED <<list, up, down, link, stored, logins, losses, history>>

\* Send95: back in a lobby, with the permanent character.
EndBattle(c) ==
  /\ conn[c].mode
  /\ conn' = [conn EXCEPT ![c].mode = FALSE]
  /\ UNCHANGED <<list, up, down, link, stored, logins, losses, history>>

\* Send1D: the backup of every five minutes.
Autosave(c) ==
  /\ conn[c].gotchardata /\ ~conn[c].mode
  /\ Len(up) + Len(down) < MaxQueue
  /\ up' = ShipSend04(conn[c], up)
  /\ sent' = sent \cup Sending(conn[c])
  /\ UNCHANGED <<conn, list, down, link, stored, logins, losses, gained, missed>>

\* Faulty: gotchardata is cleared before the character is sent.
Release_late(c) ==
  /\ conn[c].gotchardata /\ ~conn[c].mode
  /\ conn' = [conn EXCEPT ![c].gotchardata = FALSE, ![c].released = TRUE]
  /\ UNCHANGED <<list, up, down, link, stored, logins, losses, history>>

\* Command10/EF and /FF, in a lobby: the client is released to another block
\* or ship once its character is saved.
Release(c) ==
  /\ conn[c].gotchardata /\ ~conn[c].mode
  /\ up' = ShipSend04(conn[c], up)
  /\ sent' = sent \cup Sending(conn[c])
  /\ conn' = [conn EXCEPT ![c].gotchardata = FALSE, ![c].released = TRUE]
  /\ UNCHANGED <<list, down, link, stored, logins, losses, gained, missed>>

\* The client leaves, is told to, or falls silent.
Disconnect(c) ==
  /\ conn[c].on
  /\ initialize_connection(c)
  /\ UNCHANGED <<down, link, stored, logins, losses, gained, missed>>

----------------------------------------------------------------------------
(* The ship: packets of the login server.  "todc" marks a connection that  *)
(* the same turn of the main loop closes, before the next packet.          *)

\* Faulty: a client whose character is still on its way is not found.
HasGuildcard_loaded(k) == k.guildcard /\ k.gotchardata

HasTempGuildcard(k) == k.on
HasGuildcard(k)     == k.guildcard

\* 0x0B, accepted: the first connection that asked is let in.
LetIn ==
  /\ Arrives("0B_ok") /\ ShipReads
  /\ LET who == First(HasTempGuildcard) IN
     /\ conn' = [c \in Conns |-> [conn[c] EXCEPT !.guildcard = @ \/ c \in who]]
     /\ up' = IF who = {} THEN up ELSE Queued(up, Load(CHOOSE c \in who : TRUE))
  /\ UNCHANGED <<list, link, stored, logins, losses, history>>

\* Send1A and todc for the connections in "who", at most one.
SendAway(who) ==
  /\ ShipReads
  /\ \/ who = {} /\ UNCHANGED <<conn, list, up, sent>>
     \/ \E c \in who : initialize_connection(c)
  /\ UNCHANGED <<link, stored, logins, losses, gained, missed>>

\* 0x0B, refused: the first connection that asked is closed.
Refuse == Arrives("0B_fail") /\ SendAway(First(HasTempGuildcard))

\* 0x08/00: the first connection that plays, or loads, the account is closed.
Kicked == Arrives("08/00_kick") /\ SendAway(First(HasGuildcard))

\* Faulty: the character is put in the slot it was asked for, whoever is in it.
Receive_byslot ==
  /\ Arrives("04/01_data") /\ ShipReads
  /\ LET p == Head(down) IN
     conn' = [conn EXCEPT ![p.conn].gotchardata = TRUE, ![p.conn].char = p.char]
  /\ UNCHANGED <<list, up, link, stored, logins, losses, history>>

\* 0x04/01: the character arrives at the connection it was asked for.
Receive ==
  /\ Arrives("04/01_data") /\ ShipReads
  /\ LET p == Head(down) IN
     conn' = IF conn[p.conn].guildcard
             THEN [conn EXCEPT ![p.conn].gotchardata = TRUE, ![p.conn].char = p.char]
             ELSE conn
  /\ UNCHANGED <<list, up, link, stored, logins, losses, history>>

\* 0x04/03: the first released connection of the account may go (Send19).
LetGo ==
  /\ Arrives("04/03_saved") /\ ShipReads
  /\ LET who == First(LAMBDA k : k.guildcard /\ k.released) IN
     conn' = [c \in Conns |-> [conn[c] EXCEPT !.told = @ \/ c \in who]]
  /\ UNCHANGED <<list, up, link, stored, logins, losses, history>>

----------------------------------------------------------------------------
(* The link                                                                *)

\* initialize_logon and initialize_ship: both ends forget what was on its way.
LinkLost ==
  /\ link /\ losses < MaxLosses
  /\ link' = FALSE
  /\ losses' = losses + 1
  /\ missed' = (missed \/ Kick \in ToSet(down))
  /\ up' = <<>> /\ down' = <<>>
  /\ UNCHANGED <<conn, list, stored, logins, gained, sent>>

\* reconnect_logon and the authentication of the ship.
LinkUp ==
  /\ ~link
  /\ link' = TRUE
  /\ UNCHANGED <<conn, list, up, down, stored, logins, losses, history>>

ShipServes == LetIn \/ Refuse \/ Kicked \/ Receive \/ LetGo

Next ==
  \/ Login
  \/ LoginServes
  \/ \E c \in Conns :
       \/ \E k \in 1 .. logins : Connect(c, k)
       \/ \E x \in Gains : Gain(c, x)
       \/ StartBattle(c)
       \/ EndBattle(c)
       \/ Autosave(c)
       \/ Release(c)
       \/ Disconnect(c)
  \/ ShipServes
  \/ LinkLost
  \/ LinkUp

\* The main loops of both servers never stop, and a ship reconnects every
\* fifteen seconds.  Nothing is assumed of players.
Fairness == WF_vars(LoginServes) /\ WF_vars(ShipServes) /\ WF_vars(LinkUp)

Spec == Init /\ [][Next]_vars /\ Fairness

----------------------------------------------------------------------------
(* Properties                                                              *)

\* The types of the ship's and the login server's records.
TypeOK ==
  /\ \A c \in Conns :
       /\ conn[c].on \in BOOLEAN /\ conn[c].guildcard \in BOOLEAN
       /\ conn[c].gotchardata \in BOOLEAN /\ conn[c].released \in BOOLEAN
       /\ conn[c].told \in BOOLEAN /\ conn[c].mode \in BOOLEAN
       /\ conn[c].login \in 0 .. logins /\ conn[c].char \subseteq Gains
  /\ list \in Seq(Conns) /\ ToSet(list) = {c \in Conns : conn[c].on}
  /\ link \in BOOLEAN /\ missed \in BOOLEAN
  /\ stored \subseteq Gains /\ sent \subseteq gained /\ gained \subseteq Gains

\* An account never plays on two connections at once, whatever the order of
\* logins, answers and kicks, unless a kick was lost with the link.
OnePlayer ==
  ~missed => \A c, d \in Conns : conn[c].gotchardata /\ conn[d].gotchardata => c = d

\* Whoever plays has everything that was ever sent to be saved: no character
\* is loaded from before an earlier save, as long as the link has held.
PlaysWhatWasSaved ==
  \A c \in Conns : conn[c].gotchardata /\ losses = 0 => sent \subseteq conn[c].char

\* The stored character never goes back: no save overwrites a later one, even
\* if the link breaks, unless a kick was lost with it.
StoredGrows == [][~missed => stored \subseteq stored']_vars

\* Released clients are let go or close their connection in the end, all of
\* them, unless the link broke.
SomeReleased == losses = 0 /\ \E c \in Conns : conn[c].released /\ ~conn[c].told /\ conn[c].on
ReleasedGoesOn == SomeReleased ~> ~SomeReleased

\* "Send character data to server when not using a temporary character": with
\* the link up, whatever the character gained is in the hands of a connection
\* or has been sent to be saved.
NothingDropped ==
  losses = 0 => gained \subseteq sent \cup UNION {conn[c].char : c \in Conns}
=============================================================================
