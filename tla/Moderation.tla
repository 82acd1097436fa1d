----------------------------- MODULE Moderation -----------------------------
(***************************************************************************)
(* Whom a ship keeps out or silences: the bans by guild card, by address   *)
(* and by hardware that GMs order, kept in a file; the address masks;      *)
(* those who may not speak; and whom each player ignores.                  *)
(***************************************************************************)
EXTENDS Integers, Sequences, FiniteSets, SequencesExt

CONSTANTS
  Guilds,      \* guild cards
  NoGuild,     \* guild card 0, of a connection that has not logged in
  GMs,         \* those the login server calls GMs
  LocalGMs,    \* those localgms.ini names, none of whom it calls GMs
  IPs,         \* addresses
  Hardware,    \* what hwinfo can be
  MaxCrowd,    \* serverMaxConnections
  MaxBans,     \* the table's 5000 entries
  MaxSilenced, \* its 300
  MaxIgnored,  \* its 100
  MaxSteps     \* bound on the orders and restarts

ASSUME ModerationAssumption ==
  /\ GMs \subseteq Guilds /\ LocalGMs \subseteq Guilds /\ GMs \cap LocalGMs = {}
  /\ NoGuild \notin Guilds
  /\ MaxCrowd \in Nat /\ MaxBans \in Nat /\ MaxSilenced \in Nat /\ MaxIgnored \in Nat /\ MaxSteps \in Nat

VARIABLES
  crowd,       \* the connections, as serverConnectionList orders them
  bans,        \* ship_bandata[0 .. num_bans - 1]
  bandata,     \* bandata.dat
  masks,       \* addresses that ship_banmasks match
  silenced,    \* ship_ignore_list[0 .. ship_ignore_count - 1]
  steps        \* number of orders and restarts

moderationVars == <<crowd, bans, bandata, masks, silenced, steps>>

----------------------------------------------------------------------------
(* Lists                                                                   *)

\* The list without entry n.  The loop that moves the others up leaves those before the first gap
\* where they are without counting them.
Cleaned(s, n) ==
  IF n = 1 THEN Tail(s) ELSE SubSeq(s, 2, n - 1) \o SubSeq(s, n + 1, Len(s))

\* Faulty: the last entry is not looked at.
Toggled_short(s, entry, same, limit) ==
  LET found == {n \in 1 .. Len(s) - 1 : s[n] \in same}
  IN IF found # {} THEN Cleaned(s, Min(found))
     ELSE IF Len(s) < limit THEN Append(s, entry) ELSE s

\* What ban, toggle_stfu and /ignore do to their list: the first entry that is the same is taken off
\* it, or else one is put on it if there is room.
Toggled(s, entry, same, limit) ==
  LET found == {n \in DOMAIN s : s[n] \in same}
  IN IF found # {} THEN Cleaned(s, Min(found))
     ELSE IF Len(s) < limit THEN Append(s, entry) ELSE s

----------------------------------------------------------------------------
(* Logging in                                                              *)

Connection(address) ==
  [ip |-> address, hw |-> NoGuild, temp |-> NoGuild, guild |-> NoGuild, sendCheck |-> FALSE,
   asks |-> NoGuild, todc |-> FALSE, ignoring |-> <<>>]

Accept ==
  /\ Len(crowd) < MaxCrowd
  /\ \E address \in IPs : crowd' = Append(crowd, Connection(address))
  /\ UNCHANGED <<bans, bandata, masks, silenced>>

Banned(guild, address, hardware) ==
  \/ \E n \in DOMAIN bans :
       CASE bans[n].type = 1 -> bans[n].guildcard = guild
         [] bans[n].type = 2 -> bans[n].ipaddr = address
         [] bans[n].type = 3 -> bans[n].hwinfo = hardware
  \/ address \in masks

\* 0x93, which a client sends once; the login server is asked (0x0B) unless it has been.
LogIn(c) ==
  /\ crowd[c].temp = NoGuild
  /\ \E guild \in Guilds, hardware \in Hardware :
       crowd' = [crowd EXCEPT
         ![c].temp = guild,
         ![c].hw = hardware,
         ![c].todc = @ \/ Banned(guild, crowd[c].ip, hardware),
         ![c].sendCheck = @ \/ ~Banned(guild, crowd[c].ip, hardware),
         ![c].asks = IF crowd[c].sendCheck \/ Banned(guild, crowd[c].ip, hardware) THEN @ ELSE guild]
  /\ UNCHANGED <<bans, bandata, masks, silenced>>

\* The answer is about a guild card: the first connection that gave it gets it.
AccountAnswer(c) ==
  LET guild == crowd[c].asks
      answered == [crowd EXCEPT ![c].asks = NoGuild]
      takers == {k \in DOMAIN crowd : crowd[k].temp = guild}
  IN /\ guild # NoGuild
     /\ IF takers = {} THEN crowd' = answered
        ELSE \/ crowd' = [answered EXCEPT ![Min(takers)].guild = guild]
             \/ crowd' = [answered EXCEPT ![Min(takers)].todc = TRUE]
     /\ UNCHANGED <<bans, bandata, masks, silenced>>

\* The client closes the connection, or the main loop does.
HangUp(c) ==
  /\ crowd' = RemoveAt(crowd, c)
  /\ UNCHANGED <<bans, bandata, masks, silenced>>

----------------------------------------------------------------------------
(* Orders                                                                  *)

Staff(guild) == guild \in GMs \cup LocalGMs

\* bandata.dat is written, or cannot be opened.
Filed(list) == bandata' \in {list, bandata}

\* The connections of a guild card.
Online(guild) == {k \in DOMAIN crowd : crowd[k].guild = guild}

BanEntry(guild, type, c) ==
  [guildcard |-> guild, type |-> type, ipaddr |-> crowd[c].ip, hwinfo |-> crowd[c].hw]

\* /ban, /ipban and /hwban: a guild card that is banned no longer is; one that is not must be
\* connected, and is thrown out.
OrderBan(c, guild, type) ==
  /\ Staff(crowd[c].guild)
  /\ LET same == {b \in ToSet(bans) : b.guildcard = guild /\ b.type = type}
         target == Min(Online(guild))
     IN IF same # {}
        THEN /\ bans' = Toggled(bans, BanEntry(guild, type, c), same, MaxBans)
             /\ Filed(bans')
             /\ UNCHANGED crowd
        ELSE /\ Online(guild) # {}
             /\ ~Staff(guild)
             /\ bans' = Toggled(bans, BanEntry(guild, type, target), same, MaxBans)
             /\ IF bans' = bans THEN UNCHANGED <<bandata, crowd>>
                ELSE Filed(bans') /\ crowd' = [crowd EXCEPT ![target].todc = TRUE]
  /\ UNCHANGED <<masks, silenced>>

\* A local GM may do nothing to a GM.
MayOrder(c, guild) == Staff(crowd[c].guild) /\ ~(crowd[c].guild \in LocalGMs /\ guild \in GMs)

\* /stfu
OrderSilence(c, guild) ==
  /\ Online(guild) # {}
  /\ MayOrder(c, guild)
  /\ silenced' = Toggled(silenced, guild, {guild}, MaxSilenced)
  /\ UNCHANGED <<crowd, bans, bandata, masks>>

\* /dc
OrderOut(c, guild) ==
  /\ Online(guild) # {}
  /\ MayOrder(c, guild)
  /\ crowd' = [crowd EXCEPT ![Min(Online(guild))].todc = TRUE]
  /\ UNCHANGED <<bans, bandata, masks, silenced>>

\* /updatemasks reads what the operator has written.
UpdateMasks(c) ==
  /\ Staff(crowd[c].guild)
  /\ masks' \in SUBSET IPs
  /\ UNCHANGED <<crowd, bans, bandata, silenced>>

\* /ignore
Ignore(c, guild) ==
  /\ crowd[c].guild # NoGuild
  /\ crowd' = [crowd EXCEPT ![c].ignoring = Toggled(@, guild, {guild}, MaxIgnored)]
  /\ UNCHANGED <<bans, bandata, masks, silenced>>

\* The ship is started again.
Restart ==
  /\ crowd' = <<>> /\ silenced' = <<>>
  /\ bans' = SubSeq(bandata, 1, IF Len(bandata) > MaxBans THEN MaxBans ELSE Len(bandata))
  /\ masks' \in SUBSET IPs
  /\ UNCHANGED bandata

ModerationInit == crowd = <<>> /\ bans = <<>> /\ bandata = <<>> /\ masks = {} /\ silenced = <<>> /\ steps = 0

ModerationNext ==
  \/ UNCHANGED steps /\ Accept
  \/ UNCHANGED steps /\ \E c \in DOMAIN crowd : LogIn(c) \/ AccountAnswer(c) \/ HangUp(c)
  \/ /\ steps < MaxSteps /\ steps' = steps + 1
     /\ \/ Restart
        \/ \E c \in DOMAIN crowd :
             \/ UpdateMasks(c)
             \/ \E guild \in Guilds \cup {NoGuild} :
                  \/ \E type \in 1 .. 3 : OrderBan(c, guild, type)
                  \/ OrderSilence(c, guild)
                  \/ OrderOut(c, guild)
             \/ \E guild \in Guilds : Ignore(c, guild)

ModerationSpec == ModerationInit /\ [][ModerationNext]_moderationVars

----------------------------------------------------------------------------

ModerationTypeOK ==
  /\ Len(crowd) <= MaxCrowd
  /\ \A c \in DOMAIN crowd :
       /\ crowd[c].guild \in Guilds \cup {NoGuild}
       /\ Len(crowd[c].ignoring) <= MaxIgnored
  /\ Len(bans) <= MaxBans /\ Len(bandata) <= MaxBans
  /\ Len(silenced) <= MaxSilenced
  /\ masks \subseteq IPs /\ steps \in 0 .. MaxSteps

\* One order lifts a ban, whatever came before: nobody is on the list twice for the same kind of
\* ban, neither in memory nor after a restart from the file; nobody is silenced twice, nor ignored
\* twice by the same player.
OneOrderLifts ==
  /\ \A list \in {bans, bandata} :
       \A n, k \in DOMAIN list : n # k => list[n].guildcard # list[k].guildcard \/ list[n].type # list[k].type
  /\ IsInjective(silenced)
  /\ \A c \in DOMAIN crowd : IsInjective(crowd[c].ignoring)

\* What an order to unban takes off the list is one ban: "GM %u has removed ban from guild card %u".
LiftsOnlyOne ==
  [][~Restart => Cardinality(ToSet(bans) \ ToSet(bans')) <= 1]_moderationVars
=============================================================================
