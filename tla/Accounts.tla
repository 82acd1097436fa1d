------------------------------ MODULE Accounts ------------------------------
(***************************************************************************)
(* Logging in: the login server proper, which deals out what a client then *)
(* has to show at the character server; there it comes three times, to     *)
(* fetch its characters, to choose or make one (or to change its looks, by *)
(* way of the dressing room), and to choose a ship.  The client is taken   *)
(* to be the game's own.  Stores are kept in files (NO_SQL).               *)
(*                                                                         *)
(* A turn of the main loop handles a packet of each client and then closes *)
(* the connections that are to be: one that has been given up may still    *)
(* have one packet handled.                                                *)
(***************************************************************************)
EXTENDS Integers, FiniteSets

CONSTANTS
  Users,            \* accounts, by guild card number
  Programs,         \* the clients
  Slots,            \* places for characters
  MAX_DRESS_FLAGS,
  MaxLogins,        \* bounds on logins and
  MaxMade,          \* on characters made
  Nobody

ASSUME AccountsAssumption ==
  /\ Slots \subseteq Nat /\ MAX_DRESS_FLAGS \in Nat /\ MaxLogins \in Nat /\ MaxMade \in Nat
  /\ Nobody \notin Users

NoSlot == -1

VARIABLES
  security,   \* security_data: both checks and the slot chosen
  character,  \* which character an account has in a slot, 0 for none
  dress,      \* dress_flags
  conn,       \* the connections to the character server
  program,    \* what a client knows and wants
  logins, made

accountVars == <<security, character, dress, conn, program, logins, made>>

\* sixtyfour is drawn at random: the number of the login.
NoSecurity == [sixtyfour |-> 0, thirtytwo |-> 0, slot |-> NoSlot]

NoConn ==
  [open |-> FALSE, todc |-> FALSE, spent |-> FALSE, guildcard |-> Nobody,
   sendingchars |-> FALSE, slotnum |-> NoSlot, dress_flag |-> FALSE]

Idle ==
  [who |-> Nobody, sixtyfour |-> 0, thirtytwo |-> 0, chosen |-> NoSlot, dressing |-> NoSlot]

NoFlag == [guildcard |-> Nobody, old |-> FALSE]

AccountsInit ==
  /\ security = [g \in Users |-> NoSecurity]
  /\ character = [g \in Users |-> [n \in Slots |-> 0]]
  /\ dress = [i \in 1 .. MAX_DRESS_FLAGS |-> NoFlag]
  /\ conn = [p \in Programs |-> NoConn]
  /\ program = [p \in Programs |-> Idle]
  /\ logins = 0 /\ made = 0

----------------------------------------------------------------------------

\* Faulty: what an earlier login was given still holds.
Fresh64_kept(g) == IF security[g].sixtyfour = 0 THEN logins + 1 ELSE security[g].sixtyfour

Fresh64(g) == logins + 1

\* initialize_connection, at the end of the turn.
Close(p) ==
  /\ conn[p].todc
  /\ conn' = [conn EXCEPT ![p] = NoConn]
  /\ program' = [program EXCEPT ![p] = Idle]
  /\ UNCHANGED <<security, character, dress, logins, made>>

\* Nothing comes before the turn is over.
TurnOver == \A p \in Programs : ~conn[p].todc

\* 0x93 to the login server, which closes the account's connection to the
\* character server, if it has one.
LoginProcessPacket(p, g) ==
  /\ ~conn[p].open /\ TurnOver
  /\ logins < MaxLogins /\ logins' = logins + 1
  /\ conn' = [q \in Programs |->
       IF conn[q].guildcard = g THEN [conn[q] EXCEPT !.todc = TRUE] ELSE conn[q]]
  /\ security' = [security EXCEPT ![g] = [NoSecurity EXCEPT !.sixtyfour = Fresh64(g)]]
  /\ dress' = [i \in DOMAIN dress |->
       IF dress[i].guildcard = g \/ dress[i].old THEN NoFlag ELSE dress[i]]
  /\ program' = [program EXCEPT ![p] = [Idle EXCEPT !.who = g, !.sixtyfour = Fresh64(g)]]
  /\ UNCHANGED <<character, made>>

Known(p) ==
  LET c == program[p]
  IN /\ c.sixtyfour = security[c.who].sixtyfour
     /\ c.thirtytwo \in {0, security[c.who].thirtytwo}

\* 0x93 to the character server of a client it does not know.
Refuse(p) ==
  /\ ~conn[p].open /\ program[p].who # Nobody /\ TurnOver /\ ~Known(p)
  /\ program' = [program EXCEPT ![p] = Idle]
  /\ UNCHANGED <<security, character, dress, conn, logins, made>>

\* Faulty: a client that has chosen nothing is sent on as well.
OutOfStep_never(p, slot) == FALSE

\* "Client/Server synchronization error."
OutOfStep(p, slot) == slot # NoSlot /\ program[p].chosen = NoSlot

\* 0x93 to the character server.
Connect(p) ==
  LET g == program[p].who
      slot == security[g].slot
  IN /\ ~conn[p].open /\ g # Nobody /\ TurnOver /\ Known(p)
     /\ conn' = [conn EXCEPT ![p] =
          [NoConn EXCEPT !.open = TRUE, !.guildcard = g, !.todc = OutOfStep(p, slot),
             !.sendingchars = program[p].thirtytwo = 0, !.slotnum = slot,
             !.dress_flag = \E i \in DOMAIN dress : dress[i].guildcard = g]]
     /\ security' = [security EXCEPT ![g].thirtytwo = IF @ = 0 THEN @ + 1 ELSE @]
     /\ program' = [program EXCEPT ![p].thirtytwo = security'[g].thirtytwo]
     /\ UNCHANGED <<character, dress, logins, made>>

\* A packet of p is handled; a connection given up has one more at most.
Turn(p) ==
  /\ conn[p].open /\ ~conn[p].spent
  /\ \A q \in Programs \ {p} : conn[q].todc => conn[p].todc
  /\ UNCHANGED logins

\* The slot written is that of whoever logged in last.
SetSlot(p, n) ==
  /\ security' = [security EXCEPT ![conn[p].guildcard].slot = n]
  /\ program' = [program EXCEPT ![p].chosen = n]

Choosing(p) ==
  Turn(p) /\ ~conn[p].sendingchars /\ conn[p].slotnum = NoSlot /\ program[p].chosen = NoSlot

\* 0xE3: SendE4_E5 with selecting set.
Select(p, n) ==
  /\ Choosing(p)
  /\ character[conn[p].guildcard][n] # 0 /\ program[p].dressing = NoSlot
  /\ SetSlot(p, n)
  /\ conn' = [conn EXCEPT ![p].spent = conn[p].todc]
  /\ UNCHANGED <<character, dress, made>>

\* 0xE5: a new character, or another look for an old one.
AckCharacter_Creation(p, n) ==
  LET g == conn[p].guildcard
      keep == conn[p].dress_flag /\ character[g][n] # 0
  IN /\ Choosing(p)
     /\ program[p].dressing \in {n, NoSlot}
     /\ made < MaxMade /\ made' = IF keep THEN made ELSE made + 1
     /\ character' = [character EXCEPT ![g][n] = IF keep THEN @ ELSE made + 1]
     /\ SetSlot(p, n)
     /\ conn' = [conn EXCEPT ![p].spent = conn[p].todc]
     /\ UNCHANGED dress

FreeFlags == {i \in DOMAIN dress : dress[i].guildcard = Nobody}

\* 0xEC/02: to the dressing room with the character in slot n.  That there is
\* no flag to be had is not noticed.
DressingRoom(p, n) ==
  LET g == conn[p].guildcard
  IN /\ Choosing(p)
     /\ character[g][n] # 0 /\ program[p].dressing = NoSlot
     /\ dress' = [i \in DOMAIN dress |->
          IF i \in FreeFlags /\ \A j \in FreeFlags : i <= j
          THEN [NoFlag EXCEPT !.guildcard = g] ELSE dress[i]]
     /\ conn' = [conn EXCEPT ![p] = [@ EXCEPT !.dress_flag = TRUE, !.spent = conn[p].todc]]
     /\ program' = [program EXCEPT ![p].dressing = n]
     /\ UNCHANGED <<security, character, made>>

\* DRESS_FLAG_EXPIRY, two hours, goes by.
FlagsAge ==
  /\ \E i \in DOMAIN dress : dress[i].guildcard # Nobody /\ ~dress[i].old
  /\ dress' = [i \in DOMAIN dress |-> [dress[i] EXCEPT !.old = dress[i].guildcard # Nobody]]
  /\ UNCHANGED <<security, character, conn, program, logins, made>>

\* The client closes the connection, to come again for the next step.
Leave(p) ==
  /\ conn[p].open /\ ~conn[p].todc /\ TurnOver /\ conn[p].slotnum = NoSlot
  /\ conn' = [conn EXCEPT ![p] = NoConn]
  /\ UNCHANGED <<security, character, dress, program, logins, made>>

\* 0x10: to a ship.
ChooseShip(p) ==
  /\ Turn(p) /\ ~conn[p].todc /\ conn[p].slotnum # NoSlot
  /\ conn' = [conn EXCEPT ![p] = NoConn]
  /\ program' = [program EXCEPT ![p] = Idle]
  /\ UNCHANGED <<security, character, dress, made>>

AccountsNext ==
  \/ \E p \in Programs :
       \/ \E g \in Users : LoginProcessPacket(p, g)
       \/ \E n \in Slots : Select(p, n) \/ AckCharacter_Creation(p, n) \/ DressingRoom(p, n)
       \/ Close(p) \/ Refuse(p) \/ Connect(p) \/ Leave(p) \/ ChooseShip(p)
  \/ FlagsAge

AccountsSpec == AccountsInit /\ [][AccountsNext]_accountVars

----------------------------------------------------------------------------

AccountsTypeOK ==
  /\ \A p \in Programs :
       /\ conn[p].guildcard \in Users \cup {Nobody} /\ conn[p].slotnum \in Slots \cup {NoSlot}
       /\ program[p].chosen \in Slots \cup {NoSlot}
  /\ \A g \in Users : security[g].slot \in Slots \cup {NoSlot}

\* However often and from wherever an account logs in, one connection to the
\* character server at most is not being closed: who logged in before is shut
\* out, in the middle of a step or between two (security_data).
OnePerAccount ==
  \A p, q \in Programs :
    /\ conn[p].guildcard # Nobody /\ conn[p].guildcard = conn[q].guildcard
    /\ ~conn[p].todc /\ ~conn[q].todc
    => p = q

\* A client that is shown the ships goes there with the character it chose,
\* and not with what a connection that is being closed has written into the
\* record of the login that replaced it.
SlotIsOwnChoice ==
  \A p \in Programs :
    conn[p].open /\ ~conn[p].todc /\ conn[p].slotnum # NoSlot => conn[p].slotnum = program[p].chosen

\* One client of an account plays, with the character it chose.
LoginSound == OnePerAccount /\ SlotIsOwnChoice
=============================================================================
