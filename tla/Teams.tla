------------------------------- MODULE Teams -------------------------------
(***************************************************************************)
(* Teams: the login server's store of teams and of who belongs to which,   *)
(* kept in files (NO_SQL), and the copies of it in the characters that the *)
(* ships have loaded.  A ship acts on its copies, passes an order on and   *)
(* seldom waits for the answer; a link delivers in order, until it is lost *)
(* with all that is on it.                                                 *)
(*                                                                         *)
(* The flag, the chat and the list of members are left out, and the second *)
(* a client has to wait between two commands of a kind.                    *)
(***************************************************************************)
EXTENDS Integers, Sequences, FiniteSets, SequencesExt

CONSTANTS
  Accounts,   \* guild card numbers
  TeamShips,  \* ships
  Names,      \* names of teams
  TeamFiles,  \* what team.dat and account.dat may hold when the servers start
  MaxTeam,    \* bound on the ids of teams
  MaxOrders,  \* bound on the orders clients give
  MaxLost,    \* bound on the links that are lost
  NoOne

\* privilegeLevel
Member == 0
Officer == 48
Master == 64

Privileges == {Member, Officer, Master}

NoTeam == 0   \* -1 in account.dat, 0 in a character

\* A record is of a team if it has an owner.  The head is history: who made the
\* team or was last made its master.
TeamRecord ==
  {r \in [id : Nat, owner : Accounts \cup {NoOne}, head : Accounts \cup {NoOne}, name : Names] :
     (r.id = NoTeam <=> r.owner = NoOne) /\ (r.id = NoTeam <=> r.head = NoOne)}

\* Files that the servers may have left: every team has an id of its own, and
\* its master is its head.
LeftBehind(f) ==
  /\ f.teams \in Seq(TeamRecord)
  /\ \A i, j \in DOMAIN f.teams : f.teams[i].id # NoTeam /\ f.teams[i].id = f.teams[j].id => i = j
  /\ f.members \in [Accounts -> [team : Nat, priv : Privileges]]
  /\ \A g \in Accounts : f.members[g].team # NoTeam /\ f.members[g].priv = Master =>
       \E i \in DOMAIN f.teams : f.teams[i].id = f.members[g].team /\ f.teams[i].head = g

ASSUME TeamsAssumption ==
  /\ MaxTeam \in Nat /\ MaxOrders \in Nat /\ MaxLost \in Nat
  /\ IsFiniteSet(Accounts) /\ NoOne \notin Accounts \cup TeamShips
  /\ \A f \in TeamFiles : LeftBehind(f)

VARIABLES
  team_data,  \* the records: id (0 when dissolved), owner, head and name
  account,    \* teamid and privlevel of each account
  char,       \* the ship a client is on and what its character says
  up, down,   \* what is on the links to the login server and to the ships
  joined,     \* the ships that have a link
  orders,
  lost,
  strayed,    \* history: an order named somebody of another team
  torn        \* history: an order that promotes was lost with a link

teamVars == <<team_data, account, char, up, down, joined, orders, lost, strayed, torn>>

Away == [ship |-> NoOne, loaded |-> FALSE, team |-> NoTeam, priv |-> Member, accept |-> FALSE]

TeamsInit ==
  /\ \E f \in TeamFiles : team_data = f.teams /\ account = f.members
  /\ char = [g \in Accounts |-> Away]
  /\ up = [h \in TeamShips |-> <<>>]
  /\ down = [h \in TeamShips |-> <<>>]
  /\ joined = TeamShips
  /\ orders = 0 /\ lost = 0
  /\ strayed = FALSE /\ torn = FALSE

----------------------------------------------------------------------------
(* The login server                                                        *)

Live == {i \in DOMAIN team_data : team_data[i].id # NoTeam}

\* highid + 1
NewId == Max({team_data[i].id : i \in DOMAIN team_data} \cup {0}) + 1

\* The record a new team is written to: the last one without an owner.
NewRecord ==
  LET free == {i \in DOMAIN team_data : team_data[i].owner = NoOne}
  IN IF free = {} THEN Len(team_data) + 1 ELSE Max(free)

\* The records with t at place i.
Written(i, t) == IF i > Len(team_data) THEN Append(team_data, t) ELSE [team_data EXCEPT ![i] = t]

Answer(h, m) == down' = [down EXCEPT ![h] = Append(@, m)]

\* 0x09/00
CreateTeam(h, m) ==
  IF \E i \in DOMAIN team_data : team_data[i].name = m.name
  THEN UNCHANGED <<team_data, account, down>>
  ELSE /\ team_data' = Written(NewRecord, [id |-> NewId, owner |-> m.by, head |-> m.by, name |-> m.name])
       /\ account' = [account EXCEPT ![m.by] = [team |-> NewId, priv |-> Master]]
       /\ Answer(h, [kind |-> "created", who |-> m.by, team |-> NewId])

\* 0x09/02: told to nobody but the ship that asked.
DissolveTeam(h, m) ==
  /\ team_data' = [i \in DOMAIN team_data |->
       IF team_data[i].id = m.team
       THEN [id |-> NoTeam, owner |-> NoOne, head |-> NoOne, name |-> team_data[i].name] ELSE team_data[i]]
  /\ account' = [g \in Accounts |->
       IF account[g].team = m.team THEN [account[g] EXCEPT !.team = NoTeam] ELSE account[g]]
  /\ Answer(h, [kind |-> "dissolved", team |-> m.team])

\* 0x09/03
RemoveTeamMember(m) ==
  /\ account' = IF account[m.who].team = m.team
                THEN [account EXCEPT ![m.who].team = NoTeam] ELSE account
  /\ UNCHANGED <<team_data, down>>

\* The accounts of account.dat: as many records are searched for a team.
num_accounts == Cardinality(Accounts)

\* An order makes somebody master of a team that is not found, and the search
\* goes on past the last record.
Missing(m) ==
  /\ m.kind = "promote" /\ m.priv = Master /\ Len(team_data) < num_accounts
  /\ \A i \in DOMAIN team_data : team_data[i].id # m.team

\* The first half of 0x09/06.
SetLevel(m) ==
  account' = IF account[m.who].team = m.team
             THEN [account EXCEPT ![m.who].priv = m.priv] ELSE account

\* Record i handed to who: the owner stays if it is too far back to be found.
HandedTo(i, who) == [team_data[i] EXCEPT !.head = who, !.owner = IF i <= num_accounts THEN who ELSE @]

\* 0x09/06: whoever is named becomes the owner, a member or not.
PromoteTeamMember(m) ==
  /\ ~Missing(m)
  /\ SetLevel(m)
  /\ team_data' = [i \in DOMAIN team_data |->
       IF team_data[i].id = m.team /\ m.priv = Master THEN HandedTo(i, m.who) ELSE team_data[i]]
  /\ UNCHANGED down

\* 0x09/07
AddTeamMember(m) ==
  /\ account' = [account EXCEPT ![m.who] = [team |-> m.team, priv |-> Member]]
  /\ UNCHANGED <<team_data, down>>

\* 0x04/00, what it says of teams.
LoadTeam(h, m) ==
  /\ Answer(h, [kind |-> "loaded", who |-> m.by, team |-> account[m.by].team,
                priv |-> IF account[m.by].team = NoTeam THEN Member ELSE account[m.by].priv])
  /\ UNCHANGED <<team_data, account>>

TeamOrder(h) ==
  /\ up[h] # <<>>
  /\ up' = [up EXCEPT ![h] = Tail(@)]
  /\ LET m == Head(up[h]) IN
     \/ m.kind = "create" /\ CreateTeam(h, m)
     \/ m.kind = "dissolve" /\ DissolveTeam(h, m)
     \/ m.kind = "remove" /\ RemoveTeamMember(m)
     \/ m.kind = "promote" /\ PromoteTeamMember(m)
     \/ m.kind = "add" /\ AddTeamMember(m)
     \/ m.kind = "load" /\ LoadTeam(h, m)
  /\ UNCHANGED <<char, joined, orders, lost, strayed, torn>>

----------------------------------------------------------------------------
(* The links                                                               *)

\* Some of the orders promote, so a team may be left half handed over.
Promotes(q) == \E k \in DOMAIN q : q[k].kind = "promote"

\* The links of the ships hs are lost with what is on them, up to the login
\* server and down; the clients of the ships stay.
Lose(hs) ==
  /\ up' = [k \in TeamShips |-> IF k \in hs THEN <<>> ELSE up[k]]
  /\ down' = [k \in TeamShips |-> IF k \in hs THEN <<>> ELSE down[k]]
  /\ joined' = joined \ hs
  /\ torn' = (torn \/ \E k \in hs : Promotes(up[k]))
  /\ UNCHANGED <<team_data, char, orders, strayed>>

LoseLink(h) ==
  /\ h \in joined /\ lost < MaxLost
  /\ lost' = lost + 1
  /\ Lose({h})
  /\ UNCHANGED account

\* The login server stops in the middle of an order, at a team that is gone,
\* and starts again from its files.
NoSuchTeam(h) ==
  /\ up[h] # <<>> /\ Missing(Head(up[h]))
  /\ SetLevel(Head(up[h]))
  /\ Lose(TeamShips)
  /\ UNCHANGED lost

\* A ship connects again.
RegainLink(h) ==
  /\ h \notin joined
  /\ joined' = joined \cup {h}
  /\ UNCHANGED <<team_data, account, char, up, down, orders, lost, strayed, torn>>

----------------------------------------------------------------------------
(* The ships: answers                                                      *)

\* guildCard2 and what follows it, set to zero.
Cleared(c) == [c EXCEPT !.team = NoTeam, !.priv = Member]

On(h) == {g \in Accounts : char[g].ship = h /\ char[g].loaded}

Created(h, m) ==
  char' = IF m.who \in On(h)
          THEN [char EXCEPT ![m.who].team = m.team, ![m.who].priv = Master] ELSE char

Dissolved(h, m) ==
  char' = [g \in Accounts |->
             IF g \in On(h) /\ char[g].team = m.team THEN Cleared(char[g]) ELSE char[g]]

Loaded(h, m) ==
  char' = IF char[m.who].ship = h
          THEN [char EXCEPT ![m.who] = [@ EXCEPT !.loaded = TRUE, !.team = m.team, !.priv = m.priv]]
          ELSE char

TeamAnswer(h) ==
  /\ down[h] # <<>>
  /\ down' = [down EXCEPT ![h] = Tail(@)]
  /\ LET m == Head(down[h]) IN
     \/ m.kind = "created" /\ Created(h, m)
     \/ m.kind = "dissolved" /\ Dissolved(h, m)
     \/ m.kind = "loaded" /\ Loaded(h, m)
  /\ UNCHANGED <<team_data, account, up, joined, orders, lost, strayed, torn>>

----------------------------------------------------------------------------
(* The ships: clients                                                      *)

\* A client comes to a ship, which asks for its character.
Come(g, h) ==
  /\ char[g].ship = NoOne /\ orders < MaxOrders /\ h \in joined
  /\ char' = [char EXCEPT ![g].ship = h]
  /\ up' = [up EXCEPT ![h] = Append(@, [kind |-> "load", by |-> g])]
  /\ UNCHANGED <<team_data, account, down, joined, orders, lost, strayed, torn>>

\* It goes.  What it has said is dealt with by the time it can be back: to
\* change ships it waits for an answer, to log in again it needs seconds.
Go(g) ==
  /\ char[g].ship # NoOne /\ orders < MaxOrders
  /\ up[char[g].ship] = <<>> /\ down[char[g].ship] = <<>>
  /\ char' = [char EXCEPT ![g] = Away]
  /\ UNCHANGED <<team_data, account, up, down, joined, orders, lost, strayed, torn>>

\* 0x62/C2: it accepts to be invited.
AcceptInvitation(g) ==
  /\ char[g].loaded /\ char[g].team = NoTeam /\ ~char[g].accept
  /\ char' = [char EXCEPT ![g].accept = TRUE]
  /\ UNCHANGED <<team_data, account, up, down, joined, orders, lost, strayed, torn>>

\* g gives an order, which the ship sends on if it has a link.
Order(g, messages) ==
  /\ char[g].loaded
  /\ orders < MaxOrders /\ orders' = orders + 1
  /\ up' = IF char[g].ship \in joined THEN [up EXCEPT ![char[g].ship] = @ \o messages] ELSE up
  /\ torn' = (torn \/ (char[g].ship \notin joined /\ Promotes(messages)))
  /\ UNCHANGED <<team_data, account, down, joined, lost>>

\* 0x01
Create(g) ==
  /\ char[g].team = NoTeam /\ NewId <= MaxTeam
  /\ \E n \in Names : Order(g, <<[kind |-> "create", by |-> g, name |-> n]>>)
  /\ UNCHANGED <<char, strayed>>

\* 0x03
Invite(g, x) ==
  /\ char[g].team # NoTeam /\ char[g].priv >= Officer
  /\ char[x].loaded /\ char[x].ship = char[g].ship
  /\ char[x].team = NoTeam /\ char[x].accept
  /\ Order(g, <<[kind |-> "add", team |-> char[g].team, who |-> x]>>)
  /\ char' = [char EXCEPT ![x] = [@ EXCEPT !.team = char[g].team, !.priv = Member, !.accept = FALSE]]
  /\ UNCHANGED strayed

\* 0x05 with another's number: who is here loses its team, whichever it is.
Expel(g, x) ==
  /\ char[g].team # NoTeam /\ x # g /\ char[g].priv = Master
  /\ Order(g, <<[kind |-> "remove", team |-> char[g].team, who |-> x]>>)
  /\ char' = IF x \in On(char[g].ship) /\ char[x].priv < char[g].priv
             THEN [char EXCEPT ![x] = Cleared(@)] ELSE char
  /\ UNCHANGED strayed

\* 0x05 with its own number.
LeaveTeam(g) ==
  /\ char[g].team # NoTeam
  /\ Order(g, <<[kind |-> "remove", team |-> char[g].team, who |-> g]>>)
  /\ char' = [char EXCEPT ![g] = Cleared(@)]
  /\ UNCHANGED strayed

\* 0x10
Dissolve(g) ==
  /\ char[g].team # NoTeam /\ char[g].priv = Master
  /\ Order(g, <<[kind |-> "dissolve", by |-> g, team |-> char[g].team]>>)
  /\ char' = [char EXCEPT ![g] = Cleared(@)]
  /\ UNCHANGED strayed

\* Faulty: the old master's own level is changed on the ship only.
Promotion_half(t, g, x, level) == <<[kind |-> "promote", team |-> t, who |-> x, priv |-> level]>>

\* The messages of 0x11: two when the team is handed over.
Promotion(t, g, x, level) ==
  LET rise == [kind |-> "promote", team |-> t, who |-> x, priv |-> level]
      retire == [kind |-> "promote", team |-> t, who |-> g, priv |-> Officer]
  IN IF level = Master THEN <<rise, retire>> ELSE <<rise>>

\* Faulty: a master stays master on the ship.
Demoted_not(level) == Master

Demoted(level) == IF level = Master THEN Officer ELSE Master

\* 0x11: who is here takes the level, whichever its team.
Promote(g, x, level) ==
  LET here == x \in On(char[g].ship)
  IN /\ char[g].team # NoTeam /\ x # g /\ char[g].priv = Master
     /\ Order(g, Promotion(char[g].team, g, x, level))
     /\ char' = [y \in Accounts |->
          IF y = g THEN [char[y] EXCEPT !.priv = Demoted(level)]
          ELSE IF y = x /\ here THEN [char[y] EXCEPT !.priv = level] ELSE char[y]]
     /\ strayed' = (strayed \/ (here /\ char[x].team # char[g].team))

TeamsNext ==
  \/ \E h \in TeamShips :
       TeamOrder(h) \/ TeamAnswer(h) \/ LoseLink(h) \/ NoSuchTeam(h) \/ RegainLink(h)
  \/ \E g \in Accounts :
       \/ \E h \in TeamShips : Come(g, h)
       \/ Go(g) \/ AcceptInvitation(g) \/ Create(g) \/ LeaveTeam(g) \/ Dissolve(g)
       \/ \E x \in Accounts :
            \/ Invite(g, x) \/ Expel(g, x)
            \/ \E level \in {Member, Officer, Master} : Promote(g, x, level)

TeamsSpec == TeamsInit /\ [][TeamsNext]_teamVars

----------------------------------------------------------------------------

TeamsTypeOK ==
  /\ team_data \in Seq(TeamRecord)
  /\ \A g \in Accounts :
       /\ account[g].team \in Nat /\ account[g].priv \in Privileges
       /\ char[g].ship \in TeamShips \cup {NoOne} /\ char[g].priv \in Privileges
       /\ char[g].loaded => char[g].ship # NoOne
  /\ joined \subseteq TeamShips

\* Two teams never have one id, though the ids of dissolved teams are given
\* out again: everything else names a team by its id alone.
TeamIdsUnique == \A i, j \in Live : team_data[i].id = team_data[j].id => i = j

HandingOver(t) ==
  \E h \in TeamShips : \E m \in ToSet(up[h]) :
    m.kind = "promote" /\ m.team = t /\ m.priv = Officer

\* Two accounts are masters of a team only between the two messages of a
\* handover, or once one of these was lost with a link, or was of somebody of
\* another team (a ship gives the level to whoever is named and on it): what
\* goes wrong goes wrong by these, and by no other order, answer, login or link
\* that breaks.
OneMaster ==
  strayed \/ torn \/ \A i \in Live :
    \/ HandingOver(team_data[i].id)
    \/ Cardinality({g \in Accounts : account[g] = [team |-> team_data[i].id, priv |-> Master]}) <= 1

\* Every team has a number of its own and one master.
TeamsSound == TeamIdsUnique /\ OneMaster

\* A ship lets its copy of the privilege decide, and the login server does
\* what it is told: still a team is dissolved at the order only of who was made
\* its master last, wherever it was handed over and whoever has not heard of
\* it, and whatever other orders are lost with the links.  (With the exceptions
\* above.  This is not who team.dat says owns it.)
DissolvedByMaster ==
  [][\A i \in DOMAIN team_data :
       team_data[i].id # NoTeam /\ i \in DOMAIN team_data' /\ team_data'[i].id = NoTeam =>
         \/ strayed \/ torn
         \/ \E h \in TeamShips : up[h] # <<>> /\ up'[h] # up[h] /\ Head(up[h]).by = team_data[i].head]_teamVars
=============================================================================
