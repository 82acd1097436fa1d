-------------------------------- MODULE Post --------------------------------
(***************************************************************************)
(* What players say to each other: in a room, to their team, by mail and,  *)
(* as GMs, to everybody; and how they are looked for.  What leaves a room  *)
(* goes by way of the login server, which passes it on to every ship; a    *)
(* link delivers in order, and loses what is on it when it breaks.         *)
(***************************************************************************)
EXTENDS Integers, Sequences, FiniteSets, SequencesExt

CONSTANTS
  Writers,     \* guild cards
  PostShips,   \* ships
  Held,        \* Held[g]: whose cards g has
  TeamOf,      \* TeamOf[g]: g's team, zero when it has none
  Heralds,     \* Heralds[g]: what g may announce, "local" or "global"
  Muted,       \* ship_ignore_list
  Shuns,       \* Shuns[g]: whom g ignores
  Rooms,       \* numbers of lobbies and games; those from 16 are games
  Seated,      \* Seated[h]: who sits on h at first, a sequence of [who, room, announce]
  Berths,      \* MAX_SAVED_LOBBIES
  MaxPosts,    \* bound on what is written
  MaxWalks     \* bound on coming, going, broken links and orders to announce

VARIABLES
  desks,       \* the clients of each ship, in the order of serverConnectionList
  berths,      \* savedlobbies of each ship
  slots,       \* slots[k]: the ship that is the login server's kth
  upward,      \* what is on the links to the login server
  downward,    \* and to the ships
  posts,       \* history: what was written, for whom, and who is still to get it
  walks

postVars == <<desks, berths, slots, upward, downward, posts, walks>>

NoShip == "none"
EmptyBerth == [who |-> "none", room |-> 0]

Client(g) == [who |-> g, room |-> 0, announce |-> "no", done |-> {}, got |-> <<>>]

PostInit ==
  /\ desks = [h \in PostShips |-> [c \in DOMAIN Seated[h] |->
       [Client(Seated[h][c].who) EXCEPT !.room = Seated[h][c].room, !.announce = Seated[h][c].announce]]]
  /\ berths = [h \in PostShips |-> [n \in 1 .. Berths |-> EmptyBerth]]
  /\ slots = SetToSeq(PostShips)
  /\ upward = [h \in PostShips |-> <<>>]
  /\ downward = [h \in PostShips |-> <<>>]
  /\ posts = <<>>
  /\ walks = 0

----------------------------------------------------------------------------

Linked(h) == h \in ToSet(slots)

\* serverID
ServerID(h) == CHOOSE k \in DOMAIN slots : slots[k] = h

\* compressShipPacket: nothing is kept for a link that is down.
Up(h, m) == upward' = IF Linked(h) THEN [upward EXCEPT ![h] = Append(@, m)] ELSE upward

Aboard(h) == {d.who : d \in ToSet(desks[h])}

\* The first connection with a guild card, if there is one.
OnesOf(h, g) == {c \in DOMAIN desks[h] : desks[h][c].who = g /\ \A k \in 1 .. c - 1 : desks[h][k].who # g}

\* AllClients of h get a post.
Got(h, who, id) ==
  desks' = [desks EXCEPT ![h] = [c \in DOMAIN @ |-> IF c \in who THEN [@[c] EXCEPT !.got = Append(@, id)] ELSE @[c]]]

\* h's client c has given a command; the next of its kind may come in a second.
Spent(h, c, command) == desks' = [desks EXCEPT ![h][c].done = @ \cup {command}]

Ready(h, c, command) == command \notin desks[h][c].done

NewPost == Len(posts) + 1

\* A post: who may read it, and the clients that are there to get it.
Posted(kind, h, c, may, due) ==
  /\ NewPost <= MaxPosts
  /\ posts' = Append(posts, [kind |-> kind, by |-> desks[h][c].who, at |-> h, may |-> may, due |-> due])

AllAboard(may) == {<<h, g>> \in PostShips \X may : Linked(h) /\ g \in Aboard(h)}

----------------------------------------------------------------------------
(* In a room, and on a ship                                                *)

\* Those of c's room who do not ignore it; only those who speak in words hear themselves.
Hearers(h, c, itself) ==
  {k \in DOMAIN desks[h] :
     /\ desks[h][k].room = desks[h][c].room
     /\ desks[h][c].who \notin Shuns[desks[h][k].who]
     /\ k = c => itself}

\* 0x06 and 0x60/07: words and symbols; 0x60/74, chosen words, is as 0x60/07.
Say(h, c, command) ==
  /\ desks[h][c].room # 0 /\ Ready(h, c, command)
  /\ LET muted == desks[h][c].who \in Muted
         heard == IF muted THEN {} ELSE Hearers(h, c, command = "chat")
         names == {desks[h][k].who : k \in heard}
     IN /\ Posted(command, h, c, names, {<<h, g>> : g \in names})
        /\ desks' = [desks EXCEPT ![h] = [k \in DOMAIN @ |->
             LET d == IF k \in heard THEN [@[k] EXCEPT !.got = Append(@, NewPost)] ELSE @[k]
             IN  IF k = c /\ (command = "chat" \/ ~muted) THEN [d EXCEPT !.done = @ \cup {command}] ELSE d]]
  /\ UNCHANGED <<berths, slots, upward, downward>>

\* /announce and /global: the next mail is an announcement; ordered again, it is not.
Announce(h, c, kind) ==
  /\ desks[h][c].room # 0 /\ Ready(h, c, "chat")
  /\ kind \in Heralds[desks[h][c].who]
  /\ desks' = [desks EXCEPT ![h][c].announce = IF @ = "no" THEN kind ELSE "no", ![h][c].done = @ \cup {"chat"}]
  /\ UNCHANGED <<berths, slots, upward, downward, posts>>

\* Faulty: a ship shows its own players a global announcement at once and when it comes back.
BroadcastToAll_now(h, c) ==
  LET kind == desks[h][c].announce
  IN /\ Posted(kind, h, c, Writers, IF kind = "global" /\ Linked(h) THEN AllAboard(Writers) ELSE {<<h, g>> : g \in Aboard(h)})
     /\ Up(h, [kind |-> "global", id |-> NewPost])
     /\ desks' = [desks EXCEPT ![h] = [k \in DOMAIN @ |->
          [@[k] EXCEPT !.got = Append(@, NewPost), !.announce = IF k = c THEN "no" ELSE @]]]

\* A local announcement is shown on the ship, a global one goes to the login server.
BroadcastToAll(h, c) ==
  LET kind == desks[h][c].announce
      shown == IF kind = "local" THEN DOMAIN desks[h] ELSE {}
  IN /\ Posted(kind, h, c, Writers, IF kind = "local" THEN {<<h, g>> : g \in Aboard(h)}
                                     ELSE IF Linked(h) THEN AllAboard(Writers) ELSE {})
     /\ desks' = [desks EXCEPT ![h] = [k \in DOMAIN @ |->
          [@[k] EXCEPT !.got = IF k \in shown THEN Append(@, NewPost) ELSE @, !.announce = IF k = c THEN "no" ELSE @]]]
     /\ IF kind = "global" THEN Up(h, [kind |-> "global", id |-> NewPost]) ELSE UNCHANGED upward

----------------------------------------------------------------------------
(* To the login server                                                     *)

\* Who may be looked for and written to: those whose cards one has, and one's team.
Knows(g, f) == f \in Held[g] \/ (TeamOf[g] # 0 /\ TeamOf[f] = TeamOf[g])

\* 0x81
Mail(h, c, f) ==
  /\ IF desks[h][c].announce # "no" THEN BroadcastToAll(h, c)
     ELSE /\ Ready(h, c, "mail")
          /\ Posted("mail", h, c, {g \in {f} : Knows(desks[h][c].who, g)},
                     IF Linked(h) /\ Knows(desks[h][c].who, f) THEN AllAboard({f}) ELSE {})
          /\ Up(h, [kind |-> "mail", id |-> NewPost, by |-> desks[h][c].who, to |-> f])
          /\ Spent(h, c, "mail")
  /\ UNCHANGED <<berths, slots, downward>>

\* 0x40, with serverID as it is.
Search(h, c, f) ==
  /\ Ready(h, c, "search") /\ Linked(h)
  /\ Posted("search", h, c, {desks[h][c].who}, {})
  /\ Up(h, [kind |-> "search", id |-> NewPost, by |-> desks[h][c].who, to |-> f, asks |-> ServerID(h)])
  /\ Spent(h, c, "search")
  /\ UNCHANGED <<berths, slots, downward>>

\* 0xEA/07
TeamChat(h, c) ==
  LET team == TeamOf[desks[h][c].who]
      mates == {g \in Writers : TeamOf[g] = team}
  IN /\ team # 0 /\ Ready(h, c, "team")
     /\ Posted("team", h, c, mates, IF Linked(h) THEN AllAboard(mates) ELSE {})
     /\ Up(h, [kind |-> "team", id |-> NewPost, team |-> team])
     /\ Spent(h, c, "team")
     /\ UNCHANGED <<berths, slots, downward>>

\* 0xEA/08
RequestTeamList(h, c) ==
  LET g == desks[h][c].who
  IN /\ TeamOf[g] # 0 /\ Ready(h, c, "mates")
     /\ Posted("mates", h, c, {g}, IF Linked(h) THEN {<<h, g>>} ELSE {})
     /\ Up(h, [kind |-> "mates", id |-> NewPost, by |-> g])
     /\ Spent(h, c, "mates")
     /\ UNCHANGED <<berths, slots, downward>>

----------------------------------------------------------------------------
(* The login server                                                        *)

Down(ships, m) == downward' = [h \in PostShips |-> IF h \in ships /\ Linked(h) THEN Append(downward[h], m) ELSE downward[h]]

\* Faulty: the ship a mail comes from is passed over.
Passed_others(h, m) ==
  CASE m.kind \in {"global", "team"} -> Down(PostShips, m)
    [] m.kind \in {"mail", "search"} -> IF Knows(m.by, m.to) THEN Down(PostShips \ {h}, m) ELSE UNCHANGED downward
    [] m.kind = "found" -> IF slots[m.asks] # NoShip THEN Down({slots[m.asks]}, m) ELSE UNCHANGED downward
    [] m.kind = "mates" -> Down({h}, m)

\* Faulty: one may be written to by whom one has the card of.
Passed_strangers(h, m) ==
  CASE m.kind \in {"global", "team"} -> Down(PostShips, m)
    [] m.kind \in {"mail", "search"} ->
         IF Knows(m.to, m.by) THEN Down(PostShips, m) ELSE UNCHANGED downward
    [] m.kind = "found" -> IF slots[m.asks] # NoShip THEN Down({slots[m.asks]}, m) ELSE UNCHANGED downward
    [] m.kind = "mates" -> Down({h}, m)

\* 0x12, 0x09/04 and 05, 0x08/01 to 03: to every ship, or to the one that is to be answered.
Passed(h, m) ==
  CASE m.kind \in {"global", "team"} -> Down(PostShips, m)
    [] m.kind \in {"mail", "search"} -> IF Knows(m.by, m.to) THEN Down(PostShips, m) ELSE UNCHANGED downward
    [] m.kind = "found" -> IF slots[m.asks] # NoShip THEN Down({slots[m.asks]}, m) ELSE UNCHANGED downward
    [] m.kind = "mates" -> Down({h}, m)

PassOn(h) ==
  /\ upward[h] # <<>>
  /\ Passed(h, Head(upward[h]))
  /\ upward' = [upward EXCEPT ![h] = Tail(@)]
  /\ UNCHANGED <<desks, berths, slots, posts>>

----------------------------------------------------------------------------
(* Arriving at a ship                                                      *)

\* savedlobbies: g will be put into a lobby when it next enters.
Saved(table, g, room) ==
  LET free == {n \in DOMAIN table : table[n] = EmptyBerth}
  IN  IF room \notin 1 .. 15 \/ free = {} THEN table ELSE [table EXCEPT ![Min(free)] = [who |-> g, room |-> room]]

\* 0x08/01: the first connection of the one looked for that is in a room is told of.
Hit(h, m) ==
  LET hits == {c \in DOMAIN desks[h] : desks[h][c].who = m.to /\ desks[h][c].room # 0}
  IN  /\ IF hits = {} THEN UNCHANGED <<berths, upward>>
         ELSE /\ berths' = [berths EXCEPT ![h] = Saved(@, m.by, desks[h][Min(hits)].room)]
              /\ Up(h, [kind |-> "found", id |-> m.id, by |-> m.by, asks |-> m.asks])
      /\ UNCHANGED desks

ArriveAtShip(h) ==
  /\ downward[h] # <<>>
  /\ downward' = [downward EXCEPT ![h] = Tail(@)]
  /\ LET m == Head(downward[h])
     IN  \/ m.kind = "search" /\ Hit(h, m)
         \/ m.kind \in {"found", "mates"} /\ Got(h, OnesOf(h, m.by), m.id) /\ UNCHANGED <<berths, upward>>
         \/ m.kind = "mail" /\ Got(h, OnesOf(h, m.to), m.id) /\ UNCHANGED <<berths, upward>>
         \/ /\ m.kind = "team"
            /\ Got(h, {c \in DOMAIN desks[h] : TeamOf[desks[h][c].who] = m.team}, m.id)
            /\ UNCHANGED <<berths, upward>>
         \/ m.kind = "global" /\ Got(h, DOMAIN desks[h], m.id) /\ UNCHANGED <<berths, upward>>
  /\ UNCHANGED <<slots, posts>>

----------------------------------------------------------------------------
(* Coming and going                                                        *)

\* What of a post is still to come when `gone' are.
Still(gone) == posts' = [n \in DOMAIN posts |-> [posts[n] EXCEPT !.due = @ \ gone]]

\* A player logs in; its character comes by the link.
ComeAboard(h, g) ==
  /\ Linked(h) /\ \A s \in PostShips : g \notin Aboard(s)
  /\ desks' = [desks EXCEPT ![h] = Append(@, Client(g))]
  /\ UNCHANGED <<berths, slots, upward, downward, posts>>

\* Its character has come: the lobby it is put into is one kept for it, or any.
EnterBlock(h, c) ==
  LET g == desks[h][c].who
      kept == {n \in DOMAIN berths[h] : berths[h][n].who = g}
  IN /\ desks[h][c].room = 0
     /\ IF kept = {}
        THEN (\E room \in Rooms \cap 1 .. 15 : desks' = [desks EXCEPT ![h][c].room = room]) /\ UNCHANGED berths
        ELSE /\ desks' = [desks EXCEPT ![h][c].room = berths[h][Min(kept)].room]
             /\ berths' = [berths EXCEPT ![h][Min(kept)] = EmptyBerth]
     /\ UNCHANGED <<slots, upward, downward, posts>>

Walk(h, c) ==
  /\ desks[h][c].room # 0
  /\ \E room \in Rooms \ {desks[h][c].room} : desks' = [desks EXCEPT ![h][c].room = room]
  /\ UNCHANGED <<berths, slots, upward, downward, posts>>

\* 0x10/EF: a lobby is kept for who changes blocks.
ChangeBlock(h, c) ==
  /\ desks[h][c].room \in 1 .. 15
  /\ berths' = [berths EXCEPT ![h] = Saved(@, desks[h][c].who, desks[h][c].room)]
  /\ desks' = [desks EXCEPT ![h] = RemoveAt(@, c)]
  /\ Still({<<h, desks[h][c].who>>})
  /\ UNCHANGED <<slots, upward, downward>>

LeaveShip(h, c) ==
  /\ desks' = [desks EXCEPT ![h] = RemoveAt(@, c)]
  /\ Still({<<h, desks[h][c].who>>})
  /\ UNCHANGED <<berths, slots, upward, downward>>

\* A link breaks, with what is on it; the ship is found another slot when it comes back.
Break(h) ==
  /\ Linked(h)
  /\ slots' = [slots EXCEPT ![ServerID(h)] = NoShip]
  /\ upward' = [upward EXCEPT ![h] = <<>>] /\ downward' = [downward EXCEPT ![h] = <<>>]
  /\ posts' = [n \in DOMAIN posts |->
       IF \E m \in ToSet(upward[h]) : m.id = n THEN [posts[n] EXCEPT !.due = {}]
       ELSE [posts[n] EXCEPT !.due = {d \in @ : d[1] # h}]]
  /\ UNCHANGED <<desks, berths>>

Reconnect(h) ==
  /\ ~Linked(h)
  /\ slots' = [slots EXCEPT ![Min({k \in DOMAIN slots : slots[k] = NoShip})] = h]
  /\ UNCHANGED <<desks, berths, upward, downward, posts>>

\* servertime goes on.
Tick ==
  /\ desks' = [h \in PostShips |-> [c \in DOMAIN desks[h] |-> [desks[h][c] EXCEPT !.done = {}]]]
  /\ desks' # desks
  /\ UNCHANGED <<berths, slots, upward, downward, posts>>

PostNext ==
  \/ /\ UNCHANGED walks
     /\ \/ Tick
        \/ \E h \in PostShips :
             \/ PassOn(h) \/ ArriveAtShip(h) \/ Reconnect(h)
             \/ \E c \in DOMAIN desks[h] :
                  \/ \E command \in {"chat", "symbol"} : Say(h, c, command)
                  \/ \E f \in Writers \ {desks[h][c].who} : Mail(h, c, f) \/ Search(h, c, f)
                  \/ TeamChat(h, c) \/ RequestTeamList(h, c) \/ EnterBlock(h, c)
  \/ /\ walks < MaxWalks /\ walks' = walks + 1
     /\ \E h \in PostShips :
          \/ Break(h)
          \/ \E g \in Writers : ComeAboard(h, g)
          \/ \E c \in DOMAIN desks[h] :
               \/ Walk(h, c) \/ ChangeBlock(h, c) \/ LeaveShip(h, c)
               \/ \E kind \in {"local", "global"} : Announce(h, c, kind)

----------------------------------------------------------------------------

\* The types of the fields.
PostTypeOK ==
  /\ \A h \in PostShips :
       /\ \A c \in DOMAIN desks[h] : desks[h][c].who \in Writers /\ desks[h][c].room \in Rooms \cup {0}
       /\ \A n \in 1 .. Berths : berths[h][n] # EmptyBerth => berths[h][n].who \in Writers /\ berths[h][n].room \in 1 .. 15
  /\ \A k, n \in DOMAIN slots : slots[k] = slots[n] => k = n \/ slots[k] = NoShip
  /\ Len(posts) <= MaxPosts /\ walks \in 0 .. MaxWalks

AllClients == UNION {ToSet(desks[h]) : h \in PostShips}

OnItsWay(id) == \E h \in PostShips : \E m \in ToSet(upward[h]) \cup ToSet(downward[h]) : m.id = id

\* What is said comes to those it is for, and to nobody else, and to each of them once as long as it stays: whoever
\* was there when it was written and has neither left since nor had a link break under it has it when it is on no
\* link any more.  A search may be answered twice, when the one looked for goes to another ship meanwhile.
Delivered ==
  /\ \A d \in AllClients :
       /\ \A i, j \in DOMAIN d.got : d.got[i] = d.got[j] /\ posts[d.got[i]].kind # "search" => i = j
       /\ \A id \in ToSet(d.got) : d.who \in posts[id].may
  /\ \A id \in DOMAIN posts : \A pair \in posts[id].due :
       OnItsWay(id) \/ \E c \in DOMAIN desks[pair[1]] : desks[pair[1]][c].who = pair[2] /\ id \in ToSet(desks[pair[1]][c].got)

\* Nobody sees two things in the order opposite to that in which somebody else sees them, be it on another ship.
OneOrder ==
  \A d, e \in AllClients : \A i, j \in DOMAIN d.got : \A k, l \in DOMAIN e.got :
    d.got[i] = e.got[k] /\ d.got[j] = e.got[l] /\ "search" \notin {posts[d.got[i]].kind, posts[d.got[j]].kind}
      => (i < j) = (k < l)

\* All of it.
PostSound == Delivered /\ OneOrder
=============================================================================
