# Formal models of Tethealla

Tethealla is a server for Phantasy Star Online Blue Burst: a patch server, a
login server, any number of ship servers that connect to it, and a few tools.
This directory holds TLA+ models of its core logic, the TLC runs that check
them, and TLAPS proofs about them. Everything is translated from the C source;
below, S is `src/src/ship_server/ship_server.c`, L is
`src/src/login_server/login_server.c`.

## The system

Each server is single-threaded. One `select` loop reads packets from sockets,
and every packet handler runs to completion; "concurrency" is the order in
which packets, disconnects and timers of different peers are served, and what
happens on the TCP links between ships and the login server.

| Component | State | Operations | Interacts with | What makes it correct | Module |
|---|---|---|---|---|---|
| Lobbies and games of a block (ship) | `LOBBY`: slots, `lobbyCount`, `in_use`, leader, player numbers, quest; `BANANA`: `lobby`, `clientID`, `lobbyOK`, `bursting`, `hasquest`, `mode` | 0x61, 0x84, 0xC1, 0x10, 0x60/23, 0x6F, 0xAC, `removeClientFromLobby` | connection table, character saving | clients and rooms agree; counts exact; the oldest leads; quests reach all; battle characters stay in battle | `Lobby` |
| Connection table (ship, login) | `connections[]`, `serverConnectionList`, `connected`, `BLOCK.count`, `blockConnections` | accept, `start_encryption`, `initialize_connection`, dcall | everything that walks the list | list = open sockets; limit per address; counts; dcall ends | `Connections` |
| Character loading and saving (ship, login) | `gotchardata`, `released`, `guildcard`, the character; `character_data`, `security_data` | 0x93, ship packets 0x04, 0x08, `Send1D`, `initialize_connection`, `initialize_logon` | the link, lobbies | one player per account; no save lost or overtaken; released clients go on | `CharSave` |
| Items, banks, shops (ship) | inventory, banks, `gameItem` of a game, money | pick up, drop, bank, buy, sell, sort, tekk, wear, use, wrap, exchange | games, saving | nothing from nothing, ids name one thing, the list of the floor exact; arrays kept; the two banks apart | `GameItems`, `Equipment`, `Trades` |
| Ship keys, ship authentication (ship, login) | `ships[]`, `keys_in_use`, RC4 states, timers | introduction, test, drop charts, ping, timeout, `reconnect_logon`, `initialize_ship` | everything on the link | keys returned; ciphers in step; the ship registers in the end | `ShipLink` |
| The list of ships (login, ship) | `serverShipList`, `playerCount`, the packets built from it, `logon->shipdata` | 0x0E, 0x0D, 0xA0, 0x10 | ship keys | what is shown is current; the ship chosen is the one reached | `ShipMenu` |
| Teams (login, ship) | team and account files, copies in characters | make, join, remove, hand over, dissolve | link | one master; ids unique; the ships' copies follow | `Teams` |
| Guild cards (ship, login) | `ship_gcsend_list`, the store and its file | show, take, delete, comment, sort | link | who takes a card was shown it; file = memory | `GuildCards` |
| Account login, characters (login) | security data, slots, dressing-room flags | 0x93, 0xE0 .. 0xE8, 0x05 | files | one login per account; the slot chosen is the one played | `Accounts` |
| What is handed out at login | options, cards, parameter files | 0xE0, 0xDC, 0xEB | files | pieces arrive whole and in order | `Downloads` |
| Bans, silenced, ignored; GM orders (ship) | `ship_bandata`, `stfu`, ignore lists, their file | commands, 0x93 | connection table | an order lifts what it names; files follow | `Moderation` |
| Monsters, drops, levels, mags | maps, rares, experience, stats, mag bytes | game packets | items | what is told is what is; limits | `Monsters`, `Growth`, `Mags` |
| Quests (ship) | lists of quests, flags, `quest_menu` | menus, start, join, pieces | games | who plays is qualified; no dead ends | `Quests`, `Room` |
| Chat, mail, search, arrows, game pages | what is under way | 0x06, 0x81, 0x40, 0x89, 0x29 | link, lobbies | delivered once, to whom it is meant, in order | `Post`, `Room` |
| Start-up (ship) | `ship.ini`, CSV files, drop tables | `load_config_file`, `LoadCSV`, `load_...` | - | tables hold what the files say, in shares | `Startup` |
| Encryption and compression | key streams, blocks | RLE, RC4, block cipher | link, clients | what is sent arrives | `Codec` |
| Patch server | connections, chunks, throttle | its two ports' packets, the loop | - | who is done has every file | `Patches` |
| Tools, vendored code | - | - | - | - | none |

What is hard in this code, with the line it is at, is the list "hazards" of
`PROJECT.json`; each names the properties that watch it, or says why none does.

## Modules

| Module | What it is |
|---|---|
| `Lobby` | the rooms of one block |
| `Party`, `LobbyParty` | what a game promises its players (a queue whose head leads), and the refinement mapping from `Lobby` |
| `Connections` | the connection table of a ship (`IsShip`) or of the login server |
| `CharSave` | one account, one ship, the login server and the link between them |
| `ShipLink` | ships, the login server's slots for them, the links, keys and timers |
| `Patches` | the patch server with its clients |
| `Network` | composition of the modules that work on sockets: `CharSave`, `ShipLink`, `Connections` as it is on a ship and, by an instance (`LoginTable`), on the login server, `Patches` |
| `GameItems` | the items of one game: floor, inventories, banks |
| `Accounts`, `Teams`, `GuildCards`, `Codec`, `Moderation`, `Mags`, `Growth`, `Equipment`, `Trades`, `Monsters`, `Quests`, `Startup`, `Post`, `Room`, `Downloads`, `ShipMenu` | a service each, as in the table above |
| `Services` | composition of the services |
| `Ranking` | ranks in a finite set of numbers: the order of a queue from the player numbers of its members |
| `LobbyProofs`, `RankingProofs`, `ConnectionsProofs`, `ShipLinkProofs`, `NetworkProofs` (and `CharSave`), `GameItemsProofs`, `DeskProofs` (teams, bans, logins, guild cards), `MagsProofs` | theorems and their proofs |
| `MC*` | the small instances TLC checks |

The two compositions are unions, not products: the parts share no state, so a
behaviour picks one of them at the start (`part`) and moves in that one only.
Where components do share state they are in one module: the link, the account
and the character are one state in `CharSave`; rooms, quests and battle
characters in `Lobby`; floor, inventories and banks in `GameItems`.

Definitions whose names have an underscore and are commented "Faulty" are
plausible bugs. None is used by a specification. Each is put in the place of
the definition it follows to see that a property would notice.

### Lobby

`rooms[r]` is the `LOBBY` record of lobby or game r (`slot` for `slot_use` and
`client`, `kind` for the battle and one-person flags, `quest` for
`quest_loaded`, `quest_in_progress` and `inpquest`). `cl[c]` is the lobby part
of the `BANANA` of client c; `sent` is what the client has been sent of the
quest (history, not a field). Each action is one handler with everything it
calls: `Without`/`Vacate` is `removeClientFromLobby` with its recount, leader
scan and `memset` of an empty room, `SeatInLobby` is `Send67`, `SeatInGame` is
`Send64`, `AskLobby` is `Send95` with the restoration of the character.

Left out: levels, passwords, GM rights, quest qualification (they only refuse,
so a client may always be one that passes; `Quests` has them), cooldowns,
monsters and maps, and the pieces of a quest file (`sent = "file"` is the whole
of it; `Room` has the pieces). Assumed of clients: they answer the 0x95 prompt
before they use a menu (`MenuOpen`), and report a quest as loaded once, after
it was sent. The server does not enforce the first; it is a hazard of the list.

### Connections

`conn[s]` is a slot; `list` is `serverConnectionList`. One model serves both
servers, whose code differs in what `initialize_connection` leaves in
`connected` and in the ship's blocks and dcall. `Accept` is the accept loop
with `start_encryption`: listing, the scan for the address's oldest connection,
its closing, then the date and the block count, in that order. `Kick` is the
one client per second the main loop disconnects while the ship is emptied.

### CharSave

`conn[c]` is the `BANANA` of socket c, `up` and `down` the two directions of the
link, `stored` what the login server has. A character is the set of things it
has gained, so "goes back" means that something is missing. A packet sent while
the link is down vanishes (`compressShipPacket`), and both ends forget their
buffers when it breaks. `gained`, `sent` and `missed` are history.

Marking a connection `todc` and closing it are one step. In the code they are
apart: the socket is closed behind `select` (S 16094), in the same turn if any
socket has something, else in a later one, and one packet of the login server a
turn may be handled in between (S 15948). What such a packet finds is a
connection that is still listed; that it may be given a character meanwhile is
not in the model. Assumed: a client closes one connection before it opens the next, two
connections of the account do not wait for the answer to their 0x93 at the same
time (`DoorFree`), and a connection sends one 0x93. The second matters: the
answer names only the account, and without the assumption it can be given to
the wrong connection. It is a hazard of the list.

### ShipLink

`links[w]` is the login server's slot w with the wire to it: its stage, the key
it holds, the ages of the connection and of the last packet, the packets in the
two directions with the key each was encrypted with, and whether an end has
taken one packet for another, after which it can read no more (`lostL`,
`lostS`). `node[h]` is the process of ship h and its `logon` record. A packet is
decrypted when it is read off the socket and handled in a later turn. What TCP
delivers is whole and in order; what a broken connection had under way is gone.

Time passes in units of half a minute, of which the timeouts are made: a ping
after one, a dead link after more than two, two to be registered. What is
counted in turns of a main loop is not counted: `logon_tick` has to reach 1500
turns of at most five milliseconds (S 15968), so a ship tries again within seven
and a half seconds, sooner under load, and `RetryWithin` says only that it does
before more than a unit has passed. Nothing relates this to the login server's
timer: a ship whose old link is still open there when it comes back is told that
its own key is in use, and its process exits (S 4802, `KeyInUse`). No property
excludes that; `LinkRegisters` excepts it.

When the login server's answer is a refusal, the handler clears the record
(`initialize_logon`, S 4810, 4855) in the middle of the main loop's handling of
the packet, and the loop then adds the packet's length to the cleared
`packetread` (S 15950). `reconnect_logon` leaves it so, and the next connection
has a record that is `off`: new packets are laid down at the start of the buffer
but looked for behind it. Where no packet begins there is nothing but zeros, so
nothing is copied and what was last decrypted is handled again, every turn
(`ShipReceives`, `ShipTurn`, `Done`): the ship introduces itself twice, the
second time with the cipher begun anew, and nothing it sends after that can be
read (`Says`). If some bytes of a packet lie there, they are a length: what is
copied is no packet, or the process dies of it, or by chance the sum comes out
right and the record is no longer off (`ShipMisreads`); packets pile up until
the buffer is full (`ShipRejects`), or what is sent every turn does
(`ShipOverflows`). All of these end the connection, by the main loop, and the
record is clean then. A packet that cannot be read is garbage, which the ends
may refuse for its length (`LoginRefuses`, `ShipRejects`), ignore or take for an
unknown command.

### ShipMenu

`piers` are the login server's `ships[]`, `listed` is `serverShipList`, and
each ship has the wire to the login server and the menu it keeps for its
clients. A turn of the login server's loop serves a packet of each ship in the
order of the list and then frees the slots that are to be freed, so a ship that
was refused in a turn is still listed until its end.

### GameItems

`floor` and `list` are `gameItem` and `gameItemList`, `inv` and `bank` the lists
of a player's character, `tekked` the weapon the tekker offers, and `seat` the
`clientID`. There are two sorts of items, because the code treats them
differently: weapons, which are one thing and carry a serial number that no
renumbering changes (history: it tells a copy from another weapon), and tools,
which stack. `Take`, `Put`, `Gets` and `NoRoom` are what `DeleteItemFromClient`,
`DepositIntoBank`, `WithdrawFromBank` and `AddToInventory` have in common;
`AddItemToClient` (`PickUp`) differs in refusing what goes over the limit of a
stack where the others drop the excess. A handler that finds a request
impossible sets `todc`, and the player has left by the end of the turn (`Go`).

Three things of the code a well-behaved client never meets are in the model.

* `SortClientItems` takes any list of ids (`Sort`): what is named twice is
  copied with its id, what is not named is forgotten, and `inventoryUse` is not
  changed. So there may be entries that are not in use among those it counts
  (only their number matters: `blanks`), or entries in use behind them (`tail`),
  which come back when a deletion cleans the inventory up (`CleanUp`) and over
  which new ones are written. `doubled` counts the sorts that named a thing
  twice; `IdsUnique`, `NoToolFromNothing` and `CopiedByTekkerOnly` are not true
  of the code after one, and say so.
* A purchase is of any count a byte holds (`Buy`): into a new stack it is
  written unchecked, so that a stack may be larger than its table allows, and of
  none one is got. `TypeOK` bounds stacks by `MaxBuy` only.
* When the floor is full, `free_game_item` frees the oldest thing found before
  it is known whether anything will be put there; `GenerateCommonItem` may
  return without (S 9790). The entry stays listed with nothing in it, and may be
  listed again later (`FindNothing`). `ListExact` ends there for the game
  (`blanked`).

TLC reaches all three, in every order the bounds allow, so what the properties
say before, beside and after them is checked: the arrays hold and the floor
overwrites in the right order whatever is named, bought or not found.

Assumed of clients: they count item ids as the server does, and name what they
carry. The ids of banked items are not kept: which entry answers to an id is
left open. The lobby behind this one in memory has an empty floor; the loop of
`TekAccept` runs on into it. Money, shops and the common bank are in `Trades`,
what is worn and used in `Equipment`.

### The services

Each has state nothing else touches, and the comment at the head of its module
says what it takes for granted. What is common to them: files are read and
written by name and content, not byte by byte; text is a model value; odds are
left out (what may be drawn is drawn); numbers that the code compares (limits
of stacks, levels of mags, flags of quests, areas of monsters) are the
program's own wherever that leaves few enough states, and otherwise constants.
`Accounts`, `Teams` and `GuildCards` model the build with files (`NO_SQL`).
`Post` and `Teams` have ships whose links break, with what was on them. In
`Teams` the clients of such a ship stay and may give orders that go nowhere
(`LoseLink`, `RegainLink`); and as the login server looks for a team that is
handed over in as many records as there are accounts (L 4218), the owner of one
further back stays who it was (`HandedTo`), and an order about a team that is
not found runs into a null pointer behind the last record (`NoSuchTeam`: all
links are lost, the files are as they were written). The servers start with any
of several stores (`TeamFiles`), some with more records than accounts. `Codec`
runs both ciphers and the run-length code a byte a step over every short packet.

## Runs

Four runs check 40 properties; eight show where the code does not do what a
comment of it says.

| Run | Checks | Bounds and why they are enough |
|---|---|---|
| `lobby` | `TypeOK MembersAgree CountsExact LeaderIsOldest QuestReachesMembers BattleConfined`, `LeadPassesOnLeave`, and the refinement `ImplementsParty` | three clients, one lobby of two seats, one game of three, `MaxJoins` 4: the lobby fills up, the game fills and empties, the leader leaves with two members behind it, seats are reused by later joiners. Symmetry in clients. |
| `network` | `NetworkTypeOK`; of `CharSave`: `OnePlayer PlaysWhatWasSaved StoredGrows ReleasedGoesOn`; of `ShipLink`: `KeysSound InStep LinkRegisters`; of the tables: `TablesExact LoginOldestMakesRoom ShipUnblocks`; of `Patches`: `PatchedWhenTold PatchingFinishes` | saving: two sockets of an account, two gains, `MaxLogins` 2, one break of the link (`MaxLosses` 1), two packets under way (`MaxQueue` 2): a login overtakes a save, a kick or a break. Link: one ship, two slots, two faults (cuts, crashes of the ship, failed tests, packets ahead of the handshake: `MaxFaults`), one packet of traffic in a unit of time (`MaxTraffic`): a second fault can hit the repair of the first, so a refusal is followed by a cut of the connection that is out of step. Tables: three slots on the ship, four on the login server, two addresses, `Limit` 2, so one address can exceed its share with or without the other there; `MaxCount` 2 caps `BLOCK.count`, which leaks, `MaxTime` 1 and `LoginTime` 2 the clock. Patches: two clients, two slots, one address, three files (one empty, one in a nested folder), `Budgets` 0 (no throttle) and 2 bytes a second. |
| `game_items` | `TypeOK ListExact IdsUnique NoToolFromNothing CopiedByTekkerOnly`, `DroppedGoesLast` | two players and seats; two things on the floor, two carried, one in a bank, two in a stack, so each is full at some time; purchases of up to three (`MaxBuy`), one more than a stack; one weapon, three tools, one offer of the tekker and three of these together, a sort that names a thing twice counting for two (`MaxMade`), so that each can meet each other; ids for two things found or withdrawn (`MaxIds`) and two per seat (`Width`). Symmetry in players; the view forgets the ids an absent player's items will not keep. |
| `services` | `ServicesTypeOK TeamsSound LoginSound CardsSound ArrivesAsSent OneOrderLifts MagSound CharactersSound MonstersSound TogetherSound HandedOutSound`, `DissolvedByMaster`, `BlastsKept` | see below |
| `lobby_quest` | `EveryoneReadyIsTold`, violated | as `lobby` |
| `connections_oldest` | `OldestMakesRoom` on the ship, violated | three slots, two addresses |
| `connections_dcall` | `EmptyBeforeUnblocking`, violated | three slots, two addresses |
| `charsave_battle` | `NothingDropped`, violated | as `network` |
| `game_items_tekker` | `TekkedIsNotOnFloor`, violated | as `game_items` |
| `ship_keys` | `OneShipPerKey`, violated | two ships with one key, one fault |
| `card_file` | `CardsAsTold`, violated | two clients with an album each |
| `bans` | `LiftsOnlyOne`, violated | two bans |

Properties that gather those of several components:

| Property | Conjuncts |
|---|---|
| `KeysSound` | `KeysReturned`: a key is marked used only while an open slot of the login server holds it |
| `TablesExact` | the list of a table names each slot once and only slots with a client; on the login server all of them, and no address above its share; on a ship no block counts fewer clients than it has |
| `TeamsSound` | `TeamIdsUnique`: an id is that of one team; `OneMaster`: a team has at most one account as its master, except between the two orders of a handover, and unless an order that promotes was lost with a link (`torn`) or named somebody of another team on its ship (`strayed`) |
| `LoginSound` | `OnePerAccount`, `SlotIsOwnChoice` |
| `CardsSound` | `TakenWasShown`, `CardsStored` |
| `CharactersSound` | `GrowthSound`, `WornSound`, and of `Trades` `BanksApart`, `RewardsPaid` |
| `MonstersSound` | `RaresListed`, `RaresTold`, `DropsSound` |
| `TogetherSound` | of `Quests`: `PartyQualified`, `ShownStarts`, `NoDeadEnd`, `GreyIsShut`, `DataInOrder`; of `Room`: `PiecesInOrder`, `ArrowsAgree`, `NoneBefore`, `BothPages`; of `Post`: `Delivered`, `OneOrder` |
| `HandedOutSound` | of `Startup`: `FairShares`, `CsvExact`, `ReadInPlace`, `ConfigSound`; of `Downloads`: `ParamsWhole`, `OptionsKept`; of `ShipMenu`: `MenuCurrent`, `CountsTold`, `RightShip`, `LatestReachable` |

### Bounds of `services`

| Component | Bounds | What they let happen |
|---|---|---|
| `Accounts` | two accounts on two clients, `MaxLogins` 3, `MaxMade` 2, one dressing-room flag | an account logs in while it is logged in; a character is made over another; the table of flags is full |
| `Teams` | two accounts, two ships, three names, `MaxTeam` 3, `MaxOrders` 3, one link lost (`MaxLost`), three stores to start from | a team is dissolved while an order about it is under way; its number is given again; a link is lost between the orders of a handover; a team lies further back than there are accounts, or is not found |
| `GuildCards` | three shown (`MaxShown`), two stored (`MaxCards`), a list of two (`MAX_GCSEND`) | list and store fill up; restarts between an order and its file |
| `Codec` | bytes of four values, packets of four bytes, twelve in all | each shape of run at each place, and the key stream goes on over packets |
| `Moderation` | two bans, two silenced, two ignored, two clients, two steps and restarts | an entry in front of and behind the one lifted |
| `Mags`, `Growth` | mags on the eve of each evolution, two feedings; heroes near the top level, two fights, the limits of materials at two | values cross a level and a limit together |
| `Equipment`, `Trades` | six things, four uses; a bag of three, banks of two, 999 meseta, three deals | each limit is met; a player leaves with either bank open |
| `Monsters` | three moves, maps with two rares, helpers and fixed boxes, areas 0 and 11 | a monster is killed, robbed and blamed on another; a map is read twice |
| `Quests`, `Room` | three hunters, three games, every list; three guests, three seats, a quest of pieces of eight to twenty-four bytes, one in two languages, of different lengths | a hunter that may not play a quest meets a game that does; a seat changes its owner between two pieces |
| `Startup`, `Post` | three `ship.ini`, lines of up to five characters, tables of eight places; three writers on two ships, two posts, one walk | a frequency too small to be dealt; a link that breaks between a question and its answer |
| `Downloads` | nine parameter files that fill sixteen pieces of four, as the shipped files need; two saves | a file ends within a piece, at its end, or is a piece |
| `ShipMenu` | three ships, one client, one refusal or crash, two choices or questions, one packet waiting per ship | a menu is shown, the slot it names is given to another ship, and the choice is made |

`services` and `card_file` have histories that end (each bound above caps a
count), so these two do not check for deadlock. In all other runs a block, a
table, a link, an account and a game always have a next step, because a client
may always come or go.

### The eight violations

Each is a comment of the code and a behaviour of the code that is not so.

* `lobby_quest`: two members load a quest, one finishes, the other leaves: the
  first has `hasquest` and is never sent the 0xAC ("Send the 0xAC when all
  clients have the quest", S 13999).
* `connections_oldest`: on the ship the connection with the least `connected`
  is the newcomer, which has 0 until it is dated ("Delete oldest connection to
  server.", S 1039). It is closed, dated and counted all the same.
* `connections_dcall`: a client refused while the ship is emptied takes slot 0
  off the list ("Stop blocking connections after everyone has been
  disconnected...", S 15877).
* `charsave_battle`: a disconnect during a battle restores the permanent
  character and does not save it ("Send character data to server when not using
  a temporary character.", S 4538).
* `game_items_tekker`: a weapon is dropped, with something else on the floor
  before it, and its tekked version accepted. The loop that should find the
  original counts `l++` for `ch++` and sees the first entry only ("Delete it and
  avoid duping...", S 10651). `CopiedByTekkerOnly` says that there is no other
  way to get a second one.
* `ship_keys`: two ships introduce themselves with one key before either asks
  for the drop charts ("key already in use?", L 2763): both are registered.
* `card_file`: the guild cards of a second client are laid out in the buffer
  from which the first is still being sent its own ("Send another chunk of
  guild card data.", L 4886).
* `bans`: lifting a ban that is not the first lifts the first as well ("GM %u
  has removed ban from guild card %u.", S 11832).

### Fairness

`Lobby`, `GameItems` and `Services` state none: their properties are about
safety. The others assume what the main loops do:

* The loops go round, whether or not a socket has something (`select` waits at
  most a few milliseconds): weak fairness of `KickFirst` and `Unblock`, of what
  each end of each link does with what has arrived, of the patch server's loop.
* Time passes: strong fairness of `Tick` and of `Pass(TRUE)` (a new second of
  the throttle), since other steps may disable them for a moment.
* A ship whose link is down tries again after 1500 turns of its main loop
  (`reconnect_logon`): weak fairness of `LinkUp`, and part of `LinkShip`.
* A send buffer to which something is added every turn and from which the wire
  takes nothing is full in the end: weak fairness of `ShipOverflows`.

Nothing is assumed of players: they need not answer, leave or stay. Faults are
not fair and bounded in number, so what must happen has to happen after the
last one.

## Proofs

All theorems are about the specifications the runs check, for every value of the
constants that satisfies the module's assumptions. These are what types the
numbers have (a limit is a natural, most are positive), and that the null
pointer is no client, room or number; nothing is assumed of sizes relative to
each other. Those of `DeskProofs` and `MagsProofs` are about the specification of the component
(`TeamsSpec`, `ModerationSpec`, `AccountsSpec`, `CardsSpec`, `MagsSpec`), which the run `services` checks as a part of
`ServicesSpec`: a behaviour of that moves one component as its own
specification says, or leaves it as it is at first.

Nothing is assumed of the keys `make_key` gave the ships: the theorems about keys
and links hold whether ships share them or not (the run `ship_keys` shows two
ships registered with one).

| Module | Theorem | Statement |
|---|---|---|
| `LobbyProofs` | `TypeCorrect`, `CountsAlwaysExact`, `MembersAlwaysAgree`, `LeaderAlwaysOldest` | `Spec => []TypeOK`, and so `CountsExact`, `MembersAgree`, `LeaderIsOldest` |
| | `AgreeInvAlways` | `Spec => []AgreeInv` |
| | `LeadAlwaysPassesOnLeave` | `Spec => LeadPassesOnLeave` |
| | `QuestInvAlways`, `QuestAlwaysReachesMembers`, `BattleAlwaysConfined` | `Spec => []QuestInv`, and so `QuestReachesMembers`, `BattleConfined` |
| | `LobbyImplementsParty` | `Spec => ImplementsParty` |
| `ConnectionsProofs` | `TableAlwaysSound` | `TableSpec => []TableInv` |
| `NetworkProofs` | `TablesAlwaysExact`, `OldestAlwaysMakesRoom` | `NetworkSpec => []TablesExact`, `NetworkSpec => LoginOldestMakesRoom` |
| | `CharactersAlwaysKept` | `NetworkSpec` implies `OnePlayer`, `PlaysWhatWasSaved` and `StoredGrows` |
| | `NetworkInStep` | `NetworkSpec => []InStep` |
| | `KeysAlwaysSound` | `NetworkSpec => []KeysSound` |
| | `NeverTwoPlayers`, `AlwaysPlaysWhatWasSaved`, `StoredAlwaysGrows` | the same of `Spec` of `CharSave` |
| `ShipLinkProofs` | `LinksAlwaysSound`, `AlwaysInStep` | `LinkSpec => []LinksInv`, and so `InStep` |
| | `KeysAlwaysReturned` | `LinkSpec => []KeysReturned` |
| `GameItemsProofs` | `ItemsAlwaysSound`, `LimitsAlwaysKept`, `ListAlwaysExact` | `Spec => []ItemsInv`, and so `TypeOK`, `ListExact` |
| | `DroppedAlwaysGoesLast` | `Spec => DroppedGoesLast` |
| | `IdsAlwaysUnique` | `Spec => []IdsUnique` |
| | `StockAlwaysCounted`, `ToolsNeverFromNothing`, `CopiedByTekkerAlways` | `Spec => []StockInvOnce` (`StockInv`, until a sort names a thing twice), and so `NoToolFromNothing`, `CopiedByTekkerOnly` |
| `DeskProofs` | `TeamsAlwaysSound`, `DissolvedByMasterOnly` | `TeamsSpec => []TeamsSound`, `TeamsSpec => DissolvedByMaster` |
| | `OneOrderAlwaysLifts` | `ModerationSpec => []OneOrderLifts` |
| | `LoginsAlwaysApart`, `LoginAlwaysSound` | `AccountsSpec => []LoginInv`, and so `LoginSound` |
| | `CardsAlwaysKept`, `CardsAlwaysSound` | `CardsSpec => []CardsInv`, and so `CardsSound` |
| `MagsProofs` | `MagsAlwaysSound`, `BlastsAlwaysKept` | `MagsSpec => []MagSound`, `MagsSpec => BlastsKept` |

### Lobby

Three layers. The type is not inductive alone: `Send67` and `Send64` take the
first free slot, which is a slot only if there is one, and the code looks at
`lobbyCount` to know. So `TypeInv == TypeOK /\ CountsExact` is the first
invariant. On top of it `AgreeInv` adds that clients and slots name each other
and that a client with an open lobby prompt is in no room (without this, 0x61
could seat a client twice). On top of `TypeInv`, `OrderInv` says of every game
that player numbers of members are distinct and at most `gamePlayerCount`, and
that the leader has the least: a newcomer gets a larger number, so the lead
changes only in `removeClientFromLobby`. Each layer has one lemma per kind of
room update (`Vacate`, `SeatInLobby`, `SeatInGame`), then one step per action.

`QuestInv` adds, client by client, how far each has got with its game's quest
and what `mode` it is in. Only the handlers that start a quest or let a client
out touch the room and the clients at once; for the others it is enough that
the client and its room are as they were.

For the refinement, the abstract queue is the sequence of the members in the
order of their player numbers. `Ranking` gives a member's place as the number
of smaller player numbers, and `RankingProofs` shows what adding a largest
number and removing one do to these places. Every step then is one of three:
a client sits down (it is appended), a client leaves (it is removed, the others
keep their order), or the queues stay.

### The table of clients

`TableInv` says that the list has each slot once and only occupied ones; that a
record which is dated names its own slot; that a block counts at least the
slots that bear its name, those left behind by a refused newcomer included; and
for the login server that the list has every occupied slot and no address above
its share. The step from `initialize_connection` to the count is where the two
servers differ, so the lemmas about `Accept` are by cases of `IsShip`.
`NetworkProofs` uses the theorem twice: as it is for the ship, and for the
instance `LoginTable`, whose assumptions are those of `NetworkAssumption`.

### Characters

`CharInv` is about what is under way. At most one client is at the door (0x93
sent, not answered); at most one load or its answer is on the link; a kick for
a client that still plays is on its way in front of whatever would let the next
one in; saves on the link grow in the order they were sent, and the last holds
everything ever sent; nobody plays while a save that is not its own is under
way. A lost kick (`missed`) ends the promises, as the properties say.
Each queue step is a lemma about positions (`Follows`): what is at position i
after the step was at position i plus the number of packets read.

### Links

`LinksInv` says of each link where its two ends are and what is under way
between them. `Keyed`, on every link: the key a slot has is that of its ship, and
drop charts are asked for only under the ship's own key. A record that is off is
known to the link it came with. The rest is said of a link that is `Quiet`, on
which nobody spoke before both ends had changed keys and whose ship did not come
with such a record. `Heard`: a refusal or the end of the connection under way
means that the login server has closed, garbage that the stream is lost.
`Steady`: the link opens (`Welcoming`, `Introducing`, `Accepting`, each with
exactly one packet under way), is in use with all packets under the ship's own
key (`Talking`), has been closed by the login server (`Ended`), or has been left
by the ship (`LeftBehind`). The stages are needed because `InStep` speaks of one
end and one packet only: what the other end will decrypt it with follows from
how many packets were sent in between.

`KeysTaken` says that a key in `keys_in_use` is held by an open link that uses
it. It holds on all links, also those out of step: what sets a key in use is a
packet the login server could read.

The proofs go from buffers to one link (plain records, no state) to all links:
one lemma per action says what it does to the link it is about, and the frame
lemmas that the others and their ships are as they were. `NetworkProofs` carries
the results over to the composition.

### Items

`ItemsInv` has the list as an injection onto the occupied places of the floor,
so that a full list means a full floor and the oldest entry can be taken when
there is no room (until a listed thing was taken away for nothing); hands, with
the blanks in them and what lies behind them, and banks within their arrays;
stacks positive; nothing behind a hand until a sort names a thing twice;
counters of ids never below their ranges. `IdInv`, on top of it and until a sort
names a thing twice, says that ids lie in disjoint ranges (one per seat, one for the floor, one
for what is found), below their counters, and that what is not identified is a
weapon. A step then moves each thing from at most one old place to a new one,
or gives it an id at a counter that then rises.

`StockInv` is about amounts. A fold over what is held cannot be reasoned about
here, so `Amount` counts a set instead: one triple (holder, place, n) for each
unit n of what is at the place, a banked stack of none being one. What a request
does is then an injection from the units after it to those before it, but for
the units at the place it takes from and at the place it puts to (`Balanced`,
`StockMoves`, `LyingMoves`), and each action gets its bound from how many are
there: `Put` adds no more than the item is, because what is over the limit of a
stack is lost; `Withdraw` takes as many from the bank as it gives, because an
empty stack counts as one on both sides. That a weapon is always one and never a
stack (`SinglesHeld` and its like) is part of the invariant: without it
splitting a stack would copy a weapon. The offers outstanding are counted with
the copies, so that accepting one moves the count and `TekAsk` alone raises it.

### Teams, bans, logins and guild cards

`TeamsInv` has three parts. `TeamsTyped`: records, copies and packets are what
they should be, and no id is that of two records. `LoadsOK`: whoever waits for
its character waits for at most one answer of the ship it came to, on its way up or
down, so that a late answer never meets a player that has gone on to another
ship. `HandOvers`, for as long as no order that promotes was lost with a
link (`torn`) or named somebody of another team (`strayed`): an order under way that hands a team over or
ends it comes from the ship of the one to whom the orders in front of it leave
the team; copies and answers that say master are those of whom the orders of
the ship leave the team to; nobody has turned a team whose maker has not heard
yet that it is created; and the master of a team is its head, or its
retirement is the next order of its ship. The head is who made the team or was
last made its master: history, because the owner in the record may stay behind.
Other orders may be lost at any place of a queue's life: losing a whole queue
leaves what is said of it true of the empty one, if nothing in it promotes.

That is why `DissolvedByMaster` is true although the ship decides from its copy
and the login server does not look at who asks: orders of a ship are carried
out in the order they were given, all those about a team are given by its
head's ship, and a ship that gives a team away knows so at once. The proof
follows the team along the queue: an order that is appended finds it with the
last one in `LeftTo`, the first that is carried out shortens the way there.

`ModerationInv` says that no list has an entry twice. The loop that closes a
list up (`Cleaned`) loses up to two entries and keeps the others once each,
`CleanedIs`; so what it does to the others, which the run `bans` shows, never
makes an entry that one order would not lift.

`LoginInv`: each login is numbered apart, so of two clients of one account one at
most shows what `security_data` holds (`OneCurrent`); a connection that is not
being closed does show it (`ConnsOwned`). `ChoiceKept` is what `SlotIsOwnChoice`
needs beside that: once a client has chosen, no connection of its account is left
that is being closed and could still write a slot into the record. That holds
because a turn of the main loop closes what it gave up before it reads again
(`TurnOver`), and because a client that comes while another slot is in the record
is sent away (`OutOfStep`).

`CardsInv`: `ShownSound` counts, for each card, the entries of the ship's list
against how often it was shown and not taken. Closing the list up loses the first
entry beside the one meant (`CleanedUpIs`), so a count may fall too far but never
stay too high; a full list writes over an entry, which is one more at most for the
card shown. `StoreSound` says that a card has one record and an account no more
than its limit; `StoreWritten` and `StoreAdded` are the two ways a record changes,
and an exchange of two records is a renaming of their places (`SortedCards`).

### Mags

`MagSound` is inductive with the type, but a meal is four values fed one after the
other, each of which may raise the level and have the mag become another, while
`EvolutionClass` stays that of the mag before the meal. `Midway` is what holds in
between: the mag is sound, under level 10 it is still what it was, and one that
was of the second class or later has not changed below level 35; so no level
is passed at which the class it began with would send it back. `AddPB` is proved
to keep what is known (`AddPBIs`): the third blast is one of the others by its
rank, and `RankOfOther` says that different ones have different ranks. `Learnt`
says of two mags what `BlastsKept` says of a step, and is transitive, so the
four values add up. The theorems are about every mag `FixItem` makes sound or
leaves sound (`MagsAssumption`): a stored mag whose level is not that of its
values is not repaired by it.

### What is only model-checked

* Liveness (`ReleasedGoesOn`, `LinkRegisters`, `ShipUnblocks`,
  `PatchingFinishes`): out of this prover's reach.
* `PatchedWhenTold`, and so `NetworkTypeOK`: the files still to be sent are a
  `SelectSeq` of the files, and what a client has is a fold over the messages
  it got: both are recursion over data.
* The properties of `Services`: `Codec` uses `Bitwise`, which a module with a
  theorem cannot reach, so nothing can be proved about `ServicesSpec`. What can
  be are theorems about the components' own specifications, as in `DeskProofs`
  and `MagsProofs`.
  What `Codec` (`ArrivesAsSent`), `Startup`, `Growth` (levels are sums over a
  table) and `Trades` (prices are folds, a bank is sorted by `SelectSeq`) do is
  recursion over data and stays with TLC; so do `MonstersSound`, `TogetherSound`
  and `HandedOutSound`, whose components are not proved about.

## What the models showed beside the findings

None of these contradicts a comment that could be quoted, so none has a run.

* The test for a full table of dressing-room flags is never made (L 4937-4950);
  a character that finds it full is made anew.
* Starting a quest does not reset what is dead, dropped or opened, until the
  game's maps are read again.
* A rate of 0 in `ship.ini` divides by zero (S 723-727), though the `ship.ini` in
  the repository says "0 being never". `Startup` assumes rates above zero.
* `Send6D` is not limited to members that are bursting: `dont_send` starts at 0
  (S 11158, 11205). Sends to an empty seat are stopped by the pointer check of
  `encryptcopy`.
* One meal may make a mag two or three kinds after each other: each level it gains
  from 35 on asks again with the class it had before the meal, and by then another
  value may lead. Each kind teaches its photon blast, and once three are known the
  last one's is not learnt (S 5702, 6389, 6611). `BlastsKept` has it so.
* In a game a newcomer has the arrow of the seat's former owner: only `Send67`
  resets it. The first answer about a game opened anew may be the page with the
  time.
* The password of a game is compared by length of the game's own, so longer
  guesses pass (S 12607-12616), and `!client->lobbyNum < 0x10` in /setpass is
  always true.
* A parameter file that fills its last piece exactly leaves `PacketEB02_Total`
  0, and one more piece than sixteen would cut off every client.
* A solo government quest of episode 1 is treated as one of the story; a
  challenge game's 0xA2 has no menu; the number of a quest is sent as a byte
  while `quests[512]` may hold more.
* A search wants the one searched for to have the searcher's card, says the
  comment at L 3642; the test behind it is the other way round. It may be
  answered twice, by a lobby the client was saved in and the one it is in.
* The announcement flag of a GM is cleared even when the link is down and
  nothing is sent.
* Ship packet 0x09/06 looks for the team in as many records as there are accounts
  (L 4218): one further back keeps its owner in team.dat, and one that is not
  found ends in a null pointer. `Teams` has both.
* Once a handover is torn by a link that is lost between its two orders, or by an
  order that is sent while there is none, a team may have two masters for good:
  nothing repeats the lost order or checks the store.
* A sort that names a thing twice copies it; one that leaves things out shortens
  what can be carried until the next deletion.
* A ship that comes back before the login server has noticed that its old link is
  dead is refused, because its own key is in use, and its process exits.
* An older client that is refused ends, by the guild card it named, the first
  connection of the account on the list, which may be the one that plays.
* `playerCount` is set at any attempt of a ship to register (L 2663), so one
  that is refused can appear, with number 0, in a list of ships built in that
  turn (comment at L 1324). The addresses a ship keeps are then fewer than the
  ships it lists, and S 5567 reads behind them. A count that changes while
  another ship registers is not told until the next change. Slots are used
  again, so a choice from an old menu leads to the ship that has the number now.

## What is not modelled

* The tools (`account_add`, `make_key`) and vendored code (mtwist, md5, prs,
  the mysql headers); the tray icon and console of the servers.
* SQL: `Accounts`, `Teams`, `GuildCards` and `Downloads` follow the build with files.
* Trades between two players, choice search, the info board, the team flag and
  list of members, GM commands that only count or print.
* The odds of random draws, the ranges of armor and shields, the level tables,
  item tables and maps (given as constants), the key schedule of the block
  cipher (its tables are arbitrary).
* Several ships in `CharSave`, and two connections of an account at the door.

## Plan

1. Proofs about `Quests` and `Room`, at the level of the component:
   `PartyQualified`, `ArrowsAgree`; `BanksApart` of `Trades`, without the order of
   a bank.
2. `CharSave` over two ships, and with two connections of an account at the door.
3. Trades between two players.
