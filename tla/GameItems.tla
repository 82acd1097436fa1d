----------------------------- MODULE GameItems -----------------------------
(***************************************************************************)
(* The items of one game: those on the floor (gameItem, found through      *)
(* gameItemList), those the players carry, and those in their banks.       *)
(* Every action is one subcommand of a 0x60 or 0x62 packet, or a player    *)
(* coming or going.  An item is a weapon, which is one thing however it is *)
(* renumbered, or a tool, which stacks.  Meseta, prices and what an item   *)
(* is good for are left out.                                               *)
(*                                                                         *)
(* A client counts item ids as the server does and names only what it      *)
(* carries.  When it sorts it may name a thing twice, or not at all.       *)
(* Which entry of a bank answers to the id a client names is left open, so *)
(* the ids of banked items are not kept.  The lobby after this one in      *)
(* memory has nothing on its floor (see TekAccept).                        *)
(***************************************************************************)
EXTENDS Naturals, Sequences, FiniteSets, SequencesExt, Ranking

CONSTANTS
  Players,
  Seats,           \* seats of a game, 4 in the code
  Width,           \* ids each seat may give out, 0x200000 in the code
  MAX_SAVED_ITEMS, \* things the floor can hold, 3000 in the code
  Carry,           \* items a player may carry, 30 in the code
  BankSize,        \* items a bank may hold, 200 in the code
  Stack,           \* stackable_table of the tool
  MaxBuy,          \* the largest count in a request to buy, 255 in the code
  MaxWeapons,      \* bound on the weapons ever found
  MaxTools,        \* bound on the tools ever found or bought
  MaxTeks,         \* bound on the offers the tekker ever makes
  MaxMade,         \* bound on these three together, see Made
  MaxIds,          \* bound on the ids the game gives out
  None             \* not a seat, and not a weapon

ASSUME ItemsAssumption ==
  /\ {Seats, Width, MAX_SAVED_ITEMS, Carry, BankSize, Stack} \subseteq Nat \ {0}
  /\ {MaxBuy, MaxWeapons, MaxTools, MaxTeks, MaxMade, MaxIds} \subseteq Nat
  /\ Stack <= MaxBuy
  /\ None \notin Nat

VARIABLES
  inv,          \* character.inventory[0 .. inventoryUse - 1] of each player, what is in use
  blanks,       \* the number of entries there that are not in use
  tail,         \* the entries from inventory[inventoryUse] on that are in use
  bank,         \* character.bankInventory[0 .. bankUse - 1]
  tekked,       \* client->tekked: the weapon offered by the tekker
  seat,         \* clientID, or None when the player is not in the game
  floor,        \* gameItem
  list,         \* gameItemList[0 .. gameItemCount - 1]
  itemID,       \* the next id of a thing found or withdrawn
  playerItemID, \* by seat, the next id of a thing split off or bought
  weapons,      \* history: number of weapons found
  tools,        \* history: number of tools found or bought
  teks,         \* history: number of offers made by the tekker
  blanked,      \* history: an entry listed was freed for a thing that never came
  doubled       \* history: number of sorts that named a thing twice

pack == <<inv, blanks, tail>>
game == <<seat, floor, list, itemID, playerItemID, blanked>>
made == <<weapons, tools, teks>>
vars == <<pack, bank, tekked, game, made, doubled>>

Slots == 0 .. MAX_SAVED_ITEMS - 1
Weapon(id, serial) == [id |-> id, n |-> 1, serial |-> serial, raw |-> TRUE]
Tool(id, n) == [id |-> id, n |-> n, serial |-> None, raw |-> FALSE]
IsTool(it) == it.serial = None
NoItem == Tool(0, 0)
NoFloor == [s \in Slots |-> NoItem]

\* Faulty: the ranges overlap by one id.
FirstId_Overlap == [c \in 0 .. Seats - 1 |-> 1 + c * (Width - 1)]

\* initialize_game: the seats' ranges of ids, 0x10000, 0x210000, ..., then 0x810000.
FirstId == [c \in 0 .. Seats - 1 |-> 1 + c * Width]
FirstFound == 1 + Seats * Width

Here(p) == seat[p] # None

\* What MaxMade bounds: a sort that names a thing twice counts for two.
Made == weapons + tools + teks + 2 * doubled

Init ==
  /\ inv = [p \in Players |-> <<>>] /\ bank = [p \in Players |-> <<>>]
  /\ blanks = [p \in Players |-> 0] /\ tail = [p \in Players |-> <<>>]
  /\ tekked = [p \in Players |-> NoItem]
  /\ seat = [p \in Players |-> None]
  /\ floor = NoFloor /\ list = <<>>
  /\ itemID = FirstFound /\ playerItemID = FirstId
  /\ weapons = 0 /\ tools = 0 /\ teks = 0
  /\ blanked = FALSE /\ doubled = 0

----------------------------------------------------------------------------
(* Lists of items                                                          *)

Least(a, b) == IF a < b THEN a ELSE b

\* Where the stack of tools is in s, if there is one, as a set.
ToolStack(s) == {i \in 1 .. Len(s) : IsTool(s[i]) /\ \A j \in 1 .. i - 1 : ~IsTool(s[j])}

\* Faulty: the last of a stack is not taken, and a stack of none counts as one.
Take_KeepsLast(s, i, n) ==
  [s EXCEPT ![i].n = IF n < @ THEN @ - n ELSE 1]

\* What is left of s when n of the item at i are taken.
Take(s, i, n) == IF n < s[i].n THEN [s EXCEPT ![i].n = @ - n] ELSE RemoveAt(s, i)

\* AddToInventory, the list: on top of the stack, what is over the limit being
\* lost, or at the end.
Put(s, it) ==
  IF IsTool(it) /\ ToolStack(s) # {}
  THEN [s EXCEPT ![CHOOSE i \in ToolStack(s) : TRUE].n = Least(@ + it.n, Stack)]
  ELSE Append(s, it)

\* inventoryUse, which counts the entries that are not in use as well.
inventoryUse(p) == Len(inv[p]) + blanks[p]

\* Faulty: off by one.
NoRoom_OneMore(p, it) == inventoryUse(p) > Carry /\ (IsTool(it) => ToolStack(inv[p]) = {})

\* There is no room for it: everything is carried and no stack takes it.
NoRoom(p, it) == inventoryUse(p) >= Carry /\ (IsTool(it) => ToolStack(inv[p]) = {})

\* The item comes to p: a new entry is written over the one behind the last.
Gets(p, it) ==
  /\ inv' = [inv EXCEPT ![p] = Put(@, it)]
  /\ tail' = [tail EXCEPT ![p] = IF Len(Put(inv[p], it)) > Len(inv[p]) THEN SubSeq(@, 2, Len(@)) ELSE @]
  /\ UNCHANGED blanks

\* CleanUpInventory, when r is left of what p had: every entry in use counts again.
CleanUp(p, r) ==
  /\ inv' = [inv EXCEPT ![p] = r \o tail[p]]
  /\ blanks' = [blanks EXCEPT ![p] = 0]
  /\ tail' = [tail EXCEPT ![p] = <<>>]

\* The entries a client can name: the first with its id.
Answers(p) ==
  {i \in 1 .. Len(inv[p]) : \A j \in 1 .. i - 1 : inv[p][j].id # inv[p][i].id}

\* SortBankItems: weapons before tools.
SortBankItems(s) ==
  LET rest == {i \in 1 .. Len(s) : IsTool(s[i])}
  IN  Kept(s, (1 .. Len(s)) \ rest) \o Kept(s, rest)

----------------------------------------------------------------------------
(* The floor, and who is in the game                                       *)

\* Faulty: the oldest id goes, be it of a thing found or of a thing dropped.
free_game_item_AnyId ==
  LET free == {s \in Slots : floor[s].id = 0} IN
  IF Len(list) \in free THEN Len(list)
  ELSE IF free # {} THEN CHOOSE s \in free : \A t \in free : s <= t
  ELSE CHOOSE s \in Slots : \A t \in Slots : floor[s].id <= floor[t].id

\* free_game_item: the entry after the last listed, any free one, the one of
\* the oldest thing found, or entry 0 whatever it holds.
free_game_item ==
  LET free == {s \in Slots : floor[s].id = 0}
      found == {s \in Slots : floor[s].id >= FirstFound}
  IN  IF Len(list) \in free THEN Len(list)
      ELSE IF free # {} THEN CHOOSE s \in free : \A t \in free : s <= t
      ELSE IF found # {} THEN CHOOSE s \in found : \A t \in found : floor[s].id <= floor[t].id
      ELSE 0

\* Faulty: the entry that is used again is listed again.
Lay_Relists(it) ==
  /\ floor' = [floor EXCEPT ![free_game_item] = it]
  /\ list' = Append(list, free_game_item)

\* The item is laid on the floor.
Lay(it) ==
  /\ floor' = [floor EXCEPT ![free_game_item] = it]
  /\ list' = IF Len(list) < MAX_SAVED_ITEMS THEN Append(list, free_game_item) ELSE list

\* The player is marked "todc" and gone at the end of the turn; the last one to
\* go takes the game along.  "fl" and "li" are the floor and the list otherwise.
Go(p, fl, li) ==
  LET last == \A q \in Players \ {p} : ~Here(q) IN
  /\ seat' = [seat EXCEPT ![p] = None]
  /\ floor' = IF last THEN NoFloor ELSE fl
  /\ list' = IF last THEN <<>> ELSE li
  /\ blanked' = (blanked /\ ~last)

Stay(fl, li) == floor' = fl /\ list' = li /\ UNCHANGED <<seat, blanked>>

\* The seats nobody has.
FreeSeats == (0 .. Seats - 1) \ {seat[p] : p \in Players}

\* A player makes the game (initialize_game) or joins it: it takes the first
\* free seat, and UpdateGameItem renumbers what it carries, entry by entry.
Join(p) ==
  LET next == IF \E q \in Players : Here(q) THEN playerItemID ELSE FirstId
      k == inventoryUse(p)
  IN  /\ ~Here(p)
      /\ \E c \in FreeSeats :
           /\ \A d \in FreeSeats : c <= d
           /\ next[c] + k <= FirstId[c] + Width
           /\ seat' = [seat EXCEPT ![p] = c]
           /\ inv' = [inv EXCEPT ![p] = [i \in 1 .. Len(@) |-> [@[i] EXCEPT !.id = next[c] + i - 1]]]
           /\ playerItemID' = [next EXCEPT ![c] = @ + k]
      /\ itemID' = IF \E q \in Players : Here(q) THEN itemID ELSE FirstFound
      /\ tekked' = [tekked EXCEPT ![p] = NoItem]
      /\ UNCHANGED <<blanks, tail, bank, floor, list, blanked, made, doubled>>

\* A player leaves the game, whatever the reason.
Leave(p) ==
  /\ Here(p)
  /\ Go(p, floor, list)
  /\ UNCHANGED <<pack, bank, tekked, itemID, playerItemID, made, doubled>>

----------------------------------------------------------------------------
(* The subcommands                                                         *)

\* 0x62/60 and 0x62/A2: a monster or a box leaves something.
Find(it) ==
  /\ \E p \in Players : Here(p)
  /\ itemID < FirstFound + MaxIds
  /\ Lay(it)
  /\ itemID' = itemID + 1
  /\ UNCHANGED <<pack, bank, tekked, seat, playerItemID, blanked, doubled>>

FindWeapon ==
  /\ weapons < MaxWeapons /\ Made < MaxMade
  /\ weapons' = weapons + 1 /\ UNCHANGED <<tools, teks>>
  /\ Find(Weapon(itemID, weapons))

FindTool ==
  /\ tools < MaxTools /\ Made < MaxMade
  /\ tools' = tools + 1 /\ UNCHANGED <<weapons, teks>>
  /\ Find(Tool(itemID, 1))

\* The same requests when GenerateCommonItem makes nothing: where the floor is
\* full, free_game_item took away the oldest thing found, and its entry is listed
\* with nothing in it.
FindNothing ==
  /\ \E p \in Players : Here(p)
  /\ floor[free_game_item].id >= FirstFound
  /\ floor' = [floor EXCEPT ![free_game_item] = NoItem]
  /\ blanked' = TRUE
  /\ UNCHANGED <<pack, bank, tekked, seat, list, itemID, playerItemID, made, doubled>>

\* 0x62/5A, AddItemToClient: p picks up what is on the floor with this id, the
\* first time it is listed.  It goes if it cannot carry it; the item stays.
PickUp(p, id) ==
  /\ Here(p)
  /\ \E i \in 1 .. Len(list) :
       LET it == floor[list[i]]
           over == IsTool(it) /\ \E j \in ToolStack(inv[p]) : inv[p][j].n + it.n > Stack
       IN  /\ it.id = id
           /\ \A j \in 1 .. i - 1 : floor[list[j]].id # id
           /\ IF over \/ NoRoom(p, it)
              THEN Go(p, floor, list) /\ UNCHANGED pack
              ELSE /\ Gets(p, it)
                   /\ Stay([floor EXCEPT ![list[i]] = NoItem], RemoveAt(list, i))
  /\ UNCHANGED <<bank, tekked, itemID, playerItemID, made, doubled>>

\* Faulty: what is dropped is kept as well.
Drop_Keeps(p, i) ==
  /\ Here(p)
  /\ Lay(inv[p][i])
  /\ UNCHANGED <<pack, bank, tekked, seat, itemID, playerItemID, blanked, made, doubled>>

\* 0x60/2A, DeleteItemFromClient: p drops a whole item, which keeps its id.
Drop(p, i) ==
  /\ Here(p)
  /\ Lay(inv[p][i])
  /\ CleanUp(p, RemoveAt(inv[p], i))
  /\ UNCHANGED <<bank, tekked, seat, itemID, playerItemID, blanked, made, doubled>>

\* 0x60/C3, which says where, and then 0x60/29, DeleteItemFromClient: p drops n
\* of a stack.
DropSome(p, i, n) ==
  /\ Here(p) /\ IsTool(inv[p][i])
  /\ IF n > inv[p][i].n
     THEN Go(p, floor, list) /\ CleanUp(p, inv[p]) /\ UNCHANGED playerItemID
     ELSE LET id == playerItemID[seat[p]] IN
          /\ id < FirstId[seat[p]] + Width
          /\ Lay(Tool(id, n))
          /\ playerItemID' = [playerItemID EXCEPT ![seat[p]] = @ + 1]
          /\ CleanUp(p, Take(inv[p], i, n))
          /\ UNCHANGED <<seat, blanked>>
  /\ UNCHANGED <<bank, tekked, itemID, made, doubled>>

\* 0x60/29, 0x60/27 and 0x60/C0, DeleteItemFromClient: p destroys, uses up or
\* sells n of an item.
Delete(p, i, n) ==
  /\ Here(p) /\ (IsTool(inv[p][i]) \/ n = 1)
  /\ IF n > inv[p][i].n
     THEN Go(p, floor, list) /\ CleanUp(p, inv[p])
     ELSE Stay(floor, list) /\ CleanUp(p, Take(inv[p], i, n))
  /\ UNCHANGED <<bank, tekked, itemID, playerItemID, made, doubled>>

\* 0x62/B7, AddToInventory: p buys count tools, which may be more than a stack,
\* or none, for which it gets one.
Buy(p, count) ==
  LET n == IF count = 0 THEN 1 ELSE count
      it == Tool(playerItemID[seat[p]], n)
  IN  /\ Here(p)
      /\ tools + n <= MaxTools /\ Made + n <= MaxMade
      /\ playerItemID[seat[p]] < FirstId[seat[p]] + Width
      /\ playerItemID' = [playerItemID EXCEPT ![seat[p]] = @ + 1]
      /\ tools' = tools + n
      /\ IF NoRoom(p, it)
         THEN Go(p, floor, list) /\ UNCHANGED pack
         ELSE Gets(p, it) /\ Stay(floor, list)
      /\ UNCHANGED <<bank, tekked, itemID, weapons, teks, doubled>>

\* 0x62/BD, DepositIntoBank and SortBankItems: p banks n of an item.
Deposit(p, i, n) ==
  /\ Here(p) /\ (IsTool(inv[p][i]) \/ n = 1)
  /\ IF Len(bank[p]) >= BankSize
     THEN Go(p, floor, list) /\ UNCHANGED <<pack, bank>>
     ELSE IF n > inv[p][i].n
     THEN Go(p, floor, list) /\ CleanUp(p, inv[p]) /\ UNCHANGED bank
     ELSE /\ CleanUp(p, Take(inv[p], i, n))
          /\ bank' = [bank EXCEPT ![p] = SortBankItems(Put(@, [inv[p][i] EXCEPT !.id = 0, !.n = n]))]
          /\ Stay(floor, list)
  /\ UNCHANGED <<tekked, itemID, playerItemID, made, doubled>>

\* 0x62/BD, WithdrawFromBank: p takes n of a banked item.  The bank's stack is
\* reduced before it is known that there is room; one reduced to none counts as
\* one the next time.
Withdraw(p, j, n) ==
  LET it == bank[p][j]
      has == IF it.n = 0 THEN 1 ELSE it.n
      less == IF IsTool(it) THEN [bank[p] EXCEPT ![j].n = has - n] ELSE bank[p]
  IN  /\ Here(p)
      /\ itemID < FirstFound + MaxIds
      /\ IF n > has
         THEN Go(p, floor, list) /\ UNCHANGED <<pack, bank, itemID>>
         ELSE IF NoRoom(p, it)
         THEN Go(p, floor, list) /\ bank' = [bank EXCEPT ![p] = less] /\ UNCHANGED <<pack, itemID>>
         ELSE /\ Gets(p, [it EXCEPT !.id = itemID, !.n = n])
              /\ bank' = [bank EXCEPT ![p] = IF n < has THEN less ELSE RemoveAt(@, j)]
              /\ itemID' = itemID + 1
              /\ Stay(floor, list)
      /\ UNCHANGED <<tekked, playerItemID, made, doubled>>

\* 0x60/C4, SortClientItems: p names entries, and the inventory holds what they
\* held, in this order.  inventoryUse stays: what is not named leaves entries that
\* are not in use, and what is named too often lies behind the last.
Sort(p, order) ==
  LET named == [k \in 1 .. Len(order) |-> inv[p][order[k]]]
      m == Least(Len(order), inventoryUse(p))
      twice == \E j, k \in 1 .. Len(order) : j # k /\ order[j] = order[k]
  IN  /\ Here(p)
      /\ inv' = [inv EXCEPT ![p] = SubSeq(named, 1, m)]
      /\ blanks' = [blanks EXCEPT ![p] = inventoryUse(p) - m]
      /\ tail' = [tail EXCEPT ![p] = SubSeq(named, m + 1, Len(named))]
      /\ IF twice
         THEN Made + 2 <= MaxMade /\ doubled' = doubled + 1
         ELSE UNCHANGED doubled
      /\ UNCHANGED <<bank, tekked, game, made>>

\* 0x62/B8: the tekker makes an offer for an unidentified weapon of p.
TekAsk(p, i) ==
  /\ Here(p) /\ inv[p][i].raw
  /\ teks < MaxTeks /\ Made < MaxMade
  /\ teks' = teks + 1
  /\ tekked' = [tekked EXCEPT ![p] = [inv[p][i] EXCEPT !.raw = FALSE]]
  /\ UNCHANGED <<pack, bank, game, weapons, tools, doubled>>

\* 0x62/BA: p accepts the offer.  The loop that looks for the weapon on the
\* floor moves on from lobby to lobby instead of from entry to entry: of this
\* game's list it sees the first entry only.
TekAccept(p) ==
  LET it == tekked[p]
      dupe == \E q \in Players : Here(q) /\ \E i \in 1 .. Len(inv[q]) : inv[q][i].id = it.id
      hit == list # <<>> /\ floor[Head(list)].id = it.id
      fl == IF hit THEN [floor EXCEPT ![Head(list)] = NoItem] ELSE floor
      li == IF hit THEN Tail(list) ELSE list
  IN  /\ Here(p) /\ it.id # 0
      /\ tekked' = IF dupe THEN tekked ELSE [tekked EXCEPT ![p] = NoItem]
      /\ IF dupe \/ NoRoom(p, it)
         THEN Go(p, fl, li) /\ UNCHANGED pack
         ELSE Gets(p, it) /\ Stay(fl, li)
      /\ UNCHANGED <<bank, itemID, playerItemID, made, doubled>>

Next ==
  \/ FindWeapon
  \/ FindTool
  \/ FindNothing
  \/ \E p \in Players :
       \/ Join(p)
       \/ Leave(p)
       \/ \E s \in Slots : floor[s].id # 0 /\ PickUp(p, floor[s].id)
       \/ \E order \in SeqOf(Answers(p), Carry) : Sort(p, order)
       \/ TekAccept(p)
       \/ \E n \in 0 .. MaxBuy : Buy(p, n)
       \/ \E i \in Answers(p) :
            \/ Drop(p, i)
            \/ TekAsk(p, i)
            \/ \E n \in 1 .. MaxBuy : DropSome(p, i, n) \/ Delete(p, i, n) \/ Deposit(p, i, n)
       \/ \E j \in 1 .. Len(bank[p]), n \in 1 .. MaxBuy : Withdraw(p, j, n)

Spec == Init /\ [][Next]_vars

----------------------------------------------------------------------------
(* Properties                                                              *)

Items == [id : Nat, n : 0 .. MaxBuy, serial : 0 .. MaxWeapons - 1 \cup {None}, raw : BOOLEAN]

\* The types, and the limits of what can be held: no sequence of requests makes
\* a player carry or bank more than the arrays of its character hold, the entries
\* behind inventoryUse included.
TypeOK ==
  /\ \A p \in Players :
       /\ \A i \in 1 .. Len(inv[p]) : inv[p][i] \in Items /\ inv[p][i].n > 0
       /\ \A i \in 1 .. Len(tail[p]) : tail[p][i] \in Items /\ tail[p][i].n > 0
       /\ \A j \in 1 .. Len(bank[p]) : bank[p][j] \in Items
       /\ blanks[p] \in Nat /\ inventoryUse(p) + Len(tail[p]) <= Carry
       /\ Len(bank[p]) <= BankSize
       /\ seat[p] \in 0 .. Seats - 1 \cup {None} /\ tekked[p] \in Items
  /\ floor \in [Slots -> Items] /\ list \in Seq(Slots) /\ Len(list) <= MAX_SAVED_ITEMS
  /\ blanked \in BOOLEAN /\ doubled \in Nat

\* Whatever lies on the floor is listed, and once, so that a player can pick it
\* up, and whatever is listed lies there (free_game_item, AddItemToClient,
\* CleanUpGameInventory and every place that appends to gameItemList), until in
\* this game a listed thing was taken away for one that never came.
ListExact ==
  ~blanked =>
    /\ ToSet(list) = {s \in Slots : floor[s].id # 0}
    /\ \A i, j \in 1 .. Len(list) : list[i] = list[j] => i = j

\* Two items of a game, on the floor or carried by the players in it, have
\* different ids, or they are copies of one weapon: a request that names an id
\* means one thing.  It lasts until somebody names a thing twice in a sort.
IdsUnique ==
  LET carried == {x \in Players \X (1 .. Carry) : Here(x[1]) /\ x[2] <= Len(inv[x[1]])}
      held(x) == inv[x[1]][x[2]]
      same(a, b) == a.id # 0 /\ a.id = b.id /\ (IsTool(a) \/ a.serial # b.serial)
  IN  doubled = 0 =>
        /\ \A x, y \in carried : x # y => ~same(held(x), held(y))
        /\ \A s, t \in Slots : s # t => ~same(floor[s], floor[t])
        /\ \A x \in carried, s \in Slots : ~same(held(x), floor[s])

\* How much an entry of a list is, one reduced to none counting as one.
Size(it) == IF it.n = 0 THEN 1 ELSE it.n

\* What there is of weapon w, or of the tool when w is None: on the floor, in
\* lists the players have, and all together.
Lying(fl, w) == {x \in Slots \X (1 .. MaxBuy) : fl[x[1]].serial = w /\ x[2] <= fl[x[1]].n}
Stock(lists, w) ==
  {x \in Players \X (1 .. Carry + BankSize) \X (1 .. MaxBuy) :
     /\ x[2] <= Len(lists[x[1]])
     /\ lists[x[1]][x[2]].serial = w
     /\ x[3] <= Size(lists[x[1]][x[2]])}
Amount(w) == Cardinality(Lying(floor, w)) + Cardinality(Stock(inv, w)) + Cardinality(Stock(bank, w))

\* No sequence of requests makes a tool out of nothing: splitting, dropping,
\* picking up, banking, withdrawing and sorting stacks never adds to what was
\* found or bought, as long as nobody names a thing twice in a sort.
NoToolFromNothing == doubled = 0 => Amount(None) <= tools

\* Every copy of a weapon beyond the first comes of an offer of the tekker, which
\* makes no more than one: the offer is outstanding, or it was accepted.  No
\* other request, and nobody's coming or going, copies anything, but for a sort
\* that names a thing twice.
CopiedByTekkerOnly ==
  doubled = 0 =>
    \A w \in 0 .. weapons - 1 :
      Amount(w) + Cardinality({p \in Players : Here(p) /\ tekked[p].serial = w}) <= 1 + teks

\* What a player dropped (an id below 0x810000) vanishes from the floor only
\* when somebody takes it, when the game is over, or when the floor is full of
\* nothing but such things: what monsters left goes first.
DroppedGoesLast ==
  [][\A s \in Slots :
       LET dropped(t) == floor[t].id \in 1 .. FirstFound - 1
       IN  dropped(s) /\ floor'[s].id # floor[s].id =>
             \/ Len(list') < Len(list)
             \/ \A p \in Players : ~Here(p)'
             \/ \A t \in Slots : dropped(t)]_vars

\* Accepting the tekker's weapon leaves no copy of it on the floor: "Delete it
\* and avoid duping", says the handler of 0x62/BA.
TekkedIsNotOnFloor ==
  [][\A p \in Players :
       Here(p) /\ Here(p)' /\ tekked[p].id # 0 /\ tekked'[p] = NoItem =>
         \A s \in Slots : floor'[s].id # tekked[p].id]_vars
=============================================================================
