------------------------------- MODULE Trades -------------------------------
(***************************************************************************)
(* What a character gives for something else: buying and selling, the      *)
(* hospital and what costs money on the way, the exchanges of quests, and  *)
(* the two banks, its own and the one common to its account, of which the  *)
(* server keeps both and a working copy of the one that was opened.        *)
(*                                                                         *)
(* One player in a game, in the city, whose client asks for one thing at   *)
(* least and whose quests take no more money than it has.  A player marked *)
(* "todc" is gone at the end of the turn; it comes back with what was      *)
(* saved.                                                                  *)
(***************************************************************************)
EXTENDS Integers, Sequences, FiniteSets, SequencesExt

CONSTANTS
  Purses,      \* what a player may come with: [bag, meseta, char, common]
  Prices,      \* def_tables.h: what a kind is worth, and how the price of a weapon is made
  WeaponKinds, \* kinds that are weapons
  Tools,       \* kinds that are tools, whether they stack or not
  Shops,       \* of each shop, the lists it may offer, of [kind, price]
  quest_allow, \* kinds that quests may give
  gallons_shop_hopkins, \* kinds that are given for photon drops
  good_luck,   \* kinds that are drawn for a lucky ticket
  Amounts,     \* sums of money a client may name
  StackOf,     \* stackable_table: how many of a kind make a stack, 0 if it does not stack
  MaxBag,      \* the inventory's 30 entries
  MaxBank,     \* the bank's 200
  MaxMeseta,   \* 999999
  MaxDeals     \* bound on what the player does

VARIABLES
  trader,      \* what the server keeps of the player
  earned,      \* history: all money there ever was, less what was spent on things now had
  gifts,       \* history: how often something was taken in exchange for a thing
  deals        \* number of requests

tradeVars == <<trader, earned, gifts, deals>>

Stacks(it) == StackOf[it.kind] > 0

\* A count of zero stands for one.
StackCount(it) == IF it.n = 0 THEN 1 ELSE it.n

Lesser(a, b) == IF a < b THEN a ELSE b

\* weapons: up to three attributes, [type, pct], a percentage being a byte.
Thing(kind, n, id) == [kind |-> kind, n |-> n, id |-> id, attr |-> <<>>]

----------------------------------------------------------------------------
(* The inventory and money                                                 *)

\* The first entry of a kind, as a set.
FirstOf(s, kind) == {i \in DOMAIN s : s[i].kind = kind /\ \A j \in 1 .. i - 1 : s[j].kind # kind}

Lessened(s, i, n) == IF n < StackCount(s[i]) THEN [s EXCEPT ![i].n = StackCount(s[i]) - n] ELSE RemoveAt(s, i)

\* had: what there is of the stack.
Heaped(s, i, had, n) == [s EXCEPT ![i].n = Lesser(had + n, StackOf[s[i].kind])]

\* n of the entry at i, of no more than there are.
DeleteItemFromClient(x, i, n) ==
  IF Stacks(x.bag[i]) /\ n > StackCount(x.bag[i]) THEN [x EXCEPT !.todc = TRUE]
  ELSE [x EXCEPT !.bag = IF Stacks(x.bag[i]) THEN Lessened(@, i, n) ELSE RemoveAt(@, i)]

\* Up to n of the first entry of a kind.
DeleteFromInventory(x, kind, n) ==
  IF FirstOf(x.bag, kind) = {} THEN [x EXCEPT !.todc = TRUE]
  ELSE LET i == CHOOSE j \in FirstOf(x.bag, kind) : TRUE
       IN  [x EXCEPT !.bag = IF Stacks(x.bag[i]) THEN Lessened(@, i, IF n = 0 THEN 1 ELSE n) ELSE RemoveAt(@, i)]

AddedToInventory(x, it) ==
  IF x.todc THEN x
  ELSE IF Stacks(it) /\ FirstOf(x.bag, it.kind) # {}
  THEN LET i == CHOOSE j \in FirstOf(x.bag, it.kind) : TRUE
       IN  [x EXCEPT !.bag = Heaped(@, i, StackCount(x.bag[i]), StackCount(it))]
  ELSE IF Len(x.bag) >= MaxBag THEN [x EXCEPT !.todc = TRUE]
  ELSE [x EXCEPT !.bag = Append(@, [it EXCEPT !.n = IF Stacks(it) THEN StackCount(it) ELSE 1])]

AddMeseta(x, n) == [x EXCEPT !.meseta = Lesser(@ + n, MaxMeseta)]

DeleteMesetaFromClient(x, n) == [x EXCEPT !.meseta = @ - Lesser(@, n)]

Signed(byte) == IF byte > 127 THEN byte - 256 ELSE byte

\* A weapon's price grows with the square of its attack and by a third of a per cent for every per
\* cent of its attributes; other prices, and those of weapons that are no common ones, are looked up.
GetShopPrice(it) ==
  LET p == Prices[it.kind]
      percent == FoldLeft(LAMBDA sum, a : sum + Signed(a.pct), 0, it.attr)
      price == (p.atpmax * p.atpmax * p.num * (300 + percent)) \div (p.den * 2400) + p.attrib
  IN  IF p.common THEN IF price < 0 THEN 0 ELSE price ELSE p.price

----------------------------------------------------------------------------
(* The player                                                              *)

\* character.bankUse is the working copy; bankAccess says of which bank, bankType which one is opened
\* next.
Newly(p) ==
  [bag |-> p.bag, meseta |-> p.meseta, char |-> p.char, common |-> p.common, use |-> p.char,
   type |-> 0, access |-> 0, doneshop |-> [k \in DOMAIN Shops |-> <<>>], todc |-> FALSE]

\* What is saved of a player that leaves and loaded when it comes back: the inventory, and both banks.
Back(x) == Newly([bag |-> x.bag, meseta |-> x.meseta, char |-> x.char, common |-> x.common])

Settled(x) == trader' = IF x.todc THEN Back(x) ELSE x

TradesInit == trader = <<>> /\ earned = 0 /\ gifts = 0 /\ deals = 0

Wealth(x) == x.meseta + x.char.meseta + x.common.meseta

Arrive ==
  /\ trader = <<>>
  /\ \E p \in Purses : trader' = Newly(p) /\ earned' = Wealth(p)
  /\ UNCHANGED <<gifts, deals>>

Deal == deals < MaxDeals /\ deals' = deals + 1

\* The player leaves and comes back.
Return == Deal /\ trader' = Back(trader) /\ UNCHANGED <<earned, gifts>>

Entries == 1 .. Len(trader.bag)

----------------------------------------------------------------------------
(* Money                                                                   *)

\* 0x60/C0: more than one of something that is no tool is refused.
Sell(i, n) ==
  /\ Deal /\ UNCHANGED gifts
  /\ LET it == trader.bag[i]
         price == GetShopPrice(it) * n
         sold == DeleteItemFromClient(trader, i, n)
     IN  IF (n > 1 /\ it.kind \notin Tools) \/ sold.todc
         THEN Settled([trader EXCEPT !.todc = TRUE]) /\ UNCHANGED earned
         ELSE Settled(AddMeseta(sold, price)) /\ earned' = earned + price

\* 0x60/C5, the hospital, and 0x60/C7, what an action is charged with, or gives back if it is negative.
Hospital == Deal /\ Settled(DeleteMesetaFromClient(trader, 10)) /\ UNCHANGED <<earned, gifts>>

Charge(meseta) ==
  /\ Deal /\ UNCHANGED gifts
  /\ IF meseta > 0 THEN Settled(DeleteMesetaFromClient(trader, meseta)) /\ UNCHANGED earned
     ELSE Settled(AddMeseta(trader, -meseta)) /\ earned' = earned - meseta

\* 0x62/C9, what a quest gives, or takes of what the player has.
QuestMeseta(meseta) ==
  /\ Deal /\ UNCHANGED gifts
  /\ trader.meseta + meseta >= 0
  /\ IF meseta < 0 THEN Settled([trader EXCEPT !.meseta = @ + meseta]) /\ UNCHANGED earned
     ELSE Settled(AddMeseta(trader, meseta)) /\ earned' = earned + meseta

\* 0x62/B5: one of the lists of a shop is drawn.
RequestShop(k) ==
  /\ Deal /\ UNCHANGED <<earned, gifts>>
  /\ \E list \in Shops[k] : trader' = [trader EXCEPT !.doneshop[k] = list]

Payable(item, n) == (n > 1 => item.kind \in Tools) /\ trader.meseta >= n * item.price

\* Faulty: nothing is paid.
BuyItem_unpaid(k, i, n) ==
  /\ Deal /\ UNCHANGED gifts
  /\ trader.doneshop[k] # <<>>
  /\ IF i \notin DOMAIN trader.doneshop[k] THEN Settled([trader EXCEPT !.todc = TRUE]) /\ UNCHANGED earned
     ELSE LET item == trader.doneshop[k][i]
              had == AddedToInventory(trader, Thing(item.kind, n, 10 + deals))
          IN  IF ~Payable(item, n) THEN Settled([trader EXCEPT !.todc = TRUE]) /\ UNCHANGED earned
              ELSE Settled(had) /\ earned' = IF had.todc THEN earned ELSE earned - n * item.price

\* 0x62/B7: it is paid for whether or not it can be carried.
BuyItem(k, i, n) ==
  /\ Deal /\ UNCHANGED gifts
  /\ trader.doneshop[k] # <<>>
  /\ IF i \notin DOMAIN trader.doneshop[k] THEN Settled([trader EXCEPT !.todc = TRUE]) /\ UNCHANGED earned
     ELSE LET item == trader.doneshop[k][i]
              had == AddedToInventory(trader, Thing(item.kind, n, 10 + deals))
          IN  IF ~Payable(item, n) THEN Settled([trader EXCEPT !.todc = TRUE]) /\ UNCHANGED earned
              ELSE /\ Settled(DeleteMesetaFromClient(had, n * item.price))
                   /\ earned' = IF had.todc THEN earned ELSE earned - n * item.price

----------------------------------------------------------------------------
(* Exchanges                                                               *)

\* 0x60/CC: given to the team.
Donate(i) == Deal /\ Settled(DeleteItemFromClient(trader, i, 1)) /\ UNCHANGED <<earned, gifts>>

Given(kind, x) == AddedToInventory(x, Thing(kind, 1, 10 + deals))
Gift == gifts' = gifts + 1

\* Faulty: what is asked for is given whether or not there was something to give for it.
ExchangeItem_any(kind, wanted) ==
  /\ Deal /\ UNCHANGED earned
  /\ LET x == DeleteFromInventory(trader, kind, 1)
     IN  IF wanted \in quest_allow
         THEN Settled(Given(wanted, [x EXCEPT !.todc = FALSE])) /\ (IF x.todc THEN UNCHANGED gifts ELSE Gift)
         ELSE Settled([x EXCEPT !.todc = TRUE]) /\ UNCHANGED gifts

\* 0x60/D5: one of a kind for one of another; one that is not allowed costs the first all the same.
ExchangeItem(kind, wanted) ==
  /\ Deal /\ UNCHANGED earned
  /\ LET x == DeleteFromInventory(trader, kind, 1)
     IN  IF ~x.todc /\ wanted \in quest_allow THEN Settled(Given(wanted, x)) /\ Gift
         ELSE Settled([x EXCEPT !.todc = TRUE]) /\ UNCHANGED gifts

\* 0x60/D7: all photon drops of the first stack for what Hopkins' father sells.
ExchangePhotonDrops(wanted) ==
  /\ Deal /\ UNCHANGED earned
  /\ LET x == IF wanted \in gallons_shop_hopkins THEN DeleteFromInventory(trader, "photon drop", 255)
              ELSE [trader EXCEPT !.todc = TRUE]
     IN  IF ~x.todc THEN Settled(Given(wanted, x)) /\ Gift ELSE Settled(x) /\ UNCHANGED gifts

\* 0x60/D9 Momoka and 0x60/DE Good Luck: one of what they take, if there is any.
ExchangeTicket(ticket, wanted, allowed) ==
  /\ Deal /\ UNCHANGED earned
  /\ FirstOf(trader.bag, ticket) # {}
  /\ IF wanted \in allowed
     THEN Settled(Given(wanted, DeleteFromInventory(trader, ticket, 1))) /\ Gift
     ELSE Settled([trader EXCEPT !.todc = TRUE]) /\ UNCHANGED gifts

Momoka(wanted) == ExchangeTicket("badge", wanted, quest_allow)
GoodLuck == \E wanted \in good_luck : ExchangeTicket("lucky ticket", wanted, good_luck)

\* 0x60/E1, Gallon's plan: 10, 15 or 20 photon tickets of one stack.
GallonsPlan(plan) ==
  /\ Deal /\ UNCHANGED earned
  /\ LET tickets == FirstOf(trader.bag, "photon ticket")
         x == IF tickets = {} \/ plan \notin 1 .. 3 THEN [trader EXCEPT !.todc = TRUE]
              ELSE DeleteItemFromClient(trader, CHOOSE i \in tickets : TRUE, 5 + 5 * plan)
     IN  IF ~x.todc THEN Settled(Given("reward", x)) /\ Gift ELSE Settled(x) /\ UNCHANGED gifts

\* 0x62/CA: what a quest gives; what it may not give is logged.
QuestReward(wanted) ==
  /\ Deal /\ UNCHANGED earned
  /\ IF wanted \in quest_allow THEN Settled(Given(wanted, trader)) /\ Gift ELSE UNCHANGED <<trader, gifts>>

\* What photon drops or a sphere add to an attribute: for one drop, what was left in the variable.
attrib_add(sphere, n) ==
  CASE n = 1 -> IF sphere THEN {30} ELSE {0, 30, 255}
    [] n = 4 -> {1}
    [] n = 20 -> {5}
    [] OTHER -> {0}

\* The attribute grows to a hundred, bytes above which are those below zero as well; or it is added
\* as one more of three.
Upgraded(attr, type, add) ==
  IF \E k \in DOMAIN attr : attr[k].type = type
  THEN [k \in DOMAIN attr |->
          IF attr[k].type = type /\ \A j \in k + 1 .. Len(attr) : attr[j].type # type
          THEN [attr[k] EXCEPT !.pct = Lesser((@ + add) % 256, 100)] ELSE attr[k]]
  ELSE IF Len(attr) < 3 THEN Append(attr, [type |-> type, pct |-> add]) ELSE attr

\* 0x60/DA: paid with up to n of the stack; the weapon is taken out and put in again at the end.
UpgradePhoton(i, type, sphere, n) ==
  /\ Deal /\ UNCHANGED <<earned, gifts>>
  /\ trader.bag[i].kind \in WeaponKinds
  /\ \E add \in attrib_add(sphere, n) :
       LET it == trader.bag[i]
           x == DeleteFromInventory(trader, IF sphere THEN "photon sphere" ELSE "photon drop", n)
           at == CHOOSE k \in DOMAIN x.bag : x.bag[k].id = it.id
       IN  Settled(IF x.todc THEN x
                   ELSE AddedToInventory(DeleteItemFromClient(x, at, 1), [it EXCEPT !.attr = Upgraded(@, type, add)]))

----------------------------------------------------------------------------
(* Banks                                                                   *)

\* The chat command /bank.
SwitchBank == Deal /\ trader' = [trader EXCEPT !.type = 1 - @] /\ UNCHANGED <<earned, gifts>>

\* 0x62/BB.
OpenBank ==
  /\ Deal /\ UNCHANGED <<earned, gifts>>
  /\ trader' = [trader EXCEPT !.access = trader.type,
                              !.use = IF trader.type = 1 THEN trader.common ELSE trader.char]

\* Faulty: to the bank that is opened next.
UpdateBank_next(x) == IF x.type = 1 THEN [x EXCEPT !.common = x.use] ELSE [x EXCEPT !.char = x.use]

\* The end of 0x62/BD: the working copy is put back, whatever came of the request.
UpdateBank(x) == IF x.access = 1 THEN [x EXCEPT !.common = x.use] ELSE [x EXCEPT !.char = x.use]

DepositMeseta(n) ==
  /\ Deal /\ UNCHANGED <<earned, gifts>>
  /\ Settled(UpdateBank(
       IF trader.meseta < n THEN [trader EXCEPT !.todc = TRUE]
       ELSE [trader EXCEPT !.use.meseta = Lesser(@ + n, MaxMeseta), !.meseta = @ - n]))

WithdrawMeseta(n) ==
  /\ Deal /\ UNCHANGED <<earned, gifts>>
  /\ Settled(UpdateBank(
       IF trader.use.meseta < n THEN [trader EXCEPT !.todc = TRUE]
       ELSE [trader EXCEPT !.use.meseta = @ - n, !.meseta = @ + n]))

\* DepositIntoBank: onto the stack in the bank, what is over its limit being lost, or at the end.
Deposited(x, i, n) ==
  LET it == x.bag[i]
      least == IF n = 0 THEN 1 ELSE n
      there == FirstOf(x.use.items, it.kind)
      left == DeleteItemFromClient(x, i, least)
  IN  IF left.todc THEN left
      ELSE IF Stacks(it) /\ there # {}
           THEN LET k == CHOOSE j \in there : TRUE
                IN  [left EXCEPT !.use.items = Heaped(@, k, x.use.items[k].n, least)]
           ELSE [left EXCEPT !.use.items = Append(@, [it EXCEPT !.n = IF Stacks(it) THEN least ELSE 1])]

SortedBank(s) == SelectSeq(s, LAMBDA it : ~Stacks(it)) \o SelectSeq(s, Stacks)

DepositItem(i, n) ==
  /\ Deal /\ UNCHANGED <<earned, gifts>>
  /\ LET x == Deposited(trader, i, n)
     IN  Settled(UpdateBank(
           IF Len(trader.use.items) >= MaxBank \/ x.todc THEN [trader EXCEPT !.todc = TRUE]
           ELSE [x EXCEPT !.use.items = SortedBank(@)]))

\* WithdrawFromBank: a stack in the bank is lessened before it is known that there is room, and an
\* entry of none stays.
Withdrawn(x, i, n) ==
  LET it == x.use.items[i]
      least == IF n = 0 THEN 1 ELSE n
      had == AddedToInventory(x, [it EXCEPT !.n = least, !.id = IF Stacks(it) THEN 0 ELSE @])
  IN  IF Stacks(it) /\ least > StackCount(it) THEN [x EXCEPT !.todc = TRUE]
      ELSE IF ~had.todc
           THEN [had EXCEPT !.use.items = IF Stacks(it) THEN Lessened(@, i, least) ELSE RemoveAt(@, i)]
           ELSE [had EXCEPT !.use.items[i].n = IF Stacks(it) THEN StackCount(it) - least ELSE @]

WithdrawItem(i, n) ==
  /\ Deal /\ UNCHANGED <<earned, gifts>>
  /\ Settled(UpdateBank(Withdrawn(trader, i, n)))

----------------------------------------------------------------------------

Asks ==
  \/ Return \/ Hospital \/ GoodLuck \/ SwitchBank \/ OpenBank
  \/ \E i \in Entries : Donate(i) \/ \E n \in {1, 2} : Sell(i, n) \/ DepositItem(i, n)
  \/ \E i \in DOMAIN trader.use.items, n \in {1, 2} : WithdrawItem(i, n)
  \/ \E n \in Amounts :
       Charge(n) \/ Charge(-n) \/ QuestMeseta(n) \/ QuestMeseta(-n) \/ DepositMeseta(n) \/ WithdrawMeseta(n)
  \/ \E k \in DOMAIN Shops : RequestShop(k) \/ \E i, n \in {1, 2} : BuyItem(k, i, n)
  \/ \E kind, wanted \in DOMAIN StackOf : ExchangeItem(kind, wanted)
  \/ \E wanted \in DOMAIN StackOf : ExchangePhotonDrops(wanted) \/ Momoka(wanted) \/ QuestReward(wanted)
  \/ \E plan \in 1 .. 4 : GallonsPlan(plan)
  \/ \E i \in Entries, type \in {"native", "hit"}, sphere \in BOOLEAN, n \in {1, 4, 20} :
       UpgradePhoton(i, type, sphere, n)

TradesNext == Arrive \/ (trader # <<>> /\ Asks)

TradesSpec == TradesInit /\ [][TradesNext]_tradeVars

----------------------------------------------------------------------------

TradesTypeOK ==
  trader # <<>> =>
    /\ Len(trader.bag) <= MaxBag /\ Len(trader.char.items) <= MaxBank /\ Len(trader.common.items) <= MaxBank
    /\ trader.meseta \in Nat /\ trader.char.meseta \in 0 .. MaxMeseta /\ trader.common.meseta \in 0 .. MaxMeseta
    /\ trader.type \in {0, 1} /\ trader.access \in {0, 1} /\ ~trader.todc
    /\ \A i \in Entries : \A k \in DOMAIN trader.bag[i].attr : trader.bag[i].attr[k].pct \in 0 .. 255

Everywhere == trader.bag \o trader.char.items \o trader.common.items

\* In whatever order banks are switched, opened and used and the player leaves and comes back, a thing
\* that does not stack is in one place, and there is no more money than was earned and not spent on
\* what the player was given for it.
BanksApart ==
  trader # <<>> =>
    /\ trader.use = IF trader.access = 1 THEN trader.common ELSE trader.char
    /\ \A i, k \in DOMAIN Everywhere : i # k /\ ~Stacks(Everywhere[i]) => Everywhere[i].id # Everywhere[k].id
    /\ Wealth(trader) <= earned

\* No reward is had that nothing was given for (or that no quest allowed).
RewardsPaid ==
  trader # <<>> => Cardinality({i \in DOMAIN Everywhere : Everywhere[i].kind = "reward"}) <= gifts
=============================================================================
