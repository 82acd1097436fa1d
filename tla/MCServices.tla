----------------------------- MODULE MCServices -----------------------------
(* Two of everybody, three of those who show cards, bytes of two bits; a GM
   and a player who share an address and a machine; nine mags; four
   levels and a monster; four inventories; three purses, a shop of two lists;
   a game of each episode, two quests, two boxes; three hunters with flags of
   their own, lists of quests whole and broken; three settings of a ship and a
   table of drops for two parties; three writers on two ships; three guests of
   a lobby and of games, two quests in two languages; a client that logs in for
   two accounts and is handed nine files in sixteen pieces; three ships and a client
   that goes from one to another. *)
EXTENDS Services

CONSTANTS acc1, acc2, acc3, p1, p2, ship1, ship2, name1, name2, name3, gm, ip1, hw1, h1, h2, u1, u2, u3, w1, w2, w3, g1, g2, g3, c1, f1, f2, f3, v1

MCUsers == {acc1, acc2}
MCPrograms == {p1, p2}
MCSlots == {0, 1}
MCShips == {ship1, ship2}
MCNames == {name1, name2, name3}
MCFriends == {acc1, acc2, acc3}
FileRecord(id, owner, name) == [id |-> id, owner |-> owner, head |-> owner, name |-> name]
MCTeamFiles ==
  {[teams |-> <<>>, members |-> [g \in MCUsers |-> [team |-> 0, priv |-> 0]]],
   [teams |-> <<FileRecord(1, acc1, name1)>>,
    members |-> [g \in MCUsers |-> [team |-> 1, priv |-> IF g = acc1 THEN 64 ELSE 48]]],
   [teams |-> <<FileRecord(0, NoOne, name1), FileRecord(0, NoOne, name2), FileRecord(3, acc1, name3)>>,
    members |-> [g \in MCUsers |-> [team |-> 3, priv |-> IF g = acc1 THEN 64 ELSE 48]]]}

MCLinkKey == <<3, 1, 2>>
MCKeys == (0 :> 1) @@ (1 :> 2) @@ (2 :> 3) @@ (3 :> 0) @@ (4 :> 2) @@ (5 :> 1)
MCF == (0 :> 2) @@ (1 :> 2) @@ (2 :> 0) @@ (3 :> 1)

MCGMs == {gm}
MCGuilds == {gm, acc1}
MCIPs == {ip1}
MCHardware == {hw1}

Hatch(level, defense, power, dex, mind, kind, learnt, blasts) ==
  [mtype |-> kind, level |-> level, defense |-> defense, power |-> power, dex |-> dex, mind |-> mind,
   synchro |-> 118, IQ |-> 3, PBflags |-> learnt, blasts |-> blasts]
MCHatched ==
  {Hatch(5, 500, 0, 0, 0, "Mag", {}, <<0,0,0>>),
   Hatch(9, 580, 470, 30, 90, "Mag", {}, <<0,0,0>>),
   Hatch(34, 799, 1395, 1290, 299, "Varuna", {1}, <<0,0,0>>),
   Hatch(49, 1499, 1295, 1190, 1295, "Sumba", {1,2}, <<4,2,0>>),
   Hatch(99, 4499, 1695, 1795, 2296, "Naga", {1,2}, <<4,5,0>>),
   Hatch(99, 2499, 2495, 2695, 2595, "Kama", {1,2}, <<1,3,0>>),
   Hatch(199, 5099, 4998, 5199, 4998, "Kabanda", {1,2,4}, <<1,3,2>>),
   Hatch(3, 0-1, 0, 0, 0, "Mag", {}, <<0,0,0>>),
   Hatch(34, 400, 1095, 1090, 1098, "Varuna", {1}, <<0,0,0>>),
   Hatch(34, 400, 1095, 1090, 1098, "Kalki", {1}, <<1,0,0>>),
   Hatch(210, 10000, 4000, 4000, 3000, "Kama", {1}, <<1,0,0>>)}
MCKeepers == {[class |-> "HUmar", section |-> "Viridia"], [class |-> "HUcaseal", section |-> "Greennill"],
  [class |-> "RAmarl", section |-> "Skyly"], [class |-> "RAcast", section |-> "Bluefull"],
  [class |-> "FOmarl", section |-> "Purplenum"], [class |-> "FOnewm", section |-> "Pinkal"]}



MCHeroes == {h1, h2}
MCPoints == {"ATP", "LCK"}
MCStarting == [p \in MCPoints |-> 10]
MCLevelData == [k \in 1 .. 4 |-> [p \in MCPoints |-> IF p = "LCK" THEN 0 ELSE k + 1]]
MCSteps == <<200, 400, 900, 99999>>
MCYields == <<800>>


Item(id, sort, kind, variant, grind, slot, worn) ==
  [id |-> id, sort |-> sort, kind |-> kind, variant |-> variant, grind |-> grind, slot |-> slot, slots |-> 1,
   wrapped |-> FALSE, worn |-> worn]

MCPacks ==
  {\* two weapons that join and a sword both worn
   <<Item(1, "weapon", \h1E, 0, 0, 0, TRUE), Item(2, "weapon", \hAF, 0, 3, 0, TRUE), Item(3, "tool", \h0A, 2, 0, 0, FALSE)>>,
   \* two armors, worn with three units
   <<Item(1, "armor", \h1D, 0, 0, 0, TRUE), Item(2, "armor", \h1C, 0, 0, 0, FALSE), Item(3, "unit", \h4D, 0, 0, 0, TRUE),
     Item(4, "unit", \h40, 0, 0, 1, TRUE), Item(5, "tool", \h0E, \h06, 0, 0, FALSE)>>,
   \* a shield and what merges with it, a mag that is worn and one that is not
   <<Item(1, "shield", \h15, 0, 0, 0, FALSE), Item(2, "tool", \h0E, \h17, 0, 0, FALSE), Item(3, "mag", \h2C, 0, 0, 0, TRUE),
     Item(4, "mag", 0, 0, 0, 0, FALSE), Item(5, "armor", \h1C, 0, 0, 0, FALSE)>>,
   \* a disk, a slot and a present
   <<Item(1, "tool", \h02, 1, 0, 4, FALSE), Item(2, "tool", \h0F, 0, 0, 0, FALSE), Item(3, "tool", \h15, 1, 0, 0, FALSE),
     Item(4, "armor", \h1D, 0, 0, 0, TRUE)>>}
MCFinds == {Item(0, "unit", \h40, 0, 0, 0, FALSE), Item(0, "shield", \h15, 0, 0, 0, FALSE)}
MCWearable == {<<"weapon", \h1E>>, <<"weapon", \hAF>>, <<"armor", \h1D>>, <<"armor", \h1C>>, <<"shield", \h15>>}
MCLearnable == {<<4, 1>>}

MCStackOf == ("saber" :> 0) @@ ("reward" :> 0) @@ ("photon drop" :> 99) @@ ("photon sphere" :> 99)
  @@ ("photon ticket" :> 99) @@ ("lucky ticket" :> 10) @@ ("badge" :> 10) @@ ("monomate" :> 2)
MCPrices == [k \in DOMAIN MCStackOf |->
  [common |-> k = "saber", price |-> IF k = "monomate" THEN 5 ELSE 10, atpmax |-> 40, num |-> 1, den |-> 5,
   attrib |-> 10]]
Saber(id, attr) == [Thing("saber", 1, id) EXCEPT !.attr = attr]
Percent(type, pct) == [type |-> type, pct |-> pct]
Vault(items, meseta) == [items |-> items, meseta |-> meseta]
MCPurses ==
  {\* a weapon to be bettered, with an attribute below zero and one near its limit
   [bag |-> <<Saber(1, <<Percent("native", 251), Percent("hit", 98)>>), Thing("photon drop", 5, 2)>>, meseta |-> 60,
    char |-> Vault(<<Thing("photon drop", 20, 3)>>, 100), common |-> Vault(<<Saber(4, <<>>)>>, 0)],
   \* everything that can be exchanged, and a bank almost full of money
   [bag |-> <<Thing("photon ticket", 16, 1), Thing("badge", 1, 2), Thing("lucky ticket", 1, 3)>>, meseta |-> 100,
    char |-> Vault(<<Thing("monomate", 1, 4)>>, 990), common |-> Vault(<<>>, 0)],
   \* a weapon with three attributes and a purse almost full
   [bag |-> <<Thing("photon sphere", 1, 1), Saber(2, <<Percent("a", 1), Percent("b", 2), Percent("c", 3)>>)>>,
    meseta |-> 990, char |-> Vault(<<>>, 0), common |-> Vault(<<>>, 0)]}
MCShops ==
  <<{<<[kind |-> "monomate", price |-> 50]>>, <<[kind |-> "monomate", price |-> 50], [kind |-> "saber", price |-> 70]>>}>>
MCTools == DOMAIN MCStackOf \ {"saber", "reward"}

Rec(base, skin, mark, add) == [base |-> base, skin |-> skin, mark |-> mark, add |-> add]
Are(files) == [files |-> files, desert |-> FALSE]
Desert(files) == [files |-> files, desert |-> TRUE]
Kind(e, d, one, battle, event, areas) ==
  [episode |-> e, difficulty |-> d, oneperson |-> one, battle |-> battle, event |-> event, areas |-> areas]
MCGameKinds ==
  {Kind(1, 0, FALSE, FALSE, 0, <<Are({<<Rec(161,0,FALSE,0), Rec(64,0,FALSE,0)>>})>>),
   Kind(2, 3, TRUE, FALSE, 5, <<Are({<<Rec(65,0,FALSE,0), Rec(223,0,FALSE,1)>>, <<Rec(100,0,FALSE,0)>>})>>),
   Kind(3, 3, FALSE, TRUE, 0, <<Desert({<<Rec(276,0,FALSE,0)>>}), Are({<<Rec(281,1,FALSE,1)>>})>>)}
MCQuestMaps ==
  {[government |-> FALSE, boost |-> TRUE, level |-> 2, objects |-> 1,
    parts |-> <<[area |-> 16, file |-> <<Rec(97,0,FALSE,0), Rec(224,0,FALSE,0)>>]>>],
   [government |-> TRUE, boost |-> FALSE, level |-> 0, objects |-> 2,
    parts |-> <<[area |-> 2, file |-> <<Rec(130,0,TRUE,0), Rec(64,0,FALSE,0)>>]>>]}
MCXP == [k \in 0 .. 95 |-> IF k = 6 THEN 0 ELSE k * 20]
MCTable(w, dar) ==
  [attachment |-> [r \in 0 .. 9 |-> IF r = 2 THEN {0, 2} ELSE {1}], percents |-> {7}, element_ranking |-> [r \in 0 .. 9 |-> IF r = 5 THEN 1 ELSE 0],
   grinds |-> {0}, slots |-> {4}, tech_levels |-> [r \in 0 .. 9 |-> {r}], box_meseta |-> [r \in 0 .. 9 |-> <<r, r>>],
   weapons |-> [r \in 0 .. 9 |-> w], unit_level |-> [r \in 0 .. 9 |-> r], units |-> [r \in 0 .. 9 |-> {r}],
   tools |-> [r \in 0 .. 9 |-> {0, 2}], enemy_dar |-> [k \in 0 .. 99 |-> IF k \in {44, 45, 46, 47} THEN 100 ELSE dar],
   enemy_drop |-> [k \in 0 .. 99 |-> k % 5], enemy_meseta |-> [k \in 0 .. 99 |-> <<k, 0>>]]
MCPT == <<MCTable({<<1, 5>>}, 50), MCTable({<<10, 4>>}, 0)>>
MCRT == [e \in 1 .. 3 |-> [monsters |-> [k \in 0 .. 99 |-> IF k = 2 THEN {Found("weapon", \h33, 1)} ELSE IF k = 21 THEN {Found("tech", 2, 0)} ELSE {}],
                         boxes |-> <<<<3, Found("armor", 1, \h22)>>, <<3, Found("mag", 0, 0)>>, <<10, Found("weapon", 9, 5)>>>>]]
MCBoxes == [b \in 0 .. 1 |-> IF b = 0 THEN [fixed |-> TRUE, full |-> TRUE, sort |-> 0, type |-> 2, rank |-> 1] ELSE [fixed |-> FALSE, full |-> FALSE, sort |-> 0, type |-> 0, rank |-> 0]]
MCArms == {[special |-> 11, droid |-> TRUE, counter |-> TRUE, master |-> FALSE]}
MCFirst == {Found("weapon", 14, 0)}

MCHunters == {u1, u2, u3}
QuestPart(sort, area, records) == [sort |-> sort, area |-> area, records |-> records]
Plot == <<QuestPart("monster", 17, <<"m1">>), QuestPart("object", 2, <<"b1", "b2">>), QuestPart("event", 0, <<>>), QuestPart("monster", 0, <<"m2">>),
  QuestPart("object", 0, <<"b3">>), QuestPart("monster", 0, <<"m3">>), QuestPart("other", 0, <<>>), QuestPart("object", 99, <<"b4">>)>>
Text(no) == [no |-> no, langs |-> IF no = 452 THEN {0, 1} ELSE {0}, parts |-> IF no = 1 THEN Plot ELSE <<>>]
Sheet(nos) == [listed |-> TRUE, files |-> [i \in DOMAIN nos |-> Text(nos[i])]]
MCLists == <<<<>>, <<Sheet(<<35>>)>>, <<>>, <<Sheet([i \in 1 .. 26 |-> i])>>, <<>>, <<>>, <<Sheet(<<401, 402>>)>>,
  <<Sheet(<<451, 452, 453>>)>>, <<Sheet(<<701, 702>>)>>, <<Sheet(<<8>>)>>>>
MCQuestFiles == {MCLists,
  [MCLists EXCEPT ![2] = <<[listed |-> FALSE, files |-> <<>>]>>],
  [MCLists EXCEPT ![2] = <<[listed |-> TRUE, files |-> <<[no |-> 35, langs |-> {1}, parts |-> <<>>]>>]>>]}
PartyOf(e, one, battle, d, makers) == [counters |-> IF one THEN {FALSE} ELSE BOOLEAN, episode |-> e, oneperson |-> one, battle |-> battle, difficulty |-> d, makers |-> makers]
MCPartyKinds == {PartyOf(1, TRUE, FALSE, 0, {u1}), PartyOf(1, FALSE, FALSE, 1, MCHunters), PartyOf(2, FALSE, FALSE, 1, MCHunters),
  PartyOf(3, FALSE, FALSE, 1, MCHunters), PartyOf(1, FALSE, TRUE, 0, {u1, u2})}
MCSpeaks == [h \in MCHunters |-> IF h = u2 THEN 1 ELSE 0]
MCBeginnings == {[h \in MCHunters |-> IF h = u1 THEN {} ELSE IF h = u2 THEN {Bit(\h213, 1), Bit(\h1F5, 1), Bit(\h2BD, 1)} ELSE {Bit(f, 0) : f \in {\h213, \h215, \h1F5, \h2BD}}]}

MCInis == {[lines |-> 13, blocks |-> 30, connections |-> 4000, rates |-> <<30000, 20000, 10, 50000, 40000>>],
  [lines |-> 14, blocks |-> 0, connections |-> 100, rates |-> <<100000, 50000, 70000, 1, 30000>>],
  [lines |-> 12, blocks |-> 1, connections |-> 100, rates |-> <<1, 1, 1, 1, 1>>]}
MCCsvChars == {",", "q", "low", "x", "y"}
Areas(s) == [a \in 0 .. 1 |-> IF a = 0 THEN s ELSE Reverse(s)]
MCRecord(e, d, s) ==
  [weapon_ratio |-> <<100, 10 + 40 * s, 0, 255>>, weapon_minrank |-> <<0, 0-1, 1, 0-2 + d>>,
   area_pattern |-> [a \in 0 .. 1 |-> a], slot_ranking |-> <<50, 30, 20>>,
   power_pattern |-> Areas(<<100, 0, 7>>), percent_pattern |-> Areas(<<4000, 10000, 3333>>),
   tool_frequency |-> Areas([i \in 1 .. 25 |-> IF i = 1 + e THEN 5000 ELSE IF i = 24 THEN 9000 ELSE IF i = 25 THEN 1000 * s ELSE 0]),
   percent_attachment |-> Areas(<<90, 10>>), tech_frequency |-> Areas(<<255, 128, 60>>),
   tech_levels |-> <<[a \in 0 .. 1 |-> a - 1], [a \in 0 .. 1 |-> 3], [a \in 0 .. 1 |-> 0]>>,
   enemy_dar |-> [k \in 1 .. 80 |-> 50], enemy_meseta |-> [k \in 1 .. 80 |-> <<e, d * 10 + s>>]]
MCPTFile == [k \in 1 .. 8 |-> MCRecord(1 + (k - 1) \div 4, ((k - 1) \div 2) % 2, (k - 1) % 2)]

MCWriters == {w1, w2, w3}
MCHeld == (w1 :> {w3}) @@ (w2 :> {}) @@ (w3 :> {})
MCTeamOf == (w1 :> 1) @@ (w2 :> 1) @@ (w3 :> 0)
MCHeralds == (w1 :> {"local", "global"}) @@ (w2 :> {"global"}) @@ (w3 :> {})
MCShuns == (w1 :> {w3}) @@ (w2 :> {}) @@ (w3 :> {})
Sit(g, where, a) == [who |-> g, room |-> where, announce |-> a]
MCSeated == ("s1" :> <<Sit(w1, 1, "local"), Sit(w3, 1, "no")>>) @@ ("s2" :> <<Sit(w2, 1, "global")>>)

MCGuests == {g1, g2, g3}
RoomOf(isgame, government, who, comings, settings, asked) ==
  [game |-> isgame, government |-> government, guests |-> who, visits |-> comings, changes |-> settings, questions |-> asked]
MCRoomKinds == {RoomOf(FALSE, FALSE, MCGuests, 4, 2, 0), RoomOf(TRUE, FALSE, {g1}, 2, 0, 3),
  RoomOf(TRUE, FALSE, {g1, g2}, 4, 1, 0), RoomOf(TRUE, TRUE, {g1, g2}, 3, 0, 0)}
MCSpeaking == [g \in MCGuests |-> IF g = g1 THEN 1 ELSE 0]
MCQuestTexts == <<0 :> <<12, 16, 9>>, (0 :> <<10, 20>>) @@ (1 :> <<8, 5, 24>>)>>

MCCallers == {c1}
MCParamSizes == <<1, 3, 10, 9, 10, 9, 10, 9, 1>>
MCFleet == {f1, f2, f3}
MCPiers == {0, 1}

MCAlbums == {(acc1 :> <<>>) @@ (acc2 :> <<name1>>)}
=============================================================================
