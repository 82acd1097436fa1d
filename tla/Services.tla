------------------------------ MODULE Services ------------------------------
(***************************************************************************)
(* What the servers keep of a player beside where it is and what lies in   *)
(* its game, each thing with state of its own that nothing else touches:   *)
(* logging in, teams, guild cards, what packets go through, bans, a mag,   *)
(* what a character has grown to, what it wears, what it gives and keeps   *)
(* in its banks, the monsters it meets, the quests it may play, what is    *)
(* said and written, what a ship has read as it starts, what the members   *)
(* of a room see, what a client is handed as it logs in, and the ships it  *)
(* may choose from.  A behaviour is of one of them.                        *)
(***************************************************************************)
EXTENDS Accounts, Teams, GuildCards, Codec, Moderation, Mags, Growth, Equipment, Trades, Monsters,
  Quests, Startup, Post, Room, Downloads, ShipMenu

VARIABLE part   \* the service that is looked at

desk == <<accountVars, teamVars, cardVars, codecVars, moderationVars>>
body == <<magVars, growthVars, wearVars, tradeVars, monsterVars>>
house == <<questVars, boot, postVars, roomVars, downloadVars, menuVars>>
serviceVars == <<part, desk, body, house>>

ServicesInit ==
  /\ part \in {"accounts", "teams", "cards", "codec", "moderation", "mags", "growth", "equipment",
               "trades", "monsters", "quests", "startup", "post",
               "rooms", "downloads", "menu"}
  /\ AccountsInit /\ TeamsInit /\ CardsInit /\ CodecInit
  /\ ModerationInit /\ MagsInit /\ GrowthInit /\ EquipmentInit /\ TradesInit /\ MonstersInit
  /\ QuestsInit /\ StartupInit /\ PostInit /\ RoomInit /\ DownloadsInit
  /\ MenuInit
  /\ part = "teams" \/ team_data = <<>>   \* which files there are matters to the teams only

DeskNext ==
  /\ UNCHANGED <<body, house>>
  /\ \/ part = "accounts" /\ AccountsNext /\ UNCHANGED <<teamVars, cardVars, codecVars, moderationVars>>
     \/ part = "teams" /\ TeamsNext /\ UNCHANGED <<accountVars, cardVars, codecVars, moderationVars>>
     \/ part = "cards" /\ CardsNext /\ UNCHANGED <<accountVars, teamVars, codecVars, moderationVars>>
     \/ part = "codec" /\ CodecNext /\ UNCHANGED <<accountVars, teamVars, cardVars, moderationVars>>
     \/ part = "moderation" /\ ModerationNext /\ UNCHANGED <<accountVars, teamVars, cardVars, codecVars>>

BodyNext ==
  /\ UNCHANGED <<desk, house>>
  /\ \/ part = "mags" /\ MagsNext /\ UNCHANGED <<growthVars, wearVars, tradeVars, monsterVars>>
     \/ part = "growth" /\ GrowthNext /\ UNCHANGED <<magVars, wearVars, tradeVars, monsterVars>>
     \/ part = "equipment" /\ EquipmentNext /\ UNCHANGED <<magVars, growthVars, tradeVars, monsterVars>>
     \/ part = "trades" /\ TradesNext /\ UNCHANGED <<magVars, growthVars, wearVars, monsterVars>>
     \/ part = "monsters" /\ MonstersNext /\ UNCHANGED <<magVars, growthVars, wearVars, tradeVars>>

HouseNext ==
  /\ UNCHANGED <<desk, body>>
  /\ \/ part = "quests" /\ QuestsNext /\ UNCHANGED <<boot, postVars, roomVars, downloadVars, menuVars>>
     \/ part = "startup" /\ StartupNext /\ UNCHANGED <<questVars, postVars, roomVars, downloadVars, menuVars>>
     \/ part = "post" /\ PostNext /\ UNCHANGED <<questVars, boot, roomVars, downloadVars, menuVars>>
     \/ part = "rooms" /\ RoomNext /\ UNCHANGED <<questVars, boot, postVars, downloadVars, menuVars>>
     \/ part = "downloads" /\ DownloadsNext /\ UNCHANGED <<questVars, boot, postVars, roomVars, menuVars>>
     \/ part = "menu" /\ MenuNext /\ UNCHANGED <<questVars, boot, postVars, roomVars, downloadVars>>

ServicesNext == UNCHANGED part /\ (DeskNext \/ BodyNext \/ HouseNext)

ServicesSpec == ServicesInit /\ [][ServicesNext]_serviceVars

----------------------------------------------------------------------------

\* What is stated of the service that is looked at; the others stay as they are at first.
Of(name, statement) == part = name => statement

ServicesTypeOK ==
  /\ Of("accounts", AccountsTypeOK) /\ Of("teams", TeamsTypeOK) /\ Of("cards", CardsTypeOK)
  /\ Of("codec", CodecTypeOK) /\ Of("moderation", ModerationTypeOK)
  /\ Of("mags", MagsTypeOK) /\ Of("growth", GrowthTypeOK) /\ Of("equipment", EquipmentTypeOK)
  /\ Of("trades", TradesTypeOK) /\ Of("monsters", MonstersTypeOK)
  /\ Of("quests", QuestsTypeOK) /\ Of("startup", StartupTypeOK) /\ Of("post", PostTypeOK)
  /\ Of("rooms", RoomTypeOK) /\ Of("downloads", DownloadsTypeOK)
  /\ Of("menu", MenuTypeOK)

\* What a character has grown to is what it earned, what it wears it may wear, no bank becomes a copy of the other,
\* and what is taken in exchange is paid for (Growth, Equipment, Trades).
CharactersSound ==
  Of("growth", GrowthSound) /\ Of("equipment", WornSound) /\ Of("trades", BanksApart /\ RewardsPaid)

\* The rare monsters are those that were told, and nothing is left or given twice (Monsters).
MonstersSound == Of("monsters", RaresListed /\ RaresTold /\ DropsSound)

\* A party plays what all of it has come to, gets the whole of it, and its members see the same (Quests, Room); what
\* players say and write comes to those it is for (Post).
TogetherSound == Of("quests", QuestsSound) /\ Of("rooms", RoomSound) /\ Of("post", PostSound)

\* What a server reads as it starts is what it works with and what it hands out (Startup, Downloads), and the ships
\* it hands out are those there are (ShipMenu).
HandedOutSound == Of("startup", StartupSound) /\ Of("downloads", DownloadsSound) /\ Of("menu", ShipMenuSound)
=============================================================================
