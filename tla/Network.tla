------------------------------ MODULE Network ------------------------------
(***************************************************************************)
(* What the servers do with sockets.  Those of the link between ships and  *)
(* the login server: what it takes to keep it (ShipLink), and the          *)
(* characters that travel on one (CharSave); to a character the link is up *)
(* or lost.  Those of clients: a ship's table of them and the login        *)
(* server's (Connections and an instance of it), and the patch server       *)
(* (Patches).  A behaviour is of one.                                       *)
(***************************************************************************)
EXTENDS CharSave, ShipLink, Connections, Patches

CONSTANTS
  LoginServices,  \* login and character
  LoginSlots,     \* the login server's serverMaxConnections
  LoginTime       \* bound on its servertime

ASSUME NetworkAssumption ==
  /\ LoginSlots \in Nat \ {0} /\ LoginTime \in Nat \ {0}
  /\ Unset \notin LoginServices

VARIABLES
  part,
  login_connections, login_list, login_count, login_blocking, login_time

loginVars == <<login_connections, login_list, login_count, login_blocking, login_time>>
networkVars == <<part, vars, linkVars, tableVars, loginVars, patchVars>>

LoginTable == INSTANCE Connections WITH
  IsShip <- FALSE, Services <- LoginServices, Blocks <- {}, MaxConnections <- LoginSlots,
  MaxTime <- LoginTime,
  connections <- login_connections, serverConnectionList <- login_list, block_count <- login_count,
  blockConnections <- login_blocking, servertime <- login_time

NetworkInit ==
  /\ part \in {"save", "link", "ship", "login", "patch"}
  /\ Init /\ LinkInit /\ TableInit /\ LoginTable!TableInit /\ PatchesInit

NotSave == UNCHANGED <<part, linkVars, tableVars, loginVars, patchVars>>
NotLink == UNCHANGED <<part, vars, tableVars, loginVars, patchVars>>
NotShip == UNCHANGED <<part, vars, linkVars, loginVars, patchVars>>
NotLogin == UNCHANGED <<part, vars, linkVars, tableVars, patchVars>>
NotPatch == UNCHANGED <<part, vars, linkVars, tableVars, loginVars>>

NetworkNext ==
  \/ part = "save" /\ Next /\ NotSave
  \/ part = "link" /\ LinkNext /\ NotLink
  \/ part = "ship" /\ TableNext /\ NotShip
  \/ part = "login" /\ LoginTable!TableNext /\ NotLogin
  \/ part = "patch" /\ PatchesNext /\ NotPatch

\* What the modules say of their main loops.
NetworkFairness ==
  /\ WF_networkVars(part = "save" /\ LoginServes /\ NotSave)
  /\ WF_networkVars(part = "save" /\ ShipServes /\ NotSave)
  /\ WF_networkVars(part = "save" /\ LinkUp /\ NotSave)
  /\ \A w \in Links : WF_networkVars(part = "link" /\ LinkLogin(w) /\ NotLink)
  /\ \A h \in Ships : /\ WF_networkVars(part = "link" /\ LinkShip(h) /\ NotLink)
                      /\ WF_networkVars(part = "link" /\ ShipOverflows(h) /\ NotLink)
  /\ SF_networkVars(part = "link" /\ Tick /\ NotLink)
  /\ WF_networkVars(part = "ship" /\ KickFirst /\ NotShip)
  /\ WF_networkVars(part = "ship" /\ Unblock /\ NotShip)
  /\ WF_networkVars(part = "patch" /\ PatchesNext /\ NotPatch)
  /\ SF_networkVars(part = "patch" /\ Pass(TRUE) /\ NotPatch)

NetworkSpec == NetworkInit /\ [][NetworkNext]_networkVars /\ NetworkFairness

----------------------------------------------------------------------------

\* The types of all of them.
NetworkTypeOK == TypeOK /\ LinkTypeOK /\ TableTypeOK /\ LoginTable!TableTypeOK /\ PatchesTypeOK

\* The login server's table is exact: it serves every client, none of them
\* twice, no slot without one, and no address has more than its share.  The
\* ship's has no dead slot and none twice, and its blocks count each client.
TablesExact ==
  /\ ListSound /\ CountNeverShort
  /\ LoginTable!ListSound /\ LoginTable!ListComplete /\ LoginTable!AddressCap

\* The keys ships authenticate with come back: none stays taken whose ship has
\* gone (ShipLink).
KeysSound == KeysReturned

\* On the login server the oldest connection of the address makes room
\* ("Delete oldest connection to server").
LoginOldestMakesRoom == LoginTable!OldestMakesRoom

\* A ship that is being emptied takes clients again in the end.
ShipUnblocks == part = "ship" => UnblocksEventually

\* Registers, of the side it is about.
LinkRegisters == part = "link" => Registers

\* PatchingEnds, of the side it is about.
PatchingFinishes == part = "patch" => PatchingEnds
=============================================================================
