------------------------------ MODULE Patches ------------------------------
(***************************************************************************)
(* The patch server: a client is sent from its patch port to its data      *)
(* port, told there which files to check and in which folder each is,      *)
(* answers with what it has, and is sent the files that differ, a chunk at *)
(* a time and, when patch.ini says so, no faster than a number of bytes a  *)
(* second.  One loop serves all connections.                               *)
(*                                                                         *)
(* The client is external: it walks through folders as it is told, writes  *)
(* a file where it stands, and reports what it finds where it stands.      *)
(***************************************************************************)
EXTENDS Naturals, FiniteSets, SequencesExt

CONSTANTS
  Patchers,      \* clients
  PatchSlots,    \* indices of the connection table
  Tree,          \* what scandir finds, in its order: [folder, size in chunks]
  Dotted,        \* names of folders that begin with a dot
  Disks,         \* what clients may have of each file: "none", "old" or "new"
  Budgets,       \* values of patch.ini, in messages a second, 0 for no limit
  MaxSimultaneous,  \* MAX_SIMULTANEOUS_CONNECTIONS, all from one address
  MaxDrops,         \* bound on connections lost to another or by failure
  Vacant            \* no connection, plySockfd -1

ASSUME TreeAssumption == \A f \in DOMAIN Tree : Tree[f].size \in Nat

VARIABLES
  channel,  \* connections: what the server keeps of each slot
  plist,    \* serverConnectionList
  ploop,    \* where the main loop is, and what is left of this second
  client    \* external: the clients

patchVars == <<channel, plist, ploop, client>>

PatchFiles == DOMAIN Tree
Nowhere == [folder |-> <<"">>, steps |-> 0]   \* patch_folder of a client that was sent nothing

\* patch_folders: the path below "patches".  A folder of that name is left
\* out at any depth; a path that begins with a dot is taken for the root.
Descent(f) ==
  IF Tree[f].folder # <<>> /\ Head(Tree[f].folder) \in Dotted THEN <<>>
  ELSE LET kept == SelectSeq(Tree[f].folder, LAMBDA name : name # "patches")
       IN  [k \in 1 .. Len(kept) |-> <<"09", kept[k]>>]

\* Faulty: does not go up first.
Change_stays(at, f) == IF at.folder = Tree[f].folder THEN <<>> ELSE Descent(f)

\* What is sent to move from at to the folder of f: up to the root and down.
Change(at, f) ==
  IF at.folder = Tree[f].folder THEN <<>>
  ELSE [k \in 1 .. at.steps |-> <<"0A">>] \o Descent(f)

Stand(f) == [folder |-> Tree[f].folder, steps |-> Len(Tree[f].folder)]

change_client_folder(at, f) == Change(at, f) \o << <<"06", f>> >>

\* patch_packet: the walk through all folders that every client is told.
change_patch_folder(list, f) ==
  [packet |-> list.packet \o Change(list.at, f) \o << <<"0C", f>> >>, at |-> Stand(f)]

patch_packet ==
  FoldLeft(change_patch_folder, [packet |-> << <<"09", ".">> >>, at |-> Nowhere], [f \in PatchFiles |-> f]).packet
    \o << <<"0A">>, <<"0D">> >>

----------------------------------------------------------------------------
(* The client. *)

\* Where it stands after a message.
Walked(path, m) ==
  CASE m[1] = "09" /\ m[2] # "." -> Append(path, m[2])
    [] m[1] = "0A" /\ path # <<>> -> Front(path)
    [] OTHER -> path

\* Where it stands when the list names a file, and what it then reports of it.
ListedIn(f) ==
  FoldLeft(LAMBDA path, m : IF m = <<"0C", f>> THEN <<path>> \o path ELSE Walked(path, m),
           <<>>, SubSeq(patch_packet, 1, CHOOSE k \in DOMAIN patch_packet : patch_packet[k] = <<"0C", f>>))[1]

Report(disk) ==
  [f \in PatchFiles |-> <<"0F", f, IF ListedIn(f) = Tree[f].folder THEN disk[f] ELSE "none">>] \o << <<"10">> >>

\* Index(m): the pieces a file is received in; an empty one comes as one.
Pieces(f) == IF Tree[f].size = 0 THEN 1 ELSE Tree[f].size

Received(x, m) ==
  LET y == [x EXCEPT !.path = Walked(@, m)]
  IN  CASE m[1] \in {"02", "04"} -> [y EXCEPT !.says = Append(@, <<m[1]>>)]
        [] m[1] = "14" -> [y EXCEPT !.port = "data", !.leaves = TRUE]
        [] m[1] = "list" -> [y EXCEPT !.says = @ \o Report(x.disk)]
        [] m[1] = "11" -> [y EXCEPT !.path = <<>>]
        [] m[1] = "06" ->
             IF x.path = Tree[m[2]].folder
             THEN [y EXCEPT !.file = m[2], !.got = 0, !.disk[m[2]] = "old"]
             ELSE [y EXCEPT !.file = m[2], !.got = 0, !.astray = TRUE]
        [] m[1] = "07" -> [y EXCEPT !.got = IF m[2] = @ THEN @ + 1 ELSE @]
        [] m[1] = "08" ->
             IF x.path = Tree[x.file].folder /\ x.got = Pieces(x.file)
             THEN [y EXCEPT !.disk[x.file] = "new", !.times[x.file] = @ + 1] ELSE y
        [] m[1] = "12" -> [y EXCEPT !.told = TRUE, !.leaves = TRUE]
        [] OTHER -> y

Connecting(x, s) ==
  [x EXCEPT !.slot = s, !.path = <<>>, !.says = <<>>, !.file = 0, !.got = 0,
            !.leaves = FALSE, !.times = [f \in PatchFiles |-> 0]]

----------------------------------------------------------------------------

\* An accepted connection: memset, and start_encryption's welcome.
Opened(c, port) ==
  [data |-> port = "data", who |-> c, in |-> <<>>, out |-> << <<"02">> >>,
   listed |-> FALSE, asked |-> FALSE, report |-> [f \in PatchFiles |-> "none"],
   queue |-> <<>>, current |-> 1, chunk |-> 0, at |-> Nowhere, sending |-> FALSE]

PatchesInit ==
  /\ channel = [s \in PatchSlots |-> Vacant]
  /\ plist = <<>>
  /\ ploop = [phase |-> "config", ch |-> 1, maxbytes |-> 0, remaining |-> 0,
              writes |-> {}, sends |-> 0, drops |-> 0]
  /\ client = [c \in Patchers |->
       [slot |-> 0, port |-> "patch", path |-> <<>>, disk |-> [f \in PatchFiles |-> "none"], file |-> 0, got |-> 0,
        times |-> [f \in PatchFiles |-> 0], says |-> <<>>, astray |-> FALSE, told |-> FALSE, leaves |-> FALSE]]

\* The server starts with what patch.ini says; of the clients nothing is
\* known.
load_config_file ==
  /\ ploop.phase = "config"
  /\ \E limit \in Budgets :
       ploop' = [ploop EXCEPT !.phase = "prepare", !.maxbytes = limit, !.remaining = limit]
  /\ \E disks \in [Patchers -> Disks] : client' = [c \in Patchers |-> [client[c] EXCEPT !.disk = disks[c]]]
  /\ UNCHANGED <<channel, plist>>

\* Send11: an empty file and one the client did not report are both size
\* zero, checksum zero.
Differs(f, v) == v # "new" /\ ~(Tree[f].size = 0 /\ v = "none")

Send11(k) ==
  LET queue == SelectSeq([f \in PatchFiles |-> f], LAMBDA f : Differs(f, k.report[f]))
  IN  IF queue = <<>> THEN [k EXCEPT !.asked = TRUE, !.out = Append(@, <<"12">>)]
      ELSE [k EXCEPT !.asked = TRUE, !.queue = queue, !.sending = TRUE, !.at = Stand(queue[1]),
                     !.out = @ \o << <<"11">> >> \o change_client_folder(k.at, queue[1])]

DataProcessPacket(k, m) ==
  CASE m[1] = "02" -> [k EXCEPT !.out = Append(@, <<"04">>)]
    [] m[1] = "04" -> IF k.listed THEN k ELSE [k EXCEPT !.listed = TRUE, !.out = @ \o << <<"0B">>, <<"list">> >>]
    [] m[1] = "0F" -> [k EXCEPT !.report[m[2]] = m[3]]
    [] m[1] = "10" -> IF k.asked THEN k ELSE Send11(k)

PatchProcessPacket(k, m) ==
  CASE m[1] = "02" -> [k EXCEPT !.out = Append(@, <<"04">>)]
    [] m[1] = "04" -> [k EXCEPT !.out = @ \o << <<"13">>, <<"14">> >>]
    [] OTHER -> k

Processed(k) ==
  IF k.in = <<>> THEN k
  ELSE LET rest == [k EXCEPT !.in = Tail(@)]
       IN  IF k.data THEN DataProcessPacket(rest, Head(k.in)) ELSE PatchProcessPacket(rest, Head(k.in))

\* The next chunk of the current file; after its last one the next file, or
\* the way back to the root and the end.
Chunked(k) ==
  LET f == k.queue[k.current]
      sent == [k EXCEPT !.out = Append(@, <<"07", k.chunk>>), !.chunk = @ + 1]
      done == [sent EXCEPT !.out = Append(@, <<"08">>), !.chunk = 0, !.current = @ + 1]
  IN  IF k.chunk + 1 < Pieces(f) THEN sent
      ELSE IF done.current <= Len(k.queue)
           THEN LET g == k.queue[done.current]
                IN  [done EXCEPT !.out = @ \o change_client_folder(k.at, g), !.at = Stand(g)]
           ELSE [done EXCEPT !.sending = FALSE, !.at.steps = 0,
                             !.out = @ \o [n \in 1 .. k.at.steps |-> <<"0A">>] \o << <<"0A">>, <<"12">> >>]

\* The first half of the loop, a connection at a time: a packet, then what
\* is left to write or the next chunk.
Prepare ==
  LET s == plist[ploop.ch]
      k == Processed(channel[s])
      mayWrite == ploop.maxbytes = 0 \/ ploop.remaining > 0
      more == mayWrite /\ k.out = <<>> /\ k.sending
  IN  /\ ploop.phase = "prepare" /\ ploop.ch <= Len(plist)
      /\ channel' = [channel EXCEPT ![s] = IF more THEN Chunked(k) ELSE k]
      /\ ploop' = [ploop EXCEPT !.ch = @ + 1,
                                !.writes = IF mayWrite /\ k.out # <<>> THEN @ \union {s} ELSE @,
                                !.sends = IF more THEN @ + 1 ELSE @]
      /\ UNCHANGED <<plist, client>>

Prepared ==
  /\ ploop.phase = "prepare" /\ ploop.ch > Len(plist)
  /\ ploop' = [ploop EXCEPT !.phase = "patch"]
  /\ UNCHANGED <<channel, plist, client>>

\* initialize_connection of those slots.
FreedSlots(S) ==
  /\ channel' = [s \in PatchSlots |-> IF s \in S THEN Vacant ELSE channel[s]]
  /\ plist' = SelectSeq(plist, LAMBDA s : s \notin S)

free_channel == {s \in PatchSlots : channel[s] = Vacant /\ \A t \in PatchSlots : channel[t] = Vacant => s <= t}

\* start_encryption: the oldest of too many is the first in the list, since
\* the new one's time is not set yet and those of the others grow.
Crowded == IF Len(plist) + 1 > MaxSimultaneous /\ plist # <<>> THEN {plist[1]} ELSE {}

\* A client is accepted on one of the two ports, the patch port first.
NextPhase(phase) == IF phase = "patch" THEN "data" ELSE "serve"

AcceptClient(c) ==
  /\ ploop.phase \in {"patch", "data"} /\ client[c].port = ploop.phase
  /\ client[c].slot = 0 /\ ~client[c].told
  /\ Cardinality(Crowded) + ploop.drops <= MaxDrops
  /\ \E s \in free_channel :
       /\ channel' = [t \in PatchSlots |-> IF t = s THEN Opened(c, ploop.phase)
                                        ELSE IF t \in Crowded THEN Vacant ELSE channel[t]]
       /\ plist' = Append(SelectSeq(plist, LAMBDA t : t \notin Crowded), s)
       /\ client' = [d \in Patchers |->
            IF d = c THEN Connecting(client[c], s)
            ELSE IF client[d].slot \in Crowded THEN [client[d] EXCEPT !.slot = 0, !.port = "patch"] ELSE client[d]]
  /\ ploop' = [ploop EXCEPT !.phase = NextPhase(@), !.ch = 1, !.drops = @ + Cardinality(Crowded)]

AcceptNone ==
  /\ ploop.phase \in {"patch", "data"}
  /\ ploop' = [ploop EXCEPT !.phase = NextPhase(@), !.ch = 1]
  /\ UNCHANGED <<channel, plist, client>>

\* What may be written of a connection now: its share of this second when it
\* is sent files.
Allowed(k) ==
  IF ploop.maxbytes = 0 \/ ~k.sending THEN Len(k.out)
  ELSE LET share == IF ploop.sends = 0 THEN Len(k.out) ELSE Len(k.out) \div ploop.sends
       IN  IF share > ploop.remaining THEN ploop.remaining ELSE share

Charged(k) == IF ploop.maxbytes # 0 /\ k.sending THEN Allowed(k) ELSE 0

\* The second half, a connection at a time: the socket fails or its client
\* has left, ...
Serving == ploop.phase = "serve" /\ ploop.ch <= Len(plist)

ServeClosed ==
  LET s == plist[ploop.ch]
      c == channel[s].who
  IN  /\ Serving
      /\ client[c].leaves \/ ploop.drops < MaxDrops
      /\ FreedSlots({s})
      /\ client' = [client EXCEPT ![c].slot = 0, ![c].port = IF client[c].leaves THEN @ ELSE "patch"]
      /\ ploop' = [ploop EXCEPT !.ch = @ + 1, !.drops = IF client[c].leaves THEN @ ELSE @ + 1]

\* ... or what its client said is read and part of what waits for it is
\* written, if that may be: the socket takes one message or all of them.
Taken(s) ==
  IF s \notin ploop.writes \/ Allowed(channel[s]) = 0 THEN {0} ELSE {1, Allowed(channel[s])}

Serve ==
  LET s == plist[ploop.ch]
      k == channel[s]
      c == k.who
  IN  /\ Serving /\ ~client[c].leaves
      /\ \E n \in Taken(s) :
           /\ channel' = [channel EXCEPT ![s].in = @ \o client[c].says, ![s].out = SubSeq(@, n + 1, Len(@))]
           /\ client' = [client EXCEPT ![c] =
                FoldLeft(Received, [client[c] EXCEPT !.says = <<>>], SubSeq(k.out, 1, n))]
           /\ ploop' = [ploop EXCEPT !.ch = @ + 1, !.remaining = IF n > 0 THEN @ - Charged(k) ELSE @]
      /\ UNCHANGED plist

\* Faulty: what is left of the second is not set again.
Pass_spent(next) ==
  /\ ploop.phase = "serve" /\ ploop.ch > Len(plist)
  /\ ploop' = [ploop EXCEPT !.phase = "prepare", !.ch = 1, !.writes = {}, !.sends = 0]
  /\ UNCHANGED <<channel, plist, client>>

\* The loop starts anew, in the same second or in the next.
Pass(next) ==
  /\ ploop.phase = "serve" /\ ploop.ch > Len(plist)
  /\ ploop' = [ploop EXCEPT !.phase = "prepare", !.ch = 1, !.writes = {}, !.sends = 0,
                            !.remaining = IF next THEN ploop.maxbytes ELSE @]
  /\ UNCHANGED <<channel, plist, client>>

PatchesNext ==
  \/ load_config_file
  \/ Prepare \/ Prepared
  \/ \E c \in Patchers : AcceptClient(c)
  \/ AcceptNone
  \/ ServeClosed \/ Serve
  \/ \E next \in BOOLEAN : Pass(next)

\* The loop runs on, and time passes.
PatchesFairness == WF_patchVars(PatchesNext) /\ SF_patchVars(Pass(TRUE))

PatchesSpec == PatchesInit /\ [][PatchesNext]_patchVars /\ PatchesFairness

----------------------------------------------------------------------------

\* The table, the list of its used slots and the clients agree.
PatchesTypeOK ==
  /\ Len(plist) = Cardinality(ToSet(plist)) /\ ToSet(plist) = {s \in PatchSlots : channel[s] # Vacant}
  /\ \A s \in ToSet(plist) : client[channel[s].who].slot = s
  /\ ploop.maxbytes # 0 => ploop.remaining \in 0 .. ploop.maxbytes
  /\ ploop.phase \in {"config", "prepare", "patch", "data", "serve"}

\* A client that is told it is done has every file, each sent once and
\* written in its own folder, whatever connections it took (Send11, 0x10
\* "Client done sending all patch file status", change_client_folder "Client
\* not in the right folder", "Are we completely done?"); but an empty file is
\* never sent to a client that lacks it.
PatchedWhenTold ==
  \A c \in Patchers :
    /\ ~client[c].astray
    /\ \A f \in PatchFiles :
         /\ client[c].times[f] <= 1
         /\ client[c].told => client[c].disk[f] = "new" \/ (Tree[f].size = 0 /\ client[c].disk[f] = "none")

\* Clients that asked for the files are told they are done unless their
\* connection ends first: what one second may send, a client that is slow and
\* another that takes all of it delay that and no more ("Upload throttle").
Transferring == \E s \in PatchSlots : channel[s] # Vacant /\ channel[s].asked /\ ~client[channel[s].who].told
PatchingEnds == Transferring ~> ~Transferring
=============================================================================
