----------------------------- MODULE Downloads -----------------------------
(***************************************************************************)
(* What the login server hands a client that chooses its character: the    *)
(* options its account has saved, its guild cards and the parameter files, *)
(* the last two in pieces that the client asks for one after another.      *)
(*                                                                         *)
(* The parameter files are laid out once, when the server starts; the      *)
(* guild cards are laid out for each client that asks, all of them in one  *)
(* buffer.  A byte is named by its file and its place in it.               *)
(***************************************************************************)
EXTENDS Integers, Sequences, FiniteSets, SequencesExt

CONSTANTS
  Callers,        \* connections
  Owners,         \* accounts
  ParamSizes,     \* the sizes of the files that e8send.txt names
  PieceSize,      \* bytes of data in a piece (26624)
  Albums,         \* the guild cards an account may have: [Owners -> sequences]
  Controls,       \* what the keys may be set to
  Default,        \* what they are at first
  NoControls,     \* no options yet
  MaxSaves        \* bound on the changes of the options and the restarts

VARIABLES
  lines,          \* connections that have logged in: [for, stage, asked, askedDC, told, header, pieces, cards, open]
  DCCheck,        \* PacketDC_Check: the cards laid out in it
  key_data,       \* records of options
  keydata_dat,    \* keydata.dat
  lastSaved,      \* of every account the options it was given first or saved last, NoControls before that
  saves           \* changes so far

downloadVars == <<lines, DCCheck, key_data, keydata_dat, lastSaved, saves>>

Silent == [for |-> <<>>, stage |-> "away", asked |-> 0, askedDC |-> 0, told |-> <<>>, header |-> <<>>, pieces |-> <<>>,
           cards |-> <<>>, open |-> TRUE]

----------------------------------------------------------------------------
(* construct0xEB                                                           *)

\* Faulty: the files' places are counted from the end of the one before.
Header_relative(sizes) == [i \in DOMAIN sizes |-> [size |-> sizes[i], offset |-> IF i = 1 THEN 0 ELSE sizes[i - 1]]]

\* PacketEB01: of each file its size and where it begins.
Header(sizes) == [i \in DOMAIN sizes |-> [size |-> sizes[i], offset |-> FoldLeft(+, 0, SubSeq(sizes, 1, i - 1))]]

\* PacketEB02: the files' bytes, a head before each piece, the size written into it when it is full or the last.
Pieces(sizes) ==
  LET bytes == FlattenSeq([i \in DOMAIN sizes |-> [k \in 1 .. sizes[i] |-> <<i, k>>]])
      count == (Len(bytes) + PieceSize - 1) \div PieceSize
      until(k) == IF k = count THEN Len(bytes) ELSE k * PieceSize
  IN  \* with the last piece full the total is never set
      IF Len(bytes) % PieceSize = 0 THEN <<>>
      ELSE [k \in 1 .. count |-> SubSeq(bytes, (k - 1) * PieceSize + 1, until(k))]

\* Faulty: the header is counted as if it were a piece more.
MayAskEB_early(asked) == asked < 16

\* SendEB: so often a client is answered.
MayAskEB(asked) == asked < 17

Cut(line) == [line EXCEPT !.open = FALSE]

SendEB(line, n) ==
  IF ~MayAskEB(line.asked) THEN Cut(line)
  ELSE IF n = 0 THEN [line EXCEPT !.asked = @ + 1, !.header = Header(ParamSizes)]
  ELSE IF n \in DOMAIN Pieces(ParamSizes)
  THEN [line EXCEPT !.asked = @ + 1, !.pieces = Append(@, Pieces(ParamSizes)[n])]
  ELSE Cut([line EXCEPT !.asked = @ + 1])

----------------------------------------------------------------------------
(* SendE2: the options                                                     *)

Recorded(data, a) == {i \in DOMAIN data : data[i].guildcard = a}

\* Faulty: a new record is not written.
NewKeys_unwritten(a) ==
  /\ key_data' = Append(key_data, [guildcard |-> a, controls |-> Default])
  /\ UNCHANGED keydata_dat

\* An account without a record gets one, in memory and in the file.
NewKeys(a) ==
  /\ key_data' = Append(key_data, [guildcard |-> a, controls |-> Default])
  /\ keydata_dat' = Append(keydata_dat, [guildcard |-> a, controls |-> Default])

SendE2(c) ==
  /\ lines[c].stage = "options"
  /\ LET a == lines[c].for
     IN  IF Recorded(key_data, a) = {}
         THEN NewKeys(a) /\ lastSaved' = [lastSaved EXCEPT ![a] = Default]
         ELSE UNCHANGED <<key_data, keydata_dat, lastSaved>>
  /\ lines' = [lines EXCEPT ![c].stage = "cards"]
  /\ UNCHANGED <<DCCheck, saves>>

\* Faulty: the change is written behind the last record.
SaveKeys_behind(a, controls) ==
  LET found == Recorded(key_data, a)
      ds == CHOOSE i \in found : \A j \in found : i <= j
  IN  IF found = {} THEN UNCHANGED <<key_data, keydata_dat>>
      ELSE /\ key_data' = [key_data EXCEPT ![ds].controls = controls]
           /\ keydata_dat' = Append(keydata_dat, [guildcard |-> a, controls |-> controls])

\* A ship saves a character, and with it the options: the account's record, if there is one, in memory and in its place.
SaveKeys(a, controls) ==
  LET found == Recorded(key_data, a)
      ds == CHOOSE i \in found : \A j \in found : i <= j
  IN  IF found = {} THEN UNCHANGED <<key_data, keydata_dat>>
      ELSE /\ key_data' = [key_data EXCEPT ![ds].controls = controls]
           /\ keydata_dat' = [keydata_dat EXCEPT ![ds].controls = controls]

----------------------------------------------------------------------------
(* SendDC: the guild cards                                                 *)

FirstForty(cards) == IF Len(cards) <= 40 THEN cards ELSE SubSeq(cards, 1, 40)

\* First the checksum, of the account's cards as they are now, laid out in a buffer all clients share; then three pieces
\* of what is in the buffer, the cards in the first.  A fifth time it is not answered.
SendDC(c) ==
  /\ lines[c].stage = "cards" /\ lines[c].open
  /\ LET line == lines[c]
         n == line.askedDC
     IN  IF n = 0
         THEN \E album \in Albums :
                /\ DCCheck' = FirstForty(album[line.for])
                /\ lines' = [lines EXCEPT ![c].told = DCCheck', ![c].askedDC = 1]
         ELSE /\ lines' = [lines EXCEPT ![c].askedDC = n + 1, ![c].stage = IF n = 3 THEN "params" ELSE "cards",
                                        ![c].cards = IF n = 1 THEN DCCheck ELSE @]
              /\ UNCHANGED DCCheck
  /\ UNCHANGED <<key_data, keydata_dat, lastSaved, saves>>

----------------------------------------------------------------------------

DownloadsInit ==
  /\ lines = [c \in Callers |-> Silent]
  /\ DCCheck = <<>>
  /\ key_data = <<>> /\ keydata_dat = <<>>
  /\ lastSaved = [a \in Owners |-> NoControls]
  /\ saves = 0

\* A client logs in to choose its character; an account has one such connection.
Call(c, a) ==
  /\ lines[c].stage = "away"
  /\ \A d \in Callers : lines[d].for # a
  /\ lines' = [lines EXCEPT ![c] = [Silent EXCEPT !.for = a, !.stage = "options"]]
  /\ UNCHANGED <<DCCheck, key_data, keydata_dat, lastSaved, saves>>

\* How many pieces a client asks for: as many as what the header lists fills.
Expected(header) == (FoldLeft(LAMBDA n, x : n + x.size, 0, header) + PieceSize - 1) \div PieceSize

Whole(line) == line.header # <<>> /\ Len(line.pieces) = Expected(line.header)

\* The header, then piece after piece.
AskParams(c) ==
  /\ lines[c].stage = "params" /\ lines[c].open
  /\ ~Whole(lines[c])
  /\ lines' = [lines EXCEPT ![c] = SendEB(@, IF @.header = <<>> THEN 0 ELSE Len(@.pieces) + 1)]
  /\ UNCHANGED <<DCCheck, key_data, keydata_dat, lastSaved, saves>>

\* It goes on to a ship, or breaks off.
EndCall(c) ==
  /\ lines[c].stage # "away"
  /\ lines' = [lines EXCEPT ![c] = Silent]
  /\ UNCHANGED <<DCCheck, key_data, keydata_dat, lastSaved, saves>>

\* Who plays has been given its options.
PlaysAndSaves(a, controls) ==
  /\ lastSaved[a] # NoControls
  /\ saves < MaxSaves
  /\ SaveKeys(a, controls)
  /\ lastSaved' = [lastSaved EXCEPT ![a] = controls]
  /\ saves' = saves + 1
  /\ UNCHANGED <<lines, DCCheck>>

\* The server comes up anew and reads its file.
RestartLogin ==
  /\ saves < MaxSaves
  /\ lines' = [c \in Callers |-> Silent]
  /\ DCCheck' = <<>>
  /\ key_data' = keydata_dat
  /\ saves' = saves + 1
  /\ UNCHANGED <<keydata_dat, lastSaved>>

DownloadsNext ==
  \/ \E c \in Callers, a \in Owners : Call(c, a)
  \/ \E c \in Callers : SendE2(c) \/ SendDC(c) \/ AskParams(c) \/ EndCall(c)
  \/ \E a \in Owners, controls \in Controls : PlaysAndSaves(a, controls)
  \/ RestartLogin

DownloadsSpec == DownloadsInit /\ [][DownloadsNext]_downloadVars

----------------------------------------------------------------------------

DownloadsTypeOK ==
  /\ \A c \in Callers :
       /\ lines[c].stage \in {"away", "options", "cards", "params"}
       /\ lines[c].asked \in 0 .. 17 /\ lines[c].askedDC \in 0 .. 4 /\ lines[c].open \in BOOLEAN
       /\ Len(lines[c].pieces) <= lines[c].asked
  /\ Len(key_data) = Len(keydata_dat) /\ Len(key_data) <= Cardinality(Owners)
  /\ Len(DCCheck) <= 40
  /\ saves \in 0 .. MaxSaves

\* A client that asks for the parameter files as they are listed gets all of them, each where the header says (the
\* limit of 17 answers is what the files shipped with the server need), unless they fill their pieces exactly.
ParamsWhole ==
  FoldLeft(+, 0, ParamSizes) % PieceSize # 0 =>
    \A c \in Callers :
      /\ lines[c].open
      /\ Whole(lines[c]) =>
           \A i \in DOMAIN ParamSizes :
             LET x == lines[c].header[i]
             IN  SubSeq(FlattenSeq(lines[c].pieces), x.offset + 1, x.offset + x.size) = [k \in 1 .. ParamSizes[i] |-> <<i, k>>]

\* Of every account that has been given options there is one record, and it holds those it saved last, in memory and in
\* the file, whatever was saved for others and however often the server came up anew.
OptionsKept ==
  \A a \in Owners : lastSaved[a] # NoControls =>
    \A data \in {key_data, keydata_dat} :
      \E i \in DOMAIN data : Recorded(data, a) = {i} /\ data[i].controls = lastSaved[a]

DownloadsSound == ParamsWhole /\ OptionsKept

\* The guild cards a client gets are those it was told the checksum of.
CardsAsTold == \A c \in Callers : lines[c].askedDC > 1 => lines[c].cards = lines[c].told
=============================================================================
