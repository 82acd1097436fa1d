------------------------------- MODULE Codec -------------------------------
(***************************************************************************)
(* What a packet goes through: from the login server to a ship its runs    *)
(* are counted (RLE) and it is encrypted with a key stream that never      *)
(* starts again (RC4); from the ship to a client it is filled up to whole  *)
(* blocks and encrypted block by block.  The ship is taken to pass it on   *)
(* as it is, so that one packet sees all of it.                            *)
(*                                                                         *)
(* Bytes, and the words of a block, have N values.                         *)
(***************************************************************************)
EXTENDS Integers, Sequences, SequencesExt, Bitwise

CONSTANTS
  N,        \* values of a byte: 256, a power of two here too
  LinkKey,  \* the key of the link
  Keys, F,  \* tbl[0 .. 5] and the sum over the rest of tbl
  MaxRun,   \* bytes a run can count (0xFFF0)
  MaxLen,   \* bounds on the length of a packet
  MaxBytes  \* and on the encrypted bytes of all of them

Byte == 0 .. N - 1

ASSUME CodecAssumption ==
  /\ N \in Nat \ {0} /\ LinkKey \in Seq(Byte) \ {<<>>}
  /\ Keys \in [0 .. 5 -> Byte] /\ F \in [Byte -> Byte]
  /\ MaxLen \in Nat /\ MaxRun \in Nat /\ MaxBytes \in Nat
  \* A run that is cut off at MaxRun would lose its count; no packet is as long.
  /\ MaxLen <= MaxRun + 1 /\ MaxRun < N * N

VARIABLES
  phase,
  packet,   \* as it was sent
  src, pos, \* what is read, and where
  prev,     \* prevChar
  dest,     \* what is written
  sc_key, cs_key, \* the two ends' ends of the key stream
  used      \* bytes of it

codecVars == <<phase, packet, src, pos, prev, dest, sc_key, cs_key, used>>

----------------------------------------------------------------------------
(* RC4                                                                     *)

\* Exchanged by three exclusive ors, an entry exchanged with itself is lost.
Swapped(state, i, j) ==
  IF i = j THEN [state EXCEPT ![i] = 0] ELSE [state EXCEPT ![i] = state[j], ![j] = state[i]]

prepare_key ==
  LET mix[n \in 0 .. N] ==
        IF n = 0 THEN [state |-> [b \in Byte |-> b], index2 |-> 0]
        ELSE LET was == mix[n - 1]
                 index1 == (n - 1) % Len(LinkKey)
                 index2 == (LinkKey[index1 + 1] + was.state[n - 1] + was.index2) % N
             IN [state |-> Swapped(was.state, n - 1, index2), index2 |-> index2]
  IN [state |-> mix[N].state, x |-> 0, y |-> 0]

\* buffer encrypted (or decrypted), and the key as it is afterwards.
rc4(buffer, key) ==
  LET run[n \in 0 .. Len(buffer)] ==
        IF n = 0 THEN [key |-> key, out |-> <<>>]
        ELSE LET was == run[n - 1]
                 x == (was.key.x + 1) % N
                 y == (was.key.state[x] + was.key.y) % N
                 state == Swapped(was.key.state, x, y)
             IN [key |-> [state |-> state, x |-> x, y |-> y],
                 out |-> Append(was.out, buffer[n] ^^ state[(state[y] + state[x]) % N])]
  IN run[Len(buffer)]

----------------------------------------------------------------------------
(* The block cipher                                                        *)

EncryptBlock(l, r) ==
  LET a == l ^^ Keys[0]
      b == (F[a] ^^ Keys[1]) ^^ r
      c == a ^^ (F[b] ^^ Keys[2])
      d == (b ^^ F[c]) ^^ Keys[3]
      e == c ^^ (F[d] ^^ Keys[4])
  IN <<d ^^ Keys[5], e>>

DecryptBlock(l, r) ==
  LET a == l ^^ Keys[5]
      b == (F[a] ^^ Keys[4]) ^^ r
      c == a ^^ (F[b] ^^ Keys[3])
      d == (b ^^ F[c]) ^^ Keys[2]
      e == c ^^ (F[d] ^^ Keys[1])
  IN <<d ^^ Keys[0], e>>

\* Each word as one of the two of its block.
Encrypted(words) ==
  [i \in DOMAIN words |->
     IF i % 2 = 1 THEN EncryptBlock(words[i], words[i + 1])[1] ELSE EncryptBlock(words[i - 1], words[i])[2]]

Decrypted(words) ==
  [i \in DOMAIN words |->
     IF i % 2 = 1 THEN DecryptBlock(words[i], words[i + 1])[1] ELSE DecryptBlock(words[i - 1], words[i])[2]]

----------------------------------------------------------------------------

CodecInit ==
  /\ phase = "done" /\ packet = <<>>
  /\ src = <<>> /\ pos = 1 /\ prev = 0 /\ dest = <<>>
  /\ sc_key = prepare_key /\ cs_key = prepare_key
  /\ used = 0

\* prevChar such that the next byte begins no run; past the end it does not matter.
Unlike(buffer, at) == IF at > Len(buffer) THEN 0 ELSE N - 1 - buffer[at]

Goto(p, buffer) ==
  /\ phase' = p /\ src' = buffer /\ pos' = 1 /\ dest' = <<>>
  /\ prev' = Unlike(buffer, 1)

\* compressShipPacket
Send(p) ==
  /\ phase = "done" /\ used + 2 * Len(p) <= MaxBytes
  /\ packet' = p
  /\ Goto("encode", p)
  /\ UNCHANGED <<sc_key, cs_key, used>>

Count(n) == <<n % N, n \div N>>

\* How many bytes like the one at at - 1 follow, up to MaxRun.
RunLength(at) ==
  CHOOSE n \in 0 .. Len(src) :
    /\ \A i \in at .. at + n - 1 : i <= Len(src) /\ src[i] = src[at - 1]
    /\ n = MaxRun \/ at + n > Len(src) \/ src[at + n] # src[at - 1]

\* Faulty: the second of the like bytes is counted as well.
RunCount_second(at) == Count(RunLength(at) + 1)

RunCount(at) == Count(RunLength(at))

\* A turn of the loop of RleEncode: the second of two like bytes is followed
\* by the number of those that follow.
EncodeByte ==
  /\ phase = "encode" /\ pos <= Len(src)
  /\ IF src[pos] = prev
     THEN /\ dest' = (Append(dest, src[pos]) \o RunCount(pos + 1))
          /\ pos' = pos + 1 + RunLength(pos + 1)
          /\ prev' = Unlike(src, pos')
     ELSE /\ dest' = Append(dest, src[pos])
          /\ pos' = pos + 1
          /\ prev' = src[pos]
  /\ UNCHANGED <<phase, packet, src, sc_key, cs_key, used>>

Encrypt ==
  /\ phase = "encode" /\ pos > Len(src)
  /\ LET r == rc4(dest, sc_key) IN Goto("link", r.out) /\ sc_key' = r.key
  /\ used' = used + Len(dest)
  /\ UNCHANGED <<packet, cs_key>>

\* decompressShipPacket
Decrypt ==
  /\ phase = "link"
  /\ LET r == rc4(src, cs_key) IN Goto("decode", r.out) /\ cs_key' = r.key
  /\ UNCHANGED <<packet, sc_key, used>>

\* A turn of the loop of RleDecode.
DecodeByte ==
  /\ phase = "decode" /\ pos <= Len(src)
  /\ IF src[pos] = prev
     THEN LET count == src[pos + 1] + N * src[pos + 2]
          IN /\ dest' = (Append(dest, src[pos]) \o [i \in 1 .. count |-> src[pos]])
             /\ pos' = pos + 3
             /\ prev' = Unlike(src, pos')
     ELSE /\ dest' = Append(dest, src[pos])
          /\ pos' = pos + 1
          /\ prev' = src[pos]
  /\ UNCHANGED <<phase, packet, src, sc_key, cs_key, used>>

Padded(buffer) == IF Len(buffer) % 2 = 0 THEN buffer ELSE Append(buffer, 0)

\* encryptcopy
encryptcopy ==
  /\ phase = "decode" /\ pos > Len(src)
  /\ Goto("client", Encrypted(Padded(dest)))
  /\ UNCHANGED <<packet, sc_key, cs_key, used>>

\* decryptcopy
decryptcopy ==
  /\ phase = "client"
  /\ phase' = "done" /\ dest' = Decrypted(src)
  /\ src' = <<>> /\ pos' = 1 /\ prev' = 0
  /\ UNCHANGED <<packet, sc_key, cs_key, used>>

Packets == UNION {[1 .. n -> Byte] : n \in 1 .. MaxLen}

CodecNext ==
  \/ \E p \in Packets : Send(p)
  \/ EncodeByte \/ Encrypt \/ Decrypt \/ DecodeByte \/ encryptcopy \/ decryptcopy

CodecSpec == CodecInit /\ [][CodecNext]_codecVars

----------------------------------------------------------------------------

CodecTypeOK ==
  /\ packet \in Seq(Byte) /\ src \in Seq(Byte) /\ dest \in Seq(Byte)
  /\ used <= MaxBytes /\ prev \in Byte

\* A packet arrives as it was sent, filled up to whole blocks, whatever runs
\* it has, wherever they end and whatever was sent before it on the link.
ArrivesAsSent == phase = "done" => dest = Padded(packet)
=============================================================================
