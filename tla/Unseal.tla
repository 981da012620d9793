-------------------------------- MODULE Unseal --------------------------------
(***************************************************************************)
(* cess_unseal_range (cesscrypto.h 819-831): decode the unpadded byte     *)
(* range [unpadded_byte_index, unpadded_byte_index + unpadded_bytes_amount)*)
(* of a sealed sector into the output file.  The call takes the sealing   *)
(* identity (sector id, prover id, ticket) and the CommD to check.         *)
(*                                                                         *)
(* Semantics from spec 4.7 and 7: a range outside the sector is an input   *)
(* error rejected before any work; the decoded sector's CommD must equal   *)
(* the supplied one, or the call fails with ReceiverError and returns no   *)
(* bytes.  The sealed file is padded: after every PadEvery unpadded bytes  *)
(* comes a padding cell, so a range is found by converting its unpadded    *)
(* offset to a padded one, while the CommD check unpads the whole stream.  *)
(* Offsets and lengths are uint64, scaled to OffsetBits bits.              *)
(* The sealed file may be corrupted at any time.                           *)
(***************************************************************************)
EXTENDS CessFfi, Naturals, Sequences, SequencesExt

CONSTANTS
  Data,        \* possible contents of a sector: sequences of SectorBytes bits
  SectorBytes, \* unpadded bytes in a sector
  PadEvery,    \* unpadded bytes between two padding cells
  Keys,        \* sealing identities (sector id, prover id, ticket)
  OffsetBits   \* width of the uint64 arguments in the model

Word == 0 .. 2^OffsetBits - 1

(* CommD: a commitment is modelled by what it commits to.                  *)
CommD(d) == d

(* A padding cell: its bits carry no data.                                *)
Pad == [b |-> 0, key |-> "pad"]

(* What a read past the end of the file yields: no byte value.             *)
NoByte == 2

(* The sealed file of data d under key k: each data byte encoded under k, *)
(* a padding cell after every PadEvery of them.                            *)
RECURSIVE SealedLayout(_, _)
SealedLayout(d, k) ==
  IF Len(d) <= PadEvery THEN [i \in DOMAIN d |-> [b |-> d[i], key |-> k]] \o <<Pad>>
  ELSE SealedLayout(SubSeq(d, 1, PadEvery), k) \o SealedLayout(SubSeq(d, PadEvery + 1, Len(d)), k)

VARIABLES
  original,  \* ghost: the data the sector was sealed from
  sealedKey, \* ghost: the identity it was sealed with
  sealed,    \* the sealed file, padding cells included
  corrupted, \* the file has been damaged once
  out        \* the latest response, with its arguments and the bytes written

vars == <<original, sealedKey, sealed, corrupted, out>>

(* Decoding cell c with key k: a cell encoded under another key, or a     *)
(* padding cell, decodes to other bits.                                    *)
DecodeCell(c, k) == IF c.key = k THEN c.b ELSE 1 - c.b

ReadAt(p, k) == IF p \in DOMAIN sealed THEN DecodeCell(sealed[p], k) ELSE NoByte

(* Mutant: the wrapped uint64 sum is compared with the sector size.        *)
InRangeWrapped(off, len) == (off + len) % 2^OffsetBits <= SectorBytes

(* The range lies within the sector, without forming off + len.            *)
InRange(off, len) == off <= SectorBytes /\ len <= SectorBytes - off

(* Mutant: one padding cell too many is skipped before offset i.          *)
PaddedIndexOff(i) == i + (i + 1) \div PadEvery

(* The padded position (from 0) of unpadded byte i.                        *)
PaddedIndex(i) == i + i \div PadEvery

(* Mutant: the stream is unpadded as if the padding came first.           *)
UnpadLeading(s) == [i \in 1 .. Len(s) - Len(s) \div (PadEvery + 1) |->
                      s[i + 1 + (i - 1) \div PadEvery]]

(* The unpadded stream: every cell but the padding cells.                  *)
Unpad(s) == SelectSeq(s, LAMBDA c : c.key # "pad")

Init ==
  /\ original \in Data
  /\ sealedKey \in Keys
  /\ sealed = SealedLayout(original, sealedKey)
  /\ corrupted = FALSE
  /\ out = [status |-> "none"]

(* The sealed file is damaged: one cell's byte flips.                      *)
Corrupt(p) ==
  /\ ~corrupted
  /\ sealed[p] # Pad
  /\ sealed' = [sealed EXCEPT ![p].b = 1 - @]
  /\ corrupted' = TRUE
  /\ UNCHANGED <<original, sealedKey, out>>

(* cess_unseal_range with identity k, CommD cd and range (off, len).       *)
UnsealRange(k, cd, off, len) ==
  LET args == [key |-> k, commD |-> cd, off |-> off, len |-> len]
      cells == Unpad(sealed)
      decoded == [i \in DOMAIN cells |-> DecodeCell(cells[i], k)]
  IN /\ \/ /\ ~InRange(off, len)
            /\ out' = [args |-> args, status |-> CallerError]
         \/ /\ InRange(off, len)
            /\ CommD(decoded) # cd
            /\ out' = [args |-> args, status |-> ReceiverError]
         \/ /\ InRange(off, len)
            /\ CommD(decoded) = cd
            /\ out' = [args |-> args, status |-> NoError,
                       bytes |-> [j \in 1 .. len |-> ReadAt(PaddedIndex(off + j - 1) + 1, k)]]
     /\ UNCHANGED <<original, sealedKey, sealed, corrupted>>

Next ==
  \/ \E p \in DOMAIN sealed : Corrupt(p)
  \/ \E k \in Keys, cd \in {CommD(d) : d \in Data}, off, len \in Word :
       UnsealRange(k, cd, off, len)

Spec == Init /\ [][Next]_vars

-----------------------------------------------------------------------------
(* No wrong bytes: a NoError response of cess_unseal_range is for a range  *)
(* within the sector, whatever offset and length (up to the full uint64    *)
(* width) were passed, and the output holds exactly the bytes the sector   *)
(* was sealed from in that range, also after the sealed file was damaged   *)
(* or with another sealing identity or CommD passed.                       *)
UnsealExact ==
  out.status = NoError =>
    /\ out.args.off + out.args.len <= SectorBytes
    /\ out.bytes = SubSeq(original, out.args.off + 1, out.args.off + out.args.len)

(* Round trip (spec 7): with the identity and CommD of sealing, an         *)
(* undamaged sealed file and a range within the sector, the call succeeds. *)
UnsealRoundTrip ==
  (/\ out.status # "none"
   /\ out.args.key = sealedKey /\ out.args.commD = CommD(original)
   /\ ~corrupted
   /\ out.args.off + out.args.len <= SectorBytes)
    => out.status = NoError

=============================================================================
