-------------------------------- MODULE Staging --------------------------------
(***************************************************************************)
(* Staging pieces into a sector file through cess-ffi (cesscrypto.h):     *)
(* cess_write_with_alignment and cess_write_without_alignment copy src_size *)
(* unpadded bytes from src_fd to dst_fd and return the piece commitment and *)
(* the unpadded byte counts.                                               *)
(*                                                                         *)
(* Both calls are declared "TODO: document"; their semantics come from    *)
(* the response fields (cess_GeneratePieceCommitmentResponse: a piece is  *)
(* padded with alignment bytes "to create a whole merkle tree") and spec   *)
(* 3 and 5 (CommP is the piece commitment after alignment).  Sizes are in *)
(* bytes: 127 unpadded bytes take 128 bytes once Fr32-padded; a piece     *)
(* fills the smallest power-of-two tree, from 128 bytes, that holds it;   *)
(* with alignment it is preceded by zero bytes so that its tree starts at  *)
(* a multiple of its own size.  The alignment is computed from the        *)
(* existing_piece_sizes the caller passes, the bytes go to dst_fd at its  *)
(* current position.  Piece contents are abstracted away: a piece is its   *)
(* size and where it lies.                                                 *)
(***************************************************************************)
EXTENDS CessFfi, Naturals, Sequences, SequencesExt

CONSTANTS
  Files,       \* staged files (one per sector)
  PieceSizes   \* unpadded sizes a source piece may have

VARIABLES
  staged,  \* staged[f]: bytes written to f (padded) and the pieces it holds
  written  \* written[f]: the latest write response for f

svars == <<staged, written>>

(* Fr32 padding: 2 bits in every 256, i.e. 1 byte in 128.                 *)
Padded(u) == u + u \div 127
Unpadded(p) == p - p \div 128

MinPieceBytes == 128

(* The smallest power-of-two tree, from m bytes up, that holds p bytes.    *)
RECURSIVE TreeBytes(_, _)
TreeBytes(p, m) == IF p <= m THEN m ELSE TreeBytes(p, 2 * m)

PieceBytes(u) == TreeBytes(Padded(u), MinPieceBytes)

(* Mutant: only the minimum piece size is aligned to.                      *)
LeftAlignmentMin(w, n) == (MinPieceBytes - (w % MinPieceBytes)) % MinPieceBytes

(* Zero bytes to add after w written bytes so that an n-byte tree starts   *)
(* at a multiple of n.                                                     *)
LeftAlignment(w, n) == (n - (w % n)) % n

(* The padded bytes a file holds after pieces of the given unpadded sizes *)
(* were each written with alignment.                                      *)
SumWithAlignment(sizes) ==
  FoldLeft(LAMBDA w, u : w + LeftAlignment(w, PieceBytes(u)) + PieceBytes(u), 0, sizes)

Init ==
  /\ staged = [f \in Files |-> [bytes |-> 0, pieces |-> <<>>]]
  /\ written = [f \in Files |-> [status |-> "none"]]

(* Append `left` zero bytes and a piece of unpadded size u at the current *)
(* end of f.                                                               *)
AppendPiece(f, left, u) ==
  staged' = [staged EXCEPT ![f] =
               [bytes |-> @.bytes + left + PieceBytes(u),
                pieces |-> Append(@.pieces, [start |-> @.bytes + left,
                                             bytes |-> PieceBytes(u), size |-> u])]]

(* Mutant: total_write_unpadded leaves out the alignment bytes.            *)
WriteWithAlignmentNoLeftTotal(f, u, existing) ==
  LET left == LeftAlignment(SumWithAlignment(existing), PieceBytes(u))
  IN /\ AppendPiece(f, left, u)
     /\ written' = [written EXCEPT ![f] =
                      [status |-> NoError, left |-> Unpadded(left),
                       total |-> Unpadded(PieceBytes(u))]]

(* Mutant: left_alignment_unpadded reports the padded alignment bytes.   *)
WriteWithAlignmentPaddedLeft(f, u, existing) ==
  LET left == LeftAlignment(SumWithAlignment(existing), PieceBytes(u))
  IN /\ AppendPiece(f, left, u)
     /\ written' = [written EXCEPT ![f] =
                      [status |-> NoError, left |-> left,
                       total |-> Unpadded(left + PieceBytes(u))]]

(* cess_write_with_alignment(src_size = u, existing_piece_sizes).          *)
WriteWithAlignment(f, u, existing) ==
  LET left == LeftAlignment(SumWithAlignment(existing), PieceBytes(u))
  IN /\ AppendPiece(f, left, u)
     /\ written' = [written EXCEPT ![f] =
                      [status |-> NoError, left |-> Unpadded(left),
                       total |-> Unpadded(left + PieceBytes(u))]]

(* cess_write_without_alignment(src_size = u): no alignment bytes.          *)
WriteWithoutAlignment(f, u) ==
  /\ AppendPiece(f, 0, u)
  /\ written' = [written EXCEPT ![f] =
                   [status |-> NoError, left |-> 0, total |-> Unpadded(PieceBytes(u))]]

(* A write of either kind that fails after k of its bytes reached dst_fd  *)
(* (the header does not say how far a failed write gets); the error       *)
(* response carries no count.                                              *)
WriteFails(f, k) ==
  /\ staged' = [staged EXCEPT ![f].bytes = @ + k]
  /\ written' = [written EXCEPT ![f] = [status |-> ReceiverError]]

=============================================================================
