---------------------------- MODULE SealingWorker ----------------------------
(***************************************************************************)
(* One caller thread per sector driving the sealing pipeline the way the  *)
(* interface prescribes: the pieces staged into the sector's staged file   *)
(* with cess_write_with_alignment until the user bytes of the sector are   *)
(* used up (the first piece may go through cess_write_without_alignment), *)
(* then PreCommit1 with the piece list the write responses describe,       *)
(* PreCommit1, PreCommit2, Commit1, Commit2 strictly *)
(* in order, each phase fed the previous phase's output and the sector's   *)
(* own identity, clear_cache only after Commit2, and a failed phase ends   *)
(* the attempt (no partial success).  Threads of different sectors         *)
(* interleave; each keeps calling while it has a next phase, so each has  *)
(* weak fairness.                                                          *)
(***************************************************************************)
EXTENDS SectorSealing, SequencesExt

CONSTANTS
  CacheOf,    \* CacheOf[s]: the cache directory the caller gives sector s
  VariantOf,  \* VariantOf[s]: the registered seal proof of sector s
  DataOf,     \* DataOf[s]: the data staged for sector s
  SectorBytesOf, \* SectorBytesOf[c]: the padded bytes of a sector of size class c
  PieceSizes, \* unpadded sizes of the pieces a thread stages
  MaxWriteFailures, \* bound on the staging writes that fail
  LogFds,     \* file descriptors the main thread may pass to cess_init_log_fd
  Stderr      \* the sink of an implicitly initialised logger (Logger)

ASSUME CacheOf \in [Sectors -> CacheDirs]
ASSUME VariantOf \in [Sectors -> Variants]
ASSUME DataOf \in [Sectors -> Data]

VARIABLES
  phase,  \* phase[s]: the last phase sector s's thread completed
  held,   \* held[s]: the blob or proof that thread holds for its next call
  pub,    \* pub[s]: the public values the thread has collected for sector s
  staged, \* the staged files (Staging)
  written, \* the latest write response per staged file (Staging)
  pieceInfos, \* pieceInfos[s]: per write, the piece size and the byte counts returned
  writeFailures, \* the staging writes that have failed so far
  logSink     \* the process-wide logger's sink (Logger)

St == INSTANCE Staging WITH Files <- Sectors
Log == INSTANCE Logger

wvars == <<vars, phase, held, pub, staged, written, pieceInfos, writeFailures, logSink>>

StagingUnchanged == UNCHANGED <<staged, written, pieceInfos, writeFailures>>

Phases == {"New", "PreCommitted1", "PreCommitted2", "Committed1", "Sealed",
           "Cleared", "Failed"}

(* cess_get_max_user_bytes_per_staged_sector.                             *)
MaxUserBytes(v) == St!Unpadded(SectorBytesOf[v.size])

(* The existing_piece_sizes the thread passes, and the unpadded bytes the  *)
(* write responses say it has staged.                                      *)
Existing(s) == [i \in DOMAIN pieceInfos[s] |-> pieceInfos[s][i].size]
StagedBytes(s) == FoldLeft(LAMBDA n, r : n + r.total, 0, pieceInfos[s])

(* The cess_PublicPieceInfo list the thread builds from the responses:     *)
(* per write, padding pieces of left_alignment_unpadded bytes and the      *)
(* piece; it fills the size class whose sector its padded sizes add up to. *)
OwnPieces(s) ==
  [data |-> DataOf[s],
   size |-> IF FoldLeft(LAMBDA n, r : n + St!Padded(r.total), 0, pieceInfos[s])
                 = SectorBytesOf[VariantOf[s].size]
            THEN VariantOf[s].size ELSE "partial"]

WInit ==
  /\ Init
  /\ phase = [s \in Sectors |-> "New"]
  /\ held = [s \in Sectors |-> None]
  /\ pub = [s \in Sectors |-> [ticket |-> None, seed |-> None,
                                commR |-> None, commD |-> None]]
  /\ St!Init
  /\ pieceInfos = [s \in Sectors |-> <<>>]
  /\ writeFailures = 0
  /\ Log!LogInit

(* How far a failed write got: before its first byte, inside a leaf      *)
(* group, or after its last byte.                                          *)
FailedWriteBytes(total) == {0, St!MinPieceBytes \div 2, total}

(* Staging one piece of unpadded size u, if it still fits the sector       *)
(* after its alignment; the thread records what the response reports.  A *)
(* failed write leaves the thread's record as it was.                     *)
WStage(s, u) ==
  /\ phase[s] = "New"
  /\ written[s].status # ReceiverError
  /\ St!SumWithAlignment(Append(Existing(s), u)) <= SectorBytesOf[VariantOf[s].size]
  /\ \/ /\ \/ St!WriteWithAlignment(s, u, Existing(s))
           \/ Existing(s) = <<>> /\ St!WriteWithoutAlignment(s, u)
        /\ pieceInfos' = [pieceInfos EXCEPT ![s] =
                            Append(@, [size |-> u, left |-> written'[s].left,
                                       total |-> written'[s].total])]
        /\ UNCHANGED writeFailures
     \/ /\ writeFailures < MaxWriteFailures
        /\ \E k \in FailedWriteBytes(
                    St!LeftAlignment(St!SumWithAlignment(Existing(s)), St!PieceBytes(u))
                      + St!PieceBytes(u)) :
             St!WriteFails(s, k)
        /\ writeFailures' = writeFailures + 1
        /\ UNCHANGED pieceInfos
  /\ Log!ImplicitInit
  /\ UNCHANGED <<vars, phase, held, pub>>

(* Mutant: the thread retries without cutting the staged file back.       *)
WRecoverNoTruncate(s) ==
  /\ phase[s] = "New"
  /\ written[s].status = ReceiverError
  /\ written' = [written EXCEPT ![s] = [status |-> "none"]]
  /\ UNCHANGED <<vars, phase, held, pub, staged, pieceInfos, writeFailures, logSink>>

(* After a failed write the thread cuts the staged file back to the bytes *)
(* its record accounts for (the response says nothing of how much was     *)
(* written), then stages again.                                           *)
WRecover(s) ==
  /\ phase[s] = "New"
  /\ written[s].status = ReceiverError
  /\ staged' = [staged EXCEPT ![s].bytes = St!Padded(StagedBytes(s))]
  /\ written' = [written EXCEPT ![s] = [status |-> "none"]]
  /\ UNCHANGED <<vars, phase, held, pub, pieceInfos, writeFailures, logSink>>

(* The thread reads the status of its call: on NoError it moves on,       *)
(* holding the payload of the response and the public values it learnt;   *)
(* on any error it stops.                                                  *)
Advance(s, to, learnt) ==
  IF last'.status = NoError
  THEN /\ phase' = [phase EXCEPT ![s] = to]
       /\ held' = [held EXCEPT ![s] = last'.out]
       /\ pub' = [pub EXCEPT ![s] = learnt]
  ELSE /\ phase' = [phase EXCEPT ![s] = "Failed"]
       /\ held' = [held EXCEPT ![s] = None]
       /\ UNCHANGED pub

WPreCommit1(s) ==
  /\ phase[s] = "New"
  /\ StagedBytes(s) = MaxUserBytes(VariantOf[s])
  /\ StagingUnchanged
  /\ Log!ImplicitInit
  /\ \E t \in Tickets :
       /\ SealPreCommitPhase1(VariantOf[s], CacheOf[s], s, t, OwnPieces(s))
       /\ Advance(s, "PreCommitted1", [pub[s] EXCEPT !.ticket = t])

WPreCommit2(s) ==
  /\ phase[s] = "PreCommitted1"
  /\ StagingUnchanged
  /\ Log!ImplicitInit
  /\ SealPreCommitPhase2(held[s], CacheOf[s])
  /\ Advance(s, "PreCommitted2",
             [pub[s] EXCEPT !.commR = last'.out.commR, !.commD = last'.out.commD])

(* Commit1 is given the public values collected so far and a fresh seed.   *)
WCommit1(s) ==
  /\ phase[s] = "PreCommitted2"
  /\ StagingUnchanged
  /\ Log!ImplicitInit
  /\ \E e \in Seeds :
       /\ SealCommitPhase1(VariantOf[s], pub[s].commR, pub[s].commD,
                           CacheOf[s], s, pub[s].ticket, e, OwnPieces(s))
       /\ Advance(s, "Committed1", [pub[s] EXCEPT !.seed = e])

WCommit2(s) ==
  /\ phase[s] = "Committed1"
  /\ StagingUnchanged
  /\ Log!ImplicitInit
  /\ SealCommitPhase2(held[s], s)
  /\ Advance(s, "Sealed", pub[s])

WClearCache(s) ==
  /\ phase[s] = "Sealed"
  /\ StagingUnchanged
  /\ Log!ImplicitInit
  /\ ClearCache(CacheOf[s])
  /\ phase' = [phase EXCEPT ![s] = "Cleared"]
  /\ UNCHANGED <<held, pub>>

(* The main thread's cess_init_log_fd, which may run before, between or   *)
(* after the sector threads' first calls.                                  *)
WInitLogFd(fd) ==
  /\ Log!InitLogFd(fd)
  /\ UNCHANGED <<vars, phase, held, pub, staged, written, pieceInfos, writeFailures>>

WStep(s) ==
  \/ \E u \in PieceSizes : WStage(s, u)
  \/ WRecover(s)
  \/ WPreCommit1(s) \/ WPreCommit2(s) \/ WCommit1(s) \/ WCommit2(s)
  \/ WClearCache(s)

WNext == (\E s \in Sectors : WStep(s)) \/ (\E fd \in LogFds : WInitLogFd(fd))

WSpec == WInit /\ [][WNext]_wvars /\ \A s \in Sectors : WF_wvars(WStep(s))

-----------------------------------------------------------------------------
(* Staged pieces are aligned: across the writes of a thread, each piece's *)
(* tree starts at a multiple of its own size, after the end of the         *)
(* previous piece, and ends within the sector, although the alignment is   *)
(* computed from the existing_piece_sizes list and the bytes go wherever   *)
(* dst_fd stands.                                                          *)
StagedPiecesAligned ==
  \A s \in Sectors :
    LET ps == staged[s].pieces
    IN \A i \in DOMAIN ps :
         /\ ps[i].start % ps[i].bytes = 0
         /\ i > 1 => ps[i - 1].start + ps[i - 1].bytes <= ps[i].start
         /\ ps[i].start + ps[i].bytes <= SectorBytesOf[VariantOf[s].size]

(* The thread's count is the file: unless the thread is handling a failed *)
(* write, the unpadded byte counts the write responses returned,          *)
(* Fr32-padded, add up to the bytes in the staged file, also after a      *)
(* write that failed part-way.                                             *)
StagedCountMatchesFile ==
  \A s \in Sectors :
    written[s].status # ReceiverError => St!Padded(StagedBytes(s)) = staged[s].bytes

(* The offsets a caller derives from the write responses are where the   *)
(* pieces lie: the unpadded bytes of the earlier writes plus this write's *)
(* left_alignment_unpadded, Fr32-padded, is the start of the piece in the *)
(* staged file.  That sum is the unpadded_byte_index a caller hands to    *)
(* cess_unseal_range to read the piece back.                              *)
PieceOffsetsConsistent ==
  \A s \in Sectors :
    \A i \in DOMAIN pieceInfos[s] :
      LET before == FoldLeft(LAMBDA n, r : n + r.total, 0, SubSeq(pieceInfos[s], 1, i - 1))
      IN St!Padded(before + pieceInfos[s][i].left) = staged[s].pieces[i].start

(* Every sector's thread eventually seals it and releases its cache.       *)
EventuallySealed == \A s \in Sectors : <>(phase[s] = "Cleared")

=============================================================================
