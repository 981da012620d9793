----------------------------- MODULE FfiOwnership -----------------------------
(***************************************************************************)
(* Ownership of the responses cess-ffi hands out (cesscrypto.h).  Every    *)
(* call returns a pointer to a heap-allocated response, also when it       *)
(* fails, and the caller must release it exactly once with the release    *)
(* function of its type.  Some responses are read after the call returned: *)
(* the PreCommit1 and Commit1 blobs are pointers into their responses that *)
(* the caller passes to PreCommit2 and Commit2, the Commit2 responses are *)
(* passed whole to cess_aggregate_seal_proofs, and the zero signature's    *)
(* bytes are passed to cess_aggregate.  The zero signature has two release *)
(* functions.                                                              *)
(*                                                                         *)
(* Threads: sealing threads (PreCommit1, PreCommit2, Commit1, Commit2), one *)
(* seal-aggregating thread that reads the Commit2 responses of every       *)
(* sealing thread that did not fail, and BLS threads (zero signature, then *)
(* aggregate).  Addresses are reused once released, so a stale        *)
(* pointer may name another thread's live response.  Every read and free  *)
(* through a pointer is checked against what the heap holds there.        *)
(***************************************************************************)
EXTENDS Naturals, Sequences, FiniteSets, Functions

CONSTANTS
  Sealers,     \* sealing threads
  Aggregator,  \* the thread calling cess_aggregate_seal_proofs
  Signers,     \* threads calling cess_create_zero_signature and cess_aggregate
  Addrs,       \* heap addresses (model values)
  None

Threads == Sealers \cup {Aggregator} \cup Signers

VARIABLES
  heap,    \* heap[a]: the response allocated at address a, or None
  addr,    \* addr[r]: the pointer the caller keeps for response r, or None
  mine,    \* mine[t]: the responses thread t has not released yet
  pc,      \* pc[t]: index of thread t's next call
  status,  \* status[t]: "running", "finished" or "failed"
  misuse   \* reads and frees through a pointer that no longer held its response

vars == <<heap, addr, mine, pc, status, misuse>>

(* The calls each thread makes, in order (the caller's program).           *)
Pipeline(t) ==
  CASE t \in Sealers -> <<"pc1", "pc2", "c1", "c2">>
    [] t = Aggregator -> <<"aggseal">>
    [] t \in Signers -> <<"zero", "agg">>

R(t, c) == [thread |-> t, call |-> c]
Resps == UNION {{R(t, c) : c \in Range(Pipeline(t))} : t \in Threads}

(* The response type each call returns.                                    *)
KindOf == [pc1 |-> "SealPreCommitPhase1Response", pc2 |-> "SealPreCommitPhase2Response",
           c1 |-> "SealCommitPhase1Response", c2 |-> "SealCommitPhase2Response",
           aggseal |-> "AggregateProof", zero |-> "ZeroSignatureResponse",
           agg |-> "AggregateResponse"]

(* The functions that release a response of each type.                     *)
Releasers ==
  [SealPreCommitPhase1Response |-> {"cess_destroy_seal_pre_commit_phase1_response"},
   SealPreCommitPhase2Response |-> {"cess_destroy_seal_pre_commit_phase2_response"},
   SealCommitPhase1Response |-> {"cess_destroy_seal_commit_phase1_response"},
   SealCommitPhase2Response |-> {"cess_destroy_seal_commit_phase2_response"},
   AggregateProof |-> {"cess_destroy_aggregate_proof"},
   ZeroSignatureResponse |-> {"cess_destroy_zero_signature_response", "cess_drop_signature"},
   AggregateResponse |-> {"cess_destroy_aggregate_response"}]

(* The responses a call reads through its pointer arguments: the blob of   *)
(* the previous phase, the Commit2 responses of the sealers that did not   *)
(* fail, or the zero signature's bytes.                                    *)
BlobArgs(t, c) ==
  CASE c = "pc2" -> {R(t, "pc1")}
    [] c = "c2" -> {R(t, "c1")}
    [] c = "aggseal" -> {R(s, "c2") : s \in {x \in Sealers : status[x] # "failed"}}
    [] c = "agg" -> {R(t, "zero")}
    [] OTHER -> {}

(* Response r has been returned to its thread.                            *)
Produced(r) == \E i \in 1 .. pc[r.thread] - 1 : Pipeline(r.thread)[i] = r.call

(* What thread t's remaining calls will still read.                        *)
PendingReads(t) ==
  IF status[t] # "running" THEN {}
  ELSE UNION {BlobArgs(t, Pipeline(t)[i]) : i \in pc[t] .. Len(Pipeline(t))}

Init ==
  /\ heap = [a \in Addrs |-> None]
  /\ addr = [r \in Resps |-> None]
  /\ mine = [t \in Threads |-> {}]
  /\ pc = [t \in Threads |-> 1]
  /\ status = [t \in Threads |-> "running"]
  /\ misuse = {}

(* The pointer the caller kept for r still points at r.                     *)
Live(r) == addr[r] # None /\ heap[addr[r]] = r

(* Accessing responses rs by their kept pointers, for operation op of t.   *)
Access(t, op, rs) ==
  misuse' = misuse \cup {[by |-> t, op |-> op, resp |-> r] : r \in {x \in rs : ~Live(x)}}

(* The seal aggregator calls only after every sealer has stopped.          *)
Ready(t) == t = Aggregator => \A s \in Sealers : status[s] # "running"

(* Mutant: a failed call's response is not kept for release.              *)
CallSkipErrorResponse(t) ==
  LET c == Pipeline(t)[pc[t]]
      r == R(t, c)
  IN /\ status[t] = "running"
     /\ Ready(t)
     /\ \E a \in Addrs :
          /\ heap[a] = None
          /\ heap' = [heap EXCEPT ![a] = r]
          /\ addr' = [addr EXCEPT ![r] = a]
     /\ pc' = [pc EXCEPT ![t] = @ + 1]
     /\ Access(t, "read", BlobArgs(t, c))
     /\ \E ok \in BOOLEAN :
          /\ status' = [status EXCEPT ![t] =
                          IF ~ok THEN "failed"
                          ELSE IF pc[t] = Len(Pipeline(t)) THEN "finished" ELSE "running"]
          /\ mine' = IF ok THEN [mine EXCEPT ![t] = @ \cup {r}] ELSE mine

(* A call of thread t: it reads the responses it borrows through their    *)
(* pointers, then its response is allocated at a free address and owned by *)
(* t, whether the call succeeds or fails; a failed call ends the thread's  *)
(* pipeline.                                                                *)
Call(t) ==
  LET c == Pipeline(t)[pc[t]]
      r == R(t, c)
  IN /\ status[t] = "running"
     /\ Ready(t)
     /\ \E a \in Addrs :
          /\ heap[a] = None
          /\ heap' = [heap EXCEPT ![a] = r]
          /\ addr' = [addr EXCEPT ![r] = a]
     /\ mine' = [mine EXCEPT ![t] = @ \cup {r}]
     /\ pc' = [pc EXCEPT ![t] = @ + 1]
     /\ Access(t, "read", BlobArgs(t, c))
     /\ \E ok \in BOOLEAN :
          status' = [status EXCEPT ![t] =
                       IF ~ok THEN "failed"
                       ELSE IF pc[t] = Len(Pipeline(t)) THEN "finished" ELSE "running"]

(* Mutant: a thread waits only for its own calls.                         *)
CanReleaseOwnReads(r) == r \notin PendingReads(r.thread)

(* The caller releases a response once no call still to come, of any       *)
(* thread, reads it.                                                        *)
CanRelease(r) == \A t \in Threads : r \notin PendingReads(t)

Release(t, r, fn) ==
  /\ r \in mine[t]
  /\ CanRelease(r)
  /\ fn \in Releasers[KindOf[r.call]]
  /\ heap' = [heap EXCEPT ![addr[r]] = None]
  /\ Access(t, "free", {r})
  /\ mine' = [mine EXCEPT ![t] = @ \ {r}]
  /\ addr' = [addr EXCEPT ![r] = None]
  /\ UNCHANGED <<pc, status>>

(* Every thread stopped and released everything.                           *)
Terminated ==
  /\ \A t \in Threads : status[t] # "running" /\ mine[t] = {}
  /\ UNCHANGED vars

Step(t) ==
  \/ Call(t)
  \/ \E r \in mine[t], fn \in UNION {Releasers[k] : k \in Range(KindOf)} : Release(t, r, fn)

Next == (\E t \in Threads : Step(t)) \/ Terminated

(* Each thread keeps calling and releasing while it can.                   *)
Spec == Init /\ [][Next]_vars /\ \A t \in Threads : WF_vars(Step(t))

-----------------------------------------------------------------------------
AllReleased == <>[](\A a \in Addrs : heap[a] = None)

=============================================================================
