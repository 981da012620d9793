---------------------------- MODULE SectorSealing ----------------------------
(***************************************************************************)
(* The sealing pipeline of cess-ffi (cesscrypto.h): the four calls         *)
(* cess_seal_pre_commit_phase1/2 and cess_seal_commit_phase1/2, the        *)
(* cache-releasing cess_clear_cache and the pure check cess_verify_seal.   *)
(*                                                                         *)
(* Every call is synchronous and runs to completion, so it is one atomic   *)
(* step; calls of different sectors (threads of the caller) interleave.   *)
(* The only shared mutable resource is a cache directory: PreCommit1       *)
(* writes the layer labels into it, PreCommit2 builds the replica tree     *)
(* and its aux file (p_aux) there, Commit1 reads both back, clear_cache    *)
(* deletes the labels.  The opaque phase outputs are blobs the caller      *)
(* holds and may hand to any later call, its own or another sector's.      *)
(*                                                                         *)
(* Data is abstracted to what the commitments tell apart: a piece list is  *)
(* its data and the size class it fills; CommD is its data; the layers are *)
(* keyed by the replica identity (variant, sector, ticket, CommD); CommR   *)
(* is the pair (layers it was encoded with, data it encodes).              *)
(***************************************************************************)
EXTENDS CessFfi, FiniteSets

CONSTANTS
  Sectors,     \* sector ids of one prover
  CacheDirs,   \* cache directories the caller may name
  Tickets,     \* pre-commit randomness values
  Seeds,       \* commit randomness values
  Data,        \* contents of staged sectors
  Variants,    \* registered seal proofs in use (a subset of SealProofs)
  None         \* model value: an absent file or blob

ASSUME Variants \subseteq SealProofs /\ Variants # {}
ASSUME None \notin Sectors \cup CacheDirs \cup Tickets \cup Seeds \cup Data

VARIABLES
  cache,    \* cache[d]: the labels and the replica aux file in directory d
  pc1Out,   \* PreCommit1 outputs (opaque blobs) handed to the caller
  pc2Out,   \* PreCommit2 responses handed to the caller
  c1Out,    \* Commit1 outputs (opaque blobs) handed to the caller
  c2Out,    \* Commit2 responses: the sector asked for and the proof
  last      \* the most recent response: its call, status and payload

vars == <<cache, pc1Out, pc2Out, c1Out, c2Out, last>>

-----------------------------------------------------------------------------
(* cess_PublicPieceInfo list: its data and the size class it adds up to.   *)
Pieces == [data : Data, size : {v.size : v \in Variants}]

(* generate_data_commitment over a piece list: CommD.                      *)
CommD(p) == p.data

(* The layer labels of one replica, keyed by the replica identity.         *)
Layers == [variant : Variants, sector : Sectors, ticket : Tickets, commD : Data]

(* CommR: the replica encodes data `data` with the labels `layers`.        *)
Replica(l, data) == [layers |-> l, data |-> data]
CommRs == {Replica(l, x) : l \in Layers, x \in Data}

(* The Commit1 output (and, after Commit2, the proof it yields).           *)
Commits == [variant : Variants, sector : Sectors, ticket : Tickets,
            seed : Seeds, commR : CommRs, commD : Data]

Calls == {"PreCommit1", "PreCommit2", "Commit1", "Commit2", "ClearCache"}

PC2Responses == [variant : Variants, commD : Data, commR : CommRs]

(* A response: status and payload; an error response carries no payload.  *)
Respond(call, status, out) == last' = [call |-> call, status |-> status, out |-> out]
Fail(call, status) == Respond(call, status, None)

TypeOK ==
  /\ cache \in [CacheDirs -> [layers : Layers \cup {None}, aux : CommRs \cup {None}]]
  /\ pc1Out \subseteq Layers
  /\ pc2Out \subseteq PC2Responses
  /\ c1Out \subseteq Commits
  /\ c2Out \subseteq [sector : Sectors, proof : Commits]
  /\ last \in [call : Calls \cup {None}, status : Statuses,
               out : Layers \cup PC2Responses \cup Commits \cup {None}]

Init ==
  /\ cache = [d \in CacheDirs |-> [layers |-> None, aux |-> None]]
  /\ pc1Out = {}
  /\ pc2Out = {}
  /\ c1Out = {}
  /\ c2Out = {}
  /\ last = [call |-> None, status |-> NoError, out |-> None]

-----------------------------------------------------------------------------
(* cess_seal_pre_commit_phase1: the pieces must fill the variant's sector  *)
(* exactly; then the labels of the replica (v, s, t, CommD) are written to *)
(* cache directory d, replacing whatever labels d held.                    *)
SealPreCommitPhase1(v, d, s, t, p) ==
  \/ /\ p.size # v.size
     /\ Fail("PreCommit1", CallerError)
     /\ UNCHANGED <<cache, pc1Out, pc2Out, c1Out, c2Out>>
  \/ /\ p.size = v.size
     /\ LET l == [variant |-> v, sector |-> s, ticket |-> t, commD |-> CommD(p)]
        IN /\ cache' = [cache EXCEPT ![d].layers = l]
           /\ pc1Out' = pc1Out \cup {l}
           /\ Respond("PreCommit1", NoError, l)
     /\ UNCHANGED <<pc2Out, c1Out, c2Out>>

(* Mutant: no check that PreCommit1's labels are still in the directory.  *)
SealPreCommitPhase2NoLabelsCheck(b, d) ==
  /\ LET r   == Replica(cache[d].layers, b.commD)
         res == [variant |-> b.variant, commD |-> b.commD, commR |-> r]
     IN /\ cache' = [cache EXCEPT ![d].aux = r]
        /\ pc2Out' = pc2Out \cup {res}
        /\ Respond("PreCommit2", NoError, res)
  /\ UNCHANGED <<pc1Out, c1Out, c2Out>>

(* Mutant: the replica tree is built but p_aux is never persisted.         *)
SealPreCommitPhase2NoAux(b, d) ==
  \/ /\ cache[d].layers = None
     /\ Fail("PreCommit2", ReceiverError)
     /\ UNCHANGED <<cache, pc1Out, pc2Out, c1Out, c2Out>>
  \/ /\ cache[d].layers # None
     /\ LET res == [variant |-> b.variant, commD |-> b.commD,
                    commR |-> Replica(cache[d].layers, b.commD)]
        IN /\ pc2Out' = pc2Out \cup {res}
           /\ Respond("PreCommit2", NoError, res)
     /\ UNCHANGED <<cache, pc1Out, c1Out, c2Out>>

(* cess_seal_pre_commit_phase2: takes the blob and a cache directory but   *)
(* no sector id; it encodes the blob's data with whatever labels d holds,  *)
(* writes the replica tree and p_aux, and returns (variant, CommD, CommR). *)
SealPreCommitPhase2(b, d) ==
  \/ /\ cache[d].layers = None
     /\ Fail("PreCommit2", ReceiverError)
     /\ UNCHANGED <<cache, pc1Out, pc2Out, c1Out, c2Out>>
  \/ /\ cache[d].layers # None
     /\ LET r   == Replica(cache[d].layers, b.commD)
            res == [variant |-> b.variant, commD |-> b.commD, commR |-> r]
        IN /\ cache' = [cache EXCEPT ![d].aux = r]
           /\ pc2Out' = pc2Out \cup {res}
           /\ Respond("PreCommit2", NoError, res)
     /\ UNCHANGED <<pc1Out, c1Out, c2Out>>

(* Commit1's own checks.  The piece list must match the claimed CommD and  *)
(* fill the variant (an input error).  The vanilla proofs it generates     *)
(* from d are then checked: they hold only if d's labels are those of the  *)
(* replica (v, s, t, CommD), p_aux is the claimed CommR, and that replica  *)
(* encodes CommD.                                                          *)
C1InputOK(v, commD, p) == CommD(p) = commD /\ p.size = v.size
C1VanillaOK(v, commR, commD, d, s, t) ==
  LET l == [variant |-> v, sector |-> s, ticket |-> t, commD |-> commD]
  IN /\ cache[d].layers = l
     /\ cache[d].aux = commR
     /\ commR = Replica(l, commD)

(* cess_seal_commit_phase1: re-derives the replica from the arguments,     *)
(* proves it from the cache, and returns the witness blob.                 *)
SealCommitPhase1(v, commR, commD, d, s, t, e, p) ==
  \/ /\ ~C1InputOK(v, commD, p)
     /\ Fail("Commit1", CallerError)
     /\ UNCHANGED <<cache, pc1Out, pc2Out, c1Out, c2Out>>
  \/ /\ C1InputOK(v, commD, p)
     /\ ~C1VanillaOK(v, commR, commD, d, s, t)
     /\ Fail("Commit1", ReceiverError)
     /\ UNCHANGED <<cache, pc1Out, pc2Out, c1Out, c2Out>>
  \/ /\ C1InputOK(v, commD, p)
     /\ C1VanillaOK(v, commR, commD, d, s, t)
     /\ LET c == [variant |-> v, sector |-> s, ticket |-> t,
                 seed |-> e, commR |-> commR, commD |-> commD]
        IN /\ c1Out' = c1Out \cup {c}
           /\ Respond("Commit1", NoError, c)
     /\ UNCHANGED <<cache, pc1Out, pc2Out, c2Out>>

(* Commit2 synthesises the proof from the blob and verifies it against the *)
(* sector id it was given before returning it.                             *)
(* Mutant: the proof is not verified against the given sector id.        *)
C2SectorOKUnchecked(b, s) == TRUE
C2SectorOK(b, s) == b.sector = s

(* cess_seal_commit_phase2(blob, sector_id, prover_id).                    *)
SealCommitPhase2(b, s) ==
  \/ /\ ~C2SectorOK(b, s)
     /\ Fail("Commit2", ReceiverError)
     /\ UNCHANGED <<cache, pc1Out, pc2Out, c1Out, c2Out>>
  \/ /\ C2SectorOK(b, s)
     /\ c2Out' = c2Out \cup {[sector |-> s, proof |-> b]}
     /\ Respond("Commit2", NoError, b)
     /\ UNCHANGED <<cache, pc1Out, pc2Out, c1Out>>

(* cess_clear_cache(sector_size, cache_dir): deletes the intermediate      *)
(* files (the labels); the replica tree and p_aux stay for PoSt.  The      *)
(* sector size only selects file names and is not modelled.                *)
ClearCache(d) ==
  /\ cache' = [cache EXCEPT ![d].layers = None]
  /\ Respond("ClearCache", NoError, None)
  /\ UNCHANGED <<pc1Out, pc2Out, c1Out, c2Out>>

(* cess_verify_seal: a pure function of public values.                     *)
VerifySeal(v, commR, commD, t, e, s, proof) ==
  proof = [variant |-> v, sector |-> s, ticket |-> t, seed |-> e,
           commR |-> commR, commD |-> commD]

-----------------------------------------------------------------------------
(* Any caller: every call with any arguments the caller can hold.          *)
Next ==
  \/ \E v \in Variants, d \in CacheDirs, s \in Sectors, t \in Tickets, p \in Pieces :
       SealPreCommitPhase1(v, d, s, t, p)
  \/ \E b \in pc1Out, d \in CacheDirs : SealPreCommitPhase2(b, d)
  \/ \E r \in pc2Out, v \in Variants, d \in CacheDirs, s \in Sectors,
        t \in Tickets, e \in Seeds, p \in Pieces :
       SealCommitPhase1(v, r.commR, r.commD, d, s, t, e, p)
  \/ \E b \in c1Out, s \in Sectors : SealCommitPhase2(b, s)
  \/ \E d \in CacheDirs : ClearCache(d)

Spec == Init /\ [][Next]_vars

-----------------------------------------------------------------------------
(* Seal soundness across the four calls: a proof Commit2 returns without   *)
(* error is a proof for the sector the caller asked about, and its CommR   *)
(* is the replica of exactly that sector's labels (its variant, ticket and *)
(* CommD) encoding that CommD, labels some PreCommit1 really wrote.  It is *)
(* violated only if a blob, a CommR or a cache directory of one sealing    *)
(* leaks into another and a check of Commit1 or Commit2 lets it through.   *)
ProofBindsReplica ==
  \A r \in c2Out :
    LET pr == r.proof
        l  == [variant |-> pr.variant, sector |-> pr.sector,
               ticket |-> pr.ticket, commD |-> pr.commD]
    IN /\ r.sector = pr.sector
       /\ l \in pc1Out
       /\ pr.commR = Replica(l, pr.commD)

(* The spec's lifecycle rule for opaque blobs: a PreCommit1 output is     *)
(* only valid with the same sector identity, and misuse must be rejected.  *)
(* Stated of cess_seal_pre_commit_phase2: a CommR it returns without error *)
(* encodes the blob's data with the blob's own labels.                     *)
PreCommit2BindsBlob ==
  \A r \in pc2Out :
    \E l \in pc1Out : l.commD = r.commD /\ l.variant = r.variant
                      /\ r.commR = Replica(l, r.commD)

=============================================================================
