------------------------------ MODULE WindowPoSt ------------------------------
(***************************************************************************)
(* Window PoSt through the vanilla-proof calls of cess-ffi (cesscrypto.h): *)
(* cess_generate_fallback_sector_challenges, then one                      *)
(* cess_generate_single_vanilla_proof per sector, then one                 *)
(* cess_generate_single_window_post_with_vanilla per partition, then       *)
(* cess_merge_window_post_partition_proofs, checked by                     *)
(* cess_verify_window_post.  cess_get_num_partition_for_fallback_post      *)
(* gives the partition count.                                              *)
(*                                                                         *)
(* A partition is a fixed-size slice of the prover's replica list (the     *)
(* last one may be short).  A partition proof binds its randomness, its    *)
(* partition index and the sectors it proves; sectors without a vanilla    *)
(* proof for that randomness are reported faulty and left out (spec 4.5).  *)
(* The partition proof struct carries no index, so the order of the array  *)
(* given to the merge is the only record of which partition is which.      *)
(* Replicas may become unreadable at any time, and the caller may request  *)
(* new challenges (a new randomness) while holding older vanilla proofs.   *)
(***************************************************************************)
EXTENDS Naturals, FiniteSets, Sequences, SequencesExt

CONSTANTS
  Replicas,          \* the prover's replica list: a sequence of distinct sector ids
  PartitionSectors,  \* sectors per partition for the registered PoSt proof
  Rands,             \* randomness values
  MaxFaults,         \* bound on the number of replicas lost
  None

Sectors == Range(Replicas)

VARIABLES
  faulty,   \* sectors whose replica can no longer be read
  rand,     \* the randomness of the latest challenge response, or None
  vanilla,  \* vanilla[s]: the vanilla proof the caller holds for s, or None
  proven,   \* ghost: the (sector, randomness) pairs a readable replica answered
  parts,    \* parts[i]: the caller's proof of partition i, or None
  merged    \* the latest merged proof, or None

vars == <<faulty, rand, vanilla, proven, parts, merged>>

(* Mutant: floor division, dropping the last, partly filled partition.     *)
NumPartitionsFloor(n, k) == n \div k

(* cess_get_num_partition_for_fallback_post: the number of partitions of  *)
(* n sectors, k per partition, as repeated subtraction.                    *)
RECURSIVE NumPartitions(_, _)
NumPartitions(n, k) == IF n = 0 THEN 0 ELSE 1 + NumPartitions(IF n > k THEN n - k ELSE 0, k)

(* The sectors of partition i (from 0) of list l.                          *)
Partition(l, i) ==
  SubSeq(l, i * PartitionSectors + 1,
         IF Len(l) < (i + 1) * PartitionSectors THEN Len(l) ELSE (i + 1) * PartitionSectors)

NumParts == NumPartitions(Len(Replicas), PartitionSectors)
PartIndices == 0 .. NumParts - 1

Init ==
  /\ faulty = {}
  /\ rand = None
  /\ vanilla = [s \in Sectors |-> None]
  /\ proven = {}
  /\ parts = [i \in PartIndices |-> None]
  /\ merged = None

(* A replica becomes unreadable (disk or file lost).                       *)
LoseReplica(s) ==
  /\ s \notin faulty
  /\ Cardinality(faulty) < MaxFaults
  /\ faulty' = faulty \cup {s}
  /\ UNCHANGED <<rand, vanilla, proven, parts, merged>>

(* cess_generate_fallback_sector_challenges: the challenges are a pure     *)
(* function of the randomness and the sector ids, so the response is       *)
(* modelled by the randomness it was derived from.                         *)
GenerateFallbackSectorChallenges(r) ==
  /\ rand' = r
  /\ UNCHANGED <<faulty, vanilla, proven, parts, merged>>

(* cess_generate_single_vanilla_proof: answers the challenges from the     *)
(* replica; an unreadable replica gives an error and no proof.             *)
GenerateSingleVanillaProof(s) ==
  /\ rand # None
  /\ s \notin faulty
  /\ vanilla' = [vanilla EXCEPT ![s] = [sector |-> s, rand |-> rand]]
  /\ proven' = proven \cup {<<s, rand>>}
  /\ UNCHANGED <<faulty, rand, parts, merged>>

(* The proof of partition i under randomness r: the sectors in ok are      *)
(* proved in list order, the others reported faulty.                       *)
PartitionOf(i, r, ok) ==
  LET secs == Partition(Replicas, i)
  IN [index |-> i, rand |-> r,
      proved |-> SelectSeq(secs, LAMBDA s : s \in ok),
      faulty |-> Range(secs) \ ok]

(* Mutant: a vanilla proof is accepted whatever randomness it answered.   *)
PartitionProofAnyRand(i) ==
  PartitionOf(i, rand, {s \in Sectors : vanilla[s] # None})

(* The proof of partition i from the vanilla proofs the caller holds for   *)
(* its sectors: a vanilla proof for another randomness, or none, makes its *)
(* sector faulty.                                                          *)
PartitionProof(i) ==
  PartitionOf(i, rand, {s \in Sectors : vanilla[s] # None /\ vanilla[s].rand = rand})

(* cess_generate_single_window_post_with_vanilla for a partition_index    *)
(* below the partition count.  A larger index is an input error whose     *)
(* response changes nothing the caller keeps; the caller here never       *)
(* passes one, so that call is not an action.                              *)
GenerateSingleWindowPoStWithVanilla(i) ==
  /\ rand # None
  /\ i < NumParts
  /\ parts' = [parts EXCEPT ![i] = PartitionProof(i)]
  /\ UNCHANGED <<faulty, rand, vanilla, proven, merged>>

(* cess_merge_window_post_partition_proofs: the proofs in the order of the *)
(* array.                                                                  *)
MergeWindowPoStPartitionProofs(ps) ==
  /\ merged' = ps
  /\ UNCHANGED <<faulty, rand, vanilla, proven, parts>>

(* cess_generate_window_post: challenges derived from r, every readable    *)
(* replica answers them, and all partitions are proved and merged; the    *)
(* unreadable replicas are the response's faulty sectors.                  *)
GenerateWindowPoSt(r) ==
  /\ merged' = [j \in 1 .. NumParts |-> PartitionOf(j - 1, r, Sectors \ faulty)]
  /\ proven' = proven \cup {<<s, r>> : s \in Sectors \ faulty}
  /\ UNCHANGED <<faulty, rand, vanilla, parts>>

(* cess_generate_window_post_with_vanilla: the caller's vanilla proofs of  *)
(* all sectors, in replica order, proved and merged under randomness r.    *)
GenerateWindowPoStWithVanilla(r) ==
  /\ merged' = [j \in 1 .. NumParts |->
                  PartitionOf(j - 1, r, {s \in Sectors : vanilla[s] # None /\ vanilla[s].rand = r})]
  /\ UNCHANGED <<faulty, rand, vanilla, proven, parts>>

Next ==
  \/ \E s \in Sectors : LoseReplica(s)
  \/ \E r \in Rands : GenerateFallbackSectorChallenges(r)
  \/ \E s \in Sectors : GenerateSingleVanillaProof(s)
  \/ \E i \in 0 .. NumParts : GenerateSingleWindowPoStWithVanilla(i)
  \/ \E ps \in BoundedSeq(Range(parts) \ {None}, NumParts) \ {<<>>} : MergeWindowPoStPartitionProofs(ps)
  \/ \E r \in Rands : GenerateWindowPoSt(r)
  \/ \E r \in Rands : GenerateWindowPoStWithVanilla(r)

Spec == Init /\ [][Next]_vars

-----------------------------------------------------------------------------
(* Mutant: each partition is checked for the set of its sectors.         *)
VerifyWindowPoStUnordered(r, pub, proof) ==
  /\ Len(proof) = NumPartitions(Len(pub), PartitionSectors)
  /\ \A j \in DOMAIN proof :
       /\ proof[j].rand = r
       /\ proof[j].index = j - 1
       /\ Range(proof[j].proved) = Range(Partition(pub, j - 1))

(* cess_verify_window_post: one proof per partition of the public replica  *)
(* list, the j-th for partition j-1 under randomness r, proving every      *)
(* sector of that partition in order.                                      *)
VerifyWindowPoSt(r, pub, proof) ==
  /\ Len(proof) = NumPartitions(Len(pub), PartitionSectors)
  /\ \A j \in DOMAIN proof :
       /\ proof[j].rand = r
       /\ proof[j].index = j - 1
       /\ proof[j].proved = Partition(pub, j - 1)

-----------------------------------------------------------------------------
(* Partitioning: for the list of replicas still readable and every prefix *)
(* of it, from none to all, the partitions 0 .. NumPartitions(n) - 1 of    *)
(* cess_generate_single_window_post_with_vanilla, concatenated, are the    *)
(* list exactly: no sector left out of the last, partly filled partition,  *)
(* none in two partitions, and no partition index below the count empty.   *)
PartitionsTile ==
  LET readable == SelectSeq(Replicas, LAMBDA s : s \notin faulty)
  IN \A n \in 0 .. Len(readable) :
    LET l == SubSeq(readable, 1, n)
        c == NumPartitions(n, PartitionSectors)
    IN /\ FlattenSeq([j \in 1 .. c |-> Partition(l, j - 1)]) = l
       /\ \A j \in 1 .. c : Partition(l, j - 1) # <<>>

(* Freshness: a partition proof, single or within a final Window PoSt of  *)
(* any of the three generating calls, proves a sector only if the replica *)
(* was readable and answered the challenges of that proof's randomness,   *)
(* even when the caller still holds vanilla proofs for an earlier          *)
(* randomness or the replica was lost since.                               *)
ProvedWasAnswered ==
  \A p \in (Range(parts) \ {None}) \cup (IF merged = None THEN {} ELSE Range(merged)) :
    \A s \in Range(p.proved) : <<s, p.rand>> \in proven

Orderings == {p \in [1 .. Len(Replicas) -> Sectors] : Range(p) = Sectors}

(* The merged proof is of every partition, in index order, under one       *)
(* randomness.                                                              *)
Complete(ps) ==
  /\ Len(ps) = NumParts
  /\ \A j \in DOMAIN ps : ps[j].index = j - 1 /\ ps[j].rand = ps[1].rand

(* Round trip (spec 4.5/7): a final Window PoSt, merged by the caller or   *)
(* generated end to end, of every partition in index order under one       *)
(* randomness and with no faulty sector, verifies against the prover's     *)
(* replica list, and against no other order of those replicas.            *)
WindowPoStRoundTrip ==
  (/\ merged # None
   /\ Complete(merged)
   /\ \A j \in DOMAIN merged : merged[j].faulty = {})
    => \A pub \in Orderings :
         VerifyWindowPoSt(merged[1].rand, pub, merged) <=> pub = Replicas

(* Partial-failure tolerance (spec 4.5): a merge of every partition proof, *)
(* in order, under one randomness, verifies against the replicas it proves, *)
(* i.e. the list without the sectors the responses reported faulty.        *)
FaultTolerantRoundTrip ==
  (merged # None /\ Complete(merged))
    => VerifyWindowPoSt(merged[1].rand,
                        SelectSeq(Replicas, LAMBDA s : \A j \in DOMAIN merged : s \notin merged[j].faulty),
                        merged)

=============================================================================
