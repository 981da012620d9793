------------------------------ MODULE WinningPoSt ------------------------------
(***************************************************************************)
(* Winning PoSt through cess-ffi (cesscrypto.h):                           *)
(* cess_generate_winning_post_sector_challenge picks, from the randomness  *)
(* and the length of the prover's sector set, the positions of the sectors *)
(* to audit; the caller passes the replicas at those positions to          *)
(* cess_generate_winning_post, which proves them in one partition; and     *)
(* cess_verify_winning_post checks the proof against the public replica    *)
(* list its caller passes.  cess_GenerateWinningPoStResponse has no faulty *)
(* sector list, so an unreadable challenged replica fails the whole call.  *)
(* cess_generate_winning_post_with_vanilla proves the sectors of vanilla   *)
(* proofs the caller made earlier with cess_generate_single_vanilla_proof; *)
(* all of them must answer the randomness of the call (spec 4.5).          *)
(* Replicas may become unreadable at any time; the prover's caller may     *)
(* pass any replicas and any randomness.                                   *)
(***************************************************************************)
EXTENDS CessFfi, Naturals, Sequences, SequencesExt

CONSTANTS
  Replicas,      \* the prover's sector set, in order
  Rands,         \* randomness values
  WinningCount,  \* sectors audited by one winning PoSt
  Draw(_, _),    \* Draw(r, i): the i-th pseudorandom draw from randomness r
  MaxFaults,
  None

Sectors == Range(Replicas)

VARIABLES
  faulty,     \* replicas that can no longer be read
  challenge,  \* the latest sector challenge response
  winning,    \* the latest winning PoSt response, with the ghost `given`
  vanilla,    \* vanilla[s]: the randomness of the vanilla proof the caller holds for s, or None
  proven      \* ghost: the (sector, randomness) pairs a readable replica answered

vars == <<faulty, challenge, winning, vanilla, proven>>

(* The positions (from 0) cess_generate_winning_post_sector_challenge     *)
(* returns for randomness r and a set of n sectors.                        *)
WinningSectorIds(r, n) == [i \in 1 .. WinningCount |-> Draw(r, i) % n]

Init ==
  /\ faulty = {}
  /\ challenge = [status |-> "none"]
  /\ winning = [status |-> "none"]
  /\ vanilla = [s \in Sectors |-> None]
  /\ proven = {}

LoseReplica(s) ==
  /\ s \notin faulty
  /\ Cardinality(faulty) < MaxFaults
  /\ faulty' = faulty \cup {s}
  /\ UNCHANGED <<challenge, winning, vanilla, proven>>

(* cess_generate_winning_post_sector_challenge: an empty set has no sector *)
(* to pick.                                                                *)
GenerateWinningPoStSectorChallenge(r, n) ==
  /\ challenge' = IF n = 0 THEN [status |-> CallerError]
                  ELSE [status |-> NoError, rand |-> r, n |-> n, ids |-> WinningSectorIds(r, n)]
  /\ UNCHANGED <<faulty, winning, vanilla, proven>>

(* Mutant: unreadable replicas are left out of the proof, as a Window PoSt *)
(* partition does, although the response cannot report them.              *)
GenerateWinningPoStExcluding(r, reps) ==
  /\ winning' = [status |-> NoError, rand |-> r, given |-> reps,
                 proved |-> SelectSeq(reps, LAMBDA s : s \notin faulty)]
  /\ proven' = proven \cup {<<s, r>> : s \in Range(reps) \ faulty}
  /\ UNCHANGED <<faulty, challenge, vanilla>>

(* cess_generate_winning_post: challenges derived from r for every replica *)
(* given, answered from the replica files, proved in one partition.        *)
GenerateWinningPoSt(r, reps) ==
  /\ \/ /\ \E i \in DOMAIN reps : reps[i] \in faulty
        /\ winning' = [status |-> ReceiverError]
        /\ UNCHANGED proven
     \/ /\ \A i \in DOMAIN reps : reps[i] \notin faulty
        /\ winning' = [status |-> NoError, rand |-> r, given |-> reps, proved |-> reps]
        /\ proven' = proven \cup {<<s, r>> : s \in Range(reps)}
  /\ UNCHANGED <<faulty, challenge, vanilla>>

(* cess_generate_single_vanilla_proof for sector s, answering the         *)
(* challenges of randomness r; an unreadable replica gives no proof.      *)
GenerateSingleVanillaProof(s, r) ==
  /\ s \notin faulty
  /\ vanilla' = [vanilla EXCEPT ![s] = r]
  /\ proven' = proven \cup {<<s, r>>}
  /\ UNCHANGED <<faulty, challenge, winning>>

(* Mutant: vanilla proofs are proved whatever randomness they answered.   *)
GenerateWinningPoStWithVanillaAnyRand(r, vs) ==
  /\ winning' = [status |-> NoError, rand |-> r, given |-> vs, proved |-> vs]
  /\ UNCHANGED <<faulty, challenge, vanilla, proven>>

(* cess_generate_winning_post_with_vanilla: the vanilla proofs of sectors *)
(* vs, in order, proved in one partition under randomness r; one that     *)
(* answered another randomness fails the call.                            *)
GenerateWinningPoStWithVanilla(r, vs) ==
  /\ \/ /\ \E i \in DOMAIN vs : vanilla[vs[i]] # r
        /\ winning' = [status |-> ReceiverError]
     \/ /\ \A i \in DOMAIN vs : vanilla[vs[i]] = r
        /\ winning' = [status |-> NoError, rand |-> r, given |-> vs, proved |-> vs]
  /\ UNCHANGED <<faulty, challenge, vanilla, proven>>

Next ==
  \/ \E s \in Sectors : LoseReplica(s)
  \/ \E r \in Rands, n \in 0 .. Len(Replicas) : GenerateWinningPoStSectorChallenge(r, n)
  \/ \E r \in Rands, reps \in [1 .. WinningCount -> Sectors] : GenerateWinningPoSt(r, reps)
  \/ \E s \in Sectors, r \in Rands : GenerateSingleVanillaProof(s, r)
  \/ \E r \in Rands, vs \in [1 .. WinningCount -> {s \in Sectors : vanilla[s] # None}] :
       GenerateWinningPoStWithVanilla(r, vs)

Spec == Init /\ [][Next]_vars

-----------------------------------------------------------------------------
(* cess_verify_winning_post: the proof is one partition under r proving    *)
(* the public replicas given, in order.                                    *)
VerifyWinningPoSt(r, pub, w) == w.rand = r /\ w.proved = pub

-----------------------------------------------------------------------------
(* All or nothing: a winning PoSt returned without error, end to end or    *)
(* from vanilla proofs made earlier, proves every replica its caller gave, *)
(* in order, each of which was readable and answered that proof's         *)
(* randomness; since the response has no faulty sector list, leaving one  *)
(* out would go unreported, and a stale vanilla proof would prove storage *)
(* at a time the randomness did not yet exist.                             *)
WinningProvesAllGiven ==
  winning.status = NoError =>
    /\ winning.proved = winning.given
    /\ \A i \in DOMAIN winning.given : <<winning.given[i], winning.rand>> \in proven

(* Audit (spec 4.4, 4.6): a winning proof cess_verify_winning_post accepts *)
(* for randomness r proves the sectors the sector challenge of r selects   *)
(* from the prover's set.                                                  *)
WinningAuditsSelected ==
  winning.status = NoError =>
    \A pub \in [1 .. WinningCount -> Sectors] :
      VerifyWinningPoSt(winning.rand, pub, winning)
        => pub = [i \in 1 .. WinningCount |->
                    Replicas[WinningSectorIds(winning.rand, Len(Replicas))[i] + 1]]

=============================================================================
