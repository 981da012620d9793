---------------------------- MODULE SealAggregation ----------------------------
(***************************************************************************)
(* cess_aggregate_seal_proofs and cess_verify_aggregate_seal_proof         *)
(* (cesscrypto.h).  The aggregator takes three parallel arrays: the CommRs,*)
(* the seeds and the Commit2 responses, each with a pointer and a length.  *)
(* A Commit2 response carries its proof and the AggregationInputs          *)
(* (comm_r, comm_d, sector_id, ticket, seed) it proves.  The verifier      *)
(* takes the aggregate proof and an ordered array of AggregationInputs.    *)
(*                                                                         *)
(* A proof is the record of what it binds (as in SectorSealing).  An      *)
(* aggregate keeps its proofs in order together with the CommRs and seeds  *)
(* it was given, which its transcript commits to.  Whether the aggregator  *)
(* compares those arrays with the responses is not specified: it may       *)
(* reject a disagreement or aggregate anyway.  The caller is any caller.   *)
(***************************************************************************)
EXTENDS CessFfi, Sequences, SequencesExt

CONSTANTS
  Variants,   \* registered seal proofs in use
  Sectors,    \* sector ids
  CommRVals,  \* replica commitments
  CommDVals,  \* data commitments
  Tickets,
  Seeds,
  Sealed,     \* the commitments honest Commit2 calls have proved
  MaxAgg      \* bound on the length of the arrays

VARIABLE last  \* the most recent response of cess_aggregate_seal_proofs,
               \* with the ghost field `from`: the inputs of the responses given

(* cess_AggregationInputs.                                                 *)
Inputs == [commR : CommRVals, commD : CommDVals, sector : Sectors,
           ticket : Tickets, seed : Seeds]

(* What a seal proof of variant v for inputs `in` binds.                   *)
Bound(v, in) == [variant |-> v, commR |-> in.commR, commD |-> in.commD,
                 sector |-> in.sector, ticket |-> in.ticket, seed |-> in.seed]

ASSUME Sealed \subseteq {Bound(v, in) : v \in Variants, in \in Inputs}

InputsOf(b) == [commR |-> b.commR, commD |-> b.commD, sector |-> b.sector,
                ticket |-> b.ticket, seed |-> b.seed]

(* cess_SealCommitPhase2Response of a successful Commit2.                  *)
C2Response(b) == [status |-> NoError, proof |-> b, inputs |-> InputsOf(b)]
Responses == {C2Response(b) : b \in Sealed}

Lists(S) == BoundedSeq(S, MaxAgg) \ {<<>>}

Fail(status) == last' = [status |-> status]

Init == last = [status |-> "none"]

(* Mutant: the proofs are taken from the responses array back to front.   *)
AggregateSealProofsReversed(v, scheme, crs, sds, rs) ==
  \/ /\ Len(crs) # Len(rs) \/ Len(sds) # Len(rs)
     /\ Fail(CallerError)
  \/ /\ Len(crs) = Len(rs) /\ Len(sds) = Len(rs)
     /\ \E i \in DOMAIN rs : rs[i].proof.variant # v
     /\ Fail(CallerError)
  \/ /\ Len(crs) = Len(rs) /\ Len(sds) = Len(rs)
     /\ \A i \in DOMAIN rs : rs[i].proof.variant = v
     /\ \/ last' = [status |-> NoError, variant |-> v, scheme |-> scheme,
                    proofs |-> Reverse([i \in DOMAIN rs |-> rs[i].proof]),
                    commRs |-> crs, seeds |-> sds,
                    from |-> [i \in DOMAIN rs |-> rs[i].inputs]]
        \/ /\ crs # [i \in DOMAIN rs |-> rs[i].inputs.commR]
              \/ sds # [i \in DOMAIN rs |-> rs[i].inputs.seed]
           /\ Fail(CallerError)

(* cess_aggregate_seal_proofs: the three lengths must agree and every      *)
(* proof must be of the registered seal proof given.                       *)
AggregateSealProofs(v, scheme, crs, sds, rs) ==
  \/ /\ Len(crs) # Len(rs) \/ Len(sds) # Len(rs)
     /\ Fail(CallerError)
  \/ /\ Len(crs) = Len(rs) /\ Len(sds) = Len(rs)
     /\ \E i \in DOMAIN rs : rs[i].proof.variant # v
     /\ Fail(CallerError)
  \/ /\ Len(crs) = Len(rs) /\ Len(sds) = Len(rs)
     /\ \A i \in DOMAIN rs : rs[i].proof.variant = v
     /\ \/ last' = [status |-> NoError, variant |-> v, scheme |-> scheme,
                    proofs |-> [i \in DOMAIN rs |-> rs[i].proof],
                    commRs |-> crs, seeds |-> sds,
                    from |-> [i \in DOMAIN rs |-> rs[i].inputs]]
        \/ /\ crs # [i \in DOMAIN rs |-> rs[i].inputs.commR]
              \/ sds # [i \in DOMAIN rs |-> rs[i].inputs.seed]
           /\ Fail(CallerError)

Next ==
  \E v \in Variants, scheme \in AggregationProofs, rs \in Lists(Responses),
     crs \in Lists(CommRVals), sds \in Lists(Seeds) :
    AggregateSealProofs(v, scheme, crs, sds, rs)

Spec == Init /\ [][Next]_last

-----------------------------------------------------------------------------
(* Mutant: each proof is checked against the transcript's CommR and seed  *)
(* and not against the rest of the inputs at its position.                *)
VerifyAggregateTranscriptOnly(v, scheme, a, l) ==
  IF Len(l) # Len(a.proofs) THEN [status |-> CallerError, valid |-> FALSE]
  ELSE [status |-> NoError,
        valid |-> /\ v = a.variant /\ scheme = a.scheme
                  /\ \A i \in DOMAIN l : /\ a.proofs[i].commR = a.commRs[i]
                                         /\ a.proofs[i].seed = a.seeds[i]
                  /\ a.commRs = [i \in DOMAIN l |-> l[i].commR]
                  /\ a.seeds = [i \in DOMAIN l |-> l[i].seed]]

(* Mutant: each input is matched against some proof, in any order.        *)
VerifyAggregateUnordered(v, scheme, a, l) ==
  IF Len(l) # Len(a.proofs) THEN [status |-> CallerError, valid |-> FALSE]
  ELSE [status |-> NoError,
        valid |-> /\ v = a.variant /\ scheme = a.scheme
                  /\ \A i \in DOMAIN l : \E j \in DOMAIN a.proofs : a.proofs[j] = Bound(v, l[i])
                  /\ Range(a.commRs) = {l[i].commR : i \in DOMAIN l}
                  /\ Range(a.seeds) = {l[i].seed : i \in DOMAIN l}]

(* cess_verify_aggregate_seal_proof: a count that differs from the         *)
(* aggregate's is an input error; otherwise the aggregate is valid when    *)
(* every proof, in order, binds the inputs at its position, and the        *)
(* transcript's CommRs and seeds are those of the inputs, in order.        *)
VerifyAggregate(v, scheme, a, l) ==
  IF Len(l) # Len(a.proofs) THEN [status |-> CallerError, valid |-> FALSE]
  ELSE [status |-> NoError,
        valid |-> /\ v = a.variant /\ scheme = a.scheme
                  /\ \A i \in DOMAIN l : a.proofs[i] = Bound(v, l[i])
                  /\ a.commRs = [i \in DOMAIN l |-> l[i].commR]
                  /\ a.seeds = [i \in DOMAIN l |-> l[i].seed]]

-----------------------------------------------------------------------------
Aggregated == last.status = NoError

(* The input lists a verifier may be given for the latest aggregate.       *)
Candidates == {l \in Lists(Inputs) : Len(l) = Len(last.proofs)}

Valid(l) == VerifyAggregate(last.variant, last.scheme, last, l).valid

(* Soundness: whatever arrays the caller gave the aggregator, an aggregate *)
(* it returned verifies only for inputs every one of which an honest       *)
(* Commit2 has proved.                                                      *)
AggregateSound ==
  Aggregated => \A l \in Candidates :
    Valid(l) => \A i \in DOMAIN l : Bound(last.variant, l[i]) \in Sealed

(* Order: an aggregate verifies for at most one ordered list of inputs, so *)
(* the same inputs in another order are rejected.                          *)
ReorderRejected ==
  Aggregated => \A l1, l2 \in Candidates : Valid(l1) /\ Valid(l2) => l1 = l2

(* Round trip: an aggregate built from Commit2 responses with the CommRs   *)
(* and seeds of their own inputs, in the same order, verifies for the      *)
(* responses' commit inputs in that order.                                  *)
HonestAggregateVerifies ==
  LET l == last.from
  IN Aggregated /\ last.commRs = [i \in DOMAIN l |-> l[i].commR]
                /\ last.seeds = [i \in DOMAIN l |-> l[i].seed]
       => Valid(l)

=============================================================================
