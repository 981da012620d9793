------------------------------ MODULE BlsEngine ------------------------------
(***************************************************************************)
(* The BLS calls of cess-ffi (cesscrypto.h): cess_private_key_generate,   *)
(* cess_private_key_generate_with_seed, cess_private_key_public_key,       *)
(* cess_private_key_sign, cess_hash, cess_aggregate,                       *)
(* cess_create_zero_signature, cess_verify and cess_hash_verify.           *)
(*                                                                         *)
(* Pairing arithmetic is abstracted to what verification tells apart: a    *)
(* signature is the bag `agg` of (public key, digest) pairs it aggregates, the *)
(* zero signature is the empty bag, and aggregation adds bags.  What is    *)
(* kept exactly is the part the interface exposes: every list crosses the  *)
(* boundary as one flattened byte buffer and a byte length, which the call *)
(* slices into fixed-width values, and hash_verify's messages are one      *)
(* flattened buffer cut by a separate array of sizes.  A buffer is a       *)
(* sequence of values with their byte widths, so a caller can build one    *)
(* out of values of the wrong kind.                                        *)
(***************************************************************************)
EXTENDS CessFfi, Integers, SequencesExt, Bags, FiniteSets

CONSTANTS
  Keys,      \* private keys (model values)
  Seeds,     \* 32-byte seeds a caller may pass to generate_with_seed
  SeedKey,   \* SeedKey[seed]: the key generate_with_seed derives from seed
  Messages,  \* messages: byte sequences over 0..1
  MaxList,   \* bound on the number of values in one flattened buffer
  Garbage    \* model value: bytes that do not deserialize to a value

VARIABLES
  keys,      \* private keys the caller has generated
  held,      \* signatures produced, each with the (key, message) pairs signed into it
  verdicts   \* results of verify calls: whether well formed, valid, and the int returned

vars == <<keys, held, verdicts>>

-----------------------------------------------------------------------------
(* cess_private_key_public_key and cess_hash.                              *)
PublicKey(k) == [pk |-> k]
Digest(m) == [hashOf |-> m]

Pair(pk, d) == [pk |-> pk, digest |-> d]

(* cess_private_key_sign: the signature of one message.                    *)
Sign(k, m) == [agg |-> SetToBag({Pair(PublicKey(k), Digest(m))})]

(* cess_create_zero_signature: the identity, the empty aggregate.          *)
ZeroSignature == [agg |-> EmptyBag]

(* A flattened buffer of `vals`, each `w` bytes wide.                      *)
Flat(vals, w) == [i \in DOMAIN vals |-> [val |-> vals[i], width |-> w]]

ByteLen(buf) == FoldLeft(LAMBDA acc, it : acc + it.width, 0, buf)

(* Slicing a buffer into w-byte values: the length must be a multiple of   *)
(* w; a slice that is not exactly one w-byte value does not deserialize.   *)
Slice(buf, w) ==
  [ok |-> ByteLen(buf) % w = 0,
   vals |-> IF \A i \in DOMAIN buf : buf[i].width = w
            THEN [i \in DOMAIN buf |-> buf[i].val]
            ELSE [i \in 1 .. (ByteLen(buf) \div w) |-> Garbage]]

Deserializes(sl) == sl.ok /\ \A i \in DOMAIN sl.vals : sl.vals[i] # Garbage

(* The ints cess_verify may return for input that does not slice into     *)
(* equally many digests and public keys: the header says nothing, so any  *)
(* int but 1 (which reads as "verified"); 0 and -1 stand for them.        *)
MalformedRets == {-1, 0}

Verify(sig, digestBuf, pkBuf) ==
  LET ds  == Slice(digestBuf, DIGEST_BYTES)
      pks == Slice(pkBuf, PUBLIC_KEY_BYTES)
  IN IF ~Deserializes(ds) \/ ~Deserializes(pks) \/ Len(ds.vals) # Len(pks.vals)
     THEN MalformedRets
     ELSE {IF sig.agg = ToBag([i \in DOMAIN ds.vals |-> Pair(pks.vals[i], ds.vals[i])])
           THEN 1 ELSE 0}

(* Mutant: each remainder starts one byte early.                          *)
RECURSIVE SplitBySizesOverlap(_, _)
SplitBySizesOverlap(bytes, sizes) ==
  IF sizes = <<>> THEN <<>>
  ELSE <<SubSeq(bytes, 1, Head(sizes))>>
         \o SplitBySizesOverlap(SubSeq(bytes, Head(sizes), Len(bytes)), Tail(sizes))

(* Cutting the flattened messages into consecutive pieces of the given     *)
(* sizes.                                                                  *)
RECURSIVE SplitBySizes(_, _)
SplitBySizes(bytes, sizes) ==
  IF sizes = <<>> THEN <<>>
  ELSE <<SubSeq(bytes, 1, Head(sizes))>>
         \o SplitBySizes(SubSeq(bytes, Head(sizes) + 1, Len(bytes)), Tail(sizes))

SumSizes(sizes) == FoldLeft(LAMBDA acc, n : acc + n, 0, sizes)

(* cess_hash_verify: the sizes must cover the flattened messages exactly;  *)
(* each message is hashed and the digests are checked as by cess_verify.   *)
HashVerify(sig, msgBytes, sizes, pkBuf) ==
  IF SumSizes(sizes) # Len(msgBytes) THEN MalformedRets
  ELSE LET ms == SplitBySizes(msgBytes, sizes)
       IN Verify(sig, Flat([i \in DOMAIN ms |-> Digest(ms[i])], DIGEST_BYTES), pkBuf)

-----------------------------------------------------------------------------
(* What a caller can put into a buffer: values of the kind the buffer is  *)
(* for, and values of the other width.  (Signatures and digests are both   *)
(* 96-byte G2 points; mixing those two is not modelled.)                   *)
SigValues == {[val |-> h.sig, width |-> SIGNATURE_BYTES] : h \in held}
DigestValues == {[val |-> Digest(m), width |-> DIGEST_BYTES] : m \in Messages}
PkValues == {[val |-> PublicKey(k), width |-> PUBLIC_KEY_BYTES] : k \in Keys}
SigBuffers == BoundedSeq(SigValues \cup PkValues, MaxList)
DigestBuffers == BoundedSeq(DigestValues \cup PkValues, MaxList)
PkBuffers == BoundedSeq(PkValues \cup DigestValues, MaxList)

Signed(k, m) == [key |-> k, msg |-> m]

Init ==
  /\ keys = {}
  /\ held = {}
  /\ verdicts = {}

(* cess_private_key_generate: a fresh random key; any key may come out.   *)
PrivateKeyGenerate ==
  /\ \E k \in Keys : keys' = keys \cup {k}
  /\ UNCHANGED <<held, verdicts>>

(* cess_private_key_generate_with_seed: the key the seed determines, the   *)
(* same key on every call with that seed.                                  *)
PrivateKeyGenerateWithSeed(seed) ==
  /\ keys' = keys \cup {SeedKey[seed]}
  /\ UNCHANGED <<held, verdicts>>

(* cess_private_key_sign with the raw bytes of a key the caller holds.     *)
PrivateKeySign(k, m) ==
  /\ k \in keys
  /\ held' = held \cup {[sig |-> Sign(k, m), signed |-> SetToBag({Signed(k, m)})]}
  /\ UNCHANGED <<keys, verdicts>>

CreateZeroSignature ==
  /\ held' = held \cup {[sig |-> ZeroSignature, signed |-> EmptyBag]}
  /\ UNCHANGED <<keys, verdicts>>

(* Mutant: the loop over the sliced signatures stops one short.           *)
AggregateSigsDropLast(sigs) ==
  [agg |-> FoldLeft(LAMBDA acc, s : acc (+) s.agg, EmptyBag, SubSeq(sigs, 1, Len(sigs) - 1))]
(* The sum of the sliced signatures.                                       *)
AggregateSigs(sigs) == [agg |-> FoldLeft(LAMBDA acc, s : acc (+) s.agg, EmptyBag, sigs)]

(* cess_aggregate(flattened_signatures_ptr, len): NULL unless the buffer   *)
(* slices into signatures.  What it does with zero signatures is not      *)
(* specified: NULL or the identity.                                        *)
Aggregate(buf) ==
  LET sl == Slice(buf, SIGNATURE_BYTES)
      signedOf(sig) == (CHOOSE h \in held : h.sig = sig).signed
  IN /\ Deserializes(sl)
     /\ \/ /\ Len(sl.vals) > 0
           /\ held' = held \cup
                {[sig |-> AggregateSigs(sl.vals),
                  signed |-> FoldLeft(LAMBDA acc, s : acc (+) signedOf(s), EmptyBag, sl.vals)]}
        \/ /\ Len(sl.vals) = 0
           /\ held' \in {held, held \cup {[sig |-> ZeroSignature, signed |-> EmptyBag]}}
     /\ UNCHANGED <<keys, verdicts>>

(* A verify call: the spec's verdict (is the input well formed, do its    *)
(* keys and messages pair up exactly as the ones signed into the           *)
(* signature) next to the int the call returns.                            *)
Record(wellFormed, valid, ret) ==
  /\ verdicts' = verdicts \cup {[wellFormed |-> wellFormed, valid |-> valid, ret |-> ret]}
  /\ UNCHANGED <<keys, held>>

(* The (key, message) pairs named by lists of public keys and messages.    *)
SignedOf(pks, ms) == ToBag([i \in DOMAIN ms |-> Signed(pks[i].pk, ms[i])])

VerifyCall(h, dBuf, pkBuf) ==
  LET ds == Slice(dBuf, DIGEST_BYTES)
      pks == Slice(pkBuf, PUBLIC_KEY_BYTES)
      wf == Deserializes(ds) /\ Deserializes(pks) /\ Len(ds.vals) = Len(pks.vals)
  IN /\ Len(dBuf) > 0
     /\ \E ret \in Verify(h.sig, dBuf, pkBuf) :
          Record(wf, wf /\ SignedOf(pks.vals, [i \in DOMAIN ds.vals |-> ds.vals[i].hashOf])
                             = h.signed, ret)

(* A flattened message buffer and its sizes, from a list of messages.      *)
HashVerifyCall(h, ms, pkBuf) ==
  LET pks == Slice(pkBuf, PUBLIC_KEY_BYTES)
      wf == Deserializes(pks) /\ Len(ms) = Len(pks.vals)
  IN /\ Len(ms) > 0
     /\ \E ret \in HashVerify(h.sig, FlattenSeq(ms), [i \in DOMAIN ms |-> Len(ms[i])], pkBuf) :
          Record(wf, wf /\ SignedOf(pks.vals, ms) = h.signed, ret)

Next ==
  \/ PrivateKeyGenerate
  \/ \E seed \in Seeds : PrivateKeyGenerateWithSeed(seed)
  \/ \E k \in Keys, m \in Messages : PrivateKeySign(k, m)
  \/ CreateZeroSignature
  \/ \E buf \in SigBuffers : Aggregate(buf)
  \/ \E h \in held, dBuf \in DigestBuffers, pkBuf \in PkBuffers : VerifyCall(h, dBuf, pkBuf)
  \/ \E h \in held, ms \in BoundedSeq(Messages, MaxList), pkBuf \in PkBuffers :
       HashVerifyCall(h, ms, pkBuf)

Spec == Init /\ [][Next]_vars

-----------------------------------------------------------------------------
(* Lists of (key, message) pairs a verifier may check a signature against. *)
PairLists == BoundedSeq(Keys \X Messages, MaxList) \ {<<>>}
DigestBuf(l) == Flat([i \in DOMAIN l |-> Digest(l[i][2])], DIGEST_BYTES)
PkBuf(l) == Flat([i \in DOMAIN l |-> PublicKey(l[i][1])], PUBLIC_KEY_BYTES)

(* Aggregation is exact: however a signature was built (signing, zero      *)
(* signature, aggregates of aggregates), cess_verify accepts it for a list *)
(* of digests and keys exactly when the list holds, with multiplicity and  *)
(* in any order, the (key, message) pairs signed into it.                  *)
AggregateVerifiesExactly ==
  \A h \in held, l \in PairLists :
    Verify(h.sig, DigestBuf(l), PkBuf(l)) = {1}
      <=> ToBag([i \in DOMAIN l |-> Signed(l[i][1], l[i][2])]) = h.signed

(* The spec's equivalence of the two verifiers: cess_hash_verify over the  *)
(* flattened messages and their sizes answers as cess_verify over the      *)
(* digests cess_hash gives for the same messages, even where two different *)
(* message lists flatten to the same bytes.                                *)
HashVerifyMatchesVerify ==
  \A h \in held, l \in PairLists :
    LET ms == [i \in DOMAIN l |-> l[i][2]]
    IN HashVerify(h.sig, FlattenSeq(ms), [i \in DOMAIN ms |-> Len(ms[i])], PkBuf(l))
         = Verify(h.sig, DigestBuf(l), PkBuf(l))

=============================================================================
