------------------------------- MODULE CessFfi -------------------------------
(***************************************************************************)
(* Shared vocabulary of the cess-ffi interface (cesscrypto.h): the status  *)
(* codes every fallible response carries, the closed registries of seal    *)
(* and PoSt proof variants, and the fixed byte widths of BLS values.       *)
(* A registered variant is modelled by the two facts the rest of the       *)
(* interface depends on: its sector size class and its circuit version.   *)
(***************************************************************************)

(* FCPResponseStatus: the status of every fallible response.               *)
NoError           == "FCPNoError"
UnclassifiedError == "FCPUnclassifiedError"
CallerError       == "FCPCallerError"
ReceiverError     == "FCPReceiverError"
Statuses == {NoError, UnclassifiedError, CallerError, ReceiverError}
ErrorStatuses == Statuses \ {NoError}

(* The sector size classes the registered variants name.                   *)
SizeClasses == {"2KiB", "8MiB", "32MiB", "512MiB", "32GiB", "64GiB"}

(* cess_RegisteredSealProof: one tag per size class and circuit version.   *)
SealProofs == [size : SizeClasses, version : {"V1", "V1_1"}]

(* cess_RegisteredPoStProof: winning and window variants per size class.   *)
PoStProofs == [size : SizeClasses, kind : {"Winning", "Window"}]

(* cess_RegisteredAggregationProof: the single registered scheme.          *)
AggregationProofs == {"SnarkPackV1"}

(* Fixed widths of BLS values, in bytes.                                   *)
DIGEST_BYTES      == 96
PRIVATE_KEY_BYTES == 32
PUBLIC_KEY_BYTES  == 48
SIGNATURE_BYTES   == 96

=============================================================================
