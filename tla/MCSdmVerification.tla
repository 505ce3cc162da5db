-------------------------- MODULE MCSdmVerification --------------------------
(***************************************************************************)
(* Instances of SdmVerification for TLC.                                   *)
(***************************************************************************)
EXTENDS SdmVerification, TLC

CONSTANTS w1, w2

MCUid == {"tag1", "tag2", "tag3"}
MCSilent == {"tag3"}
MCWorker == {w1, w2}

\* The workers are interchangeable.
MCSymmetry == Permutations(MCWorker)
=============================================================================
