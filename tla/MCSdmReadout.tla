---------------------------- MODULE MCSdmReadout ----------------------------
(***************************************************************************)
(* Instances of SdmReadout for TLC: short placeholders in a short file.    *)
(***************************************************************************)
EXTENDS SdmReadout

MCPiccLen == [Aes |-> 1, Lrp |-> 2]
MCOffsets == 0 .. 7
MCInputs == {0, 1}
MCEncLens == {4}
MCCtrs == {1}
MCPrefixes == {0, 2}

\* A template that has gone too far to be accepted is not followed any further:
\* it mixes {picc} with {uid} or {ctr}, is longer than the file, starts the MAC
\* window behind the MAC, or has encrypted file data of no whole unit.
Promising ==
  /\ Seen("picc") => ~Seen("uid") /\ ~Seen("ctr")
  /\ plan.pos <= FileLen
  /\ Seen("mac") => plan.macStart <= plan.at["mac"]
  /\ plan.encEnd # -1 => plan.encEnd > plan.at["enc"]
                         /\ (plan.encEnd - plan.at["enc"]) % EncUnit = 0
=============================================================================
