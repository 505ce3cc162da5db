--------------------------- MODULE KeyDiversification ---------------------------
(***************************************************************************)
(* The diversified key of a tag: CMAC over 01, the UID, the AID, the       *)
(* number of the key and a system identifier, padded to two blocks.  The   *)
(* block has BlockSize bytes, 16 in the code; the AID, the same for all,   *)
(* is left out, and the other parts have as many bytes as are given.       *)
(***************************************************************************)
EXTENDS Naturals, Sequences

CONSTANT BlockSize
ASSUME BlockSizeAssumption == BlockSize \in Nat \ {0, 1}

MaxInput == 2 * BlockSize - 1

\* D: a constant, the input, 80 and zeros unless the blocks are full.
Padded(m) ==
  <<1>> \o m \o [i \in 1 .. (MaxInput - Len(m)) |-> IF i = 1 THEN 128 ELSE 0]

\* Deviation: no input counts as full.
SubkeyK2Always(m) == "K2"

Subkey(m) == IF Len(m) < MaxInput THEN "K2" ELSE "K1"

\* CBC-MAC: with one master key the result is as good as its inputs, the first
\* block and the second block with the subkey it is combined with.
DiversifyAes128(m) ==
  <<SubSeq(Padded(m), 1, BlockSize), SubSeq(Padded(m), BlockSize + 1, 2 * BlockSize), Subkey(m)>>

\* Both functions panic on inputs of other lengths.
Accepted(m) == Len(m) \in 1 .. MaxInput

InputOf(uid, keyNumber, systemId) == uid \o <<keyNumber>> \o systemId

DiversifyNtag424(uid, keyNumber, systemId) == DiversifyAes128(InputOf(uid, keyNumber, systemId))
=============================================================================
