---------------------------- MODULE SdmSettings ----------------------------
(***************************************************************************)
(* The SDM settings of the NDEF file, `Sdm`: which placeholders the tag    *)
(* fills in on every read, where they lie, and what `Sdm::try_new` accepts.*)
(*                                                                         *)
(* A placeholder is a run of characters of the file.  Its length is a      *)
(* constant so that TLC can use short ones; the rules do not depend on it. *)
(***************************************************************************)
EXTENDS Integers, Sequences

CONSTANTS
  UidLen, CtrLen, MacLen,   \* 14, 6 and 16 characters in the code
  PiccLen,                  \* the encrypted PICCData: 32 (AES), 48 (LRP)
  TtLen,                    \* the tamper status: 2 characters
  EncUnit,                  \* encrypted file data comes in multiples of 32
  MaxOffset                 \* an offset is a 24-bit number: 2^24 - 1

Mode == {"Aes", "Lrp"}

ASSUME LengthAssumption ==
  /\ UidLen \in Nat \ {0} /\ CtrLen \in Nat \ {0} /\ MacLen \in Nat \ {0}
  /\ TtLen \in Nat \ {0}
  /\ PiccLen \in [Mode -> Nat \ {0}]
  /\ EncUnit \in Nat \ {0} /\ EncUnit % 2 = 0
  /\ MaxOffset \in Nat

-----------------------------------------------------------------------------

\* Settings name the placeholders in use and their first characters (`at`);
\* `content` is what the encrypted PICCData holds, `input` the start of the
\* MAC window, `encLen` the length of the encrypted file data, and `limit`
\* the limit on the read counter.
Mirror   == {"uid", "ctr", "picc", "tt", "mac", "enc"}
Identity == {"uid", "ctr"}
NoLimit  == -1

Disabled ==
  [at |-> << >>, content |-> {}, input |-> 0, encLen |-> 0, limit |-> NoLimit]

Has(s, m) == m \in DOMAIN s.at
At(s, m)  == s.at[m]

\* includes_uid and includes_rctr, for a PICCData of either kind.
Includes(s) == IF Has(s, "picc") THEN s.content ELSE Identity \intersect DOMAIN s.at

Width(s, m, mode) ==
  [uid |-> UidLen, ctr |-> CtrLen, picc |-> PiccLen[mode], tt |-> TtLen,
   mac |-> MacLen, enc |-> s.encLen][m]

\* The characters that a placeholder takes up.
Span(s, m, mode) == At(s, m) .. (At(s, m) + Width(s, m, mode) - 1)

Overlap(s, mode, m1, m2) ==
  /\ Has(s, m1) /\ Has(s, m2)
  /\ Span(s, m1, mode) \intersect Span(s, m2, mode) # {}

\* What the types PiccData, FileRead and EncLength rule out by themselves.
WellFormed(s) ==
  /\ DOMAIN s.at \subseteq Mirror
  /\ Has(s, "picc") => s.content # {} /\ Identity \intersect DOMAIN s.at = {}
  /\ ~Has(s, "picc") => s.content = {}
  /\ Has(s, "enc") => Has(s, "mac") /\ s.encLen > 0 /\ s.encLen % EncUnit = 0
  /\ ~Has(s, "enc") => s.encLen = 0
  /\ ~Has(s, "mac") => s.input = 0
  /\ "ctr" \notin Includes(s) => s.limit = NoLimit

-----------------------------------------------------------------------------
(* Sdm::try_new *)

WindowOrdered(s) == Has(s, "mac") => s.input <= At(s, "mac")

EncInWindow(s) ==
  Has(s, "enc") =>
    At(s, "enc") >= s.input /\ At(s, "enc") + s.encLen <= At(s, "mac")

EncHasBoth(s) == Has(s, "enc") => Includes(s) = Identity

\* Deviation: the read counter is not checked against the MAC.
ApartButCtrMac ==
  {<<"uid", "ctr">>, <<"uid", "tt">>, <<"ctr", "tt">>, <<"uid", "mac">>,
   <<"tt", "mac">>, <<"enc", "uid">>, <<"enc", "ctr">>}

\* The pairs of placeholders checked for every mode ...
Apart ==
  {<<"uid", "ctr">>, <<"uid", "tt">>, <<"ctr", "tt">>, <<"uid", "mac">>,
   <<"ctr", "mac">>, <<"tt", "mac">>, <<"enc", "uid">>, <<"enc", "ctr">>}

\* ... and those of the encrypted PICCData, whose length depends on it.
ApartFromPicc == {<<"picc", "tt">>, <<"picc", "mac">>, <<"picc", "enc">>}

\* The tamper status within encrypted file data must end in its first half.
TamperBeforeCipher(s) ==
  Overlap(s, "Aes", "tt", "enc") =>
    At(s, "tt") + TtLen <= At(s, "enc") + s.encLen \div 2

TryNewFromWire(s) ==
  /\ WindowOrdered(s) /\ EncInWindow(s) /\ EncHasBoth(s)
  /\ \A p \in Apart : ~Overlap(s, "Aes", p[1], p[2])
  /\ TamperBeforeCipher(s)

TryNew(s, mode) ==
  /\ TryNewFromWire(s)
  /\ \A p \in ApartFromPicc : ~Overlap(s, mode, p[1], p[2])
=============================================================================
