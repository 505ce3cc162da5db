----------------------------- MODULE SdmReadout -----------------------------
(***************************************************************************)
(* One tag from its SDM settings to a verified readout: settings are made  *)
(* from a URL template or directly, the tag (external) fills in the        *)
(* placeholders on a tap, the characters travel to a server, perhaps with  *)
(* one of them damaged, and a `Verifier` made from the settings recovers   *)
(* what the tag has mirrored.                                              *)
(*                                                                         *)
(* A character is a tuple that says what the tag wrote there.  Keys, MACs  *)
(* and ciphertexts are tuples of what they are computed from.              *)
(***************************************************************************)
EXTENDS FileSettings, SdmUrl

CONSTANTS
  Sources,                   \* how settings are made: "direct", "url"
  Offsets, Inputs, EncLens,  \* bounds: where and how long direct settings
                             \* have their placeholders and MAC window
  Base,                      \* one byte of the counter: two hex characters
  Ctrs,                      \* bound: values of the read counter
  Prefixes                   \* lengths of the URL prefixes, 0 for none

\* Powers of the base, of which the digits of a counter count.
Power[k \in 0 .. CtrLen] == IF k = 0 THEN 1 ELSE Base * Power[k - 1]

ASSUME BoundAssumption ==
  /\ Sources \subseteq {"direct", "url"}
  /\ Offsets \subseteq 0 .. MaxOffset /\ Inputs \subseteq 0 .. MaxOffset /\ EncLens \subseteq Nat
  /\ Base \in Nat \ {0} /\ Ctrs \subseteq 0 .. (Power[CtrLen] - 1)
  /\ Prefixes \subseteq Nat

VARIABLES
  conf,      \* the settings made for the tag, and for which file
  shown,     \* external: what the tag mirrored on the tap
  result     \* what the verifier made of them

vars == <<mode, plan, conf, shown, result>>

NotSet     == [from |-> "none", s |-> Disabled, size |-> 0]
NotTapped  == [ctr |-> -1, open |-> FALSE, noise |-> -1]
Unverified == [out |-> "none", uid |-> "none", ctr |-> -1, tt |-> << >>, data |-> << >>]
Failure(out) == [Unverified EXCEPT !.out = out]

-----------------------------------------------------------------------------
(* Making settings *)

\* `Sdm::try_new` called directly; what it rejects changes nothing.
Configure ==
  /\ "direct" \in Sources /\ conf = NotSet /\ plan = Empty
  /\ \E names \in SUBSET Mirror, content \in SUBSET Identity, input \in Inputs,
        len \in EncLens \union {0}, limit \in {NoLimit, 1, MaxOffset, MaxOffset + 1} :
       LET shape == [at |-> [m \in names |-> 0], content |-> content,
                     input |-> input, encLen |-> len, limit |-> limit]
       IN  /\ WellFormed(shape)
           /\ \E at \in [names -> Offsets] :
                LET s == [shape EXCEPT !.at = at]
                IN  /\ TryNew(s, mode)
                    /\ conf' = [from |-> "direct", s |-> s, size |-> FileLen]
  /\ UNCHANGED <<mode, plan, shown, result>>

TakePlan ==
  /\ plan.st = "done"
  /\ conf' = [from |-> "url", s |-> Planned, size |-> plan.pos]
  /\ plan' = Empty
  /\ UNCHANGED <<mode, shown, result>>

-----------------------------------------------------------------------------
(* External: the tag *)

\* The key of the session MAC depends on the identity that is mirrored.
KeyOf(s, c) == [uid |-> IF "uid" \in Includes(s) THEN "tag" ELSE "none",
                ctr |-> IF "ctr" \in Includes(s) THEN c ELSE -1]

In(s, m, p) == Has(s, m) /\ p \in Span(s, m, mode)

\* A counter mirrored as text has its most significant byte first.
Digit(c, i) == (c \div Power[CtrLen - 1 - i]) % Base

Mirrored(s, c, open, p) ==
  LET i(m) == p - At(s, m)
  IN  CASE In(s, "uid", p)  -> <<"uid", i("uid")>>
        [] In(s, "ctr", p)  -> <<"digit", Digit(c, i("ctr"))>>
        [] In(s, "picc", p) -> <<"picc", s.content, c, i("picc")>>
        [] In(s, "tt", p)   -> <<"tt", open, i("tt")>>
        [] OTHER            -> <<"text">>

\* The first half of the encrypted file data is what gets encrypted ...
EncPlain(s, c, open) ==
  [i \in 0 .. (s.encLen \div 2 - 1) |-> Mirrored(s, c, open, At(s, "enc") + i)]

\* ... and the ciphertext takes up all of it.
Encrypted(s, c, open, p) ==
  IF In(s, "enc", p)
    THEN <<"cipher", KeyOf(s, c), EncPlain(s, c, open), p - At(s, "enc")>>
    ELSE Mirrored(s, c, open, p)

MacInput(s, c, open) ==
  [i \in 0 .. (At(s, "mac") - s.input - 1) |-> Encrypted(s, c, open, s.input + i)]

Rendered(s, c, open) ==
  [p \in 0 .. (FileLen - 1) |->
     IF In(s, "mac", p)
       THEN <<"mac", KeyOf(s, c), MacInput(s, c, open), p - At(s, "mac")>>
       ELSE Encrypted(s, c, open, p)]

\* The characters that were read, one of them perhaps damaged.
File ==
  LET clean == Rendered(conf.s, shown.ctr, shown.open)
  IN  [p \in DOMAIN clean |-> IF p = shown.noise THEN <<"noise">> ELSE clean[p]]

\* The tag takes no settings that point outside the file.
TagAccepts(s) == \A m \in DOMAIN s.at : Span(s, m, mode) \subseteq 0 .. (FileLen - 1)

\* Its count of reads is left out, so settings with a limit are not tapped.
Tap ==
  /\ conf # NotSet /\ shown = NotTapped
  /\ TagAccepts(conf.s) /\ conf.s.limit = NoLimit
  /\ \E c \in Ctrs, open \in IF Has(conf.s, "tt") THEN BOOLEAN ELSE {FALSE} :
       shown' = [ctr |-> c, open |-> open, noise |-> -1]
  /\ UNCHANGED <<mode, plan, conf, result>>

\* External: a character is damaged on the way.
Noise ==
  /\ shown # NotTapped /\ shown.noise = -1 /\ result = Unverified
  /\ \E p \in 0 .. (conf.size - 1) :
       shown' = [shown EXCEPT !.noise = p]
  /\ UNCHANGED <<mode, plan, conf, result>>

-----------------------------------------------------------------------------
(* The verifier *)

\* `with_offset`: every position moves by the same amount ...
Shifted(v, inc) ==
  [v EXCEPT !.at = [m \in DOMAIN v.at |-> v.at[m] + inc], !.input = @ + inc]

\* ... and must stay within the largest file.
CanShift(v, inc) ==
  LET positions == {v.at[m] : m \in DOMAIN v.at} \union {v.input} \union
                   (IF Has(v, "enc") THEN {At(v, "enc") + v.encLen} ELSE {})
  IN  \A p \in positions : p + inc \in 0 .. (FileLen - 1)

\* `validate`: the settings a verifier stands for, whose PICCData may hold
\* anything, are valid ones.
Valid(v) ==
  TryNew([v EXCEPT !.content = IF Has(v, "picc") THEN Identity ELSE {}], mode)

Chars(r, from, len) == [i \in 0 .. (len - 1) |-> r[from + i]]

ReadUid(r, from) ==
  IF Chars(r, from, UidLen) = [i \in 0 .. (UidLen - 1) |-> <<"uid", i>>]
    THEN "tag" ELSE "junk"

\* The value of counter bytes, the least significant byte first.
LeValue(b) ==
  CHOOSE c \in 0 .. (Power[CtrLen] - 1) : \A i \in DOMAIN b : b[i] = (c \div Power[i]) % Base

\* A plain counter is text, the most significant byte first; -2 if it is not
\* a number.
ReadCtr(r, from) ==
  LET b == Chars(r, from, CtrLen)
  IN  IF \A i \in DOMAIN b : b[i][1] = "digit"
        THEN LeValue([i \in DOMAIN b |-> b[CtrLen - 1 - i][2]]) ELSE -2

\* The identity that the key derivation is given.
ReadPicc(v, r) ==
  IF Has(v, "picc")
    THEN LET b == Chars(r, At(v, "picc"), PiccLen[mode])
             whole == {x \in PiccContent \X Ctrs :
                         \A i \in DOMAIN b : b[i] = <<"picc", x[1], x[2], i>>}
         IN  IF whole = {} THEN [uid |-> "junk", ctr |-> -2]
             ELSE LET x == CHOOSE x \in whole : TRUE
                  IN  [uid |-> IF "uid" \in x[1] THEN "tag" ELSE "none",
                       ctr |-> IF "ctr" \in x[1] THEN x[2] ELSE -1]
    ELSE [uid |-> IF Has(v, "uid") THEN ReadUid(r, At(v, "uid")) ELSE "none",
          ctr |-> IF Has(v, "ctr") THEN ReadCtr(r, At(v, "ctr")) ELSE -1]

\* Deviation: any MAC of the right key passes.
MacMatchesKey(v, r, key) ==
  \A i \in 0 .. (MacLen - 1) :
    LET x == r[At(v, "mac") + i] IN x[1] = "mac" /\ x[2] = key /\ x[4] = i

MacMatches(v, r, key) ==
  LET input == Chars(r, v.input, At(v, "mac") - v.input)
  IN  \A i \in 0 .. (MacLen - 1) : r[At(v, "mac") + i] = <<"mac", key, input, i>>

\* The decrypted file data, once the MAC has been found right.
EncData(v, r) == IF Has(v, "enc") THEN r[At(v, "enc")][3] ELSE << >>

\* The tamper status: within encrypted file data it is read from the plaintext.
ReadTamper(v, r) ==
  IF ~Has(v, "tt") THEN << >>
  ELSE IF Has(v, "enc") /\ At(v, "tt") \in Span(v, "enc", mode)
         THEN Chars(EncData(v, r), At(v, "tt") - At(v, "enc"), TtLen)
         ELSE Chars(r, At(v, "tt"), TtLen)

LongEnough(v, r) == \A m \in DOMAIN v.at : Span(v, m, mode) \subseteq DOMAIN r

\* `verify_inner`: identity, keys, MAC, file data, tamper status.
Verdict(v, r) ==
  LET id == ReadPicc(v, r)
  IN  IF ~LongEnough(v, r) \/ ~MacMatches(v, r, id) THEN Failure("error")
      ELSE [out |-> "ok", uid |-> id.uid, ctr |-> id.ctr,
            tt |-> ReadTamper(v, r), data |-> EncData(v, r)]

\* The readout in the form a server gets it: the raw file, or the URL, whose
\* prefix has been expanded.
View(file, pre, drop) ==
  [p \in 0 .. (pre + conf.size - drop - 1) |->
     IF p < pre THEN <<"text">> ELSE file[p - pre + drop]]

\* The verifier comes from the settings, or from those read back from the tag.
Verify ==
  /\ shown # NotTapped /\ result = Unverified
  /\ \E settings \in {conf.s} \union {Decoded(w) : w \in {x \in Sent(conf.s) : Decodes(x)}} :
       \E pre \in IF conf.from = "url" THEN Prefixes \union {-1} ELSE {-1} :
         LET raw == pre = -1
             inc == IF raw THEN 0 ELSE pre - UriAt
             v == IF raw THEN settings ELSE Shifted(settings, inc)
             r == IF raw THEN View(File, 0, 0) ELSE View(File, pre, UriAt)
         IN  result' = IF ~Has(settings, "mac") THEN Failure("no_mac")
                       ELSE IF ~raw /\ ~CanShift(settings, inc) THEN Failure("no_shift")
                       ELSE IF ~Valid(v) THEN Failure("invalid")
                       ELSE Verdict(v, r)
  /\ UNCHANGED <<mode, plan, conf, shown>>

-----------------------------------------------------------------------------

Init ==
  /\ PlanInit
  /\ conf = NotSet /\ shown = NotTapped /\ result = Unverified

Next ==
  \/ Configure
  \/ "url" \in Sources /\ conf = NotSet /\ PlanStep /\ UNCHANGED <<conf, shown, result>>
  \/ TakePlan \/ Tap \/ Noise \/ Verify

Spec == Init /\ [][Next]_vars

-----------------------------------------------------------------------------
(* Properties *)

\* The parser stays within its buffer, and settings have the shape that the
\* types of the code give them.
TypeOK ==
  /\ mode \in Mode
  /\ plan.st \in {"parsing", "error", "done"}
  /\ plan.pos \in UriAt .. (UriAt + FileLen)
  /\ conf.from \in {"none", "url", "direct"} /\ conf.size \in 0 .. FileLen
  /\ WellFormed(conf.s)
  /\ \A m \in DOMAIN conf.s.at : conf.s.at[m] \in 0 .. MaxOffset
  /\ conf.s.input \in 0 .. MaxOffset /\ conf.s.limit \in Nat \union {NoLimit}
  /\ result.out \in {"none", "ok", "error", "no_mac", "no_shift", "invalid"}

\* Where the documentation allows the tamper status within encrypted data.
TamperPlaced(s) ==
  Overlap(s, mode, "tt", "enc") =>
    Span(s, "tt", mode) \subseteq
      At(s, "enc") .. (At(s, "enc") + s.encLen \div 2 - 1)

\* sdm.rs: the tamper status "may overlap with EncFileData only if it fits
\* entirely inside the first (plaintext) half; placing it in the ciphertext
\* half is rejected": so it does in all settings that `try_new` accepts.
TamperInPlainHalf == TamperPlaced(conf.s)

TagTamper(s) ==
  IF Has(s, "tt") THEN [i \in 0 .. (TtLen - 1) |-> <<"tt", shown.open, i>>] ELSE << >>

FileData(s) == IF Has(s, "enc") THEN EncPlain(s, shown.ctr, shown.open) ELSE << >>

Truth(s) ==
  [out |-> "ok", uid |-> KeyOf(s, shown.ctr).uid, ctr |-> KeyOf(s, shown.ctr).ctr,
   tt |-> TagTamper(s), data |-> FileData(s)]

\* Settings that are accepted work: whatever placeholders they have and in
\* whatever order, the placeholders do not disturb each other on the tag, and
\* the verifier made from them (or from those read back) recovers everything
\* the tag has mirrored, from the file and from the URL alike; only a URL
\* longer than the file, after its prefix is expanded, is out of reach.
Recovered ==
  (result # Unverified /\ shown.noise = -1 /\ TamperPlaced(conf.s)) =>
    \/ result = Truth(conf.s)
    \/ result.out = "no_mac" /\ ~Has(conf.s, "mac")
    \/ /\ result.out = "no_shift" /\ conf.from = "url"
       /\ \E pre \in Prefixes : pre + conf.size - UriAt > FileLen

\* What is reported of a damaged readout is still what the tag mirrored: its
\* identity and file data always, the tamper status if the MAC covers it.
OkIsTrue ==
  (result.out = "ok" /\ TamperPlaced(conf.s)) =>
    LET t == Truth(conf.s)
        s == conf.s
    IN  /\ result.uid = t.uid /\ result.ctr = t.ctr /\ result.data = t.data
        /\ (Has(s, "tt") /\ Span(s, "tt", mode) \subseteq s.input .. (At(s, "mac") - 1))
             => result.tt = t.tt

\* Settings survive the way to the tag and back: what is accepted can be sent,
\* unless its limit on the counter takes more than three bytes, and what is
\* sent decodes and means the same (a limit of 2^24 - 1 is no limit).
RereadSame ==
  (conf # NotSet /\ shown = NotTapped) =>
    LET s == conf.s
        w == Encode(s)
    IN  /\ Encodable(s) <=> s.limit <= MaxOffset
        /\ Encodable(s) =>
             /\ Decodes(w)
             /\ Decoded(w) = [s EXCEPT !.limit = IF @ = MaxOffset THEN NoLimit ELSE @]
=============================================================================
