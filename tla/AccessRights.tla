---------------------------- MODULE AccessRights ----------------------------
(***************************************************************************)
(* Access rights and communication modes of a file: the nibbles, bits and  *)
(* words they travel in, what the tag makes of them, and which mode        *)
(* `read_file` and `write_file` choose.                                    *)
(***************************************************************************)
EXTENDS Naturals, Sequences

Keys == {"key0", "key1", "key2", "key3", "key4"}

KeyByte == [key0 |-> 0, key1 |-> 1, key2 |-> 2, key3 |-> 3, key4 |-> 4]

\* `Access`, and with the same nibbles `CtrRetAccess`.
Access == Keys \union {"free", "none"}
Nibble == [a \in Access |-> CASE a = "free" -> 14 [] a = "none" -> 15
                              [] OTHER -> KeyByte[a]]

\* `from_nibble`: the one access with that nibble, if there is one.
FromNibble(n) == {a \in Access : Nibble[a] = n}

CommMode == {"plain", "mac", "full"}
ModeBits == [plain |-> 0, mac |-> 1, full |-> 3]

\* `0Xb` is plain.
FromBits(b) == CASE b % 4 = 1 -> "mac" [] b % 4 = 3 -> "full" [] OTHER -> "plain"

Slot   == {"read", "write", "readWrite", "change"}
Rights == [Slot -> Access]

-----------------------------------------------------------------------------
(* Words: two bytes, the low one first *)

LowFirst(w)  == <<w % 256, w \div 256>>
Joined(b)    == b[1] + 256 * b[2]
NibbleAt(w, i) == (w \div <<1, 16, 256, 4096>>[i + 1]) % 16

\* Deviation: ReadWrite and Write change places.
RightsBytesSwapped(r) ==
  LowFirst(4096 * Nibble[r["read"]] + 256 * Nibble[r["readWrite"]]
             + 16 * Nibble[r["write"]] + Nibble[r["change"]])

RightsBytes(r) ==
  LowFirst(4096 * Nibble[r["read"]] + 256 * Nibble[r["write"]]
             + 16 * Nibble[r["readWrite"]] + Nibble[r["change"]])

\* All rights with these bytes: none, if a nibble is not valid.
FromRightsBytes(b) ==
  LET at(i) == FromNibble(NibbleAt(Joined(b), i))
  IN  {[read |-> r, write |-> w, readWrite |-> rw, change |-> c] :
         r \in at(3), w \in at(2), rw \in at(1), c \in at(0)}

-----------------------------------------------------------------------------
(* The SDM part, without its numbers (see FileSettings) *)

\* Meta data in the clear, encrypted with a key, or absent; which of UID and
\* read counter it has; the limit on the counter, encrypted file data, tamper
\* status; the key of the MAC, or none; who may read the counter.
SdmFields == [meta: Access, uid: BOOLEAN, ctr: BOOLEAN, limit: BOOLEAN, enc: BOOLEAN,
              tt: BOOLEAN, fileRead: Keys \union {"none"}, ctrRet: Access]

\* What the types of the library can express.
Expressible(s) ==
  /\ s.meta = "none" <=> ~s.uid /\ ~s.ctr
  /\ s.limit \/ s.ctrRet # "none" => s.ctr
  /\ s.enc => s.fileRead # "none" /\ s.uid /\ s.ctr

Bit(flag, weight) == IF flag THEN weight ELSE 0
IsSet(byte, weight) == (byte \div weight) % 2 = 1

\* ASCII is always set.
SdmOptions(s) ==
  Bit(s.uid, 128) + Bit(s.ctr, 64) + Bit(s.limit, 32) + Bit(s.enc, 16) + Bit(s.tt, 8) + 1

SdmWord(s) ==
  LowFirst(4096 * Nibble[s.meta] + 256 * Nibble[s.fileRead] + 16 * 15 + Nibble[s.ctrRet])

\* Where no meta data is mirrored, the bits and the right that are about it
\* are dropped; so is the bit of encrypted data where there is no MAC.
SdmFrom(options, word) ==
  LET w == Joined(word)
      has(weight) == IsSet(options, weight)
  IN  {[meta |-> m, uid |-> m # "none" /\ has(128), ctr |-> m # "none" /\ has(64),
        limit |-> m # "none" /\ has(32), enc |-> f # "none" /\ has(16), tt |-> has(8),
        fileRead |-> f, ctrRet |-> IF m = "none" THEN "none" ELSE c] :
         m \in FromNibble(NibbleAt(w, 3)), f \in FromNibble(NibbleAt(w, 2)) \ {"free"},
         c \in FromNibble(NibbleAt(w, 0))}

\* Errors of `decode` in this part other than a nibble that is not valid.
SdmRefused(options, word) ==
  \/ options % 8 # 1
  \/ word[1] \div 16 # 15
  \/ ~IsSet(options, 64) /\ (IsSet(options, 32) \/ NibbleAt(Joined(word), 0) # 15)
  \/ \E s \in SdmFrom(options, word) : \/ s.meta # "none" /\ ~s.uid /\ ~s.ctr
                                       \/ s.enc /\ ~(s.uid /\ s.ctr)

-----------------------------------------------------------------------------
(* File settings *)

\* `sdm` is a set with at most one element: `Option<Sdm>`.
Settings == [mode: CommMode, rights: Rights, sdm: SUBSET SdmFields]

File == {"cc", "ndef", "prop"}
SizeOf == [cc |-> 32, ndef |-> 256, prop |-> 128]

RightsOf(r, w, rw, c) == [read |-> r, write |-> w, readWrite |-> rw, change |-> c]

\* `FileSettingsView::factory`.
Factory ==
  [cc   |-> [mode |-> "plain", rights |-> RightsOf("free", "key0", "key0", "key0"), sdm |-> {}],
   ndef |-> [mode |-> "plain", rights |-> RightsOf("free", "free", "free", "key0"), sdm |-> {}],
   prop |-> [mode |-> "full", rights |-> RightsOf("key2", "key3", "key3", "key0"), sdm |-> {}]]

\* What provisioning makes of the NDEF file.
Provisioned(sdm) ==
  [mode |-> "plain", rights |-> RightsOf("free", "none", "key0", "key0"), sdm |-> {sdm}]

\* `encode`, up to the numbers.
Encoded(s) ==
  <<ModeBits[s.mode] + Bit(s.sdm # {}, 64)>> \o RightsBytes(s.rights)
    \o (IF s.sdm = {} THEN << >>
        ELSE LET sdm == CHOOSE x \in s.sdm : TRUE IN <<SdmOptions(sdm)>> \o SdmWord(sdm))

\* `decode`: the settings, or none if it fails.  Bits 7 and 5..2 of the option
\* byte are reserved.
ReservedBits(option) == (option \div 4) % 16 # 0 \/ option >= 128

Decoded(b) ==
  IF ReservedBits(b[1]) THEN {}
  ELSE LET rights == FromRightsBytes(SubSeq(b, 2, 3))
           sdm == IF ~IsSet(b[1], 64) THEN {{}}
                  ELSE IF SdmRefused(b[4], SubSeq(b, 5, 6)) THEN {}
                  ELSE {{x} : x \in SdmFrom(b[4], SubSeq(b, 5, 6))}
       IN  {[mode |-> FromBits(b[1]), rights |-> r, sdm |-> s] : r \in rights, s \in sdm}

-----------------------------------------------------------------------------
(* Modes *)

Conditions(rights, op) == {rights[op], rights["readWrite"]}

\* Deviation: a free condition makes every access plain.
ModeForFree(s, op, key) == IF "free" \in Conditions(s.rights, op) THEN "plain" ELSE s.mode

\* The mode that `read_file` and `write_file` use, authenticated with `key`.
ModeFor(s, op, key) ==
  IF "free" \in Conditions(s.rights, op) /\ key \notin Conditions(s.rights, op)
    THEN "plain" ELSE s.mode

\* External, from how the code says the tag decides (8.2.3.3): a key that
\* meets a condition obliges to the mode of the file, free access to plain.
Grants(s, op, key) == Conditions(s.rights, op) \intersect {key, "free"} # {}
Accepts(s, op, mode, key) ==
  IF key \in Conditions(s.rights, op) THEN mode = s.mode
  ELSE "free" \in Conditions(s.rights, op) /\ mode = "plain"
=============================================================================
