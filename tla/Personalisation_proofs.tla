------------------------ MODULE Personalisation_proofs ------------------------
(***************************************************************************)
(* Machine-checked facts about settings, access and capability container:  *)
(* what is sent is what is read back, the chosen mode is never the reason  *)
(* of a refusal, and the container tells what the settings say.            *)
(***************************************************************************)
EXTENDS Personalisation, SequenceTheorems, TLAPS

\* Settings that the library can express.
GoodSdm      == {s \in SdmFields : Expressible(s)}
GoodSettings == {s \in Settings : s.sdm = {} \/ \E x \in GoodSdm : s.sdm = {x}}

-----------------------------------------------------------------------------
(* Nibbles and words *)

LEMMA NibbleIs ==
  /\ Nibble["key0"] = 0 /\ Nibble["key1"] = 1 /\ Nibble["key2"] = 2 /\ Nibble["key3"] = 3
  /\ Nibble["key4"] = 4 /\ Nibble["free"] = 14 /\ Nibble["none"] = 15
<1>1. /\ KeyByte["key0"] = 0 /\ KeyByte["key1"] = 1 /\ KeyByte["key2"] = 2
      /\ KeyByte["key3"] = 3 /\ KeyByte["key4"] = 4
  BY DEF KeyByte
<1>2. ASSUME NEW k \in Keys PROVE Nibble[k] = KeyByte[k]
  <2>1. k \in Access /\ k # "free" /\ k # "none"
    BY DEF Keys, Access
  <2> QED BY <2>1, Zenon DEF Nibble
<1>3. Nibble["free"] = 14 /\ Nibble["none"] = 15
  <2>1. "free" \in Access /\ "none" \in Access
    BY DEF Access
  <2>2. Nibble["free"] = 14
    BY <2>1, Zenon DEF Nibble
  <2>3. Nibble["none"] = 15
    BY <2>1, Zenon DEF Nibble
  <2> QED BY <2>2, <2>3
<1> QED BY <1>1, <1>2, <1>3 DEF Keys

Nib == 0 .. 15

LEMMA AccessIs ==
  /\ Access = {"key0", "key1", "key2", "key3", "key4", "free", "none"}
  /\ \A a \in Access : Nibble[a] \in Nib
  /\ \A a, b \in Access : Nibble[a] = Nibble[b] => a = b
<1>1. Access = {"key0", "key1", "key2", "key3", "key4", "free", "none"}
  BY DEF Access, Keys
<1>2. \A a \in Access : Nibble[a] \in Nib
  BY <1>1, NibbleIs DEF Nib
<1>3. \A a, b \in Access : Nibble[a] = Nibble[b] => a = b
  BY <1>1, NibbleIs
<1> QED BY <1>1, <1>2, <1>3

LEMMA NibbleBack ==
  /\ \A a \in Access : FromNibble(Nibble[a]) = {a}
  /\ \A n : FromNibble(n) \subseteq Access /\ \A a, b \in FromNibble(n) : a = b
<1>1. ASSUME NEW a \in Access PROVE FromNibble(Nibble[a]) = {a}
  BY AccessIs DEF FromNibble
<1>2. ASSUME NEW n PROVE FromNibble(n) \subseteq Access /\ \A a, b \in FromNibble(n) : a = b
  BY AccessIs DEF FromNibble
<1> QED BY <1>1, <1>2

\* The word of four nibbles.
Word4(p, q, r, s) == 4096 * p + 256 * q + 16 * r + s

LEMMA WordsBack ==
  ASSUME NEW p \in Nib, NEW q \in Nib, NEW r \in Nib, NEW s \in Nib,
         NEW w, w = LowFirst(Word4(p, q, r, s))
  PROVE  /\ NibbleAt(Joined(w), 3) = p /\ NibbleAt(Joined(w), 2) = q
         /\ NibbleAt(Joined(w), 1) = r /\ NibbleAt(Joined(w), 0) = s
         /\ w[1] \div 16 = r
<1> USE DEF Nib
<1> DEFINE v == 4096 * p + 256 * q + 16 * r + s
<1>1. v \in Nat /\ w = <<v % 256, v \div 256>>
  BY DEF LowFirst, Word4
<1>2. Joined(w) = v
  <2> HIDE DEF v
  <2>1. (v % 256) + 256 * (v \div 256) = v
    BY <1>1
  <2> QED BY <1>1, <2>1 DEF Joined
<1>3. \A x : /\ NibbleAt(x, 3) = (x \div 4096) % 16 /\ NibbleAt(x, 2) = (x \div 256) % 16
             /\ NibbleAt(x, 1) = (x \div 16) % 16 /\ NibbleAt(x, 0) = (x \div 1) % 16
  BY DEF NibbleAt
<1>4. /\ (v \div 4096) % 16 = p /\ (v \div 256) % 16 = q /\ (v \div 16) % 16 = r
      /\ (v \div 1) % 16 = s
  OBVIOUS
<1>5. (v % 256) \div 16 = r
  OBVIOUS
<1> HIDE DEF v
<1>6. w[1] = v % 256
  BY <1>1
<1> QED BY <1>2, <1>3, <1>4, <1>5, <1>6

-----------------------------------------------------------------------------
(* Rights *)

LEMMA RightsBack ==
  ASSUME NEW r \in Rights
  PROVE  FromRightsBytes(RightsBytes(r)) = {r}
<1> DEFINE w == RightsBytes(r)
<1>1. /\ r = [i \in Slot |-> r[i]]
      /\ r["read"] \in Access /\ r["write"] \in Access /\ r["readWrite"] \in Access
      /\ r["change"] \in Access
  BY DEF Rights, Slot
<1>2. w = LowFirst(Word4(Nibble[r["read"]], Nibble[r["write"]], Nibble[r["readWrite"]],
                         Nibble[r["change"]]))
  BY DEF RightsBytes, Word4
<1> HIDE DEF w
<1>3. /\ NibbleAt(Joined(w), 3) = Nibble[r["read"]] /\ NibbleAt(Joined(w), 2) = Nibble[r["write"]]
      /\ NibbleAt(Joined(w), 1) = Nibble[r["readWrite"]] /\ NibbleAt(Joined(w), 0) = Nibble[r["change"]]
  <2>1. /\ Nibble[r["read"]] \in Nib /\ Nibble[r["write"]] \in Nib
        /\ Nibble[r["readWrite"]] \in Nib /\ Nibble[r["change"]] \in Nib
    BY <1>1, AccessIs
  <2>2. PICK a \in Nib, b \in Nib, c \in Nib, d \in Nib :
          /\ a = Nibble[r["read"]] /\ b = Nibble[r["write"]]
          /\ c = Nibble[r["readWrite"]] /\ d = Nibble[r["change"]]
    BY <2>1
  <2>3. w = LowFirst(Word4(a, b, c, d))
    BY <1>2, <2>2
  <2>4. /\ NibbleAt(Joined(w), 3) = a /\ NibbleAt(Joined(w), 2) = b
        /\ NibbleAt(Joined(w), 1) = c /\ NibbleAt(Joined(w), 0) = d
    BY <2>3, WordsBack
  <2> QED BY <2>2, <2>4
<1>4. /\ FromNibble(NibbleAt(Joined(w), 3)) = {r["read"]}
      /\ FromNibble(NibbleAt(Joined(w), 2)) = {r["write"]}
      /\ FromNibble(NibbleAt(Joined(w), 1)) = {r["readWrite"]}
      /\ FromNibble(NibbleAt(Joined(w), 0)) = {r["change"]}
  BY <1>1, <1>3, NibbleBack
<1>5. FromRightsBytes(w) =
        {[read |-> r["read"], write |-> r["write"], readWrite |-> r["readWrite"], change |-> r["change"]]}
  BY <1>4 DEF FromRightsBytes
<1>6. [read |-> r["read"], write |-> r["write"], readWrite |-> r["readWrite"], change |-> r["change"]] = r
  BY <1>1 DEF Slot
<1> QED BY <1>5, <1>6 DEF w

\* Bytes decode to rights in at most one way.
LEMMA RightsOnce ==
  ASSUME NEW b
  PROVE  /\ FromRightsBytes(b) \subseteq Rights
         /\ \A r, s \in FromRightsBytes(b) : r = s
<1> DEFINE at(i) == FromNibble(NibbleAt(Joined(b), i))
<1>1. \A i : at(i) \subseteq Access /\ \A x, y \in at(i) : x = y
  BY NibbleBack
<1> HIDE DEF at
<1>2. FromRightsBytes(b) = {[read |-> r, write |-> w, readWrite |-> rw, change |-> c] :
         r \in at(3), w \in at(2), rw \in at(1), c \in at(0)}
  BY DEF FromRightsBytes, at
<1>3. ASSUME NEW r \in FromRightsBytes(b)
      PROVE  \E x \in at(3), y \in at(2), z \in at(1), c \in at(0) :
               r = [read |-> x, write |-> y, readWrite |-> z, change |-> c]
  BY <1>2
<1>4. ASSUME NEW x \in Access, NEW y \in Access, NEW z \in Access, NEW c \in Access
      PROVE  [read |-> x, write |-> y, readWrite |-> z, change |-> c] \in Rights
  BY DEF Rights, Slot
<1> QED BY <1>1, <1>3, <1>4

-----------------------------------------------------------------------------
(* The SDM part *)

LEMMA FiveBits ==
  ASSUME NEW a \in {0, 128}, NEW b \in {0, 64}, NEW c \in {0, 32}, NEW d \in {0, 16}, NEW e \in {0, 8},
         NEW o, o = a + b + c + d + e + 1
  PROVE  /\ (o \div 128) % 2 = 1 <=> a = 128
         /\ (o \div 64) % 2 = 1 <=> b = 64
         /\ (o \div 32) % 2 = 1 <=> c = 32
         /\ (o \div 16) % 2 = 1 <=> d = 16
         /\ (o \div 8) % 2 = 1 <=> e = 8
         /\ o % 8 = 1
  OBVIOUS

LEMMA SdmIs ==
  ASSUME NEW s \in SdmFields
  PROVE  /\ s = [meta |-> s.meta, uid |-> s.uid, ctr |-> s.ctr, limit |-> s.limit, enc |-> s.enc,
                 tt |-> s.tt, fileRead |-> s.fileRead, ctrRet |-> s.ctrRet]
         /\ s.meta \in Access /\ s.fileRead \in Access /\ s.fileRead # "free" /\ s.ctrRet \in Access
         /\ s.uid \in BOOLEAN /\ s.ctr \in BOOLEAN /\ s.limit \in BOOLEAN /\ s.enc \in BOOLEAN
         /\ s.tt \in BOOLEAN
  BY DEF SdmFields, Access, Keys

LEMMA OptionsBack ==
  ASSUME NEW s \in SdmFields
  PROVE  /\ IsSet(SdmOptions(s), 128) <=> s.uid
         /\ IsSet(SdmOptions(s), 64) <=> s.ctr
         /\ IsSet(SdmOptions(s), 32) <=> s.limit
         /\ IsSet(SdmOptions(s), 16) <=> s.enc
         /\ IsSet(SdmOptions(s), 8) <=> s.tt
         /\ SdmOptions(s) % 8 = 1
<1>1. ASSUME NEW f \in BOOLEAN, NEW n \in Nat \ {0}
      PROVE  Bit(f, n) \in {0, n} /\ (Bit(f, n) = n <=> f)
  BY DEF Bit
<1>2. /\ Bit(s.uid, 128) \in {0, 128} /\ (Bit(s.uid, 128) = 128 <=> s.uid)
      /\ Bit(s.ctr, 64) \in {0, 64} /\ (Bit(s.ctr, 64) = 64 <=> s.ctr)
      /\ Bit(s.limit, 32) \in {0, 32} /\ (Bit(s.limit, 32) = 32 <=> s.limit)
      /\ Bit(s.enc, 16) \in {0, 16} /\ (Bit(s.enc, 16) = 16 <=> s.enc)
      /\ Bit(s.tt, 8) \in {0, 8} /\ (Bit(s.tt, 8) = 8 <=> s.tt)
  BY <1>1, SdmIs
<1> QED BY <1>2, FiveBits DEF SdmOptions, IsSet

LEMMA SdmWordBack ==
  ASSUME NEW s \in SdmFields
  PROVE  LET w == SdmWord(s)
         IN  /\ FromNibble(NibbleAt(Joined(w), 3)) = {s.meta}
             /\ FromNibble(NibbleAt(Joined(w), 2)) = {s.fileRead}
             /\ FromNibble(NibbleAt(Joined(w), 0)) = {s.ctrRet}
             /\ NibbleAt(Joined(w), 0) = Nibble[s.ctrRet]
             /\ w[1] \div 16 = 15
<1> DEFINE w == SdmWord(s)
<1>1. s.meta \in Access /\ s.fileRead \in Access /\ s.ctrRet \in Access
  BY SdmIs
<1>2. Nibble[s.meta] \in Nib /\ Nibble[s.fileRead] \in Nib /\ Nibble[s.ctrRet] \in Nib
  BY <1>1, AccessIs
<1>3. w = LowFirst(Word4(Nibble[s.meta], Nibble[s.fileRead], 15, Nibble[s.ctrRet]))
  BY DEF SdmWord, Word4
<1> HIDE DEF w
<1>4. /\ NibbleAt(Joined(w), 3) = Nibble[s.meta] /\ NibbleAt(Joined(w), 2) = Nibble[s.fileRead]
      /\ NibbleAt(Joined(w), 0) = Nibble[s.ctrRet] /\ w[1] \div 16 = 15
  <2>1. 15 \in Nib
    BY DEF Nib
  <2>2. PICK a \in Nib, b \in Nib, d \in Nib :
          a = Nibble[s.meta] /\ b = Nibble[s.fileRead] /\ d = Nibble[s.ctrRet]
    BY <1>2
  <2>3. w = LowFirst(Word4(a, b, 15, d))
    BY <1>3, <2>2
  <2>4. /\ NibbleAt(Joined(w), 3) = a /\ NibbleAt(Joined(w), 2) = b
        /\ NibbleAt(Joined(w), 0) = d /\ w[1] \div 16 = 15
    BY <2>1, <2>3, WordsBack
  <2> QED BY <2>2, <2>4
<1>5. /\ FromNibble(NibbleAt(Joined(w), 3)) = {s.meta}
      /\ FromNibble(NibbleAt(Joined(w), 2)) = {s.fileRead}
      /\ FromNibble(NibbleAt(Joined(w), 0)) = {s.ctrRet}
  BY <1>1, <1>4, NibbleBack
<1> QED BY <1>4, <1>5 DEF w

\* Settings that can be expressed come back as they were sent ...
LEMMA SdmBack ==
  ASSUME NEW s \in GoodSdm
  PROVE  /\ SdmFrom(SdmOptions(s), SdmWord(s)) = {s}
         /\ ~SdmRefused(SdmOptions(s), SdmWord(s))
<1> DEFINE o == SdmOptions(s)
           w == SdmWord(s)
<1>1. s \in SdmFields /\ Expressible(s)
  BY DEF GoodSdm
<1>2. /\ FromNibble(NibbleAt(Joined(w), 3)) = {s.meta}
      /\ FromNibble(NibbleAt(Joined(w), 2)) = {s.fileRead}
      /\ FromNibble(NibbleAt(Joined(w), 0)) = {s.ctrRet}
      /\ NibbleAt(Joined(w), 0) = Nibble[s.ctrRet]
      /\ w[1] \div 16 = 15
  BY <1>1, SdmWordBack
<1>3. /\ IsSet(o, 128) <=> s.uid
      /\ IsSet(o, 64) <=> s.ctr
      /\ IsSet(o, 32) <=> s.limit
      /\ IsSet(o, 16) <=> s.enc
      /\ IsSet(o, 8) <=> s.tt
      /\ o % 8 = 1
  BY <1>1, OptionsBack
<1> HIDE DEF o, w
<1> DEFINE x == [meta |-> s.meta, uid |-> s.meta # "none" /\ IsSet(o, 128), ctr |-> s.meta # "none" /\ IsSet(o, 64),
        limit |-> s.meta # "none" /\ IsSet(o, 32), enc |-> s.fileRead # "none" /\ IsSet(o, 16), tt |-> IsSet(o, 8),
        fileRead |-> s.fileRead, ctrRet |-> IF s.meta = "none" THEN "none" ELSE s.ctrRet]
<1>4. SdmFrom(o, w) = {x}
  <2>1. {s.fileRead} \ {"free"} = {s.fileRead}
    BY <1>1, SdmIs
  <2> QED BY <1>2, <2>1 DEF SdmFrom
<1>5. x = s
  <2>1. s.meta = "none" => ~s.uid /\ ~s.ctr
    BY <1>1 DEF Expressible
  <2>2. s.meta = "none" => ~s.limit /\ s.ctrRet = "none"
    BY <1>1, <2>1 DEF Expressible
  <2>3. s.enc => s.fileRead # "none"
    BY <1>1 DEF Expressible
  <2>4. /\ (s.meta # "none" /\ IsSet(o, 128)) = s.uid /\ (s.meta # "none" /\ IsSet(o, 64)) = s.ctr
        /\ (s.meta # "none" /\ IsSet(o, 32)) = s.limit /\ (s.fileRead # "none" /\ IsSet(o, 16)) = s.enc
        /\ IsSet(o, 8) = s.tt /\ (IF s.meta = "none" THEN "none" ELSE s.ctrRet) = s.ctrRet
    BY <1>1, <1>3, <2>1, <2>2, <2>3, SdmIs DEF IsSet
  <2>5. x = [meta |-> s.meta, uid |-> s.uid, ctr |-> s.ctr, limit |-> s.limit, enc |-> s.enc,
             tt |-> s.tt, fileRead |-> s.fileRead, ctrRet |-> s.ctrRet]
    BY <2>4, Zenon
  <2> HIDE DEF x
  <2>6. s = [meta |-> s.meta, uid |-> s.uid, ctr |-> s.ctr, limit |-> s.limit, enc |-> s.enc,
             tt |-> s.tt, fileRead |-> s.fileRead, ctrRet |-> s.ctrRet]
    BY <1>1, SdmIs
  <2> QED BY <2>5, <2>6, Zenon
<1>6. ~SdmRefused(o, w)
  <2>1. ~IsSet(o, 64) => ~IsSet(o, 32) /\ NibbleAt(Joined(w), 0) = 15
    <3>1. ~s.ctr => ~s.limit /\ s.ctrRet = "none"
      BY <1>1 DEF Expressible
    <3> QED BY <1>2, <1>3, <3>1, NibbleIs
  <2>2. ~(s.meta # "none" /\ ~s.uid /\ ~s.ctr) /\ ~(s.enc /\ ~(s.uid /\ s.ctr))
    BY <1>1 DEF Expressible
  <2> QED BY <1>2, <1>3, <1>4, <1>5, <2>1, <2>2 DEF SdmRefused
<1> QED BY <1>4, <1>5, <1>6 DEF o, w

\* ... and whatever bytes decode, they do to settings that can be expressed, in
\* one way.
LEMMA SdmOnce ==
  ASSUME NEW o, NEW w, ~SdmRefused(o, w)
  PROVE  /\ SdmFrom(o, w) \subseteq GoodSdm
         /\ \A s, t \in SdmFrom(o, w) : s = t
<1> DEFINE at(i) == FromNibble(NibbleAt(Joined(w), i))
           of(m, f, c) ==
             [meta |-> m, uid |-> m # "none" /\ IsSet(o, 128), ctr |-> m # "none" /\ IsSet(o, 64),
              limit |-> m # "none" /\ IsSet(o, 32), enc |-> f # "none" /\ IsSet(o, 16), tt |-> IsSet(o, 8),
              fileRead |-> f, ctrRet |-> IF m = "none" THEN "none" ELSE c]
<1>1. \A i : at(i) \subseteq Access /\ \A x, y \in at(i) : x = y
  BY NibbleBack
<1>2. \A c \in at(0) : Nibble[c] = NibbleAt(Joined(w), 0)
  BY DEF FromNibble
<1> HIDE DEF at
<1>3. ASSUME NEW s \in SdmFrom(o, w)
      PROVE  \E m \in at(3), f \in at(2) \ {"free"}, c \in at(0) : s = of(m, f, c)
  BY DEF SdmFrom, at
<1>4. ASSUME NEW s \in SdmFrom(o, w) PROVE s \in GoodSdm
  <2>1. PICK m \in at(3), f \in at(2) \ {"free"}, c \in at(0) : s = of(m, f, c)
    BY <1>3
  <2>2. /\ s.meta = m /\ s.fileRead = f /\ s.ctrRet = (IF m = "none" THEN "none" ELSE c)
        /\ s.uid = (m # "none" /\ IsSet(o, 128)) /\ s.ctr = (m # "none" /\ IsSet(o, 64))
        /\ s.limit = (m # "none" /\ IsSet(o, 32)) /\ s.enc = (f # "none" /\ IsSet(o, 16))
        /\ s.tt = IsSet(o, 8)
    BY <2>1
  <2>3. m \in Access /\ f \in Keys \union {"none"} /\ c \in Access
    BY <1>1 DEF Access
  <2>4. s \in SdmFields
    BY <2>1, <2>3 DEF SdmFields, IsSet, Access
  <2>5. ~(m # "none" /\ ~s.uid /\ ~s.ctr) /\ ~(s.enc /\ ~(s.uid /\ s.ctr))
    BY <2>2, Zenon DEF SdmRefused
  <2>6. IsSet(o, 64) \/ (~IsSet(o, 32) /\ NibbleAt(Joined(w), 0) = 15)
    BY DEF SdmRefused
  <2>7. NibbleAt(Joined(w), 0) = 15 => c = "none"
    BY <1>1, <1>2, NibbleIs, AccessIs
  <2>8. Expressible(s)
    BY <2>2, <2>5, <2>6, <2>7, ZenonT(60) DEF Expressible
  <2> QED BY <2>4, <2>8 DEF GoodSdm
<1>5. ASSUME NEW s \in SdmFrom(o, w), NEW t \in SdmFrom(o, w) PROVE s = t
  <2>1. PICK m \in at(3), f \in at(2) \ {"free"}, c \in at(0) : s = of(m, f, c)
    BY <1>3
  <2>2. PICK n \in at(3), g \in at(2) \ {"free"}, d \in at(0) : t = of(n, g, d)
    BY <1>3
  <2> HIDE DEF of
  <2>3. m = n /\ f = g /\ c = d
    BY <1>1
  <2> QED BY <2>1, <2>2, <2>3
<1> QED BY <1>4, <1>5

-----------------------------------------------------------------------------
(* File settings *)

LEMMA PairWithin ==
  ASSUME NEW S, NEW b \in Seq(S), NEW i \in Nat \ {0}, NEW k \in Nat, k = i + 1,
         k <= Len(b)
  PROVE  SubSeq(b, i, k) = <<b[i], b[k]>>
<1> DEFINE s == SubSeq(b, i, k)
           t == <<b[i], b[k]>>
<1>1. b[i] \in S /\ b[k] \in S
  OBVIOUS
<1>2. t \in Seq(S) /\ Len(t) = 2 /\ t[1] = b[i] /\ t[2] = b[k]
  BY <1>1
<1>3. s \in Seq(S) /\ Len(s) = 2 /\ s[1] = b[i] /\ s[2] = b[k]
  BY SubSeqProperties
<1> HIDE DEF s, t
<1>4. \A j \in 1 .. Len(s) : s[j] = t[j]
  <2>1. \A j \in 1 .. Len(s) : j = 1 \/ j = 2
    BY <1>3
  <2> QED BY <1>2, <1>3, <2>1
<1>5. s = t
  BY <1>2, <1>3, <1>4, SeqEqual
<1> QED BY <1>5 DEF s, t

IsPair(r) == \E p, q : r = <<p, q>>

\* The two forms of settings: without and with an SDM part.
ShortForm(x, r) == <<x>> \o r \o << >>
LongForm(x, r, o, w) == <<x>> \o r \o (<<o>> \o w)

LEMMA ShortBytes ==
  ASSUME NEW x, NEW r, IsPair(r)
  PROVE  ShortForm(x, r)[1] = x /\ SubSeq(ShortForm(x, r), 2, 3) = r
<1>0. PICK p, q : r = <<p, q>>
  BY DEF IsPair
<1> DEFINE S == {x, p, q}
           b == <<x>> \o <<p, q>> \o << >>
<1>1. b \in Seq(S) /\ Len(b) = 3 /\ b[1] = x /\ b[2] = p /\ b[3] = q
  <2>1. <<x>> \in Seq(S) /\ <<p, q>> \in Seq(S) /\ << >> \in Seq(S)
    OBVIOUS
  <2> HIDE DEF S
  <2>2. /\ <<x>> \o <<p, q>> \in Seq(S) /\ Len(<<x>> \o <<p, q>>) = 3
        /\ (<<x>> \o <<p, q>>)[1] = x /\ (<<x>> \o <<p, q>>)[2] = p /\ (<<x>> \o <<p, q>>)[3] = q
    BY <2>1
  <2>3. b = <<x>> \o <<p, q>>
    BY <2>1, <2>2, ConcatEmptySeq
  <2> QED BY <2>2, <2>3
<1>r. ShortForm(x, r) = b
  BY <1>0 DEF ShortForm
<1> HIDE DEF S, b
<1>2. SubSeq(b, 2, 3) = <<b[2], b[3]>>
  <2>1. b \in Seq(S) /\ 2 \in Nat \ {0} /\ 3 \in Nat /\ 3 = 2 + 1 /\ 3 <= Len(b)
    BY <1>1
  <2> QED BY <2>1, PairWithin, Zenon
<1> QED BY <1>0, <1>1, <1>2, <1>r

LEMMA ThreeAndThree ==
  ASSUME NEW S, NEW c \in Seq(S), NEW d \in Seq(S), Len(c) = 3, Len(d) = 3
  PROVE  /\ c \o d \in Seq(S) /\ Len(c \o d) = 6
         /\ (c \o d)[1] = c[1] /\ (c \o d)[2] = c[2] /\ (c \o d)[3] = c[3]
         /\ (c \o d)[4] = d[1] /\ (c \o d)[5] = d[2] /\ (c \o d)[6] = d[3]
<1> DEFINE b == c \o d
<1>1. /\ b \in Seq(S) /\ Len(b) = Len(c) + Len(d)
      /\ \A i \in 1 .. Len(c) + Len(d) : b[i] = IF i <= Len(c) THEN c[i] ELSE d[i - Len(c)]
  BY ConcatProperties, Zenon
<1> HIDE DEF b
<1>2. Len(b) = 6 /\ \A i \in 1 .. 6 : b[i] = IF i <= 3 THEN c[i] ELSE d[i - 3]
  BY <1>1
<1>3. /\ b[1] = c[1] /\ b[2] = c[2] /\ b[3] = c[3]
      /\ b[4] = d[1] /\ b[5] = d[2] /\ b[6] = d[3]
  BY <1>2
<1> QED BY <1>1, <1>2, <1>3 DEF b

LEMMA LongBytes ==
  ASSUME NEW x, NEW r, NEW o, NEW w, IsPair(r), IsPair(w)
  PROVE  /\ LongForm(x, r, o, w)[1] = x /\ LongForm(x, r, o, w)[4] = o
         /\ SubSeq(LongForm(x, r, o, w), 2, 3) = r /\ SubSeq(LongForm(x, r, o, w), 5, 6) = w
<1>0. PICK p, q : r = <<p, q>>
  BY DEF IsPair
<1>w. PICK v, u : w = <<v, u>>
  BY DEF IsPair
<1> DEFINE S == {x, p, q, o, v, u}
           c == <<x>> \o <<p, q>>
           d == <<o>> \o <<v, u>>
<1>1. /\ c \in Seq(S) /\ Len(c) = 3 /\ c[1] = x /\ c[2] = p /\ c[3] = q
      /\ d \in Seq(S) /\ Len(d) = 3 /\ d[1] = o /\ d[2] = v /\ d[3] = u
  <2>1. <<x>> \in Seq(S) /\ <<p, q>> \in Seq(S) /\ <<o>> \in Seq(S) /\ <<v, u>> \in Seq(S)
    OBVIOUS
  <2> HIDE DEF S
  <2> QED BY <2>1
<1> HIDE DEF S
<1> DEFINE b == c \o d
<1>r. LongForm(x, r, o, w) = b
  BY <1>0, <1>w DEF LongForm
<1> HIDE DEF c, d
<1>3. /\ b \in Seq(S) /\ Len(b) = 6 /\ b[1] = x /\ b[2] = p /\ b[3] = q /\ b[4] = o
      /\ b[5] = v /\ b[6] = u
  BY <1>1, ThreeAndThree
<1> HIDE DEF b
<1>4. SubSeq(b, 2, 3) = <<b[2], b[3]>>
  <2>1. b \in Seq(S) /\ 2 \in Nat \ {0} /\ 3 \in Nat /\ 3 = 2 + 1 /\ 3 <= Len(b)
    BY <1>3
  <2> QED BY <2>1, PairWithin, Zenon
<1>5. SubSeq(b, 5, 6) = <<b[5], b[6]>>
  <2>1. b \in Seq(S) /\ 5 \in Nat \ {0} /\ 6 \in Nat /\ 6 = 5 + 1 /\ 6 <= Len(b)
    BY <1>3
  <2> QED BY <2>1, PairWithin, Zenon
<1> QED BY <1>0, <1>w, <1>r, <1>3, <1>4, <1>5

LEMMA ModeBack ==
  ASSUME NEW m \in CommMode, NEW on \in BOOLEAN,
         NEW v, v = ModeBits[m] + Bit(on, 64)
  PROVE  /\ ~ReservedBits(v) /\ (IsSet(v, 64) <=> on)
         /\ FromBits(v) = m
<1>1. ModeBits["plain"] = 0 /\ ModeBits["mac"] = 1 /\ ModeBits["full"] = 3
  BY DEF ModeBits
<1>2. Bit(on, 64) = IF on THEN 64 ELSE 0
  BY DEF Bit
<1>3. ASSUME NEW n \in {0, 1, 3}, NEW e \in {0, 64}, v = n + e
      PROVE  ~ReservedBits(v) /\ (IsSet(v, 64) <=> e = 64) /\ v % 4 = n
  BY <1>3 DEF ReservedBits, IsSet
<1>4. /\ v % 4 = 0 => FromBits(v) = "plain"
      /\ v % 4 = 1 => FromBits(v) = "mac"
      /\ v % 4 = 3 => FromBits(v) = "full"
  <2>1. 0 # 1 /\ 0 # 3 /\ 1 # 3 /\ 3 # 1
    OBVIOUS
  <2> QED BY <2>1, Zenon DEF FromBits
<1>5. m = "plain" \/ m = "mac" \/ m = "full"
  BY DEF CommMode
<1> QED BY <1>1, <1>2, <1>3, <1>4, <1>5

LEMMA PairIs == \A r : IsPair(RightsBytes(r))
  BY DEF RightsBytes, LowFirst, IsPair
LEMMA PairIsToo == \A s : IsPair(SdmWord(s))
  BY DEF SdmWord, LowFirst, IsPair

LEMMA SettingsBack ==
  ASSUME NEW s \in GoodSettings
  PROVE  Decoded(Encoded(s)) = {s}
<1> DEFINE v == ModeBits[s.mode] + Bit(s.sdm # {}, 64)
           b == Encoded(s)
<1>1. /\ s \in Settings /\ s.mode \in CommMode /\ s.rights \in Rights
      /\ s = [mode |-> s.mode, rights |-> s.rights, sdm |-> s.sdm]
  BY DEF GoodSettings, Settings
<1>2. ~ReservedBits(v) /\ (IsSet(v, 64) <=> s.sdm # {}) /\ FromBits(v) = s.mode
  <2> DEFINE on == s.sdm # {}
  <2>1. on \in BOOLEAN /\ v = ModeBits[s.mode] + Bit(on, 64)
    OBVIOUS
  <2> HIDE DEF on, v
  <2>2. ~ReservedBits(v) /\ (IsSet(v, 64) <=> on) /\ FromBits(v) = s.mode
    BY <1>1, <2>1, ModeBack
  <2> QED BY <2>2 DEF on
<1> HIDE DEF v
<1> DEFINE rb == RightsBytes(s.rights)
<1>3. IsPair(rb)
  BY PairIs
<1>4. FromRightsBytes(rb) = {s.rights}
  BY <1>1, <1>3, RightsBack
<1>5. CASE s.sdm = {}
  <2>1. b = ShortForm(v, rb)
    BY <1>5, Zenon DEF Encoded, v, ShortForm
  <2> HIDE DEF b, rb
  <2>2. b[1] = v /\ SubSeq(b, 2, 3) = rb
    BY <1>3, <2>1, ShortBytes, Zenon
  <2>3. Decoded(b) = {[mode |-> FromBits(v), rights |-> r, sdm |-> x] : r \in {s.rights}, x \in {{}}}
    <3>1. FromRightsBytes(SubSeq(b, 2, 3)) = {s.rights} /\ ~ReservedBits(b[1]) /\ ~IsSet(b[1], 64)
      BY <1>2, <1>4, <1>5, <2>2
    <3>2. Decoded(b) = {[mode |-> FromBits(b[1]), rights |-> r, sdm |-> x] :
                          r \in FromRightsBytes(SubSeq(b, 2, 3)), x \in {{}}}
      BY <3>1 DEF Decoded
    <3> QED BY <2>2, <3>1, <3>2
  <2>4. Decoded(b) = {[mode |-> s.mode, rights |-> s.rights, sdm |-> s.sdm]}
    BY <1>2, <1>5, <2>3
  <2> QED BY <1>1, <2>4 DEF b
<1>6. CASE s.sdm # {}
  <2>1. PICK x \in GoodSdm : s.sdm = {x}
    BY <1>6 DEF GoodSettings
  <2> DEFINE o == SdmOptions(x)
             w == SdmWord(x)
  <2>2. IsPair(w)
    BY PairIsToo
  <2>3. b = LongForm(v, rb, o, w)
    <3>1. (CHOOSE e \in s.sdm : TRUE) = x
      BY <2>1
    <3> QED BY <1>6, <3>1, Zenon DEF Encoded, v, LongForm
  <2>5. SdmFrom(o, w) = {x} /\ ~SdmRefused(o, w)
    BY SdmBack
  <2> HIDE DEF b, rb, o, w
  <2>4. b[1] = v /\ SubSeq(b, 2, 3) = rb /\ b[4] = o /\ SubSeq(b, 5, 6) = w
    BY <1>3, <2>2, <2>3, LongBytes
  <2>6. Decoded(b) = {[mode |-> FromBits(v), rights |-> r, sdm |-> e] : r \in {s.rights}, e \in {{x}}}
    <3>1. FromRightsBytes(SubSeq(b, 2, 3)) = {s.rights} /\ ~ReservedBits(b[1]) /\ IsSet(b[1], 64)
      BY <1>2, <1>4, <1>6, <2>4
    <3>2. /\ ~SdmRefused(b[4], SubSeq(b, 5, 6))
          /\ {{e} : e \in SdmFrom(b[4], SubSeq(b, 5, 6))} = {{x}}
      BY <2>4, <2>5
    <3>3. Decoded(b) = {[mode |-> FromBits(b[1]), rights |-> r, sdm |-> e] :
                          r \in FromRightsBytes(SubSeq(b, 2, 3)),
                          e \in {{d} : d \in SdmFrom(b[4], SubSeq(b, 5, 6))}}
      BY <3>1, <3>2 DEF Decoded
    <3> QED BY <2>4, <3>1, <3>2, <3>3
  <2>7. Decoded(b) = {[mode |-> s.mode, rights |-> s.rights, sdm |-> s.sdm]}
    BY <1>2, <2>1, <2>6
  <2> QED BY <1>1, <2>7 DEF b
<1> QED BY <1>5, <1>6

LEMMA SettingsOnce ==
  ASSUME NEW b
  PROVE  Decoded(b) \subseteq GoodSettings /\ \A s, t \in Decoded(b) : s = t
<1> DEFINE sdm == IF ~IsSet(b[1], 64) THEN {{}}
                  ELSE IF SdmRefused(b[4], SubSeq(b, 5, 6)) THEN {}
                  ELSE {{x} : x \in SdmFrom(b[4], SubSeq(b, 5, 6))}
           rights == FromRightsBytes(SubSeq(b, 2, 3))
           m == FromBits(b[1])
<1>1. \A s \in sdm : s = {} \/ \E x \in GoodSdm : s = {x}
  BY SdmOnce
<1>2. \A s, t \in sdm : s = t
  BY SdmOnce
<1>3. rights \subseteq Rights /\ \A r, s \in rights : r = s
  BY RightsOnce
<1>4. m \in CommMode
  BY Zenon DEF FromBits, CommMode
<1> HIDE DEF sdm, rights, m
<1>5. Decoded(b) \subseteq {[mode |-> m, rights |-> r, sdm |-> s] : r \in rights, s \in sdm}
  <2>1. CASE ReservedBits(b[1])
    BY <2>1 DEF Decoded
  <2>2. CASE ~ReservedBits(b[1])
    BY <2>2 DEF Decoded, m, rights, sdm
  <2> QED BY <2>1, <2>2
<1>6. ASSUME NEW s \in Decoded(b)
      PROVE  \E r \in rights, e \in sdm : s = [mode |-> m, rights |-> r, sdm |-> e]
  BY <1>5
<1>7. ASSUME NEW s \in Decoded(b) PROVE s \in GoodSettings
  <2>1. PICK r \in rights, e \in sdm : s = [mode |-> m, rights |-> r, sdm |-> e]
    BY <1>6
  <2>2. r \in Rights /\ (e = {} \/ \E x \in GoodSdm : e = {x})
    BY <1>1, <1>3
  <2>3. e \in SUBSET SdmFields
    BY <2>2 DEF GoodSdm
  <2> QED BY <1>4, <2>1, <2>2, <2>3 DEF GoodSettings, Settings
<1>8. \A s, t \in Decoded(b) : s = t
  BY <1>2, <1>3, <1>6
<1> QED BY <1>7, <1>8

-----------------------------------------------------------------------------
(* The invariant *)

CallType ==
  [op: {"none", "edit", "read", "write", "configure", "reset"}, step: 0 .. 3, key: Keys,
   file: File, view: SUBSET GoodSettings, out: {"running", "ok", "undecoded", "refused", "lost"}]

\* The tag has settings for every file, and a container.
TagShape == tag = [settings |-> [f \in File |-> tag.settings[f]], cc |-> tag.cc]

Running == call.out = "running"

\* What a call has read is still what the tag has: no other call comes between.
ViewFresh ==
  Running /\ (call.op = "edit" => call.step = 0) /\ call.op \in {"edit", "read", "write"} =>
    call.view = OnTag(call.file)

\* What a caller has made of it is one value that the library can express.
ViewChanged ==
  Running /\ call.op = "edit" /\ call.step # 0 => \E c \in GoodSettings : call.view = {c}

Handed == WithWriteAccess(Default, "ndef", <<"key", 0>>)

\* How far `configure_ndef` and `reset` have come.
ConfigureDone ==
  call.op = "configure" =>
    /\ (Running /\ call.step >= 2) \/ call.out = "ok"
         => tag.settings["ndef"] = Encoded(Provisioned(Template))
    /\ call.out = "ok" => tag.cc = ToBytes(Handed)
ResetDone ==
  call.op = "reset" =>
    /\ (Running /\ call.step >= 1) \/ call.out = "ok"
         => tag.settings["ndef"] = Encoded(Factory["ndef"])
    /\ (Running /\ call.step >= 3) \/ call.out = "ok" => tag.cc = ToBytes(Default)

PersInv ==
  /\ call \in CallType /\ TagShape
  /\ ViewFresh /\ ViewChanged
  /\ ConfigureDone /\ ResetDone

-----------------------------------------------------------------------------
(* How calls and settings change *)

LEMMA CallIs ==
  ASSUME call \in CallType
  PROVE  call = [op |-> call.op, step |-> call.step, key |-> call.key, file |-> call.file,
                 view |-> call.view, out |-> call.out]
  BY DEF CallType

LEMMA NoCallIs == NoCall \in CallType /\ NoCall.op = "none" /\ NoCall.out = "ok"
<1>1. "key0" \in Keys /\ "ndef" \in File /\ {} \subseteq GoodSettings /\ 0 \in 0 .. 3
  BY DEF Keys, File
<1> QED BY <1>1 DEF NoCall, CallType

\* A call that ends keeps nothing but its name.
LEMMA EndIs ==
  ASSUME call \in CallType, NEW out \in {"ok", "undecoded", "refused", "lost"}, Ends(out)
  PROVE  call' \in CallType /\ call'.op = call.op /\ call'.out = out
<1>1. "key0" \in Keys /\ "ndef" \in File /\ {} \subseteq GoodSettings /\ 0 \in 0 .. 3
  BY DEF Keys, File
<1>2. call' = [op |-> call.op, step |-> 0, key |-> "key0", file |-> "ndef", view |-> {}, out |-> out]
  BY DEF Ends, NoCall
<1> QED BY <1>1, <1>2 DEF CallType

LEMMA ProceedIs ==
  ASSUME call \in CallType, call.step \in 0 .. 2, Proceeds
  PROVE  /\ call' \in CallType
         /\ call'.op = call.op /\ call'.out = call.out /\ call'.step = call.step + 1
<1>1. call' = [op |-> call.op, step |-> call.step + 1, key |-> call.key, file |-> call.file,
               view |-> call.view, out |-> call.out]
  BY CallIs DEF Proceeds
<1>2. call.step + 1 \in 0 .. 3
  OBVIOUS
<1> QED BY <1>1, <1>2 DEF CallType

LEMMA ViewsGood == \A f : OnTag(f) \subseteq GoodSettings /\ \A s, t \in OnTag(f) : s = t
  BY SettingsOnce DEF OnTag

LEMMA Stored ==
  ASSUME TagShape, NEW f \in File, NEW bytes, tag' = WithSettings(f, bytes)
  PROVE  /\ TagShape' /\ tag'.cc = tag.cc /\ tag'.settings[f] = bytes
         /\ \A g \in File \ {f} : tag'.settings[g] = tag.settings[g]
<1> DEFINE m == [g \in File |-> tag.settings[g]]
           n == [g \in File |-> IF g = f THEN bytes ELSE tag.settings[g]]
<1>1. tag = [settings |-> m, cc |-> tag.cc]
  BY DEF TagShape
<1>2. tag' = [settings |-> [tag.settings EXCEPT ![f] = bytes], cc |-> tag.cc]
  BY <1>1 DEF WithSettings
<1>3. tag.settings = m
  BY <1>1
<1>4. [tag.settings EXCEPT ![f] = bytes] = n
  BY <1>3
<1> HIDE DEF m, n
<1>5. tag'.settings = n /\ tag'.cc = tag.cc
  BY <1>2, <1>4
<1>6. tag' = [settings |-> n, cc |-> tag'.cc]
  BY <1>2, <1>4, <1>5
<1> QED BY <1>5, <1>6 DEF n, TagShape

LEMMA ContainerStored ==
  ASSUME TagShape, NEW bytes, tag' = [tag EXCEPT !.cc = bytes]
  PROVE  TagShape' /\ tag'.cc = bytes /\ tag'.settings = tag.settings
<1>1. tag' = [settings |-> tag.settings, cc |-> bytes]
  BY DEF TagShape
<1> QED BY <1>1 DEF TagShape

LEMMA TemplateGood == Provisioned(Template) \in GoodSettings
<1>1. Template \in GoodSdm
  BY TemplateAssumption DEF GoodSdm
<1>2. /\ "free" \in Access /\ "none" \in Access /\ "key0" \in Access /\ "plain" \in CommMode
      /\ {Template} \in SUBSET SdmFields
  BY <1>1 DEF Access, Keys, CommMode, GoodSdm
<1>3. RightsOf("free", "none", "key0", "key0") \in Rights
  BY <1>2 DEF RightsOf, Rights, Slot
<1> QED BY <1>1, <1>2, <1>3 DEF Provisioned, GoodSettings, Settings

LEMMA FactoryGood == \A f \in File : Factory[f] \in GoodSettings
<1>1. /\ "free" \in Access /\ "key0" \in Access /\ "key2" \in Access /\ "key3" \in Access
      /\ "plain" \in CommMode /\ "full" \in CommMode
  BY DEF Access, Keys, CommMode
<1>2. \A a, b, c, d \in Access : RightsOf(a, b, c, d) \in Rights
  BY DEF RightsOf, Rights, Slot
<1>3. \A m \in CommMode, r \in Rights : [mode |-> m, rights |-> r, sdm |-> {}] \in GoodSettings
  BY DEF GoodSettings, Settings
<1> QED BY <1>1, <1>2, <1>3 DEF Factory, File

\* A changed setting is one that the library can express.
LEMMA ChangesGood ==
  ASSUME NEW f \in File, NEW s \in GoodSettings, NEW c \in Changes(f, s)
  PROVE  c \in GoodSettings
<1>1. /\ s.mode \in CommMode /\ s.rights \in Rights
      /\ s = [mode |-> s.mode, rights |-> s.rights, sdm |-> s.sdm]
      /\ s.sdm \in SUBSET SdmFields
      /\ s.sdm = {} \/ \E x \in GoodSdm : s.sdm = {x}
  BY DEF GoodSettings, Settings
<1>2. ASSUME NEW m \in CommMode, NEW r \in Rights, NEW e \in SUBSET SdmFields,
             e = {} \/ \E x \in GoodSdm : e = {x}
      PROVE  [mode |-> m, rights |-> r, sdm |-> e] \in GoodSettings
  BY <1>2 DEF GoodSettings, Settings
<1>3. CASE \E m \in CommMode : c = [s EXCEPT !.mode = m]
  <2>1. PICK m \in CommMode : c = [mode |-> m, rights |-> s.rights, sdm |-> s.sdm]
    BY <1>1, <1>3
  <2> QED BY <1>1, <1>2, <2>1
<1>4. CASE \E r \in Slot, a \in SomeAccess : c = [s EXCEPT !.rights[r] = a]
  <2>1. PICK r \in Slot, a \in SomeAccess : c = [s EXCEPT !.rights[r] = a]
    BY <1>4
  <2>2. c = [mode |-> s.mode, rights |-> [s.rights EXCEPT ![r] = a], sdm |-> s.sdm]
    BY <1>1, <2>1
  <2>3. [s.rights EXCEPT ![r] = a] \in Rights
    BY <1>1, <2>1, SampleAssumption DEF Rights
  <2> QED BY <1>1, <1>2, <2>2, <2>3
<1>5. CASE c = [s EXCEPT !.sdm = {}]
  <2>1. c = [mode |-> s.mode, rights |-> s.rights, sdm |-> {}]
    BY <1>1, <1>5
  <2> QED BY <1>1, <1>2, <2>1
<1>6. CASE \E x \in SomeSdm : c = [s EXCEPT !.sdm = {x}]
  <2>1. PICK x \in SomeSdm : c = [mode |-> s.mode, rights |-> s.rights, sdm |-> {x}]
    BY <1>1, <1>6
  <2>2. x \in GoodSdm /\ {x} \in SUBSET SdmFields
    BY <2>1, SampleAssumption DEF GoodSdm
  <2> QED BY <1>1, <1>2, <2>1, <2>2
<1> QED BY <1>3, <1>4, <1>5, <1>6 DEF Changes

-----------------------------------------------------------------------------
(* The invariant is kept *)

\* A call that has failed leaves nothing to show.
LEMMA FailedKeeps ==
  ASSUME call' \in CallType, TagShape', call'.out \in {"undecoded", "refused", "lost"}
  PROVE  PersInv'
  BY DEF PersInv, ViewFresh, ViewChanged, ConfigureDone, ResetDone, Running

\* A call on a single file has nothing to show but its view.
LEMMA SimpleKeeps ==
  ASSUME call' \in CallType, TagShape', call'.op \in {"edit", "read", "write"},
         ViewFresh', ViewChanged'
  PROVE  PersInv'
  BY DEF PersInv, ConfigureDone, ResetDone

LEMMA EndedKeeps ==
  ASSUME call' \in CallType, TagShape', call'.op \in {"edit", "read", "write"}, call'.out = "ok"
  PROVE  PersInv'
  BY SimpleKeeps DEF ViewFresh, ViewChanged, Running

LEMMA InitKeeps == InitPersonalisation => PersInv
<1> SUFFICES ASSUME InitPersonalisation PROVE PersInv
  OBVIOUS
<1>1. call = NoCall
  BY DEF InitPersonalisation
<1>2. PICK o \in {3, 7} : tag = [settings |-> FactoryBytes(o), cc |-> ToBytes(Default)]
  BY DEF InitPersonalisation
<1>3. FactoryBytes(o) = [f \in File |-> FactoryBytes(o)[f]]
  BY DEF FactoryBytes, File
<1>4. TagShape
  BY <1>2, <1>3 DEF TagShape
<1> QED BY <1>1, <1>4, NoCallIs DEF PersInv, ViewFresh, ViewChanged, ConfigureDone, ResetDone, Running

LEMMA CallMade ==
  ASSUME NEW o \in {"none", "edit", "read", "write", "configure", "reset"}, NEW n \in 0 .. 3,
         NEW k \in Keys, NEW f \in File, NEW v \in SUBSET GoodSettings,
         NEW out \in {"running", "ok", "undecoded", "refused", "lost"}
  PROVE  [op |-> o, step |-> n, key |-> k, file |-> f, view |-> v, out |-> out] \in CallType
  BY DEF CallType

\* A call that reads settings first.
Begun(op, k, f) ==
  [op |-> op, step |-> 0, key |-> k, file |-> f, view |-> OnTag(f), out |-> "running"]

LEMMA BegunIs ==
  ASSUME NEW op, NEW k, NEW f, NEW c,
         c = [NoCall EXCEPT !.op = op, !.key = k, !.file = f, !.view = OnTag(f), !.out = "running"]
  PROVE  c = Begun(op, k, f)
  BY DEF NoCall, Begun

LEMMA BeginIs ==
  ASSUME NEW op \in {"edit", "read", "write"}, NEW k \in SomeKeys, NEW f \in File, NEW c,
         c = Begun(op, k, f)
  PROVE  /\ c \in CallType
         /\ c.op = op /\ c.step = 0 /\ c.file = f /\ c.view = OnTag(f)
         /\ c.out = "running"
<1>1. k \in Keys /\ OnTag(f) \in SUBSET GoodSettings /\ 0 \in 0 .. 3
  BY SampleAssumption, ViewsGood
<1>2. /\ op \in {"none", "edit", "read", "write", "configure", "reset"}
      /\ "running" \in {"running", "ok", "undecoded", "refused", "lost"}
  OBVIOUS
<1>3. c \in CallType
  BY <1>1, <1>2, CallMade, Zenon DEF Begun
<1>4. c.op = op /\ c.step = 0 /\ c.file = f /\ c.view = OnTag(f) /\ c.out = "running"
  BY DEF Begun
<1> QED BY <1>3, <1>4, Zenon

LEMMA BeginKeeps ==
  ASSUME PersInv, NEW op \in {"edit", "read", "write"}, NEW k \in SomeKeys, NEW f \in File,
         call' = Begun(op, k, f), UNCHANGED tag
  PROVE  PersInv'
<1>1. /\ call' \in CallType
      /\ call'.op = op /\ call'.step = 0 /\ call'.file = f /\ call'.view = OnTag(f)
  BY BeginIs
<1>2. TagShape'
  BY DEF PersInv, TagShape
<1>3. ViewFresh'
  BY <1>1 DEF ViewFresh, OnTag
<1>4. ViewChanged'
  BY <1>1 DEF ViewChanged
<1> QED BY <1>1, <1>2, <1>3, <1>4, SimpleKeeps

LEMMA ModifyKeeps == PersInv /\ Modify => PersInv'
<1> SUFFICES ASSUME PersInv, Modify PROVE PersInv'
  OBVIOUS
<1>1. call \in CallType /\ TagShape /\ call.op = "edit"
  BY DEF PersInv, Modify
<1>2. CASE Undecoded
  BY <1>1, <1>2, EndIs, FailedKeeps DEF Undecoded, TagShape
<1>3. ASSUME NEW s \in call.view, NEW c \in Changes(call.file, s),
             call' = [call EXCEPT !.view = {c}, !.step = 1], UNCHANGED tag
      PROVE  PersInv'
  <2>1. c \in GoodSettings
    BY <1>1, ChangesGood DEF CallType
  <2>2. call' = [op |-> call.op, step |-> 1, key |-> call.key, file |-> call.file,
                 view |-> {c}, out |-> call.out]
    BY <1>1, <1>3, CallIs
  <2>3. call' \in CallType /\ call'.op = "edit" /\ call'.step = 1 /\ call'.view = {c}
    <3>1. {c} \in SUBSET GoodSettings /\ 1 \in 0 .. 3
      BY <2>1
    <3> QED BY <1>1, <2>2, <3>1 DEF CallType
  <2>4. ViewFresh' /\ ViewChanged'
    BY <2>1, <2>3 DEF ViewFresh, ViewChanged
  <2>5. TagShape'
    BY <1>1, <1>3 DEF TagShape
  <2> QED BY <2>3, <2>4, <2>5, SimpleKeeps
<1> QED BY <1>2, <1>3 DEF Modify

LEMMA ChangeIs ==
  ASSUME PersInv, ChangeFileSettings
  PROVE  /\ call \in CallType /\ TagShape /\ call.op = "edit"
         /\ \E out \in {"ok", "refused", "lost"} : Ends(out)
         /\ \/ UNCHANGED tag
            \/ \E c \in GoodSettings : call.view = {c} /\ tag' = WithSettings(call.file, Encoded(c))
<1>1. PICK c \in GoodSettings : call.view = {c}
  BY DEF PersInv, ViewChanged, ChangeFileSettings, Running
<1> QED BY <1>1 DEF PersInv, ChangeFileSettings, Exchange

LEMMA ChangeKeeps == PersInv /\ ChangeFileSettings => PersInv'
<1> SUFFICES ASSUME PersInv, ChangeFileSettings PROVE PersInv'
  OBVIOUS
<1>1. call \in CallType /\ TagShape /\ call.op = "edit"
  BY ChangeIs
<1>2. PICK out \in {"ok", "refused", "lost"} : Ends(out)
  BY ChangeIs
<1>3. TagShape'
  <2>1. call.file \in File
    BY <1>1 DEF CallType
  <2>2. UNCHANGED tag \/ \E c : tag' = WithSettings(call.file, Encoded(c))
    BY ChangeIs
  <2>3. CASE UNCHANGED tag
    BY <1>1, <2>3 DEF TagShape
  <2>4. CASE \E c : tag' = WithSettings(call.file, Encoded(c))
    BY <1>1, <2>1, <2>4, Stored
  <2> QED BY <2>2, <2>3, <2>4
<1>4. call' \in CallType /\ call'.op = "edit" /\ call'.out = out
  BY <1>1, <1>2, EndIs
<1> QED BY <1>3, <1>4, FailedKeeps, EndedKeeps

LEMMA TransferKeeps == PersInv /\ Transfer => PersInv'
<1> SUFFICES ASSUME PersInv, Transfer PROVE PersInv'
  OBVIOUS
<1>1. call \in CallType /\ TagShape /\ call.op \in {"read", "write"}
  BY DEF PersInv, Transfer
<1>2. UNCHANGED tag /\ \E out \in {"ok", "undecoded", "refused", "lost"} : Ends(out)
  BY DEF Transfer, Exchange, Undecoded
<1>3. PICK out \in {"ok", "undecoded", "refused", "lost"} : Ends(out)
  BY <1>2
<1>4. call' \in CallType /\ call'.op \in {"read", "write"} /\ call'.out = out /\ TagShape'
  BY <1>1, <1>2, <1>3, EndIs DEF TagShape
<1> QED BY <1>4, FailedKeeps, EndedKeeps

\* `configure_ndef` and `reset`.
LEMMA UpdateBegins ==
  ASSUME PersInv, NEW op \in {"configure", "reset"}, BeginUpdate(op)
  PROVE  PersInv'
<1>1. PICK c : c = call' /\ c = [NoCall EXCEPT !.op = op, !.out = "running"]
  BY DEF BeginUpdate
<1>2. c = [op |-> op, step |-> 0, key |-> "key0", file |-> "ndef", view |-> {}, out |-> "running"]
  BY <1>1 DEF NoCall
<1>3. /\ op \in {"none", "edit", "read", "write", "configure", "reset"} /\ 0 \in 0 .. 3
      /\ "running" \in {"running", "ok", "undecoded", "refused", "lost"}
      /\ "key0" \in Keys /\ "ndef" \in File /\ {} \in SUBSET GoodSettings
  BY DEF Keys, File
<1>4. c \in CallType
  BY <1>2, <1>3, CallMade, Zenon
<1>5. c.op = op /\ c.step = 0 /\ c.out = "running"
  BY <1>2
<1>6. call' \in CallType /\ call'.op = op /\ call'.step = 0 /\ call'.out = "running"
  BY <1>1, <1>4, <1>5, Zenon
<1>7. TagShape'
  BY DEF PersInv, TagShape, BeginUpdate
<1>8. ViewFresh' /\ ViewChanged'
  BY <1>6 DEF ViewFresh, ViewChanged
<1>9. ConfigureDone' /\ ResetDone'
  <2>1. 0 # 1 /\ ~(0 >= 1) /\ ~(0 >= 2) /\ ~(0 >= 3) /\ "running" # "ok"
    OBVIOUS
  <2> QED BY <1>6, <2>1, Zenon DEF ConfigureDone, ResetDone
<1> QED BY <1>6, <1>7, <1>8, <1>9 DEF PersInv

\* What the steps of these two leave to show.
LEMMA UpdateKeeps ==
  ASSUME call' \in CallType, TagShape', call'.op \in {"configure", "reset"},
         ConfigureDone', ResetDone'
  PROVE  PersInv'
  BY DEF PersInv, ViewFresh, ViewChanged

\* An exchange of these two: it fails, or it is done and the call goes on.
LEMMA StepFails ==
  ASSUME PersInv, NEW op, NEW n, Step(op, n),
         NEW out \in {"refused", "lost"}, Ends(out), TagShape'
  PROVE  PersInv'
<1>1. call \in CallType
  BY DEF PersInv
<1>2. call' \in CallType /\ call'.out = out
  BY <1>1, EndIs
<1> QED BY <1>2, FailedKeeps

LEMMA ShapeKept == ASSUME PersInv, UNCHANGED tag PROVE TagShape'
  BY DEF PersInv, TagShape

LEMMA WriteNdefKeeps == PersInv /\ WriteNdef => PersInv'
<1> SUFFICES ASSUME PersInv, WriteNdef PROVE PersInv'
  OBVIOUS
<1>1. /\ call \in CallType /\ TagShape /\ Step("configure", 0)
      /\ call.op = "configure" /\ call.step = 0 /\ UNCHANGED tag
  BY DEF PersInv, WriteNdef, Step, Exchange
<1>2. CASE \E out \in {"refused", "lost"} : Ends(out)
  BY <1>1, <1>2, StepFails, ShapeKept
<1>3. CASE Proceeds
  <2>1. call' \in CallType /\ call'.op = "configure" /\ call'.step = 1 /\ call'.out = call.out
    BY <1>1, <1>3, ProceedIs
  <2>2. call'.out # "ok"
    BY <1>1, <2>1 DEF Step
  <2>3. ConfigureDone'
    <3>1. ~(1 >= 2)
      OBVIOUS
    <3> QED BY <2>1, <2>2, <3>1, Zenon DEF ConfigureDone
  <2>4. ResetDone'
    BY <2>1 DEF ResetDone
  <2> QED BY <1>1, <2>1, <2>3, <2>4, ShapeKept, UpdateKeeps
<1> QED BY <1>2, <1>3 DEF WriteNdef, Exchange

LEMMA SdmUpdateKeeps == PersInv /\ SdmUpdate => PersInv'
<1> DEFINE b == Encoded(Provisioned(Template))
<1> SUFFICES ASSUME PersInv, SdmUpdate PROVE PersInv'
  OBVIOUS
<1>1. /\ call \in CallType /\ TagShape /\ Step("configure", 1)
      /\ call.op = "configure" /\ call.step = 1 /\ call.out = "running" /\ "ndef" \in File
  BY DEF PersInv, SdmUpdate, Step, File
<1>2. UNCHANGED tag \/ tag' = WithSettings("ndef", b)
  BY DEF SdmUpdate, Exchange
<1> HIDE DEF b
<1>3. TagShape'
  BY <1>1, <1>2, Stored, ShapeKept
<1>4. CASE \E out \in {"refused", "lost"} : Ends(out)
  BY <1>1, <1>3, <1>4, StepFails
<1>5. CASE Proceeds /\ tag' = WithSettings("ndef", b)
  <2>1. /\ call' \in CallType /\ call'.op = "configure" /\ call'.step = 2 /\ call'.out = "running"
    BY <1>1, <1>5, ProceedIs
  <2>2. tag'.settings["ndef"] = b
    BY <1>1, <1>5, Stored
  <2>3. ConfigureDone'
    BY <2>1, <2>2 DEF ConfigureDone, b
  <2>4. ResetDone'
    BY <2>1 DEF ResetDone
  <2> QED BY <1>3, <2>1, <2>3, <2>4, UpdateKeeps
<1> QED BY <1>4, <1>5 DEF SdmUpdate, Exchange, b

LEMMA WriteCcKeeps == PersInv /\ WriteCc => PersInv'
<1> DEFINE b == ToBytes(Handed)
           e == Encoded(Provisioned(Template))
<1> SUFFICES ASSUME PersInv, WriteCc PROVE PersInv'
  OBVIOUS
<1>1. /\ call \in CallType /\ TagShape /\ Step("configure", 2)
      /\ call.op = "configure" /\ call.step = 2 /\ call.out = "running"
  BY DEF PersInv, WriteCc, Step
<1>2. UNCHANGED tag \/ tag' = [tag EXCEPT !.cc = b]
  BY DEF WriteCc, Exchange, Handed
<1>3. tag.settings["ndef"] = e
  BY <1>1 DEF PersInv, ConfigureDone, Running
<1> HIDE DEF b, e
<1>4. TagShape'
  BY <1>1, <1>2, ContainerStored, ShapeKept
<1>5. CASE \E out \in {"refused", "lost"} : Ends(out)
  BY <1>1, <1>4, <1>5, StepFails
<1>6. CASE Ends("ok") /\ tag' = [tag EXCEPT !.cc = b]
  <2>1. call' \in CallType /\ call'.op = "configure" /\ call'.out = "ok"
    BY <1>1, <1>6, EndIs
  <2>2. tag'.cc = b /\ tag'.settings["ndef"] = e
    BY <1>1, <1>3, <1>6, ContainerStored
  <2>3. ConfigureDone'
    BY <2>1, <2>2 DEF ConfigureDone, b, e
  <2>4. ResetDone'
    BY <2>1 DEF ResetDone
  <2> QED BY <1>4, <2>1, <2>3, <2>4, UpdateKeeps
<1> QED BY <1>5, <1>6 DEF WriteCc, Exchange, Handed, b

LEMMA RestoreSettingsKeeps == PersInv /\ RestoreSettings => PersInv'
<1> DEFINE e == Encoded(Factory["ndef"])
<1> SUFFICES ASSUME PersInv, RestoreSettings PROVE PersInv'
  OBVIOUS
<1>1. PICK n \in 0 .. 1, f \in {"ndef", "cc"} :
        /\ (n = 0 /\ f = "ndef") \/ (n = 1 /\ f = "cc")
        /\ Step("reset", n)
        /\ Exchange(MayChange(f), WithSettings(f, Encoded(Factory[f])), Proceeds)
  BY DEF RestoreSettings
<1>2. /\ call \in CallType /\ TagShape /\ f \in File
      /\ call.op = "reset" /\ call.step = n /\ call.out = "running"
  BY <1>1 DEF PersInv, Step, File
<1>3. UNCHANGED tag \/ tag' = WithSettings(f, Encoded(Factory[f]))
  BY <1>1 DEF Exchange
<1>4. TagShape'
  BY <1>2, <1>3, Stored, ShapeKept
<1>5. CASE \E out \in {"refused", "lost"} : Ends(out)
  BY <1>1, <1>4, <1>5, StepFails
<1>6. CASE Proceeds /\ tag' = WithSettings(f, Encoded(Factory[f]))
  <2>1. call' \in CallType /\ call'.op = "reset" /\ call'.step = n + 1 /\ call'.out = "running"
    BY <1>2, <1>6, ProceedIs
  <2>2. tag'.settings["ndef"] = e
    <3>1. CASE f = "ndef"
      BY <1>2, <1>6, <3>1, Stored
    <3>2. CASE f = "cc"
      <4>1. n = 1 /\ 1 >= 1
        BY <1>1, <3>2
      <4>2. tag.settings["ndef"] = e
        BY <1>2, <4>1 DEF PersInv, ResetDone, Running
      <4>3. "ndef" \in File \ {f}
        BY <3>2 DEF File
      <4> QED BY <1>2, <1>6, <4>2, <4>3, Stored
    <3> QED BY <3>1, <3>2
  <2>3. ~(n + 1 >= 3) /\ call'.out # "ok"
    BY <1>1, <2>1
  <2>4. ResetDone'
    BY <2>1, <2>2, <2>3 DEF ResetDone
  <2>5. ConfigureDone'
    BY <2>1 DEF ConfigureDone
  <2> QED BY <1>4, <2>1, <2>4, <2>5, UpdateKeeps
<1> QED BY <1>1, <1>5, <1>6 DEF Exchange

LEMMA RestoreCcKeeps == PersInv /\ RestoreCc => PersInv'
<1> DEFINE b == ToBytes(Default)
           e == Encoded(Factory["ndef"])
<1> SUFFICES ASSUME PersInv, RestoreCc PROVE PersInv'
  OBVIOUS
<1>1. /\ call \in CallType /\ TagShape /\ Step("reset", 2)
      /\ call.op = "reset" /\ call.step = 2 /\ call.out = "running"
  BY DEF PersInv, RestoreCc, Step
<1>2. UNCHANGED tag \/ tag' = [tag EXCEPT !.cc = b]
  BY DEF RestoreCc, Exchange
<1>3. tag.settings["ndef"] = e
  BY <1>1 DEF PersInv, ResetDone, Running
<1> HIDE DEF b, e
<1>4. TagShape'
  BY <1>1, <1>2, ContainerStored, ShapeKept
<1>5. CASE \E out \in {"refused", "lost"} : Ends(out)
  BY <1>1, <1>4, <1>5, StepFails
<1>6. CASE Proceeds /\ tag' = [tag EXCEPT !.cc = b]
  <2>1. call' \in CallType /\ call'.op = "reset" /\ call'.step = 3 /\ call'.out = "running"
    BY <1>1, <1>6, ProceedIs
  <2>2. tag'.cc = b /\ tag'.settings["ndef"] = e
    BY <1>1, <1>3, <1>6, ContainerStored
  <2>3. ResetDone'
    BY <2>1, <2>2 DEF ResetDone, b, e
  <2>4. ConfigureDone'
    BY <2>1 DEF ConfigureDone
  <2> QED BY <1>4, <2>1, <2>3, <2>4, UpdateKeeps
<1> QED BY <1>5, <1>6 DEF RestoreCc, Exchange, b

LEMMA ClearNdefKeeps == PersInv /\ ClearNdef => PersInv'
<1> DEFINE b == ToBytes(Default)
           e == Encoded(Factory["ndef"])
<1> SUFFICES ASSUME PersInv, ClearNdef PROVE PersInv'
  OBVIOUS
<1>1. /\ call \in CallType /\ Step("reset", 3) /\ UNCHANGED tag
      /\ call.op = "reset" /\ call.step = 3 /\ call.out = "running"
  BY DEF PersInv, ClearNdef, Step, Exchange
<1>2. tag.settings["ndef"] = e /\ tag.cc = b
  BY <1>1 DEF PersInv, ResetDone, Running
<1> HIDE DEF b, e
<1>3. TagShape'
  BY <1>1, ShapeKept
<1>4. CASE \E out \in {"refused", "lost"} : Ends(out)
  BY <1>1, <1>3, <1>4, StepFails
<1>5. CASE Ends("ok")
  <2>1. call' \in CallType /\ call'.op = "reset" /\ call'.out = "ok"
    BY <1>1, <1>5, EndIs
  <2>2. tag'.settings["ndef"] = e /\ tag'.cc = b
    BY <1>1, <1>2
  <2>3. ResetDone'
    BY <2>1, <2>2 DEF ResetDone, b, e
  <2>4. ConfigureDone'
    BY <2>1 DEF ConfigureDone
  <2> QED BY <1>3, <2>1, <2>3, <2>4, UpdateKeeps
<1> QED BY <1>4, <1>5 DEF ClearNdef, Exchange

LEMMA NextKeeps == PersInv /\ [PersonalisationNext]_persVars => PersInv'
<1> SUFFICES ASSUME PersInv, [PersonalisationNext]_persVars PROVE PersInv'
  OBVIOUS
<1>1. CASE UNCHANGED persVars
  BY <1>1 DEF persVars, PersInv, CallType, TagShape, ViewFresh, ViewChanged, ConfigureDone,
              ResetDone, Running, OnTag
<1>2. ASSUME NEW k \in SomeKeys, NEW f \in File, GetSettings(k, f) PROVE PersInv'
  <2>1. PICK c : /\ c = call' /\ UNCHANGED tag
                 /\ c = [NoCall EXCEPT !.op = "edit", !.key = k, !.file = f,
                                      !.view = OnTag(f), !.out = "running"]
    BY <1>2 DEF GetSettings
  <2>2. call' = Begun("edit", k, f)
    BY <2>1, BegunIs, Zenon
  <2>3. "edit" \in {"edit", "read", "write"}
    OBVIOUS
  <2> QED BY <2>1, <2>2, <2>3, BeginKeeps, Zenon
<1>3. ASSUME NEW op \in {"read", "write"}, NEW k \in SomeKeys, NEW f \in File,
             BeginTransfer(op, k, f)
      PROVE  PersInv'
  <2>1. PICK c : /\ c = call' /\ UNCHANGED tag
                 /\ c = [NoCall EXCEPT !.op = op, !.key = k, !.file = f, !.view = OnTag(f),
                                      !.out = "running"]
    BY <1>3 DEF BeginTransfer
  <2>2. call' = Begun(op, k, f)
    BY <2>1, BegunIs, Zenon
  <2>3. op \in {"edit", "read", "write"}
    OBVIOUS
  <2> QED BY <2>1, <2>2, <2>3, BeginKeeps, Zenon
<1>4. CASE ConfigureNdef \/ ResetFiles
  BY <1>4, UpdateBegins DEF ConfigureNdef, ResetFiles
<1> QED BY <1>1, <1>2, <1>3, <1>4, ModifyKeeps, ChangeKeeps, TransferKeeps, WriteNdefKeeps,
           SdmUpdateKeeps, WriteCcKeeps, RestoreSettingsKeeps, RestoreCcKeeps, ClearNdefKeeps
        DEF PersonalisationNext

-----------------------------------------------------------------------------
(* What calls promise *)

PersSpec == InitPersonalisation /\ [][PersonalisationNext]_persVars

LEMMA AlwaysInv == PersSpec => []PersInv
  BY InitKeeps, NextKeeps, PTL DEF PersSpec

\* Only a change of settings changes the tag while the last call is one.
LEMMA OnlyChangeStores ==
  ASSUME PersonalisationNext, call.op = "edit"
  PROVE  UNCHANGED tag \/ ChangeFileSettings
<1>1. ~WriteNdef /\ ~SdmUpdate /\ ~WriteCc /\ ~RestoreSettings /\ ~RestoreCc /\ ~ClearNdef
  BY DEF WriteNdef, SdmUpdate, WriteCc, RestoreSettings, RestoreCc, ClearNdef, Step
<1>2. ~Transfer
  BY DEF Transfer
<1>3. \A k \in SomeKeys, f \in File : GetSettings(k, f) => UNCHANGED tag
  BY DEF GetSettings
<1>4. \A op \in {"read", "write"}, k \in SomeKeys, f \in File : BeginTransfer(op, k, f) => UNCHANGED tag
  BY DEF BeginTransfer
<1>5. Modify => UNCHANGED tag
  BY DEF Modify, Undecoded
<1>6. ConfigureNdef \/ ResetFiles => UNCHANGED tag
  BY DEF ConfigureNdef, ResetFiles, BeginUpdate
<1> QED BY <1>1, <1>2, <1>3, <1>4, <1>5, <1>6 DEF PersonalisationNext

LEMMA EditStep ==
  ASSUME PersInv, PersonalisationNext, call.op = "edit",
         NEW f \in File, tag'.settings[f] # tag.settings[f]
  PROVE  f = call.file /\ OnTag(f)' = call.view
<1>1. ChangeFileSettings /\ ~UNCHANGED tag
  BY OnlyChangeStores
<1>2. PICK c \in GoodSettings : call.view = {c} /\ tag' = WithSettings(call.file, Encoded(c))
  BY <1>1, ChangeIs
<1>3. TagShape /\ call.file \in File
  BY DEF PersInv, CallType
<1> DEFINE b == Encoded(c)
<1>4. Decoded(b) = {c}
  BY SettingsBack
<1> HIDE DEF b
<1>5. tag'.settings[call.file] = b /\ \A g \in File \ {call.file} : tag'.settings[g] = tag.settings[g]
  BY <1>2, <1>3, Stored DEF b
<1>6. f = call.file
  BY <1>5
<1>7. OnTag(f)' = Decoded(tag'.settings[f])
  BY DEF OnTag
<1> QED BY <1>2, <1>4, <1>5, <1>6, <1>7

\* Settings that a caller has changed and sent are those that the library reads
\* back, right for right: nibbles, option bits and SDM part of `encode` and
\* `decode` fit together for everything that the types can express.
THEOREM EditsReadBack == InitPersonalisation /\ [][PersonalisationNext]_persVars => EditReadsBack
<1>1. PersInv /\ [PersonalisationNext]_persVars =>
        [call.op = "edit" =>
           \A f \in File : tag'.settings[f] # tag.settings[f] =>
             f = call.file /\ OnTag(f)' = call.view]_persVars
  BY EditStep
<1> QED BY <1>1, AlwaysInv, PTL DEF EditReadsBack, PersSpec

\* The mode that a transfer chooses is the one that the tag asks for, if it
\* grants the access at all.
LEMMA ModeFits ==
  ASSUME NEW s, NEW op, NEW key, ~Accepts(s, op, ModeFor(s, op, key), key)
  PROVE  ~Grants(s, op, key)
  BY DEF Accepts, ModeFor, Grants

LEMMA RefusedStep ==
  ASSUME PersInv, PersonalisationNext, call.op \in {"read", "write"}, call'.op = call.op,
         call'.out = "refused"
  PROVE  ~Grants(SettingsOf(call.file), call.op, call.key)
<1>1. Transfer
  <2>1. ~Modify /\ ~ChangeFileSettings
    BY DEF Modify, ChangeFileSettings
  <2>2. ~WriteNdef /\ ~SdmUpdate /\ ~WriteCc /\ ~RestoreSettings /\ ~RestoreCc /\ ~ClearNdef
    BY DEF WriteNdef, SdmUpdate, WriteCc, RestoreSettings, RestoreCc, ClearNdef, Step
  <2>3. ASSUME NEW op, NEW k \in SomeKeys, NEW f \in File,
               GetSettings(k, f) \/ BeginTransfer(op, k, f)
        PROVE  FALSE
    <3>1. PICK o : call' = [NoCall EXCEPT !.op = o, !.key = k, !.file = f, !.view = OnTag(f),
                                          !.out = "running"]
      BY <2>3 DEF GetSettings, BeginTransfer
    <3>2. call' = Begun(o, k, f)
      BY <3>1, BegunIs, Zenon
    <3>3. Begun(o, k, f).out = "running"
      BY DEF Begun
    <3> QED BY <3>2, <3>3
  <2>4. ASSUME NEW op, BeginUpdate(op) PROVE FALSE
    <3>1. PICK c : c = call' /\ c = [NoCall EXCEPT !.op = op, !.out = "running"]
      BY <2>4 DEF BeginUpdate
    <3>2. c.out = "running"
      BY <3>1 DEF NoCall
    <3> QED BY <3>1, <3>2
  <2> QED BY <2>1, <2>2, <2>3, <2>4 DEF PersonalisationNext, ConfigureNdef, ResetFiles
<1>2. PICK s \in call.view :
        ~Accepts(SettingsOf(call.file), call.op, ModeFor(s, call.op, call.key), call.key)
  <2>1. \A out \in {"ok", "undecoded", "lost"} : ~Ends(out)
    <3> SUFFICES ASSUME NEW out \in {"ok", "undecoded", "lost"}, Ends(out) PROVE FALSE
      OBVIOUS
    <3>1. call'.out = out
      BY EndIs DEF PersInv
    <3> QED BY <3>1
  <2> QED BY <1>1, <2>1 DEF Transfer, Exchange, Undecoded
<1>3. call.view = OnTag(call.file)
  BY <1>1 DEF PersInv, ViewFresh, Transfer, Running
<1>4. SettingsOf(call.file) = s
  BY <1>2, <1>3, ViewsGood DEF SettingsOf
<1> QED BY <1>2, <1>4, ModeFits

\* `read_file` and `write_file` are refused by a tag that goes by its rights
\* only where these grant nothing: the mode that the library chooses from the
\* settings it has read is never the reason.
THEOREM RefusedForRights ==
  InitPersonalisation /\ [][PersonalisationNext]_persVars => RefusedForRightsOnly
<1>1. PersInv /\ [PersonalisationNext]_persVars =>
        [call.op \in {"read", "write"} /\ call'.op = call.op /\ call'.out = "refused" =>
           ~Grants(SettingsOf(call.file), call.op, call.key)]_persVars
  BY RefusedStep
<1> QED BY <1>1, AlwaysInv, PTL DEF RefusedForRightsOnly, PersSpec

-----------------------------------------------------------------------------
(* The capability container, written and read *)

\* The bytes of an entry, one by one.
LEMMA EntryIs ==
  ASSUME NEW f
  PROVE  /\ EntryBytes(f)[1] = KindTag[f.kind] /\ EntryBytes(f)[2] = 6
         /\ EntryBytes(f)[3] = High(f.id) /\ EntryBytes(f)[4] = Low(f.id)
         /\ EntryBytes(f)[5] = High(f.size) /\ EntryBytes(f)[6] = Low(f.size)
         /\ EntryBytes(f)[7] = ToByte(f.read) /\ EntryBytes(f)[8] = ToByte(f.write)
  BY DEF EntryBytes

\* The bytes of the header, one by one.
LEMMA HeaderIs ==
  ASSUME NEW cc
  PROVE  /\ HeaderBytes(cc)[1] = High(cc.ccLen) /\ HeaderBytes(cc)[2] = Low(cc.ccLen)
         /\ HeaderBytes(cc)[3] = cc.version
         /\ HeaderBytes(cc)[4] = High(cc.maxLe) /\ HeaderBytes(cc)[5] = Low(cc.maxLe)
         /\ HeaderBytes(cc)[6] = High(cc.maxLc) /\ HeaderBytes(cc)[7] = Low(cc.maxLc)
  BY DEF HeaderBytes

LEMMA ToByteOf ==
  \A x : /\ ToByte(<<"open", x>>) = 0 /\ ToByte(<<"key", x>>) = 128 + x
         /\ ToByte(<<"denied", x>>) = 255 /\ ToByte(<<"raw", x>>) = x
<1> TAKE x
<1>1. \A c : <<c, x>>[1] = c /\ <<c, x>>[2] = x
  OBVIOUS
<1>2. /\ "open" # "key" /\ "open" # "denied" /\ "open" # "raw" /\ "key" # "denied"
      /\ "key" # "raw" /\ "denied" # "raw"
  OBVIOUS
<1>3. \A c : /\ c[1] = "open" => ToByte(c) = 0
             /\ c[1] = "key" => ToByte(c) = 128 + c[2]
             /\ c[1] = "denied" => ToByte(c) = 255
             /\ c[1] = "raw" => ToByte(c) = c[2]
  BY <1>2, Zenon DEF ToByte
<1> QED BY <1>1, <1>3

LEMMA FromByteIs ==
  ASSUME NEW b
  PROVE  /\ b = 0 /\ b \notin 128 .. 132 /\ b # 255 => FromByte(b) = <<"open", 0>>
         /\ b # 0 /\ b \in 128 .. 132 /\ b # 255 => FromByte(b) = <<"key", b - 128>>
         /\ b # 0 /\ b \notin 128 .. 132 /\ b = 255 => FromByte(b) = <<"denied", 0>>
         /\ b # 0 /\ b \notin 128 .. 132 /\ b # 255 => FromByte(b) = <<"raw", b>>
<1> DEFINE open == <<"open", 0>>
           key == <<"key", b - 128>>
           denied == <<"denied", 0>>
           raw == <<"raw", b>>
           P == b = 0
           Q == b \in 128 .. 132
           R == b = 255
<1>1. FromByte(b) = CASE P -> open [] Q -> key [] R -> denied [] OTHER -> raw
  BY DEF FromByte
<1> HIDE DEF open, key, denied, raw, P, Q, R
<1>2. /\ P /\ ~Q /\ ~R => FromByte(b) = open
      /\ ~P /\ Q /\ ~R => FromByte(b) = key
      /\ ~P /\ ~Q /\ R => FromByte(b) = denied
      /\ ~P /\ ~Q /\ ~R => FromByte(b) = raw
  BY <1>1, Zenon
<1> QED BY <1>2 DEF open, key, denied, raw, P, Q, R

\* A byte that has become a condition becomes the same byte again.
LEMMA ConditionBack ==
  ASSUME NEW b \in 0 .. 255
  PROVE  ToByte(FromByte(b)) = b
<1>1. CASE b = 0
  <2>1. FromByte(b) = <<"open", 0>>
    BY <1>1, FromByteIs
  <2> QED BY <1>1, <2>1, ToByteOf
<1>2. CASE b \in 128 .. 132
  <2>1. FromByte(b) = <<"key", b - 128>>
    BY <1>2, FromByteIs
  <2>2. ToByte(<<"key", b - 128>>) = 128 + (b - 128)
    BY ToByteOf
  <2>3. 128 + (b - 128) = b
    OBVIOUS
  <2> QED BY <2>1, <2>2, <2>3, Zenon
<1>3. CASE b = 255
  <2>1. FromByte(b) = <<"denied", 0>>
    BY <1>3, FromByteIs
  <2> QED BY <1>3, <2>1, ToByteOf
<1>4. CASE b # 0 /\ b \notin 128 .. 132 /\ b # 255
  <2>1. FromByte(b) = <<"raw", b>>
    BY <1>4, FromByteIs
  <2> QED BY <2>1, ToByteOf
<1> QED BY <1>1, <1>2, <1>3, <1>4

LEMMA WordBack ==
  \A p, q \in 0 .. 255 : High(256 * p + q) = p /\ Low(256 * p + q) = q
  BY DEF High, Low

LEMMA WordIs ==
  ASSUME NEW d, NEW p, NEW q, p + 1 = q, d[p] \in 0 .. 255, d[q] \in 0 .. 255
  PROVE  High(Word(d, p)) = d[p] /\ Low(Word(d, p)) = d[q]
<1>1. Word(d, p) = 256 * d[p] + d[q]
  BY Zenon DEF Word
<1>2. ASSUME NEW x \in 0 .. 255, NEW y \in 0 .. 255, NEW w, w = 256 * x + y
      PROVE  High(w) = x /\ Low(w) = y
  BY <1>2, WordBack, ZenonT(60)
<1>3. High(Word(d, p)) = d[p] /\ Low(Word(d, p)) = d[q]
  BY <1>1, <1>2, ZenonT(60)
<1> QED BY <1>3

LEMMA InSeq ==
  ASSUME NEW S, NEW d \in Seq(S)
  PROVE  \A j \in 1 .. Len(d) : d[j] \in S
  OBVIOUS

\* An entry that has been read is written as it was.
LEMMA EntryBack ==
  ASSUME NEW d \in Seq(0 .. 255), NEW i \in Nat \ {0}, i + 7 <= Len(d),
         d[i] \in {4, 5}, d[i + 1] = 6
  PROVE  /\ EntryBytes(EntryAt(d, i))[1] = d[i] /\ EntryBytes(EntryAt(d, i))[2] = d[i + 1]
         /\ EntryBytes(EntryAt(d, i))[3] = d[i + 2] /\ EntryBytes(EntryAt(d, i))[4] = d[i + 3]
         /\ EntryBytes(EntryAt(d, i))[5] = d[i + 4] /\ EntryBytes(EntryAt(d, i))[6] = d[i + 5]
         /\ EntryBytes(EntryAt(d, i))[7] = d[i + 6] /\ EntryBytes(EntryAt(d, i))[8] = d[i + 7]
<1> DEFINE f == EntryAt(d, i)
<1>1. /\ d[i + 2] \in 0 .. 255 /\ d[i + 3] \in 0 .. 255 /\ d[i + 4] \in 0 .. 255
      /\ d[i + 5] \in 0 .. 255 /\ d[i + 6] \in 0 .. 255 /\ d[i + 7] \in 0 .. 255
  <2>1. \A j \in 1 .. Len(d) : d[j] \in 0 .. 255
    BY InSeq, Zenon
  <2>2. /\ i + 2 \in 1 .. Len(d) /\ i + 3 \in 1 .. Len(d) /\ i + 4 \in 1 .. Len(d)
        /\ i + 5 \in 1 .. Len(d) /\ i + 6 \in 1 .. Len(d) /\ i + 7 \in 1 .. Len(d)
    OBVIOUS
  <2> QED BY <2>1, <2>2, Zenon
<1>2. /\ f.kind = (IF d[i] = 4 THEN "ndef" ELSE "prop")
      /\ f.id = Word(d, i + 2) /\ f.size = Word(d, i + 4)
      /\ f.read = FromByte(d[i + 6]) /\ f.write = FromByte(d[i + 7])
  BY DEF EntryAt, Entry
<1> HIDE DEF f
<1>3. KindTag[f.kind] = d[i]
  BY <1>2 DEF KindTag
<1>4. /\ High(Word(d, i + 2)) = d[i + 2] /\ Low(Word(d, i + 2)) = d[i + 3]
      /\ High(Word(d, i + 4)) = d[i + 4] /\ Low(Word(d, i + 4)) = d[i + 5]
  <2>1. (i + 2) + 1 = i + 3
    OBVIOUS
  <2>2. (i + 4) + 1 = i + 5
    OBVIOUS
  <2>3. High(Word(d, i + 2)) = d[i + 2] /\ Low(Word(d, i + 2)) = d[i + 3]
    <3> DEFINE j == i + 2
               k == i + 3
    <3>1. j + 1 = k /\ d[j] \in 0 .. 255 /\ d[k] \in 0 .. 255
      BY <1>1, <2>1
    <3> HIDE DEF j, k
    <3>2. High(Word(d, j)) = d[j] /\ Low(Word(d, j)) = d[k]
      BY <3>1, WordIs
    <3> QED BY <3>2 DEF j, k
  <2>4. High(Word(d, i + 4)) = d[i + 4] /\ Low(Word(d, i + 4)) = d[i + 5]
    <3> DEFINE j == i + 4
               k == i + 5
    <3>1. j + 1 = k /\ d[j] \in 0 .. 255 /\ d[k] \in 0 .. 255
      BY <1>1, <2>2
    <3> HIDE DEF j, k
    <3>2. High(Word(d, j)) = d[j] /\ Low(Word(d, j)) = d[k]
      BY <3>1, WordIs
    <3> QED BY <3>2 DEF j, k
  <2> QED BY <2>3, <2>4, Zenon
<1>5. /\ High(f.id) = d[i + 2] /\ Low(f.id) = d[i + 3]
      /\ High(f.size) = d[i + 4] /\ Low(f.size) = d[i + 5]
  BY <1>2, <1>4, Zenon
<1>6. ToByte(f.read) = d[i + 6] /\ ToByte(f.write) = d[i + 7]
  BY <1>1, <1>2, ConditionBack, ZenonT(60)
<1> QED BY <1>3, <1>5, <1>6, EntryIs DEF f

\* A container that parses is written as it was read, but for what follows its
\* entries.
LEMMA ContainerBack ==
  ASSUME NEW d \in Seq(0 .. 255), Parses(d)
  PROVE  ToBytes(FromBytes(d)) = SubSeq(d, 1, 7 + 8 * Count(d))
<1> DEFINE n == Count(d)
           m == 7 + 8 * n
           cc == FromBytes(d)
<1>1. \A j \in 1 .. Len(d) : d[j] \in 0 .. 255
  BY InSeq, Zenon
<1>2. Len(d) \in Nat /\ Len(d) >= 7
  BY DEF Parses
<1>3. n \in Nat /\ m <= Len(d) /\ m \in Nat
  <2>1. Word(d, 1) \in Nat
    <3>1. d[1] \in 0 .. 255 /\ d[2] \in 0 .. 255
      <4>1. 1 \in 1 .. Len(d) /\ 2 \in 1 .. Len(d)
        BY <1>2
      <4> QED BY <1>1, <4>1, Zenon
    <3>2. Word(d, 1) = 256 * d[1] + d[2]
      <4>1. 1 + 1 = 2
        OBVIOUS
      <4> QED BY <4>1, Zenon DEF Word
    <3>3. \A p, q \in 0 .. 255 : 256 * p + q \in Nat
      OBVIOUS
    <3> QED BY <3>1, <3>2, <3>3, ZenonT(60)
  <2>2. Limit(d) \in Nat /\ Limit(d) <= Len(d)
    BY <1>2, <2>1 DEF Limit
  <2>3. ASSUME NEW l \in Nat, NEW len \in Nat, l <= len, len >= 7,
               NEW c, c = IF l > 7 THEN (l - 7) \div 8 ELSE 0
        PROVE  c \in Nat /\ 7 + 8 * c <= len
    BY <2>3
  <2>4. n = IF Limit(d) > 7 THEN (Limit(d) - 7) \div 8 ELSE 0
    BY DEF Count
  <2> HIDE DEF n
  <2>5. n \in Nat /\ 7 + 8 * n <= Len(d)
    BY <1>2, <2>2, <2>3, <2>4, Zenon
  <2> QED BY <2>5
<1>4. \A k \in 1 .. n : d[8 * k] \in {4, 5} /\ d[8 * k + 1] = 6
  BY DEF Parses, Start
<1>5. cc.files = [k \in 1 .. n |-> EntryAt(d, 8 * k)]
  BY DEF FromBytes, Start
<1>6. /\ cc.ccLen = Word(d, 1) /\ cc.version = d[3] /\ cc.maxLe = Word(d, 4) /\ cc.maxLc = Word(d, 6)
  BY DEF FromBytes
<1> HIDE DEF n, cc
<1>7. Len(cc.files) = n
  BY <1>3, <1>5
<1>8. ToBytes(cc) = [i \in 1 .. m |-> IF i <= 7 THEN HeaderBytes(cc)[i]
                                      ELSE EntryBytes(cc.files[i \div 8])[(i % 8) + 1]]
  BY <1>7 DEF ToBytes
<1>9. ASSUME NEW i \in 1 .. 7 PROVE HeaderBytes(cc)[i] = d[i]
  <2>1. /\ d[1] \in 0 .. 255 /\ d[2] \in 0 .. 255 /\ d[3] \in 0 .. 255 /\ d[4] \in 0 .. 255
        /\ d[5] \in 0 .. 255 /\ d[6] \in 0 .. 255 /\ d[7] \in 0 .. 255
    <3>1. /\ 1 \in 1 .. Len(d) /\ 2 \in 1 .. Len(d) /\ 3 \in 1 .. Len(d) /\ 4 \in 1 .. Len(d)
          /\ 5 \in 1 .. Len(d) /\ 6 \in 1 .. Len(d) /\ 7 \in 1 .. Len(d)
      BY <1>2
    <3> QED BY <1>1, <3>1, ZenonT(60)
  <2>3. /\ High(Word(d, 1)) = d[1] /\ Low(Word(d, 1)) = d[2]
        /\ High(Word(d, 4)) = d[4] /\ Low(Word(d, 4)) = d[5]
        /\ High(Word(d, 6)) = d[6] /\ Low(Word(d, 6)) = d[7]
    <3>1. High(Word(d, 1)) = d[1] /\ Low(Word(d, 1)) = d[2]
      <4>1. 1 + 1 = 2
        OBVIOUS
      <4>2. d[1] \in 0 .. 255 /\ d[2] \in 0 .. 255
        BY <2>1
      <4> QED BY <4>1, <4>2, WordIs, SMTT(30)
    <3>2. High(Word(d, 4)) = d[4] /\ Low(Word(d, 4)) = d[5]
      <4>1. 4 + 1 = 5
        OBVIOUS
      <4>2. d[4] \in 0 .. 255 /\ d[5] \in 0 .. 255
        BY <2>1
      <4> QED BY <4>1, <4>2, WordIs, SMTT(30)
    <3>3. High(Word(d, 6)) = d[6] /\ Low(Word(d, 6)) = d[7]
      <4>1. 6 + 1 = 7
        OBVIOUS
      <4>2. d[6] \in 0 .. 255 /\ d[7] \in 0 .. 255
        BY <2>1
      <4> QED BY <4>1, <4>2, WordIs, SMTT(30)
    <3> QED BY <3>1, <3>2, <3>3, Zenon
  <2>4. /\ HeaderBytes(cc)[1] = d[1] /\ HeaderBytes(cc)[2] = d[2] /\ HeaderBytes(cc)[3] = d[3]
        /\ HeaderBytes(cc)[4] = d[4] /\ HeaderBytes(cc)[5] = d[5] /\ HeaderBytes(cc)[6] = d[6]
        /\ HeaderBytes(cc)[7] = d[7]
    BY <1>6, <2>3, HeaderIs, Zenon
  <2>5. i = 1 \/ i = 2 \/ i = 3 \/ i = 4 \/ i = 5 \/ i = 6 \/ i = 7
    OBVIOUS
  <2> QED BY <2>4, <2>5, Zenon
<1>10. ASSUME NEW i \in 8 .. m PROVE EntryBytes(cc.files[i \div 8])[(i % 8) + 1] = d[i]
  <2>1. PICK k \in 1 .. n, j \in 0 .. 7 : k = i \div 8 /\ j = i % 8 /\ i = 8 * k + j
    <3>1. i \div 8 \in 1 .. n /\ i % 8 \in 0 .. 7 /\ i = 8 * (i \div 8) + (i % 8)
      BY <1>3
    <3> QED BY <3>1, Zenon
  <2>2. cc.files[k] = EntryAt(d, 8 * k)
    BY <1>5
  <2>3. 8 * k \in Nat \ {0} /\ 8 * k + 7 <= Len(d)
    BY <1>3
  <2> DEFINE p == 8 * k
             e == EntryBytes(EntryAt(d, p))
  <2>4. d[p] \in {4, 5} /\ d[p + 1] = 6
    BY <1>4
  <2>5. p \in Nat \ {0} /\ p + 7 <= Len(d)
    BY <2>3
  <2>6. i = p + j
    BY <2>1
  <2> HIDE DEF p
  <2>7. /\ e[1] = d[p] /\ e[2] = d[p + 1] /\ e[3] = d[p + 2] /\ e[4] = d[p + 3]
        /\ e[5] = d[p + 4] /\ e[6] = d[p + 5] /\ e[7] = d[p + 6] /\ e[8] = d[p + 7]
    BY <2>4, <2>5, EntryBack, Zenon
  <2> HIDE DEF e
  <2>8. e[j + 1] = d[p + j]
    <3>1. j = 0 \/ j = 1 \/ j = 2 \/ j = 3 \/ j = 4 \/ j = 5 \/ j = 6 \/ j = 7
      BY <2>1
    <3>2. /\ 0 + 1 = 1 /\ 1 + 1 = 2 /\ 2 + 1 = 3 /\ 3 + 1 = 4 /\ 4 + 1 = 5 /\ 5 + 1 = 6
          /\ 6 + 1 = 7 /\ 7 + 1 = 8 /\ p + 0 = p
      BY <2>5
    <3> QED BY <2>7, <3>1, <3>2, Zenon
  <2>9. cc.files[i \div 8] = EntryAt(d, p) /\ (i % 8) + 1 = j + 1
    BY <2>1, <2>2, Zenon DEF p
  <2> QED BY <2>6, <2>8, <2>9, Zenon DEF e
<1>11. SubSeq(d, 1, m) = [i \in 1 .. m |-> d[i]]
  BY <1>3
<1>12. \A i \in 1 .. m : (IF i <= 7 THEN HeaderBytes(cc)[i]
                          ELSE EntryBytes(cc.files[i \div 8])[(i % 8) + 1]) = d[i]
  <2> TAKE i \in 1 .. m
  <2>1. CASE i <= 7
    <3>1. i \in 1 .. 7
      BY <1>3, <2>1
    <3> QED BY <1>9, <2>1, <3>1, Zenon
  <2>2. CASE ~(i <= 7)
    <3>1. i \in 8 .. m
      BY <1>3, <2>2
    <3> QED BY <1>10, <2>2, <3>1, Zenon
  <2> QED BY <2>1, <2>2
<1>13. ToBytes(cc) = [i \in 1 .. m |-> d[i]]
  BY <1>8, <1>12, Zenon
<1> QED BY <1>11, <1>13, Zenon DEF n, cc

-----------------------------------------------------------------------------
(* The container that provisioning and reset leave behind *)

NdefEntry(w) == Entry("ndef", 57604, 256, <<"open", 0>>, w)
PropEntry    == Entry("prop", 57605, 128, <<"key", 2>>, <<"key", 3>>)
ContainerWith(w) ==
  [ccLen |-> 23, version |-> 32, maxLe |-> 256, maxLc |-> 255, files |-> <<NdefEntry(w), PropEntry>>]

LEMMA DefaultIs == Default = ContainerWith(<<"open", 0>>)
  BY DEF Default, ContainerWith, NdefEntry, PropEntry

LEMMA HandedIs == Handed = ContainerWith(<<"key", 0>>)
<1> DEFINE c == <<"key", 0>>
           f == Default.files
           g == [k \in DOMAIN f |-> IF k \in Found(Default, "ndef") THEN [f[k] EXCEPT !.write = c] ELSE f[k]]
<1>1. f = <<NdefEntry(<<"open", 0>>), PropEntry>>
  BY DefaultIs DEF ContainerWith
<1>2. f[1] = NdefEntry(<<"open", 0>>) /\ f[2] = PropEntry /\ DOMAIN f = {1, 2}
  BY <1>1
<1>3. Found(Default, "ndef") = {1}
  <2>1. f[1].kind = "ndef" /\ f[2].kind # "ndef"
    BY <1>2 DEF NdefEntry, PropEntry, Entry
  <2>2. 1 .. (1 - 1) = {}
    OBVIOUS
  <2> HIDE DEF f
  <2> QED BY <1>2, <2>1, <2>2 DEF Found, f
<1>4. [NdefEntry(<<"open", 0>>) EXCEPT !.write = c] = NdefEntry(c)
  BY DEF NdefEntry, Entry
<1> HIDE DEF c
<1>5. g[1] = NdefEntry(c) /\ g[2] = PropEntry /\ DOMAIN g = {1, 2}
  BY <1>2, <1>3, <1>4
<1>6. g = <<NdefEntry(c), PropEntry>>
  BY <1>5
<1>7. Handed = [Default EXCEPT !.files = g]
  BY DEF Handed, WithWriteAccess, c
<1> HIDE DEF g
<1> QED BY <1>6, <1>7 DEF Default, ContainerWith, c

\* The bytes that the reader of such a container looks at.
LEMMA BytesAre ==
  ASSUME NEW w, NEW b, ToByte(w) = b, NEW d, d = ToBytes(ContainerWith(w))
  PROVE  /\ Len(d) = 23 /\ d[1] = 0 /\ d[2] = 23
         /\ d[8] = 4 /\ d[9] = 6 /\ d[14] = 0 /\ d[15] = b /\ d[16] = 5 /\ d[17] = 6
<1> DEFINE cc == ContainerWith(w)
           h == HeaderBytes(cc)
           e == EntryBytes(NdefEntry(w))
           p == EntryBytes(PropEntry)
<1>1. cc.files = <<NdefEntry(w), PropEntry>> /\ cc.ccLen = 23
  BY DEF ContainerWith
<1>2. Len(cc.files) = 2 /\ cc.files[1] = NdefEntry(w) /\ cc.files[2] = PropEntry
  BY <1>1
<1>3. h[1] = 0 /\ h[2] = 23
  <2>1. High(23) = 0 /\ Low(23) = 23
    BY DEF High, Low
  <2> QED BY <1>1, <2>1, HeaderIs, Zenon
<1>4. e[1] = 4 /\ e[2] = 6 /\ e[7] = 0 /\ e[8] = b
  <2>1. NdefEntry(w).kind = "ndef" /\ NdefEntry(w).read = <<"open", 0>> /\ NdefEntry(w).write = w
    BY DEF NdefEntry, Entry
  <2>2. KindTag["ndef"] = 4
    BY DEF KindTag
  <2>3. ToByte(NdefEntry(w).read) = 0
    BY <2>1, ToByteOf
  <2> QED BY <2>1, <2>2, <2>3, EntryIs, Zenon
<1>5. p[1] = 5 /\ p[2] = 6
  <2>1. PropEntry.kind = "prop" /\ KindTag["prop"] = 5
    BY DEF PropEntry, Entry, KindTag
  <2> QED BY <2>1, EntryIs, Zenon
<1> HIDE DEF h, e, p, cc
<1>6. d = [i \in 1 .. 23 |-> IF i <= 7 THEN h[i] ELSE EntryBytes(cc.files[i \div 8])[(i % 8) + 1]]
  <2>1. 7 + 8 * 2 = 23
    OBVIOUS
  <2> QED BY <1>2, <2>1, Zenon DEF ToBytes, cc, h
<1>7. /\ 8 \div 8 = 1 /\ (8 % 8) + 1 = 1 /\ 9 \div 8 = 1 /\ (9 % 8) + 1 = 2
      /\ 14 \div 8 = 1 /\ (14 % 8) + 1 = 7 /\ 15 \div 8 = 1 /\ (15 % 8) + 1 = 8
      /\ 16 \div 8 = 2 /\ (16 % 8) + 1 = 1 /\ 17 \div 8 = 2 /\ (17 % 8) + 1 = 2
  OBVIOUS
<1>8. EntryBytes(cc.files[1]) = e /\ EntryBytes(cc.files[2]) = p
  BY <1>2, Zenon DEF e, p
<1>9. Len(d) = 23 /\ d[1] = h[1] /\ d[2] = h[2]
  BY <1>6
<1>10. /\ d[8] = e[1] /\ d[9] = e[2] /\ d[14] = e[7] /\ d[15] = e[8] /\ d[16] = p[1] /\ d[17] = p[2]
  <2>1. ASSUME NEW i \in 8 .. 23 PROVE d[i] = EntryBytes(cc.files[i \div 8])[(i % 8) + 1]
    BY <1>6
  <2>2. /\ 8 \in 8 .. 23 /\ 9 \in 8 .. 23 /\ 14 \in 8 .. 23 /\ 15 \in 8 .. 23 /\ 16 \in 8 .. 23
        /\ 17 \in 8 .. 23
    OBVIOUS
  <2>3. d[8] = e[1]
    BY <1>7, <1>8, <2>1, <2>2, Zenon
  <2>4. d[9] = e[2]
    BY <1>7, <1>8, <2>1, <2>2, Zenon
  <2>5. d[14] = e[7]
    BY <1>7, <1>8, <2>1, <2>2, Zenon
  <2>6. d[15] = e[8]
    BY <1>7, <1>8, <2>1, <2>2, Zenon
  <2>7. d[16] = p[1]
    BY <1>7, <1>8, <2>1, <2>2, Zenon
  <2>8. d[17] = p[2]
    BY <1>7, <1>8, <2>1, <2>2, Zenon
  <2> QED BY <2>3, <2>4, <2>5, <2>6, <2>7, <2>8
<1> QED BY <1>3, <1>4, <1>5, <1>9, <1>10, Zenon

LEMMA ByteMeans == FromByte(0) = <<"open", 0>> /\ FromByte(128) = <<"key", 0>>
<1>1. 0 \notin 128 .. 132 /\ 0 # 255 /\ 128 \in 128 .. 132 /\ 128 # 0 /\ 128 # 255 /\ 128 - 128 = 0
  OBVIOUS
<1>2. FromByte(0) = <<"open", 0>>
  BY <1>1, FromByteIs
<1>3. FromByte(128) = <<"key", 128 - 128>>
  BY <1>1, FromByteIs
<1> QED BY <1>1, <1>2, <1>3

LEMMA Told ==
  ASSUME NEW w, NEW b, ToByte(w) = b, FromByte(b) = w, NEW d, d = ToBytes(ContainerWith(w))
  PROVE  /\ Parses(d)
         /\ 1 \in Found(FromBytes(d), "ndef")
         /\ FromBytes(d).files[1].read = <<"open", 0>> /\ FromBytes(d).files[1].write = w
<1>1. /\ Len(d) = 23 /\ d[1] = 0 /\ d[2] = 23
      /\ d[8] = 4 /\ d[9] = 6 /\ d[14] = 0 /\ d[15] = b /\ d[16] = 5 /\ d[17] = 6
  BY BytesAre
<1>2. Word(d, 1) = 23
  <2>1. 1 + 1 = 2 /\ 256 * 0 + 23 = 23
    OBVIOUS
  <2> QED BY <1>1, <2>1, ZenonT(60) DEF Word
<1>3. Limit(d) = 23
  BY <1>1, <1>2 DEF Limit
<1>4. Count(d) = 2
  BY <1>3 DEF Count
<1>5. Parses(d)
  <2>1. \A k \in 1 .. 2 : d[8 * k] \in {4, 5} /\ d[8 * k + 1] = 6
    <3>1. \A k \in 1 .. 2 : (k = 1 \/ k = 2)
      OBVIOUS
    <3>2. 8 * 1 = 8 /\ 8 * 2 = 16 /\ 8 + 1 = 9 /\ 16 + 1 = 17
      OBVIOUS
    <3> QED BY <1>1, <3>1, <3>2, ZenonT(60)
  <2>2. 23 >= 7 /\ (23 - 7) % 8 <= 1 /\ 2 <= 3
    OBVIOUS
  <2> QED BY <1>1, <1>3, <1>4, <2>1, <2>2, Zenon DEF Parses, Start, MaxFiles
<1> DEFINE f == FromBytes(d).files
<1>6. f = [k \in 1 .. 2 |-> EntryAt(d, 8 * k)]
  BY <1>4, Zenon DEF FromBytes, Start
<1> HIDE DEF f
<1>7. f[1] = EntryAt(d, 8) /\ DOMAIN f = 1 .. 2
  BY <1>6
<1>8. EntryAt(d, 8).kind = "ndef" /\ EntryAt(d, 8).read = FromByte(0) /\ EntryAt(d, 8).write = FromByte(b)
  <2>1. 8 + 6 = 14 /\ 8 + 7 = 15
    OBVIOUS
  <2>2. /\ EntryAt(d, 8).kind = (IF d[8] = 4 THEN "ndef" ELSE "prop")
        /\ EntryAt(d, 8).read = FromByte(d[8 + 6]) /\ EntryAt(d, 8).write = FromByte(d[8 + 7])
    BY DEF EntryAt, Entry
  <2> QED BY <1>1, <2>1, <2>2, Zenon
<1>9. 1 \in Found(FromBytes(d), "ndef")
  <2>1. 1 \in 1 .. 2 /\ 1 .. (1 - 1) = {}
    OBVIOUS
  <2> QED BY <1>7, <1>8, <2>1, Zenon DEF Found, f
<1> QED BY <1>5, <1>7, <1>8, <1>9, ByteMeans, Zenon DEF f

\* The settings of the NDEF file that `configure_ndef` and `reset` leave.
LEMMA SettingsLeft ==
  ASSUME NEW s \in GoodSettings, tag.settings["ndef"] = Encoded(s)
  PROVE  SettingsOf("ndef") = s
<1>1. OnTag("ndef") = {s}
  BY SettingsBack DEF OnTag
<1> QED BY <1>1 DEF SettingsOf

LEMMA HonestIs ==
  /\ \A rights, op : "free" \in Conditions(rights, op) => Honest(<<"open", 0>>, rights, op)
  /\ \A rights, op : "free" \notin Conditions(rights, op) /\ "key0" \in Conditions(rights, op) =>
       Honest(<<"key", 0>>, rights, op)
<1>1. /\ <<"open", 0>>[1] = "open" /\ <<"key", 0>>[1] = "key" /\ <<"key", 0>>[2] = 0
      /\ "open" # "key" /\ "open" # "raw" /\ "key" # "raw" /\ "key" # "open"
  OBVIOUS
<1>2. "key0" \in Keys /\ KeyByte["key0"] = 0
  BY DEF Keys, KeyByte
<1> QED BY <1>1, <1>2, Zenon DEF Honest

LEMMA InvHonest == PersInv => ContainerHonest
<1> SUFFICES ASSUME PersInv, call.op \in {"configure", "reset"}, call.out = "ok"
             PROVE  /\ Parses(tag.cc)
                    /\ \E k \in Found(FromBytes(tag.cc), "ndef") :
                         LET entry == FromBytes(tag.cc).files[k]
                             rights == SettingsOf("ndef").rights
                         IN  Honest(entry.read, rights, "read") /\ Honest(entry.write, rights, "write")
  BY DEF ContainerHonest
<1> DEFINE rights == SettingsOf("ndef").rights
<1>1. CASE call.op = "configure"
  <2>1. tag.settings["ndef"] = Encoded(Provisioned(Template)) /\ tag.cc = ToBytes(ContainerWith(<<"key", 0>>))
    BY <1>1, HandedIs DEF PersInv, ConfigureDone
  <2>2. SettingsOf("ndef") = Provisioned(Template)
    BY <2>1, SettingsLeft, TemplateGood
  <2>3. rights["read"] = "free" /\ rights["write"] = "none" /\ rights["readWrite"] = "key0"
    BY <2>2 DEF Provisioned, RightsOf
  <2> HIDE DEF rights
  <2>4. /\ "free" \in Conditions(rights, "read")
        /\ "free" \notin Conditions(rights, "write") /\ "key0" \in Conditions(rights, "write")
    BY <2>3 DEF Conditions
  <2>5. ToByte(<<"key", 0>>) = 128
    BY ToByteOf
  <2>6. /\ Parses(tag.cc) /\ 1 \in Found(FromBytes(tag.cc), "ndef")
        /\ FromBytes(tag.cc).files[1].read = <<"open", 0>>
        /\ FromBytes(tag.cc).files[1].write = <<"key", 0>>
    <3>1. PICK w, b, d : w = <<"key", 0>> /\ b = 128 /\ d = tag.cc
      OBVIOUS
    <3>2. ToByte(w) = b /\ FromByte(b) = w /\ d = ToBytes(ContainerWith(w))
      BY <2>1, <2>5, <3>1, ByteMeans
    <3>3. /\ Parses(d) /\ 1 \in Found(FromBytes(d), "ndef")
          /\ FromBytes(d).files[1].read = <<"open", 0>> /\ FromBytes(d).files[1].write = w
      BY <3>2, Told, Zenon
    <3> QED BY <3>1, <3>3
  <2> QED BY <2>4, <2>6, HonestIs, Zenon DEF rights
<1>2. CASE call.op = "reset"
  <2>1. tag.settings["ndef"] = Encoded(Factory["ndef"]) /\ tag.cc = ToBytes(ContainerWith(<<"open", 0>>))
    BY <1>2, DefaultIs DEF PersInv, ResetDone
  <2>2. SettingsOf("ndef") = Factory["ndef"]
    BY <2>1, SettingsLeft, FactoryGood DEF File
  <2>3. rights["read"] = "free" /\ rights["write"] = "free"
    BY <2>2 DEF Factory, RightsOf
  <2> HIDE DEF rights
  <2>4. "free" \in Conditions(rights, "read") /\ "free" \in Conditions(rights, "write")
    BY <2>3 DEF Conditions
  <2>5. ToByte(<<"open", 0>>) = 0
    BY ToByteOf
  <2>6. /\ Parses(tag.cc) /\ 1 \in Found(FromBytes(tag.cc), "ndef")
        /\ FromBytes(tag.cc).files[1].read = <<"open", 0>>
        /\ FromBytes(tag.cc).files[1].write = <<"open", 0>>
    BY <2>1, <2>5, ByteMeans, Told, ZenonT(60)
  <2> QED BY <2>4, <2>6, HonestIs, Zenon DEF rights
<1> QED BY <1>1, <1>2

\* Whenever `configure_ndef` or `reset` have gone through, whatever calls and
\* failures came before, the capability container parses and says of the NDEF
\* file what the settings on the tag say.
THEOREM HonestContainer ==
  InitPersonalisation /\ [][PersonalisationNext]_persVars => []ContainerHonest
  BY InvHonest, AlwaysInv, PTL DEF PersSpec
=============================================================================
