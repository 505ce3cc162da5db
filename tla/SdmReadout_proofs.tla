-------------------------- MODULE SdmReadout_proofs --------------------------
(***************************************************************************)
(* Machine-checked facts about SDM settings and readouts, for placeholders *)
(* of any length, files of any size, and counters of any number of digits: *)
(* the URL planner stays within the file, settings survive their wire      *)
(* form, and what is accepted is recovered from what the tag mirrors.      *)
(***************************************************************************)
EXTENDS SdmReadout, WellFoundedInduction, TLAPS

-----------------------------------------------------------------------------
(* Settings *)

Places == UNION {[D -> 0 .. MaxOffset] : D \in SUBSET Mirror}

SettingsType ==
  [at: Places, content: SUBSET Identity, input: 0 .. MaxOffset, encLen: Nat,
   limit: Nat \union {NoLimit}]

\* Settings as the types of the code and `Sdm::try_new` let them be.
Sound(s, suite) == s \in SettingsType /\ WellFormed(s) /\ TryNew(s, suite)

LEMMA SettingsAre ==
  ASSUME NEW s \in SettingsType
  PROVE  /\ s.at = [m \in DOMAIN s.at |-> s.at[m]] /\ DOMAIN s.at \subseteq Mirror
         /\ \A m \in DOMAIN s.at : s.at[m] \in 0 .. MaxOffset
         /\ s.content \subseteq Identity /\ s.input \in 0 .. MaxOffset /\ s.encLen \in Nat
         /\ s.limit \in Nat \union {NoLimit}
         /\ s = [at |-> s.at, content |-> s.content, input |-> s.input,
                 encLen |-> s.encLen, limit |-> s.limit]
<1>1. s.at \in Places
  BY DEF SettingsType
<1>2. PICK D \in SUBSET Mirror : s.at \in [D -> 0 .. MaxOffset]
  BY <1>1 DEF Places
<1>3. s.at = [m \in DOMAIN s.at |-> s.at[m]] /\ DOMAIN s.at = D
  BY <1>2
<1>4. \A m \in DOMAIN s.at : s.at[m] \in 0 .. MaxOffset
  BY <1>2, <1>3
<1> QED BY <1>3, <1>4 DEF SettingsType

-----------------------------------------------------------------------------
(* The wire form *)

\* Two sequences side by side: names of T, those of S, and their numbers.
Paired(names, numbers, f, S, T) ==
  /\ names \in Seq(T) /\ numbers \in Seq(Int) /\ Len(numbers) = Len(names)
  /\ \A i \in 1 .. Len(names) : names[i] \in S /\ numbers[i] = f[names[i]]
  /\ \A x \in S : \E i \in 1 .. Len(names) : names[i] = x

LEMMA LongerByOne ==
  ASSUME NEW X, NEW q \in Seq(X), NEW e \in X
  PROVE  /\ q \o <<e>> \in Seq(X) /\ Len(q \o <<e>>) = Len(q) + 1
         /\ (\A i \in 1 .. Len(q) : (q \o <<e>>)[i] = q[i]) /\ (q \o <<e>>)[Len(q) + 1] = e
  OBVIOUS

LEMMA PairedOnce ==
  ASSUME NEW T, NEW f, NEW on \in BOOLEAN, NEW x \in T, NEW v, on => f[x] = v /\ v \in Int
  PROVE  Paired(Number(on, x), Number(on, v), f, IF on THEN {x} ELSE {}, T)
<1>1. CASE on
  BY <1>1 DEF Number, Paired
<1>2. CASE ~on
  BY <1>2 DEF Number, Paired
<1> QED BY <1>1, <1>2

LEMMA PairedMore ==
  ASSUME NEW T, NEW f, NEW S, NEW names, NEW numbers, Paired(names, numbers, f, S, T),
         NEW on \in BOOLEAN, NEW x \in T, NEW v, on => f[x] = v /\ v \in Int
  PROVE  Paired(names \o Number(on, x), numbers \o Number(on, v), f,
                S \union (IF on THEN {x} ELSE {}), T)
<1> DEFINE L == Len(names)
<1>1. /\ names \in Seq(T) /\ numbers \in Seq(Int) /\ L \in Nat /\ Len(numbers) = L
      /\ \A i \in 1 .. L : names[i] \in S /\ numbers[i] = f[names[i]]
      /\ \A y \in S : \E i \in 1 .. L : names[i] = y
  BY DEF Paired
<1>2. CASE on
  <2>1. Number(on, x) = <<x>> /\ Number(on, v) = <<v>> /\ v \in Int /\ f[x] = v
    BY <1>2 DEF Number
  <2> DEFINE n == names \o <<x>>
             m == numbers \o <<v>>
  <2>2. n \in Seq(T) /\ Len(n) = L + 1 /\ (\A i \in 1 .. L : n[i] = names[i]) /\ n[L + 1] = x
    BY <1>1, LongerByOne
  <2>3. m \in Seq(Int) /\ Len(m) = L + 1 /\ (\A i \in 1 .. L : m[i] = numbers[i]) /\ m[L + 1] = v
    <3>1. m \in Seq(Int) /\ Len(m) = Len(numbers) + 1
          /\ (\A i \in 1 .. Len(numbers) : m[i] = numbers[i]) /\ m[Len(numbers) + 1] = v
      <4> DEFINE Z == Int
      <4>1. numbers \in Seq(Z) /\ v \in Z
        BY <1>1, <2>1
      <4> HIDE DEF Z
      <4>2. m \in Seq(Z) /\ Len(m) = Len(numbers) + 1
            /\ (\A i \in 1 .. Len(numbers) : m[i] = numbers[i]) /\ m[Len(numbers) + 1] = v
        BY <4>1, LongerByOne
      <4> QED BY <4>2 DEF Z
    <3> HIDE DEF m
    <3> QED BY <1>1, <3>1
  <2> HIDE DEF n, m
  <2>4. ASSUME NEW i \in 1 .. (L + 1) PROVE n[i] \in S \union {x} /\ m[i] = f[n[i]]
    <3>1. CASE i \in 1 .. L
      BY <1>1, <2>2, <2>3, <3>1
    <3>2. CASE i = L + 1
      BY <2>1, <2>2, <2>3, <3>2
    <3> QED BY <1>1, <3>1, <3>2
  <2>5. ASSUME NEW y \in S \union {x} PROVE \E i \in 1 .. (L + 1) : n[i] = y
    <3>1. CASE y \in S
      BY <1>1, <2>2, <3>1
    <3>2. CASE y = x
      BY <1>1, <2>2, <3>2
    <3> QED BY <3>1, <3>2
  <2>6. Paired(n, m, f, S \union {x}, T)
    BY <2>2, <2>3, <2>4, <2>5 DEF Paired
  <2> QED BY <1>2, <2>1, <2>6 DEF n, m
<1>3. CASE ~on
  <2>1. Number(on, x) = << >> /\ Number(on, v) = << >>
    BY <1>3 DEF Number
  <2>2. names \o << >> = names /\ numbers \o << >> = numbers
    BY <1>1
  <2>3. S \union (IF on THEN {x} ELSE {}) = S
    BY <1>3
  <2> QED BY <2>1, <2>2, <2>3
<1> QED BY <1>2, <1>3

NameSet == {"uid", "ctr", "picc", "tt", "input", "enc", "encLen", "mac", "limit"}

\* The number that a name stands for.
FieldOf(s, x) ==
  IF x = "input" THEN s.input ELSE IF x = "encLen" THEN s.encLen
  ELSE IF x = "limit" THEN s.limit ELSE s.at[x]
Fields(s) == [x \in NameSet |-> FieldOf(s, x)]

InUse(s) ==
  {x \in NameSet : CASE x = "input" -> Has(s, "mac") [] x = "encLen" -> Has(s, "enc")
                     [] x = "limit" -> s.limit # NoLimit [] OTHER -> Has(s, x)}

\* The options and nibbles tell which numbers follow.
LEMMA Conditions ==
  ASSUME NEW s \in SettingsType, WellFormed(s), NEW w, w = Encode(s)
  PROVE  /\ ("uid" \in w.options /\ w.meta = "free") <=> Has(s, "uid")
         /\ ("ctr" \in w.options /\ w.meta = "free") <=> Has(s, "ctr")
         /\ (w.meta = "key") <=> Has(s, "picc")
         /\ ("tt" \in w.options) <=> Has(s, "tt")
         /\ w.read <=> Has(s, "mac")
         /\ (w.read /\ "enc" \in w.options) <=> Has(s, "enc")
         /\ ("limit" \in w.options) <=> s.limit # NoLimit
         /\ w.options \intersect Identity = Includes(s)
         /\ w.meta # "none" => Includes(s) # {}
         /\ w.numbers = Numbers(s) /\ w.read \in BOOLEAN
<1>1. /\ w.options = Includes(s) \union Flag("limit", s.limit # NoLimit)
                       \union Flag("enc", Has(s, "enc")) \union Flag("tt", Has(s, "tt"))
      /\ w.meta = IF Has(s, "picc") THEN "key" ELSE IF Includes(s) # {} THEN "free" ELSE "none"
      /\ w.read = Has(s, "mac") /\ w.numbers = Numbers(s)
  BY DEF Encode
<1>2. Includes(s) \subseteq Identity
  BY DEF SettingsType, Includes
<1>3. \A o : /\ o \in Flag("limit", s.limit # NoLimit) <=> o = "limit" /\ s.limit # NoLimit
             /\ o \in Flag("enc", Has(s, "enc")) <=> o = "enc" /\ Has(s, "enc")
             /\ o \in Flag("tt", Has(s, "tt")) <=> o = "tt" /\ Has(s, "tt")
  BY DEF Flag
<1>4. /\ "limit" \in w.options <=> s.limit # NoLimit
      /\ "enc" \in w.options <=> Has(s, "enc")
      /\ "tt" \in w.options <=> Has(s, "tt")
      /\ w.options \intersect Identity = Includes(s)
  <2>1. "limit" \notin Identity /\ "enc" \notin Identity /\ "tt" \notin Identity
    BY DEF Identity
  <2>2. \A o : o \in w.options <=> o \in Includes(s) \/ (o = "limit" /\ s.limit # NoLimit)
                                    \/ (o = "enc" /\ Has(s, "enc")) \/ (o = "tt" /\ Has(s, "tt"))
    BY <1>1, <1>3
  <2> QED BY <1>2, <2>1, <2>2
<1>5. w.read \in BOOLEAN
  BY <1>1 DEF Has
<1>6. CASE Has(s, "picc")
  <2>1. Includes(s) = s.content /\ s.content # {} /\ ~Has(s, "uid") /\ ~Has(s, "ctr")
    BY <1>6 DEF Includes, WellFormed, Has, Identity
  <2>2. w.meta = "key"
    BY <1>1, <1>6
  <2>3. Has(s, "enc") => Has(s, "mac")
    BY DEF WellFormed
  <2> QED BY <1>1, <1>4, <1>5, <1>6, <2>1, <2>2, <2>3
<1>7. CASE ~Has(s, "picc")
  <2>1. "uid" \in Includes(s) <=> Has(s, "uid")
    BY <1>7 DEF Includes, Has, Identity
  <2>2. "ctr" \in Includes(s) <=> Has(s, "ctr")
    BY <1>7 DEF Includes, Has, Identity
  <2>3. "uid" \in Identity /\ "ctr" \in Identity
    BY DEF Identity
  <2>4. w.meta = (IF Includes(s) # {} THEN "free" ELSE "none")
    BY <1>1, <1>7
  <2>5. Has(s, "enc") => Has(s, "mac")
    BY DEF WellFormed
  <2>6. "uid" \in w.options <=> "uid" \in Includes(s)
    BY <1>4, <2>3
  <2>7. "ctr" \in w.options <=> "ctr" \in Includes(s)
    BY <1>4, <2>3
  <2>8. (w.meta = "free") <=> Includes(s) # {}
    BY <2>4
  <2>9. w.meta # "key" /\ (w.meta # "none" => Includes(s) # {})
    BY <2>4
  <2> QED BY <1>1, <1>4, <1>5, <1>7, <2>1, <2>2, <2>5, <2>6, <2>7, <2>8, <2>9
<1> QED BY <1>6, <1>7

LEMMA LayoutIs ==
  ASSUME NEW s \in SettingsType, WellFormed(s), NEW w, w = Encode(s)
  PROVE  Layout(w) =
           Number(Has(s, "uid"), "uid") \o Number(Has(s, "ctr"), "ctr")
             \o Number(Has(s, "picc"), "picc") \o Number(Has(s, "tt"), "tt")
             \o Number(Has(s, "mac"), "input") \o Number(Has(s, "enc"), "enc")
             \o Number(Has(s, "enc"), "encLen") \o Number(Has(s, "mac"), "mac")
             \o Number(s.limit # NoLimit, "limit")
<1>1. /\ ("uid" \in w.options /\ w.meta = "free") = Has(s, "uid")
      /\ ("ctr" \in w.options /\ w.meta = "free") = Has(s, "ctr")
      /\ (w.meta = "key") = Has(s, "picc")
      /\ ("tt" \in w.options) = Has(s, "tt")
      /\ w.read = Has(s, "mac")
      /\ (w.read /\ "enc" \in w.options) = Has(s, "enc")
      /\ ("limit" \in w.options) = (s.limit # NoLimit)
  BY Conditions DEF Has
<1> QED BY <1>1, Zenon DEF Layout

\* The numbers stand in the order of their names.
LEMMA NumbersPaired ==
  ASSUME NEW s \in SettingsType, WellFormed(s), NEW w, w = Encode(s)
  PROVE  Paired(Layout(w), w.numbers, Fields(s), InUse(s), NameSet)
<1> DEFINE f == Fields(s)
           one(on, x) == IF on THEN {x} ELSE {}
           c1 == Has(s, "uid")
           c2 == Has(s, "ctr")
           c3 == Has(s, "picc")
           c4 == Has(s, "tt")
           c5 == Has(s, "mac")
           c6 == Has(s, "enc")
           c9 == s.limit # NoLimit
           S1 == one(c1, "uid")
           S2 == S1 \union one(c2, "ctr")
           S3 == S2 \union one(c3, "picc")
           S4 == S3 \union one(c4, "tt")
           S5 == S4 \union one(c5, "input")
           S6 == S5 \union one(c6, "enc")
           S7 == S6 \union one(c6, "encLen")
           S8 == S7 \union one(c5, "mac")
           S9 == S8 \union one(c9, "limit")
<1>1. /\ "uid" \in NameSet /\ "ctr" \in NameSet /\ "picc" \in NameSet /\ "tt" \in NameSet
      /\ "input" \in NameSet /\ "enc" \in NameSet /\ "encLen" \in NameSet
      /\ "mac" \in NameSet /\ "limit" \in NameSet
  BY DEF NameSet
<1>2. /\ f["input"] = s.input /\ f["encLen"] = s.encLen /\ f["limit"] = s.limit
      /\ f["uid"] = At(s, "uid") /\ f["ctr"] = At(s, "ctr") /\ f["picc"] = At(s, "picc")
      /\ f["tt"] = At(s, "tt") /\ f["mac"] = At(s, "mac") /\ f["enc"] = At(s, "enc")
  BY <1>1 DEF Fields, FieldOf, At
<1>3. /\ c1 \in BOOLEAN /\ c2 \in BOOLEAN /\ c3 \in BOOLEAN /\ c4 \in BOOLEAN /\ c5 \in BOOLEAN
      /\ c6 \in BOOLEAN /\ c9 \in BOOLEAN
  BY DEF Has
<1>4. /\ \A m : Has(s, m) => At(s, m) \in Int
      /\ s.input \in Int /\ s.encLen \in Int /\ (c9 => s.limit \in Int)
  <2>1. /\ \A m \in DOMAIN s.at : s.at[m] \in 0 .. MaxOffset
        /\ s.input \in 0 .. MaxOffset /\ s.encLen \in Nat /\ s.limit \in Nat \union {NoLimit}
    BY SettingsAre
  <2>2. MaxOffset \in Nat
    BY LengthAssumption
  <2> QED BY <2>1, <2>2 DEF Has, At
<1>5. w.numbers = Number(c1, At(s, "uid")) \o Number(c2, At(s, "ctr")) \o Number(c3, At(s, "picc"))
                    \o Number(c4, At(s, "tt")) \o Number(c5, s.input) \o Number(c6, At(s, "enc"))
                    \o Number(c6, s.encLen) \o Number(c5, At(s, "mac")) \o Number(c9, s.limit)
  <2>1. w.numbers = Numbers(s)
    BY Conditions
  <2>2. /\ Offset(s, "uid") = Number(c1, At(s, "uid"))
        /\ Offset(s, "ctr") = Number(c2, At(s, "ctr"))
        /\ Offset(s, "picc") = Number(c3, At(s, "picc"))
        /\ Offset(s, "tt") = Number(c4, At(s, "tt"))
        /\ Offset(s, "mac") = Number(c5, At(s, "mac"))
        /\ Offset(s, "enc") = Number(c6, At(s, "enc"))
    BY Zenon DEF Offset, Number
  <2>3. Numbers(s) =
          Offset(s, "uid") \o Offset(s, "ctr") \o Offset(s, "picc") \o Offset(s, "tt")
            \o Number(c5, s.input)
            \o Offset(s, "enc") \o Number(c6, s.encLen) \o Offset(s, "mac")
            \o Number(c9, s.limit)
    BY DEF Numbers
  <2> HIDE DEF c1, c2, c3, c4, c5, c6, c9
  <2> QED BY <2>1, <2>2, <2>3, Zenon
<1>6. Layout(w) = Number(c1, "uid") \o Number(c2, "ctr") \o Number(c3, "picc") \o Number(c4, "tt")
                    \o Number(c5, "input") \o Number(c6, "enc") \o Number(c6, "encLen")
                    \o Number(c5, "mac") \o Number(c9, "limit")
  BY LayoutIs
<1>7. InUse(s) = S9
  <2>1. \A x : x \in InUse(s) <=>
          \/ (x = "uid" /\ c1)   \/ (x = "ctr" /\ c2) \/ (x = "picc" /\ c3)   \/ (x = "tt" /\ c4)
          \/ (x = "input" /\ c5) \/ (x = "enc" /\ c6) \/ (x = "encLen" /\ c6) \/ (x = "mac" /\ c5)
          \/ (x = "limit" /\ c9)
    <3>1. \A x : x \in InUse(s) <=>
            x \in NameSet /\ (CASE x = "input" -> c5 [] x = "encLen" -> c6
                                [] x = "limit" -> c9 [] OTHER -> Has(s, x))
      BY DEF InUse
    <3>2. \A x \in NameSet : (CASE x = "input" -> c5 [] x = "encLen" -> c6
                                [] x = "limit" -> c9 [] OTHER -> Has(s, x)) <=>
            \/ (x = "input" /\ c5) \/ (x = "encLen" /\ c6) \/ (x = "limit" /\ c9)
            \/ (x \notin {"input", "encLen", "limit"} /\ Has(s, x))
      BY Zenon
    <3> QED BY <3>1, <3>2 DEF NameSet
  <2>2. \A x : x \in S9 <=>
          \/ (x = "uid" /\ c1)   \/ (x = "ctr" /\ c2) \/ (x = "picc" /\ c3)   \/ (x = "tt" /\ c4)
          \/ (x = "input" /\ c5) \/ (x = "enc" /\ c6) \/ (x = "encLen" /\ c6) \/ (x = "mac" /\ c5)
          \/ (x = "limit" /\ c9)
    OBVIOUS
  <2> QED BY <2>1, <2>2
<1> HIDE DEF f, c1, c2, c3, c4, c5, c6, c9
<1> DEFINE L1 == Number(c1, "uid")
           N1 == Number(c1, At(s, "uid"))
           L2 == L1 \o Number(c2, "ctr")
           N2 == N1 \o Number(c2, At(s, "ctr"))
           L3 == L2 \o Number(c3, "picc")
           N3 == N2 \o Number(c3, At(s, "picc"))
           L4 == L3 \o Number(c4, "tt")
           N4 == N3 \o Number(c4, At(s, "tt"))
           L5 == L4 \o Number(c5, "input")
           N5 == N4 \o Number(c5, s.input)
           L6 == L5 \o Number(c6, "enc")
           N6 == N5 \o Number(c6, At(s, "enc"))
           L7 == L6 \o Number(c6, "encLen")
           N7 == N6 \o Number(c6, s.encLen)
           L8 == L7 \o Number(c5, "mac")
           N8 == N7 \o Number(c5, At(s, "mac"))
<1> HIDE DEF L1, N1, L2, N2, L3, N3, L4, N4, L5, N5, L6, N6, L7, N7, L8, N8
<1> HIDE DEF S1, S2, S3, S4, S5, S6, S7, S8, S9
<1>8. /\ c1 => At(s, "uid") \in Int
      /\ c2 => At(s, "ctr") \in Int
      /\ c3 => At(s, "picc") \in Int
      /\ c4 => At(s, "tt") \in Int
      /\ c5 => At(s, "mac") \in Int
      /\ c6 => At(s, "enc") \in Int
  BY <1>4 DEF c1, c2, c3, c4, c5, c6
<1>11. Paired(L1, N1, f, S1, NameSet)
  BY <1>1, <1>2, <1>3, <1>8, PairedOnce DEF L1, N1, S1
<1>12. Paired(L2, N2, f, S2, NameSet)
  BY <1>1, <1>2, <1>3, <1>8, <1>11, PairedMore DEF L2, N2, S2
<1>13. Paired(L3, N3, f, S3, NameSet)
  BY <1>1, <1>2, <1>3, <1>8, <1>12, PairedMore DEF L3, N3, S3
<1>14. Paired(L4, N4, f, S4, NameSet)
  BY <1>1, <1>2, <1>3, <1>8, <1>13, PairedMore DEF L4, N4, S4
<1>15. Paired(L5, N5, f, S5, NameSet)
  BY <1>1, <1>2, <1>3, <1>4, <1>14, PairedMore DEF L5, N5, S5
<1>16. Paired(L6, N6, f, S6, NameSet)
  BY <1>1, <1>2, <1>3, <1>8, <1>15, PairedMore DEF L6, N6, S6
<1>17. Paired(L7, N7, f, S7, NameSet)
  BY <1>1, <1>2, <1>3, <1>4, <1>16, PairedMore DEF L7, N7, S7
<1>18. Paired(L8, N8, f, S8, NameSet)
  BY <1>1, <1>2, <1>3, <1>8, <1>17, PairedMore DEF L8, N8, S8
<1>19. Paired(L8 \o Number(c9, "limit"), N8 \o Number(c9, s.limit), f, S9, NameSet)
  BY <1>1, <1>2, <1>3, <1>4, <1>18, PairedMore DEF S9
<1>20. Layout(w) = L8 \o Number(c9, "limit") /\ w.numbers = N8 \o Number(c9, s.limit)
  BY <1>5, <1>6 DEF L1, N1, L2, N2, L3, N3, L4, N4, L5, N5, L6, N6, L7, N7, L8, N8
<1> QED BY <1>7, <1>19, <1>20 DEF f

\* What is read of the numbers: those that were sent.
LEMMA ValuesRead ==
  ASSUME NEW s \in SettingsType, WellFormed(s), NEW w, w = Encode(s)
  PROVE  /\ Names(w) = InUse(s) /\ Len(w.numbers) = Len(Layout(w))
         /\ \A x \in InUse(s) : Value(w, x) = FieldOf(s, x)
         /\ \A x : x \notin InUse(s) => Value(w, x) = 0
<1> DEFINE L == Layout(w)
           N == w.numbers
           n == Len(L)
           S == InUse(s)
           f == Fields(s)
<1>1. Paired(L, N, f, S, NameSet)
  BY NumbersPaired
<1>2. /\ L \in Seq(NameSet) /\ n \in Nat /\ Len(N) = n /\ DOMAIN L = 1 .. n
      /\ \A i \in 1 .. n : L[i] \in S /\ N[i] = f[L[i]]
      /\ \A x \in S : \E i \in 1 .. n : L[i] = x
  <2> HIDE DEF L, N, f, S
  <2> QED BY <1>1 DEF Paired
<1>3. Names(w) = {L[i] : i \in DOMAIN L}
  BY DEF Names
<1>4. \A x : Value(w, x) =
        IF x \in Names(w) THEN N[CHOOSE i \in DOMAIN L : L[i] = x] ELSE 0
  BY DEF Value
<1>5. S \subseteq NameSet
  BY DEF InUse
<1>6. \A x \in S : f[x] = FieldOf(s, x)
  BY <1>5 DEF Fields
<1> HIDE DEF L, N, f, S, n
<1>7. Names(w) = S
  BY <1>2, <1>3
<1>8. ASSUME NEW x \in S PROVE Value(w, x) = FieldOf(s, x)
  <2> DEFINE i == CHOOSE i \in DOMAIN L : L[i] = x
  <2>1. i \in 1 .. n /\ L[i] = x
    <3>1. \E j \in DOMAIN L : L[j] = x
      BY <1>2
    <3> QED BY <1>2, <3>1
  <2>2. Value(w, x) = N[i]
    BY <1>4, <1>7
  <2> HIDE DEF i
  <2> QED BY <1>2, <1>6, <2>1, <2>2
<1>9. \A x : x \notin S => Value(w, x) = 0
  BY <1>4, <1>7
<1> QED BY <1>2, <1>7, <1>8, <1>9 DEF L, N, S, n

LEMMA InUseIs ==
  ASSUME NEW s \in SettingsType
  PROVE  /\ InUse(s) \intersect Mirror = DOMAIN s.at
         /\ "input" \in InUse(s) <=> Has(s, "mac")
         /\ "encLen" \in InUse(s) <=> Has(s, "enc")
         /\ "limit" \in InUse(s) <=> s.limit # NoLimit
         /\ "enc" \in InUse(s) <=> Has(s, "enc")
<1>1. DOMAIN s.at \subseteq Mirror
  BY SettingsAre
<1>2. \A x : x \in InUse(s) <=>
        x \in NameSet /\ (CASE x = "input" -> Has(s, "mac") [] x = "encLen" -> Has(s, "enc")
                            [] x = "limit" -> s.limit # NoLimit [] OTHER -> Has(s, x))
  BY DEF InUse
<1>3. \A x \in Mirror : x \in NameSet /\ x # "input" /\ x # "encLen" /\ x # "limit"
  BY DEF Mirror, NameSet
<1>4. "input" \in NameSet /\ "encLen" \in NameSet /\ "limit" \in NameSet /\ "enc" \in Mirror
  BY DEF NameSet, Mirror
<1>5. \A x \in Mirror : x \in InUse(s) <=> Has(s, x)
  BY <1>2, <1>3, Zenon
<1>6. /\ "input" \in InUse(s) <=> Has(s, "mac")
      /\ "encLen" \in InUse(s) <=> Has(s, "enc")
      /\ "limit" \in InUse(s) <=> s.limit # NoLimit
  BY <1>2, <1>4, Zenon
<1> QED BY <1>1, <1>4, <1>5, <1>6 DEF Has

\* Settings survive the way to the tag and back.
LEMMA ReadBack ==
  ASSUME NEW suite \in Mode, NEW s, Sound(s, suite)
  PROVE  LET w == Encode(s) IN
         /\ Decodes(w)
         /\ Decoded(w) = [s EXCEPT !.limit = IF @ = MaxOffset THEN NoLimit ELSE @]
<1> DEFINE w == Encode(s)
           d == Decoded(w)
           limit == IF s.limit = MaxOffset THEN NoLimit ELSE s.limit
           t == [s EXCEPT !.limit = limit]
<1>1. s \in SettingsType /\ WellFormed(s) /\ TryNewFromWire(s)
  BY DEF Sound, TryNew
<1>2. w = Encode(s)
  OBVIOUS
<1>3. /\ Names(w) = InUse(s) /\ Len(w.numbers) = Len(Layout(w))
      /\ \A x \in InUse(s) : Value(w, x) = FieldOf(s, x)
      /\ \A x : x \notin InUse(s) => Value(w, x) = 0
  BY <1>1, <1>2, ValuesRead
<1>4. /\ (w.meta = "key") <=> Has(s, "picc")
      /\ ("limit" \in w.options) <=> s.limit # NoLimit
      /\ w.options \intersect Identity = Includes(s)
      /\ w.meta # "none" => Includes(s) # {}
  BY <1>1, <1>2, Conditions
<1>5. /\ InUse(s) \intersect Mirror = DOMAIN s.at
      /\ "input" \in InUse(s) <=> Has(s, "mac")
      /\ "encLen" \in InUse(s) <=> Has(s, "enc")
      /\ "limit" \in InUse(s) <=> s.limit # NoLimit
      /\ "enc" \in InUse(s) <=> Has(s, "enc")
  BY <1>1, InUseIs
<1>6. s.at = [m \in DOMAIN s.at |-> s.at[m]] /\ DOMAIN s.at \subseteq Mirror
  BY <1>1, SettingsAre
<1> HIDE DEF w
<1>7. [m \in Names(w) \intersect Mirror |-> Value(w, m)] = s.at
  <2>1. \A m \in DOMAIN s.at : Value(w, m) = s.at[m]
    <3>1. \A m \in Mirror : m # "input" /\ m # "encLen" /\ m # "limit"
      BY DEF Mirror
    <3> QED BY <1>3, <1>5, <1>6, <3>1 DEF FieldOf
  <2> QED BY <1>3, <1>5, <1>6, <2>1
<1>8. Value(w, "input") = s.input
  <2>1. CASE Has(s, "mac")
    BY <1>3, <1>5, <2>1 DEF FieldOf
  <2>2. CASE ~Has(s, "mac")
    BY <1>1, <1>3, <1>5, <2>2 DEF WellFormed
  <2> QED BY <2>1, <2>2
<1>9. Value(w, "encLen") = s.encLen
  <2>1. CASE Has(s, "enc")
    BY <1>3, <1>5, <2>1 DEF FieldOf
  <2>2. CASE ~Has(s, "enc")
    BY <1>1, <1>3, <1>5, <2>2 DEF WellFormed
  <2> QED BY <2>1, <2>2
<1>10. (IF w.meta = "key" THEN w.options \intersect Identity ELSE {}) = s.content
  BY <1>1, <1>4 DEF Includes, WellFormed
<1>11. (IF "limit" \in w.options /\ Value(w, "limit") # MaxOffset
          THEN Value(w, "limit") ELSE NoLimit) = limit
  <2>1. s.limit # NoLimit => Value(w, "limit") = s.limit
    BY <1>3, <1>5 DEF FieldOf
  <2> QED BY <1>4, <2>1
<1>12. d = [at |-> s.at, content |-> s.content, input |-> s.input, encLen |-> s.encLen,
            limit |-> limit]
  BY <1>7, <1>8, <1>9, <1>10, <1>11 DEF Decoded
<1>13. t = [at |-> s.at, content |-> s.content, input |-> s.input, encLen |-> s.encLen,
            limit |-> limit]
  <2>1. s = [at |-> s.at, content |-> s.content, input |-> s.input,
             encLen |-> s.encLen, limit |-> s.limit]
    BY <1>1, SettingsAre
  <2> HIDE DEF limit
  <2> QED BY <2>1
<1>14. TryNewFromWire(d)
  <2>1. d.at = s.at /\ d.content = s.content /\ d.input = s.input /\ d.encLen = s.encLen
    BY <1>12
  <2>2. Includes(d) = Includes(s) /\ (\A m : Has(d, m) = Has(s, m) /\ At(d, m) = At(s, m))
    BY <2>1 DEF Includes, Has, At
  <2>3. \A m, x : Width(d, m, x) = Width(s, m, x)
    BY <2>1 DEF Width
  <2>4. \A m, x : Span(d, m, x) = Span(s, m, x)
    BY <2>2, <2>3 DEF Span
  <2>5. \A x, m, n : Overlap(d, x, m, n) = Overlap(s, x, m, n)
    BY <2>2, <2>4 DEF Overlap
  <2> HIDE DEF d
  <2> QED BY <1>1, <2>1, <2>2, <2>5
       DEF TryNewFromWire, WindowOrdered, EncInWindow, EncHasBoth, TamperBeforeCipher
<1>15. Decodes(w)
  <2>1. w.meta # "none" => w.options \intersect Identity # {}
    BY <1>4
  <2>2. "limit" \in w.options => "ctr" \in w.options
    BY <1>1, <1>4 DEF WellFormed
  <2>3. "enc" \in Names(w) => Value(w, "encLen") > 0 /\ Value(w, "encLen") % EncUnit = 0
    BY <1>1, <1>3, <1>5, <1>9 DEF WellFormed
  <2> QED BY <1>3, <1>14, <2>1, <2>2, <2>3 DEF Decodes
<1> QED BY <1>12, <1>13, <1>15 DEF w

\* The numbers that are sent take no more than three bytes, but for the limit.
LEMMA SendableIs ==
  ASSUME NEW suite \in Mode, NEW s, Sound(s, suite)
  PROVE  Encodable(s) <=> s.limit <= MaxOffset
<1> DEFINE w == Encode(s)
           L == Layout(w)
           N == w.numbers
           f == Fields(s)
           S == InUse(s)
<1>1. s \in SettingsType /\ WellFormed(s) /\ TryNewFromWire(s)
  BY DEF Sound, TryNew
<1>2. Paired(L, N, f, S, NameSet)
  BY <1>1, NumbersPaired
<1>3. N = Numbers(s)
  BY DEF Encode
<1>4. MaxOffset \in Nat /\ s.limit \in Nat \union {NoLimit}
  BY <1>1, SettingsAre, LengthAssumption
<1>5. "limit" \in S <=> s.limit # NoLimit
  BY <1>1, InUseIs
<1>6. S \subseteq NameSet /\ "limit" \in NameSet /\ f["limit"] = s.limit
  BY DEF InUse, NameSet, Fields, FieldOf
<1>7. ASSUME NEW x \in S, x # "limit" PROVE f[x] \in 0 .. MaxOffset
  <2>1. x \in NameSet /\ f[x] = FieldOf(s, x)
    BY <1>6, <1>7 DEF Fields
  <2>2. CASE x = "input"
    BY <1>1, <2>1, <2>2, SettingsAre DEF FieldOf
  <2>3. CASE x = "encLen"
    <3>1. Has(s, "enc") /\ Has(s, "mac")
      BY <1>1, <1>7, <2>3, InUseIs DEF WellFormed
    <3>2. At(s, "enc") \in 0 .. MaxOffset /\ At(s, "mac") \in 0 .. MaxOffset /\ s.encLen \in Nat
      BY <1>1, <3>1, SettingsAre DEF Has, At
    <3>3. At(s, "enc") + s.encLen <= At(s, "mac")
      BY <1>1, <3>1 DEF TryNewFromWire, EncInWindow
    <3>4. s.encLen \in 0 .. MaxOffset
      BY <1>4, <3>2, <3>3
    <3> QED BY <2>1, <2>3, <3>4 DEF FieldOf
  <2>4. CASE x # "input" /\ x # "encLen"
    <3>1. x \in Mirror
      BY <1>7, <2>1, <2>4 DEF NameSet, Mirror
    <3>2. x \in DOMAIN s.at
      BY <1>1, <1>7, <3>1, InUseIs
    <3> QED BY <1>1, <1>7, <2>1, <2>4, <3>2, SettingsAre DEF FieldOf
  <2> QED BY <2>2, <2>3, <2>4
<1> HIDE DEF L, N, f, S, w
<1>8. /\ Len(L) \in Nat /\ N \in Seq(Int) /\ Len(N) = Len(L) /\ DOMAIN N = 1 .. Len(L)
      /\ \A i \in 1 .. Len(L) : L[i] \in S /\ N[i] = f[L[i]]
      /\ \A x \in S : \E i \in 1 .. Len(L) : L[i] = x
  BY <1>2 DEF Paired
<1>9. Encodable(s) <=> \A i \in 1 .. Len(L) : N[i] <= MaxOffset
  BY <1>3, <1>8, Zenon DEF Encodable
<1>10. \A i \in 1 .. Len(L) : L[i] # "limit" => N[i] <= MaxOffset
  BY <1>4, <1>7, <1>8
<1>11. CASE s.limit <= MaxOffset
  BY <1>6, <1>8, <1>9, <1>10, <1>11
<1>12. CASE ~(s.limit <= MaxOffset)
  <2>1. "limit" \in S
    BY <1>4, <1>5, <1>12 DEF NoLimit
  <2>2. PICK i \in 1 .. Len(L) : L[i] = "limit"
    BY <1>8, <2>1
  <2>3. N[i] = s.limit
    BY <1>6, <1>8, <2>2
  <2> QED BY <1>9, <1>12, <2>3
<1> QED BY <1>11, <1>12

-----------------------------------------------------------------------------
(* Counters of several digits *)

LEMMA LeastNumber ==
  ASSUME NEW T \in SUBSET Nat, T # {}
  PROVE  \E x \in T : \A y \in T : x <= y
<1> DEFINE R == OpToRel(<, Nat)
<1>1. IsWellFoundedOn(R, Nat)
  BY NatLessThanWellFounded
<1>2. \A x, y \in Nat : <<x, y>> \in R <=> x < y
  BY DEF OpToRel
<1> HIDE DEF R
<1>3. PICK x \in T : \A y \in T : ~ (<<y, x>> \in R)
  BY <1>1, WFMin
<1>4. ASSUME NEW y \in T PROVE x <= y
  <2>1. x \in Nat /\ y \in Nat /\ ~(y < x)
    BY <1>2, <1>3
  <2> QED BY <2>1
<1> QED BY <1>4

LEMMA Induction ==
  ASSUME NEW S, 0 \in S, \A n \in Nat : n \in S => n + 1 \in S
  PROVE  Nat \subseteq S
<1> SUFFICES ASSUME Nat \ S # {} PROVE FALSE
  OBVIOUS
<1>1. PICK x \in Nat \ S : \A y \in Nat \ S : x <= y
  BY LeastNumber
<1>2. x \in Nat /\ x # 0 /\ x \notin S
  BY <1>1
<1>3. x - 1 \in Nat /\ x - 1 \in S
  BY <1>1, <1>2
<1> QED BY <1>2, <1>3

LEMMA BaseIs == Base \in Nat /\ Base > 0 /\ CtrLen \in Nat /\ CtrLen > 0
  BY BoundAssumption, LengthAssumption

\* There are powers of the base up to any exponent.
LEMMA PowersThere ==
  ASSUME NEW n \in Nat
  PROVE  \E f : /\ f = [k \in 0 .. n |-> IF k = 0 THEN 1 ELSE Base * f[k - 1]]
                /\ \A k \in 0 .. n : f[k] \in Nat /\ f[k] > 0
<1> DEFINE Good(f, m) == /\ f = [k \in 0 .. m |-> IF k = 0 THEN 1 ELSE Base * f[k - 1]]
                         /\ \A k \in 0 .. m : f[k] \in Nat /\ f[k] > 0
           S == {m \in Nat : \E f : Good(f, m)}
<1>1. 0 \in S
  <2> DEFINE f == [k \in 0 .. 0 |-> 1]
  <2>1. f = [k \in 0 .. 0 |-> IF k = 0 THEN 1 ELSE Base * f[k - 1]]
    OBVIOUS
  <2>2. \A k \in 0 .. 0 : f[k] \in Nat /\ f[k] > 0
    OBVIOUS
  <2> QED BY <2>1, <2>2
<1>2. ASSUME NEW m \in Nat, m \in S PROVE m + 1 \in S
  <2>1. PICK f : Good(f, m)
    BY <1>2
  <2> DEFINE g == [k \in 0 .. (m + 1) |-> IF k = m + 1 THEN Base * f[m] ELSE f[k]]
  <2>2. \A k \in 0 .. m : f[k] = (IF k = 0 THEN 1 ELSE Base * f[k - 1]) /\ f[k] \in Nat /\ f[k] > 0
    BY <2>1
  <2>3. Base * f[m] \in Nat /\ Base * f[m] > 0
    <3>1. f[m] \in Nat /\ f[m] > 0
      BY <2>2
    <3> QED BY <3>1, BaseIs
  <2>4. \A k \in 0 .. (m + 1) : g[k] \in Nat /\ g[k] > 0
    BY <2>2, <2>3
  <2>5. ASSUME NEW k \in 0 .. (m + 1) PROVE g[k] = IF k = 0 THEN 1 ELSE Base * g[k - 1]
    <3>1. CASE k = m + 1
      <4>1. k - 1 = m /\ k # 0 /\ m \in 0 .. (m + 1) /\ m # m + 1
        BY <3>1
      <4>2. g[k] = Base * f[m] /\ g[m] = f[m]
        BY <3>1, <4>1
      <4> QED BY <4>1, <4>2
    <3>2. CASE k # m + 1 /\ k # 0
      <4>1. k \in 0 .. m /\ k - 1 \in 0 .. (m + 1) /\ k - 1 # m + 1
        BY <3>2
      <4>2. g[k] = f[k] /\ g[k - 1] = f[k - 1]
        BY <3>2, <4>1
      <4> QED BY <2>2, <3>2, <4>1, <4>2
    <3>3. CASE k = 0
      <4>1. 0 \in 0 .. m /\ 0 \in 0 .. (m + 1) /\ 0 # m + 1
        OBVIOUS
      <4>2. g[0] = f[0] /\ f[0] = 1
        BY <2>2, <4>1
      <4> QED BY <3>3, <4>2
    <3> QED BY <3>1, <3>2, <3>3
  <2>6. g = [k \in 0 .. (m + 1) |-> IF k = 0 THEN 1 ELSE Base * g[k - 1]]
    <3>1. \A k \in 0 .. (m + 1) : g[k] = IF k = 0 THEN 1 ELSE Base * g[k - 1]
      BY <2>5
    <3>2. g = [k \in 0 .. (m + 1) |-> g[k]]
      OBVIOUS
    <3> HIDE DEF g
    <3> QED BY <3>1, <3>2
  <2> HIDE DEF g
  <2>7. Good(g, m + 1)
    BY <2>4, <2>6
  <2> QED BY <2>7
<1> HIDE DEF S
<1>3. n \in S
  BY <1>1, <1>2, Induction
<1> QED BY <1>3 DEF S

LEMMA PowerIs ==
  /\ Power[0] = 1
  /\ \A k \in 0 .. CtrLen : Power[k] \in Nat /\ Power[k] > 0
  /\ \A k \in 1 .. CtrLen : Power[k] = Base * Power[k - 1]
<1> DEFINE Def(f) == f = [k \in 0 .. CtrLen |-> IF k = 0 THEN 1 ELSE Base * f[k - 1]]
<1>1. CtrLen \in Nat
  BY BaseIs
<1>2. \E f : Def(f)
  BY <1>1, PowersThere
<1>3. Power = CHOOSE f : Def(f)
  BY DEF Power
<1>4. Def(Power)
  <2> HIDE DEF Def
  <2> QED BY <1>2, <1>3, Zenon
<1>5. \A k \in 0 .. CtrLen : Power[k] = IF k = 0 THEN 1 ELSE Base * Power[k - 1]
  BY <1>4
<1>6. PICK f : Def(f) /\ \A k \in 0 .. CtrLen : f[k] \in Nat /\ f[k] > 0
  BY <1>1, PowersThere
<1>7. \A k \in 0 .. CtrLen : f[k] = IF k = 0 THEN 1 ELSE Base * f[k - 1]
  BY <1>6
<1> HIDE DEF Def
<1> DEFINE S == {k \in Nat : k <= CtrLen => Power[k] = f[k]}
<1>8. 0 \in S
  BY <1>1, <1>5, <1>7
<1>9. ASSUME NEW k \in Nat, k \in S PROVE k + 1 \in S
  <2> SUFFICES ASSUME k + 1 <= CtrLen PROVE Power[k + 1] = f[k + 1]
    OBVIOUS
  <2>1. k <= CtrLen /\ k + 1 \in 0 .. CtrLen /\ k + 1 # 0 /\ k + 1 - 1 = k
    BY <1>1
  <2> QED BY <1>5, <1>7, <1>9, <2>1
<1>10. Nat \subseteq S
  BY <1>8, <1>9, Induction
<1>11. \A k \in 0 .. CtrLen : Power[k] = f[k]
  BY <1>10
<1> QED BY <1>1, <1>5, <1>6, <1>11

LEMMA Divided ==
  ASSUME NEW n \in Nat, NEW m \in Nat, m > 0, NEW q, q = n \div m, NEW r, r = n % m
  PROVE  n = m * q + r /\ q \in Nat /\ r \in Nat /\ r < m
<1>1. q \in Nat /\ r \in Nat /\ r < m
  OBVIOUS
<1>2. r = n - m * q
  OBVIOUS
<1>3. n = m * q + r
  <2>1. m * q \in Nat
    BY <1>1
  <2> QED BY <1>1, <1>2, <2>1
<1> QED BY <1>1, <1>3

LEMMA DividedOnce ==
  ASSUME NEW m \in Nat, NEW q \in Nat, NEW r \in Nat, r < m
  PROVE  (m * q + r) \div m = q /\ (m * q + r) % m = r
  OBVIOUS

\* The rest by the next power: the digit at this one, and the rest by this one.
LEMMA RestOf ==
  ASSUME NEW n \in Nat, NEW m \in Nat, m > 0, NEW b \in Nat, b > 0
  PROVE  n % (b * m) = (m * ((n \div m) % b)) + (n % m)
<1> DEFINE q == n \div m
           r == n % m
           d == q % b
           p == b * m
<1>1. q = n \div m /\ r = n % m /\ d = q % b /\ p = b * m
  OBVIOUS
<1> HIDE DEF q, r, d, p
<1>2. n = m * q + r /\ q \in Nat /\ r \in Nat /\ r < m
  BY <1>1, Divided
<1> DEFINE c == q \div b
<1>3. q = b * c + d /\ c \in Nat /\ d \in Nat /\ d < b
  BY <1>1, <1>2, Divided
<1> HIDE DEF c
<1>4. n = (b * m) * c + (m * d + r)
  <2>1. m * q = m * (b * c) + m * d
    BY <1>2, <1>3
  <2>2. m * (b * c) = (b * m) * c
    BY <1>3
  <2>3. m * (b * c) \in Nat /\ m * d \in Nat
    BY <1>3
  <2> QED BY <1>2, <2>1, <2>2, <2>3
<1>5. m * d + r \in Nat /\ b * m \in Nat /\ m * d + r < b * m
  <2>1. m * d \in Nat /\ b * m \in Nat
    BY <1>3
  <2>2. m * d + m = m * (d + 1)
    BY <1>3
  <2>3. d + 1 \in Nat /\ d + 1 <= b
    BY <1>3
  <2>4. m * (d + 1) <= m * b
    BY <2>3
  <2>5. m * b = b * m
    OBVIOUS
  <2> QED BY <1>2, <2>1, <2>2, <2>4, <2>5
<1> DEFINE rest == m * d + r
<1>6. n = p * c + rest /\ p \in Nat /\ rest \in Nat /\ rest < p
  BY <1>1, <1>4, <1>5
<1> HIDE DEF rest
<1>7. n % p = rest
  BY <1>3, <1>6, DividedOnce
<1> QED BY <1>1, <1>7, Zenon DEF rest

\* Numbers of the same digits are the same.
LEMMA DigitsTell ==
  ASSUME NEW c \in 0 .. (Power[CtrLen] - 1), NEW d \in 0 .. (Power[CtrLen] - 1),
         \A i \in 0 .. (CtrLen - 1) : (c \div Power[i]) % Base = (d \div Power[i]) % Base
  PROVE  c = d
<1>1. Power[CtrLen] \in Nat /\ Power[CtrLen] > 0 /\ c \in Nat /\ d \in Nat
  BY PowerIs, BaseIs
<1> DEFINE S == {k \in Nat : k <= CtrLen => c % Power[k] = d % Power[k]}
<1>2. 0 \in S
  BY <1>1, PowerIs
<1>3. ASSUME NEW k \in Nat, k \in S PROVE k + 1 \in S
  <2> SUFFICES ASSUME k + 1 <= CtrLen PROVE c % Power[k + 1] = d % Power[k + 1]
    OBVIOUS
  <2> DEFINE p == Power[k]
  <2>1. k <= CtrLen /\ k \in 0 .. CtrLen /\ k \in 0 .. (CtrLen - 1) /\ k + 1 \in 1 .. CtrLen
        /\ k + 1 - 1 = k
    BY BaseIs
  <2>2. p \in Nat /\ p > 0 /\ Power[k + 1] = Base * p
    BY <2>1, PowerIs
  <2>3. c % p = d % p /\ (c \div p) % Base = (d \div p) % Base
    BY <1>3, <2>1
  <2> HIDE DEF p
  <2>4. c \in Nat /\ d \in Nat /\ p \in Nat /\ p > 0 /\ Base \in Nat /\ Base > 0
    BY <1>1, <2>2, BaseIs
  <2>5. c % (Base * p) = (p * ((c \div p) % Base)) + (c % p)
    BY <2>4, RestOf, Zenon
  <2>6. d % (Base * p) = (p * ((d \div p) % Base)) + (d % p)
    BY <2>4, RestOf, Zenon
  <2> QED BY <2>2, <2>3, <2>5, <2>6, Zenon
<1>4. CtrLen \in S
  BY <1>2, <1>3, Induction, BaseIs
<1> DEFINE p == Power[CtrLen]
<1>5. c % p = d % p
  BY <1>4
<1>6. c < p /\ d < p
  BY <1>1
<1> HIDE DEF p, S
<1>7. p \in Nat /\ p > 0
  BY <1>1 DEF p
<1>8. c % p = c /\ d % p = d
  BY <1>1, <1>6, <1>7
<1> QED BY <1>5, <1>8

\* A counter is read back from its digits.
LEMMA ValueOfDigits ==
  ASSUME NEW c \in Ctrs, NEW b, DOMAIN b = 0 .. (CtrLen - 1),
         \A i \in 0 .. (CtrLen - 1) : b[i] = (c \div Power[i]) % Base
  PROVE  LeValue(b) = c
<1> DEFINE Fit(x) == \A i \in DOMAIN b : b[i] = (x \div Power[i]) % Base
           x == CHOOSE x \in 0 .. (Power[CtrLen] - 1) : Fit(x)
<1>1. c \in 0 .. (Power[CtrLen] - 1)
  BY BoundAssumption
<1>2. Fit(c)
  OBVIOUS
<1>3. LeValue(b) = x
  BY DEF LeValue
<1>4. x \in 0 .. (Power[CtrLen] - 1) /\ Fit(x)
  <2> HIDE DEF Fit
  <2> QED BY <1>1, <1>2
<1> HIDE DEF x
<1>5. x = c
  BY <1>1, <1>2, <1>4, DigitsTell
<1> QED BY <1>3, <1>5

-----------------------------------------------------------------------------
(* Placeholders do not disturb each other *)

LEMMA LengthsAre ==
  /\ UidLen \in Nat /\ UidLen > 0 /\ CtrLen \in Nat /\ CtrLen > 0 /\ MacLen \in Nat /\ MacLen > 0
  /\ TtLen \in Nat /\ TtLen > 0 /\ MaxOffset \in Nat
  /\ \A x \in Mode : PiccLen[x] \in Nat /\ PiccLen[x] > 0
<1>1. \A x \in Mode : PiccLen[x] \in Nat \ {0}
  BY LengthAssumption
<1> QED BY <1>1, LengthAssumption

LEMMA WidthIs ==
  ASSUME NEW s, NEW x
  PROVE  /\ Width(s, "uid", x) = UidLen /\ Width(s, "ctr", x) = CtrLen
         /\ Width(s, "picc", x) = PiccLen[x] /\ Width(s, "tt", x) = TtLen
         /\ Width(s, "mac", x) = MacLen /\ Width(s, "enc", x) = s.encLen
  BY DEF Width

LEMMA PlacesAre ==
  ASSUME NEW x \in Mode, NEW s, Sound(s, x), NEW m, Has(s, m)
  PROVE  At(s, m) \in Nat /\ At(s, m) <= MaxOffset /\ Width(s, m, x) \in Nat /\ Width(s, m, x) > 0
<1>1. s \in SettingsType /\ WellFormed(s)
  BY DEF Sound
<1>2. At(s, m) \in 0 .. MaxOffset /\ m \in Mirror /\ s.encLen \in Nat
  BY <1>1, SettingsAre DEF Has, At
<1>3. At(s, m) \in Nat /\ At(s, m) <= MaxOffset
  BY <1>2, LengthsAre
<1>4. m = "enc" => s.encLen > 0
  BY <1>1 DEF WellFormed
<1>5. Width(s, m, x) \in Nat /\ Width(s, m, x) > 0
  <2>1. CASE m = "enc"
    BY <1>2, <1>4, <2>1, WidthIs
  <2>2. CASE m \in {"uid", "ctr", "picc", "tt", "mac"}
    <3>1. /\ UidLen \in Nat /\ UidLen > 0 /\ CtrLen \in Nat /\ CtrLen > 0 /\ MacLen \in Nat
          /\ MacLen > 0 /\ TtLen \in Nat /\ TtLen > 0 /\ PiccLen[x] \in Nat /\ PiccLen[x] > 0
      BY LengthsAre
    <3> QED BY <2>2, <3>1, WidthIs
  <2> QED BY <1>2, <2>1, <2>2 DEF Mirror
<1> QED BY <1>3, <1>5

\* No two placeholders of accepted settings share a character, but for the
\* tamper status and the encrypted file data.
LEMMA Exclusive ==
  ASSUME mode \in Mode, NEW s, Sound(s, mode), NEW p \in Int
  PROVE  /\ ~(In(s, "uid", p) /\ In(s, "ctr", p))  /\ ~(In(s, "uid", p) /\ In(s, "tt", p))
         /\ ~(In(s, "ctr", p) /\ In(s, "tt", p))   /\ ~(In(s, "uid", p) /\ In(s, "mac", p))
         /\ ~(In(s, "ctr", p) /\ In(s, "mac", p))  /\ ~(In(s, "tt", p) /\ In(s, "mac", p))
         /\ ~(In(s, "enc", p) /\ In(s, "uid", p))  /\ ~(In(s, "enc", p) /\ In(s, "ctr", p))
         /\ ~(In(s, "picc", p) /\ In(s, "tt", p))  /\ ~(In(s, "picc", p) /\ In(s, "mac", p))
         /\ ~(In(s, "picc", p) /\ In(s, "enc", p)) /\ ~(In(s, "enc", p) /\ In(s, "mac", p))
         /\ ~(In(s, "uid", p) /\ In(s, "picc", p)) /\ ~(In(s, "ctr", p) /\ In(s, "picc", p))
<1>1. WellFormed(s) /\ TryNewFromWire(s)
      /\ \A q \in ApartFromPicc : ~Overlap(s, mode, q[1], q[2])
  BY DEF Sound, TryNew
<1>2. \A q \in Apart : ~Overlap(s, "Aes", q[1], q[2])
  BY <1>1 DEF TryNewFromWire
<1>3. \A m \in {"uid", "ctr", "tt", "mac", "enc"} : Span(s, m, "Aes") = Span(s, m, mode)
  BY WidthIs DEF Span
<1>4. /\ ~Overlap(s, "Aes", "uid", "ctr") /\ ~Overlap(s, "Aes", "uid", "tt")
      /\ ~Overlap(s, "Aes", "ctr", "tt")  /\ ~Overlap(s, "Aes", "uid", "mac")
      /\ ~Overlap(s, "Aes", "ctr", "mac") /\ ~Overlap(s, "Aes", "tt", "mac")
      /\ ~Overlap(s, "Aes", "enc", "uid") /\ ~Overlap(s, "Aes", "enc", "ctr")
  <2>1. /\ <<"uid", "ctr">> \in Apart /\ <<"uid", "tt">> \in Apart /\ <<"ctr", "tt">> \in Apart
        /\ <<"uid", "mac">> \in Apart /\ <<"ctr", "mac">> \in Apart /\ <<"tt", "mac">> \in Apart
        /\ <<"enc", "uid">> \in Apart /\ <<"enc", "ctr">> \in Apart
    BY DEF Apart
  <2>2. \A a, b : <<a, b>>[1] = a /\ <<a, b>>[2] = b
    OBVIOUS
  <2>3. \A a, b : <<a, b>> \in Apart => ~Overlap(s, "Aes", a, b)
    BY <1>2, <2>2
  <2> QED BY <2>1, <2>3
<1>5. ~Overlap(s, mode, "picc", "tt") /\ ~Overlap(s, mode, "picc", "mac")
      /\ ~Overlap(s, mode, "picc", "enc")
  <2>1. /\ <<"picc", "tt">> \in ApartFromPicc /\ <<"picc", "mac">> \in ApartFromPicc
        /\ <<"picc", "enc">> \in ApartFromPicc
    BY DEF ApartFromPicc
  <2>2. \A a, b : <<a, b>>[1] = a /\ <<a, b>>[2] = b
    OBVIOUS
  <2>3. \A a, b : <<a, b>> \in ApartFromPicc => ~Overlap(s, mode, a, b)
    BY <1>1, <2>2
  <2> QED BY <2>1, <2>3
<1>6. \A m, n \in {"uid", "ctr", "tt", "mac", "enc"} :
        ~Overlap(s, "Aes", m, n) => ~(In(s, m, p) /\ In(s, n, p))
  BY <1>3 DEF Overlap, In
<1>7. \A m, n : ~Overlap(s, mode, m, n) => ~(In(s, m, p) /\ In(s, n, p))
  BY DEF Overlap, In
<1>8. ~(In(s, "enc", p) /\ In(s, "mac", p))
  <2> SUFFICES ASSUME In(s, "enc", p), In(s, "mac", p) PROVE FALSE
    OBVIOUS
  <2>1. Has(s, "enc") /\ Has(s, "mac")
    BY DEF In
  <2> DEFINE a == At(s, "enc")
             b == At(s, "mac")
             n == s.encLen
  <2>2. a \in Nat /\ b \in Nat /\ n \in Nat
    BY <2>1, PlacesAre, WidthIs
  <2>3. a + n <= b
    BY <1>1, <2>1 DEF TryNewFromWire, EncInWindow
  <2>4. p \in a .. (a + n - 1) /\ p \in b .. (b + MacLen - 1)
    BY WidthIs DEF In, Span
  <2> HIDE DEF a, b, n
  <2> QED BY <2>2, <2>3, <2>4, LengthsAre
<1>9. ~(In(s, "uid", p) /\ In(s, "picc", p)) /\ ~(In(s, "ctr", p) /\ In(s, "picc", p))
  BY <1>1 DEF WellFormed, In, Has, Identity
<1> QED BY <1>4, <1>5, <1>6, <1>7, <1>8, <1>9

-----------------------------------------------------------------------------
(* What the tag writes *)

LEMMA MirroredIs ==
  ASSUME mode \in Mode, NEW s, Sound(s, mode), NEW c, NEW open, NEW p \in Int
  PROVE  /\ In(s, "uid", p)  => Mirrored(s, c, open, p) = <<"uid", p - At(s, "uid")>>
         /\ In(s, "ctr", p)  => Mirrored(s, c, open, p) = <<"digit", Digit(c, p - At(s, "ctr"))>>
         /\ In(s, "picc", p) =>
              Mirrored(s, c, open, p) = <<"picc", s.content, c, p - At(s, "picc")>>
         /\ In(s, "tt", p)   => Mirrored(s, c, open, p) = <<"tt", open, p - At(s, "tt")>>
<1> DEFINE U == In(s, "uid", p)
           C == In(s, "ctr", p)
           K == In(s, "picc", p)
           T == In(s, "tt", p)
           u == <<"uid", p - At(s, "uid")>>
           d == <<"digit", Digit(c, p - At(s, "ctr"))>>
           k == <<"picc", s.content, c, p - At(s, "picc")>>
           t == <<"tt", open, p - At(s, "tt")>>
           x == <<"text">>
<1>1. Mirrored(s, c, open, p) = CASE U -> u [] C -> d [] K -> k [] T -> t [] OTHER -> x
  BY DEF Mirrored
<1>2. ~(U /\ C) /\ ~(U /\ K) /\ ~(U /\ T) /\ ~(C /\ K) /\ ~(C /\ T) /\ ~(K /\ T)
  BY Exclusive
<1> HIDE DEF U, C, K, T, u, d, k, t, x
<1>3. /\ U => Mirrored(s, c, open, p) = u
      /\ C => Mirrored(s, c, open, p) = d
      /\ K => Mirrored(s, c, open, p) = k
      /\ T => Mirrored(s, c, open, p) = t
  BY <1>1, <1>2, Zenon
<1> QED BY <1>3 DEF U, C, K, T, u, d, k, t

\* The file as it is read, one of its characters perhaps damaged.
FileOf(s, c, open, noise) ==
  LET clean == Rendered(s, c, open)
  IN  [p \in DOMAIN clean |-> IF p = noise THEN <<"noise">> ELSE clean[p]]

LEMMA FileIs ==
  ASSUME NEW s, NEW c, NEW open, NEW noise, NEW F, F = FileOf(s, c, open, noise)
  PROVE  /\ DOMAIN F = 0 .. (FileLen - 1)
         /\ \A p \in 0 .. (FileLen - 1) :
              F[p] = IF p = noise THEN <<"noise">>
                     ELSE IF In(s, "mac", p)
                       THEN <<"mac", KeyOf(s, c), MacInput(s, c, open), p - At(s, "mac")>>
                       ELSE Encrypted(s, c, open, p)
<1> DEFINE R == Rendered(s, c, open)
           r(p) == IF In(s, "mac", p)
                     THEN <<"mac", KeyOf(s, c), MacInput(s, c, open), p - At(s, "mac")>>
                     ELSE Encrypted(s, c, open, p)
<1>1. R = [p \in 0 .. (FileLen - 1) |-> r(p)]
  BY DEF Rendered
<1>2. F = [p \in DOMAIN R |-> IF p = noise THEN <<"noise">> ELSE R[p]]
  BY DEF FileOf
<1> HIDE DEF R, r
<1>3. DOMAIN F = 0 .. (FileLen - 1)
      /\ \A p \in 0 .. (FileLen - 1) : F[p] = IF p = noise THEN <<"noise">> ELSE r(p)
  BY <1>1, <1>2
<1> QED BY <1>3 DEF r

LEMMA EncryptedIs ==
  ASSUME NEW s, NEW c, NEW open, NEW p
  PROVE  /\ In(s, "enc", p) => Encrypted(s, c, open, p) =
                 <<"cipher", KeyOf(s, c), EncPlain(s, c, open), p - At(s, "enc")>>
         /\ ~In(s, "enc", p) => Encrypted(s, c, open, p) = Mirrored(s, c, open, p)
  BY DEF Encrypted

LEMMA TuplesApart ==
  /\ \A a, b, c, d, e, f, g, h :
       <<a, b, c, d>> = <<e, f, g, h>> => a = e /\ b = f /\ c = g /\ d = h
  /\ \A a, b, c, d, e : <<a>> # <<b, c, d, e>>
<1>1. ASSUME NEW a, NEW b, NEW c, NEW d, NEW e, NEW f, NEW g, NEW h, <<a, b, c, d>> = <<e, f, g, h>>
      PROVE  a = e /\ b = f /\ c = g /\ d = h
  BY <1>1
<1>2. ASSUME NEW a, NEW b, NEW c, NEW d, NEW e, <<a>> = <<b, c, d, e>> PROVE FALSE
  <2>1. Len(<<a>>) = 1 /\ Len(<<b, c, d, e>>) = 4
    OBVIOUS
  <2> QED BY <1>2, <2>1
<1> QED BY <1>1, <1>2

LEMMA MacInputIs ==
  ASSUME mode \in Mode, NEW s, Sound(s, mode), Has(s, "mac"), NEW c, NEW open
  PROVE  /\ At(s, "mac") - s.input \in Nat /\ s.input \in Nat /\ At(s, "mac") \in Nat
         /\ DOMAIN MacInput(s, c, open) = 0 .. (At(s, "mac") - s.input - 1)
         /\ \A p \in s.input .. (At(s, "mac") - 1) :
              /\ p - s.input \in 0 .. (At(s, "mac") - s.input - 1)
              /\ MacInput(s, c, open)[p - s.input] = Encrypted(s, c, open, p)
<1> DEFINE a == At(s, "mac")
           n == s.input
           M == MacInput(s, c, open)
           e(p) == Encrypted(s, c, open, p)
<1>1. a \in Nat
  BY PlacesAre
<1>2. n \in Nat
  <2>1. n \in 0 .. MaxOffset
    BY SettingsAre DEF Sound
  <2> QED BY <2>1, LengthsAre
<1>3. n <= a
  BY DEF Sound, TryNew, TryNewFromWire, WindowOrdered
<1>4. M = [i \in 0 .. (a - n - 1) |-> e(n + i)]
  BY DEF MacInput
<1> HIDE DEF a, n, M, e
<1>5. DOMAIN M = 0 .. (a - n - 1) /\ a - n \in Nat
  BY <1>1, <1>2, <1>3, <1>4
<1>6. ASSUME NEW p \in n .. (a - 1)
      PROVE  p - n \in 0 .. (a - n - 1) /\ M[p - n] = e(p)
  <2>1. p - n \in 0 .. (a - n - 1) /\ n + (p - n) = p
    BY <1>1, <1>2
  <2> QED BY <1>4, <2>1
<1> QED BY <1>1, <1>2, <1>5, <1>6 DEF a, n, M, e

-----------------------------------------------------------------------------
(* What the MAC tells *)

\* The MAC window is as the tag has written it.
Told(s, c, open, F) ==
  \A p \in s.input .. (At(s, "mac") - 1) : F[p] = Encrypted(s, c, open, p)

LEMMA CharsAre ==
  ASSUME NEW r, NEW from, NEW n
  PROVE  /\ DOMAIN Chars(r, from, n) = 0 .. (n - 1)
         /\ \A i \in 0 .. (n - 1) : Chars(r, from, n)[i] = r[from + i]
  BY DEF Chars

\* A MAC that fits was made under the right key, of what was read.
LEMMA MacTells ==
  ASSUME mode \in Mode, NEW s, Sound(s, mode), Has(s, "mac"), TagAccepts(s),
         NEW c, NEW open, NEW noise, NEW F, F = FileOf(s, c, open, noise),
         NEW id, MacMatches(s, F, id)
  PROVE  id = KeyOf(s, c) /\ Told(s, c, open, F)
<1> DEFINE a == At(s, "mac")
           n == a - s.input
           input == Chars(F, s.input, n)
           M == MacInput(s, c, open)
<1>1. a \in Nat /\ s.input \in Nat /\ n \in Nat /\ a + 0 = a
  BY MacInputIs
<1>2. F[a] = <<"mac", id, input, 0>>
  <2>1. 0 \in 0 .. (MacLen - 1)
    BY LengthsAre
  <2>2. \A i \in 0 .. (MacLen - 1) : F[a + i] = <<"mac", id, input, i>>
    BY DEF MacMatches
  <2> QED BY <1>1, <2>1, <2>2
<1>3. a \in 0 .. (FileLen - 1) /\ In(s, "mac", a)
  <2>1. Span(s, "mac", mode) = a .. (a + MacLen - 1)
    BY WidthIs DEF Span
  <2>2. a \in a .. (a + MacLen - 1)
    BY <1>1, LengthsAre
  <2>3. Span(s, "mac", mode) \subseteq 0 .. (FileLen - 1)
    BY DEF TagAccepts, Has
  <2> QED BY <2>1, <2>2, <2>3 DEF In
<1>4. F[a] = <<"mac", KeyOf(s, c), M, a - a>>
  <2>1. F[a] = IF a = noise THEN <<"noise">> ELSE <<"mac", KeyOf(s, c), M, a - a>>
    BY <1>3, FileIs
  <2>2. <<"noise">> # <<"mac", id, input, 0>>
    BY TuplesApart
  <2> QED BY <1>2, <2>1, <2>2
<1>5. id = KeyOf(s, c) /\ input = M
  <2> HIDE DEF input, M, a, n
  <2> QED BY <1>2, <1>4, TuplesApart
<1>6. ASSUME NEW p \in s.input .. (a - 1) PROVE F[p] = Encrypted(s, c, open, p)
  <2>1. p - s.input \in 0 .. (n - 1) /\ M[p - s.input] = Encrypted(s, c, open, p)
    BY MacInputIs
  <2>2. input[p - s.input] = F[s.input + (p - s.input)]
    BY <2>1, CharsAre
  <2>3. s.input + (p - s.input) = p
    BY <1>1
  <2> QED BY <1>5, <2>1, <2>2, <2>3
<1> QED BY <1>5, <1>6 DEF Told

LEMMA Undamaged ==
  ASSUME NEW s, NEW c, NEW open, NEW noise, noise \notin 0 .. (FileLen - 1),
         NEW F, F = FileOf(s, c, open, noise), NEW p \in 0 .. (FileLen - 1)
  PROVE  /\ In(s, "mac", p) =>
              F[p] = <<"mac", KeyOf(s, c), MacInput(s, c, open), p - At(s, "mac")>>
         /\ ~In(s, "mac", p) => F[p] = Encrypted(s, c, open, p)
<1>1. p # noise
  OBVIOUS
<1>2. F[p] = IF p = noise THEN <<"noise">>
             ELSE IF In(s, "mac", p)
               THEN <<"mac", KeyOf(s, c), MacInput(s, c, open), p - At(s, "mac")>>
               ELSE Encrypted(s, c, open, p)
  BY FileIs
<1> QED BY <1>1, <1>2

\* In a file that was not damaged, everything is as written ...
LEMMA FileWhole ==
  ASSUME mode \in Mode, NEW s, Sound(s, mode), TagAccepts(s),
         NEW c, NEW open, NEW noise, noise \notin 0 .. (FileLen - 1),
         NEW F, F = FileOf(s, c, open, noise), NEW m, Has(s, m), m # "mac"
  PROVE  \A p \in Span(s, m, mode) :
           In(s, "mac", p) \/ F[p] = Encrypted(s, c, open, p)
<1> SUFFICES ASSUME NEW p \in Span(s, m, mode), ~In(s, "mac", p)
             PROVE  F[p] = Encrypted(s, c, open, p)
  OBVIOUS
<1>1. p \in 0 .. (FileLen - 1)
  BY DEF TagAccepts, Has
<1> QED BY <1>1, Undamaged

\* ... and the MAC fits.
LEMMA MacHolds ==
  ASSUME mode \in Mode, NEW s, Sound(s, mode), Has(s, "mac"), TagAccepts(s),
         NEW c, NEW open, NEW noise, noise \notin 0 .. (FileLen - 1),
         NEW F, F = FileOf(s, c, open, noise)
  PROVE  MacMatches(s, F, KeyOf(s, c)) /\ Told(s, c, open, F)
<1> DEFINE a == At(s, "mac")
           n == a - s.input
           input == Chars(F, s.input, n)
           M == MacInput(s, c, open)
<1>1. a \in Nat /\ s.input \in Nat /\ n \in Nat
  BY MacInputIs
<1>2. \A i \in 0 .. (MacLen - 1) : a + i \in 0 .. (FileLen - 1) /\ In(s, "mac", a + i)
  <2>1. Span(s, "mac", mode) = a .. (a + MacLen - 1)
    BY WidthIs DEF Span
  <2>2. \A i \in 0 .. (MacLen - 1) : a + i \in a .. (a + MacLen - 1)
    BY <1>1, LengthsAre
  <2>3. Span(s, "mac", mode) \subseteq 0 .. (FileLen - 1)
    BY DEF TagAccepts, Has
  <2> QED BY <2>1, <2>2, <2>3 DEF In
<1>3. Told(s, c, open, F)
  <2> SUFFICES ASSUME NEW p \in s.input .. (a - 1) PROVE F[p] = Encrypted(s, c, open, p)
    BY DEF Told
  <2>1. a \in 0 .. (FileLen - 1)
    <3>1. 0 \in 0 .. (MacLen - 1) /\ a + 0 = a
      BY <1>1, LengthsAre
    <3> QED BY <1>2, <3>1
  <2>2. p \in 0 .. (FileLen - 1)
    BY <1>1, <2>1, FileAssumption
  <2>3. ~In(s, "mac", p)
    <3>1. Span(s, "mac", mode) = a .. (a + MacLen - 1)
      BY WidthIs DEF Span
    <3>2. p \notin a .. (a + MacLen - 1)
      BY <1>1, LengthsAre
    <3> QED BY <3>1, <3>2 DEF In
  <2> QED BY <2>2, <2>3, Undamaged
<1>4. input = M
  <2>1. DOMAIN input = 0 .. (n - 1) /\ DOMAIN M = 0 .. (n - 1)
    BY CharsAre, MacInputIs
  <2>2. ASSUME NEW i \in 0 .. (n - 1) PROVE input[i] = M[i]
    <3> DEFINE p == s.input + i
    <3>1. p \in s.input .. (a - 1) /\ p - s.input = i
      BY <1>1
    <3>2. input[i] = F[p]
      BY CharsAre
    <3>3. M[p - s.input] = Encrypted(s, c, open, p)
      BY <3>1, MacInputIs
    <3> HIDE DEF p
    <3> QED BY <1>3, <3>1, <3>2, <3>3 DEF Told
  <2>3. input = [i \in 0 .. (n - 1) |-> input[i]] /\ M = [i \in 0 .. (n - 1) |-> M[i]]
    BY <2>1 DEF Chars, MacInput
  <2> HIDE DEF input, M, n
  <2> QED BY <2>2, <2>3
<1>5. ASSUME NEW i \in 0 .. (MacLen - 1)
      PROVE  F[a + i] = <<"mac", KeyOf(s, c), input, i>>
  <2>1. a + i \in 0 .. (FileLen - 1) /\ In(s, "mac", a + i) /\ (a + i) - a = i
    BY <1>1, <1>2
  <2>2. F[a + i] = <<"mac", KeyOf(s, c), M, (a + i) - a>>
    BY <2>1, Undamaged
  <2> QED BY <1>4, <2>1, <2>2
<1>6. MacMatches(s, F, KeyOf(s, c))
  BY <1>5 DEF MacMatches
<1> QED BY <1>3, <1>6

-----------------------------------------------------------------------------
(* What the verifier gets of it *)

TamperOf(s, open) ==
  IF Has(s, "tt") THEN [i \in 0 .. (TtLen - 1) |-> <<"tt", open, i>>] ELSE << >>

\* The encrypted file data lies in the MAC window.
LEMMA EncWithin ==
  ASSUME mode \in Mode, NEW s, Sound(s, mode), Has(s, "enc")
  PROVE  /\ Has(s, "mac") /\ At(s, "enc") \in Nat /\ s.encLen \in Nat /\ s.encLen > 0
         /\ Span(s, "enc", mode) = At(s, "enc") .. (At(s, "enc") + s.encLen - 1)
         /\ Span(s, "enc", mode) \subseteq s.input .. (At(s, "mac") - 1)
         /\ In(s, "enc", At(s, "enc"))
<1>1. Has(s, "mac") /\ s.encLen > 0
  BY DEF Sound, WellFormed
<1> DEFINE a == At(s, "enc")
           b == At(s, "mac")
           n == s.encLen
<1>2. a \in Nat /\ b \in Nat /\ n \in Nat /\ s.input \in Nat
  BY <1>1, PlacesAre, WidthIs, MacInputIs
<1>3. a >= s.input /\ a + n <= b
  BY DEF Sound, TryNew, TryNewFromWire, EncInWindow
<1>4. Span(s, "enc", mode) = a .. (a + n - 1)
  BY WidthIs DEF Span
<1> HIDE DEF a, b, n
<1>5. a .. (a + n - 1) \subseteq s.input .. (b - 1) /\ a \in a .. (a + n - 1)
  BY <1>1, <1>2, <1>3 DEF n
<1> QED BY <1>1, <1>2, <1>4, <1>5 DEF In, a, b, n

LEMMA DataIs ==
  ASSUME mode \in Mode, NEW s, Sound(s, mode), NEW c, NEW open, NEW F, Told(s, c, open, F)
  PROVE  EncData(s, F) = IF Has(s, "enc") THEN EncPlain(s, c, open) ELSE << >>
<1>1. CASE Has(s, "enc")
  <2> DEFINE a == At(s, "enc")
  <2>1. In(s, "enc", a) /\ a \in s.input .. (At(s, "mac") - 1)
    BY <1>1, EncWithin DEF In
  <2>2. F[a] = Encrypted(s, c, open, a)
    BY <2>1 DEF Told
  <2>3. F[a] = <<"cipher", KeyOf(s, c), EncPlain(s, c, open), a - a>>
    BY <2>1, <2>2, EncryptedIs
  <2>4. \A u, v, w, x : <<u, v, w, x>>[3] = w
    OBVIOUS
  <2>5. F[a][3] = EncPlain(s, c, open)
    BY <2>3, <2>4
  <2> QED BY <1>1, <2>5 DEF EncData
<1>2. CASE ~Has(s, "enc")
  BY <1>2 DEF EncData
<1> QED BY <1>1, <1>2

LEMMA TamperIs ==
  ASSUME mode \in Mode, NEW s, Sound(s, mode), TamperPlaced(s),
         NEW c, NEW open, NEW F, Has(s, "enc") => Told(s, c, open, F),
         Has(s, "tt") => \A p \in Span(s, "tt", mode) : F[p] = Encrypted(s, c, open, p)
  PROVE  ReadTamper(s, F) = TamperOf(s, open)
<1>1. CASE ~Has(s, "tt")
  BY <1>1 DEF ReadTamper, TamperOf
<1>2. CASE Has(s, "tt")
  <2> DEFINE t == At(s, "tt")
             e == At(s, "enc")
             n == s.encLen
             tamper == [i \in 0 .. (TtLen - 1) |-> <<"tt", open, i>>]
  <2>1. t \in Nat /\ TtLen \in Nat /\ TtLen > 0
    BY <1>2, PlacesAre, LengthsAre
  <2>2. Span(s, "tt", mode) = t .. (t + TtLen - 1) /\ t \in t .. (t + TtLen - 1)
    BY <2>1, WidthIs DEF Span
  <2>3. \A i \in 0 .. (TtLen - 1) : t + i \in t .. (t + TtLen - 1) /\ (t + i) - t = i /\ t + i \in Int
    BY <2>1
  <2>4. \A i \in 0 .. (TtLen - 1) : Mirrored(s, c, open, t + i) = <<"tt", open, i>>
    <3> SUFFICES ASSUME NEW i \in 0 .. (TtLen - 1)
                 PROVE  Mirrored(s, c, open, t + i) = <<"tt", open, i>>
      OBVIOUS
    <3>1. In(s, "tt", t + i)
      BY <1>2, <2>2, <2>3 DEF In
    <3>2. Mirrored(s, c, open, t + i) = <<"tt", open, (t + i) - t>>
      BY <2>3, <3>1, MirroredIs
    <3> QED BY <2>3, <3>2
  <2>5. CASE Has(s, "enc") /\ t \in Span(s, "enc", mode)
    <3> DEFINE h == n \div 2
               P == EncPlain(s, c, open)
               got == Chars(P, t - e, TtLen)
    <3>1. e \in Nat /\ n \in Nat
      BY <2>5, EncWithin
    <3>2. EncData(s, F) = P
      BY <2>5, DataIs
    <3>3. ReadTamper(s, F) = got
      BY <1>2, <2>5, <3>2 DEF ReadTamper
    <3>4. t .. (t + TtLen - 1) \subseteq e .. (e + h - 1)
      <4>1. Overlap(s, mode, "tt", "enc")
        BY <1>2, <2>2, <2>5 DEF Overlap
      <4> QED BY <2>2, <4>1 DEF TamperPlaced
    <3>5. P = [i \in 0 .. (h - 1) |-> Mirrored(s, c, open, e + i)]
      BY DEF EncPlain
    <3>6. h \in Nat
      BY <3>1
    <3> HIDE DEF h, P
    <3>7. ASSUME NEW i \in 0 .. (TtLen - 1) PROVE got[i] = <<"tt", open, i>>
      <4>1. got[i] = P[(t - e) + i]
        BY CharsAre
      <4>2. t + i \in e .. (e + h - 1)
        BY <2>3, <3>4
      <4>3. (t - e) + i \in 0 .. (h - 1) /\ e + ((t - e) + i) = t + i
        <5> HIDE DEF t, e
        <5> QED BY <2>1, <3>1, <3>6, <4>2
      <4>4. P[(t - e) + i] = Mirrored(s, c, open, t + i)
        BY <3>5, <4>3
      <4> QED BY <2>4, <4>1, <4>4
    <3>8. got = [i \in 0 .. (TtLen - 1) |-> got[i]]
      BY DEF Chars
    <3>9. got = tamper
      <4> HIDE DEF got
      <4> QED BY <3>7, <3>8
    <3> QED BY <1>2, <3>3, <3>9 DEF TamperOf
  <2>6. CASE ~(Has(s, "enc") /\ t \in Span(s, "enc", mode))
    <3> DEFINE got == Chars(F, t, TtLen)
    <3>1. ReadTamper(s, F) = got
      BY <1>2, <2>6 DEF ReadTamper
    <3>2. \A p \in Span(s, "tt", mode) : ~In(s, "enc", p)
      <4> SUFFICES ASSUME NEW p \in Span(s, "tt", mode), In(s, "enc", p) PROVE FALSE
        OBVIOUS
      <4>1. Has(s, "enc") /\ Overlap(s, mode, "tt", "enc")
        BY <1>2 DEF Overlap, In
      <4>2. t .. (t + TtLen - 1) \subseteq e .. (e + n \div 2 - 1)
        BY <2>2, <4>1 DEF TamperPlaced
      <4>3. e \in Nat /\ n \in Nat /\ Span(s, "enc", mode) = e .. (e + n - 1)
        BY <4>1, EncWithin
      <4>4. t \in e .. (e + n \div 2 - 1)
        BY <2>2, <4>2
      <4>5. t \in e .. (e + n - 1)
        <5> HIDE DEF t, e, n
        <5> QED BY <2>1, <4>3, <4>4
      <4> QED BY <2>6, <4>1, <4>3, <4>5
    <3>3. ASSUME NEW i \in 0 .. (TtLen - 1) PROVE got[i] = <<"tt", open, i>>
      <4>1. t + i \in Span(s, "tt", mode)
        BY <2>2, <2>3
      <4>2. got[i] = F[t + i]
        BY CharsAre
      <4>3. F[t + i] = Encrypted(s, c, open, t + i) /\ ~In(s, "enc", t + i)
        BY <1>2, <3>2, <4>1
      <4>4. F[t + i] = Mirrored(s, c, open, t + i)
        BY <4>3, EncryptedIs
      <4> QED BY <2>4, <4>2, <4>4
    <3>4. got = [i \in 0 .. (TtLen - 1) |-> got[i]]
      BY DEF Chars
    <3>5. got = tamper
      <4> HIDE DEF got
      <4> QED BY <3>3, <3>4
    <3> QED BY <1>2, <3>1, <3>5 DEF TamperOf
  <2> QED BY <2>5, <2>6
<1> QED BY <1>1, <1>2

\* What identifies the tag is where the settings say, as it was written.
LEMMA MirrorAt ==
  ASSUME mode \in Mode, NEW s, Sound(s, mode), TagAccepts(s),
         NEW c, NEW open, NEW noise, noise \notin 0 .. (FileLen - 1),
         NEW F, F = FileOf(s, c, open, noise),
         NEW m \in {"uid", "ctr", "picc"}, Has(s, m), NEW n, n = Width(s, m, mode)
  PROVE  /\ n \in Nat /\ n > 0
         /\ \A i \in 0 .. (n - 1) :
              /\ In(s, m, At(s, m) + i) /\ At(s, m) + i \in Int
              /\ (At(s, m) + i) - At(s, m) = i
              /\ F[At(s, m) + i] = Mirrored(s, c, open, At(s, m) + i)
<1> DEFINE a == At(s, m)
<1>1. a \in Nat /\ n \in Nat /\ n > 0
  BY PlacesAre
<1>2. Span(s, m, mode) = a .. (a + n - 1)
  BY DEF Span
<1>3. ASSUME NEW i \in 0 .. (n - 1)
      PROVE  In(s, m, a + i) /\ a + i \in Int /\ (a + i) - a = i
             /\ F[a + i] = Mirrored(s, c, open, a + i)
  <2>1. a + i \in a .. (a + n - 1) /\ a + i \in Int /\ (a + i) - a = i
    <3> HIDE DEF a
    <3> QED BY <1>1
  <2>2. In(s, m, a + i) /\ a + i \in Span(s, m, mode)
    BY <1>2, <2>1 DEF In
  <2>3. ~In(s, "mac", a + i) /\ ~In(s, "enc", a + i)
    BY <2>1, <2>2, Exclusive
  <2>4. F[a + i] = Encrypted(s, c, open, a + i)
    BY <2>2, <2>3, FileWhole
  <2> QED BY <2>1, <2>2, <2>3, <2>4, EncryptedIs
<1> QED BY <1>1, <1>3

LEMMA UidRead ==
  ASSUME mode \in Mode, NEW s, Sound(s, mode), TagAccepts(s),
         NEW c, NEW open, NEW noise, noise \notin 0 .. (FileLen - 1),
         NEW F, F = FileOf(s, c, open, noise), Has(s, "uid")
  PROVE  ReadUid(F, At(s, "uid")) = "tag"
<1> DEFINE a == At(s, "uid")
           got == Chars(F, a, UidLen)
           whole == [i \in 0 .. (UidLen - 1) |-> <<"uid", i>>]
<1>1. UidLen = Width(s, "uid", mode)
  BY WidthIs
<1>2. ASSUME NEW i \in 0 .. (UidLen - 1) PROVE got[i] = <<"uid", i>>
  <2>1. In(s, "uid", a + i) /\ a + i \in Int /\ (a + i) - a = i
        /\ F[a + i] = Mirrored(s, c, open, a + i)
    BY <1>1, MirrorAt
  <2>2. Mirrored(s, c, open, a + i) = <<"uid", (a + i) - a>>
    BY <2>1, MirroredIs
  <2>3. got[i] = F[a + i]
    BY CharsAre
  <2> QED BY <2>1, <2>2, <2>3
<1>3. got = [i \in 0 .. (UidLen - 1) |-> got[i]]
  BY DEF Chars
<1>4. got = whole
  <2> HIDE DEF got
  <2> QED BY <1>2, <1>3
<1> QED BY <1>4 DEF ReadUid

LEMMA CtrRead ==
  ASSUME mode \in Mode, NEW s, Sound(s, mode), TagAccepts(s),
         NEW c \in Ctrs, NEW open, NEW noise, noise \notin 0 .. (FileLen - 1),
         NEW F, F = FileOf(s, c, open, noise), Has(s, "ctr")
  PROVE  ReadCtr(F, At(s, "ctr")) = c
<1> DEFINE a == At(s, "ctr")
           n == CtrLen
           b == Chars(F, a, n)
           le == [i \in DOMAIN b |-> b[n - 1 - i][2]]
<1>1. n = Width(s, "ctr", mode) /\ n \in Nat /\ n > 0
  BY WidthIs, LengthsAre
<1>2. DOMAIN b = 0 .. (n - 1)
  BY CharsAre
<1>3. ASSUME NEW i \in 0 .. (n - 1) PROVE b[i] = <<"digit", Digit(c, i)>>
  <2>1. In(s, "ctr", a + i) /\ a + i \in Int /\ (a + i) - a = i
        /\ F[a + i] = Mirrored(s, c, open, a + i)
    BY <1>1, MirrorAt
  <2>2. Mirrored(s, c, open, a + i) = <<"digit", Digit(c, (a + i) - a)>>
    BY <2>1, MirroredIs
  <2>3. b[i] = F[a + i]
    BY CharsAre
  <2> QED BY <2>1, <2>2, <2>3
<1>4. \A x, y : <<x, y>>[1] = x /\ <<x, y>>[2] = y
  OBVIOUS
<1>5. \A i \in DOMAIN b : b[i][1] = "digit"
  <2> SUFFICES ASSUME NEW i \in DOMAIN b PROVE b[i][1] = "digit"
    OBVIOUS
  <2>1. b[i] = <<"digit", Digit(c, i)>>
    BY <1>2, <1>3
  <2> HIDE DEF b
  <2> QED BY <1>4, <2>1
<1>6. ReadCtr(F, a) = LeValue(le)
  BY <1>5 DEF ReadCtr
<1>7. ASSUME NEW i \in 0 .. (n - 1) PROVE le[i] = (c \div Power[i]) % Base
  <2>1. n - 1 - i \in 0 .. (n - 1) /\ n - 1 - (n - 1 - i) = i
    BY <1>1
  <2>2. le[i] = b[n - 1 - i][2]
    BY <1>2
  <2>3. b[n - 1 - i][2] = Digit(c, n - 1 - i)
    BY <1>3, <1>4, <2>1
  <2>4. Digit(c, n - 1 - i) = (c \div Power[n - 1 - (n - 1 - i)]) % Base
    BY DEF Digit
  <2> QED BY <2>1, <2>2, <2>3, <2>4
<1>8. DOMAIN le = 0 .. (n - 1)
  BY <1>2
<1> HIDE DEF le
<1>9. LeValue(le) = c
  BY <1>7, <1>8, ValueOfDigits
<1> QED BY <1>6, <1>9

LEMMA PiccRead ==
  ASSUME mode \in Mode, NEW s, Sound(s, mode), TagAccepts(s),
         NEW c \in Ctrs, NEW open, NEW noise, noise \notin 0 .. (FileLen - 1),
         NEW F, F = FileOf(s, c, open, noise), Has(s, "picc")
  PROVE  ReadPicc(s, F) = KeyOf(s, c)
<1> DEFINE a == At(s, "picc")
           n == PiccLen[mode]
           b == Chars(F, a, n)
           whole == {x \in PiccContent \X Ctrs : \A i \in DOMAIN b : b[i] = <<"picc", x[1], x[2], i>>}
           only == <<s.content, c>>
<1>1. n = Width(s, "picc", mode) /\ n \in Nat /\ n > 0
  BY WidthIs, LengthsAre
<1>2. DOMAIN b = 0 .. (n - 1)
  BY CharsAre
<1>3. ASSUME NEW i \in 0 .. (n - 1) PROVE b[i] = <<"picc", s.content, c, i>>
  <2>1. In(s, "picc", a + i) /\ a + i \in Int /\ (a + i) - a = i
        /\ F[a + i] = Mirrored(s, c, open, a + i)
    BY <1>1, MirrorAt
  <2>2. Mirrored(s, c, open, a + i) = <<"picc", s.content, c, (a + i) - a>>
    BY <2>1, MirroredIs
  <2>3. b[i] = F[a + i]
    BY CharsAre
  <2> QED BY <2>1, <2>2, <2>3
<1>4. s.content \in PiccContent /\ only \in PiccContent \X Ctrs /\ only[1] = s.content /\ only[2] = c
  <2>1. s.content # {} /\ s.content \subseteq Identity
    BY SettingsAre DEF Sound, WellFormed
  <2>2. s.content \in PiccContent
    BY <2>1 DEF PiccContent
  <2>3. only[1] = s.content /\ only[2] = c
    OBVIOUS
  <2> QED BY <2>2, <2>3
<1> HIDE DEF b, only
<1>5. only \in whole
  BY <1>2, <1>3, <1>4
<1>6. ASSUME NEW x \in whole PROVE x[1] = s.content /\ x[2] = c
  <2>1. 0 \in 0 .. (n - 1)
    BY <1>1
  <2>2. <<"picc", x[1], x[2], 0>> = <<"picc", s.content, c, 0>>
    BY <1>2, <1>3, <2>1
  <2> QED BY <2>2, TuplesApart
<1> HIDE DEF whole
<1> DEFINE x == CHOOSE x \in whole : TRUE
<1>7. x[1] = s.content /\ x[2] = c
  <2>1. x \in whole
    BY <1>5
  <2> QED BY <1>6, <2>1
<1>8. ReadPicc(s, F) = [uid |-> IF "uid" \in x[1] THEN "tag" ELSE "none",
                        ctr |-> IF "ctr" \in x[1] THEN x[2] ELSE -1]
  <2>1. whole # {}
    BY <1>5
  <2> QED BY <2>1 DEF ReadPicc, whole, b
<1> HIDE DEF x
<1>9. Includes(s) = s.content
  BY DEF Includes
<1> QED BY <1>7, <1>8, <1>9 DEF KeyOf

LEMMA IdentityIs ==
  ASSUME mode \in Mode, NEW s, Sound(s, mode), TagAccepts(s),
         NEW c \in Ctrs, NEW open, NEW noise, noise \notin 0 .. (FileLen - 1),
         NEW F, F = FileOf(s, c, open, noise)
  PROVE  ReadPicc(s, F) = KeyOf(s, c)
<1>1. CASE Has(s, "picc")
  BY <1>1, PiccRead
<1>2. CASE ~Has(s, "picc")
  <2>1. ("uid" \in Includes(s) <=> Has(s, "uid")) /\ ("ctr" \in Includes(s) <=> Has(s, "ctr"))
    BY <1>2 DEF Includes, Has, Identity
  <2>2. ReadPicc(s, F) = [uid |-> IF Has(s, "uid") THEN ReadUid(F, At(s, "uid")) ELSE "none",
                          ctr |-> IF Has(s, "ctr") THEN ReadCtr(F, At(s, "ctr")) ELSE -1]
    BY <1>2 DEF ReadPicc
  <2>3. Has(s, "uid") => ReadUid(F, At(s, "uid")) = "tag"
    BY UidRead
  <2>4. Has(s, "ctr") => ReadCtr(F, At(s, "ctr")) = c
    BY CtrRead
  <2> QED BY <2>1, <2>2, <2>3, <2>4 DEF KeyOf
<1> QED BY <1>1, <1>2

-----------------------------------------------------------------------------
(* The verifier moved along with what it reads *)

\* v is s with every position moved by inc, ...
Moved(v, s, inc) ==
  /\ DOMAIN v.at = DOMAIN s.at /\ \A m \in DOMAIN s.at : v.at[m] = s.at[m] + inc
  /\ v.input = s.input + inc /\ v.encLen = s.encLen

\* ... and r has the characters of F from lo to hi as much further on.
Shows(r, F, inc, lo, hi) ==
  \A p \in lo .. (hi - 1) : p + inc \in DOMAIN r /\ r[p + inc] = F[p]

\* Everything that the settings name lies between lo and hi.
Lies(s, lo, hi) ==
  /\ \A m \in DOMAIN s.at : Span(s, m, mode) \subseteq lo .. (hi - 1)
  /\ Has(s, "mac") => s.input >= lo

LEMMA CharsMoved ==
  ASSUME NEW inc \in Int, NEW lo \in Int, NEW hi \in Int, NEW r, NEW F, Shows(r, F, inc, lo, hi),
         NEW from \in Int, NEW n \in Nat, lo <= from, from + n <= hi
  PROVE  Chars(r, from + inc, n) = Chars(F, from, n)
         /\ \A i \in 0 .. (n - 1) : r[from + inc + i] = F[from + i]
<1>1. ASSUME NEW i \in 0 .. (n - 1) PROVE r[from + inc + i] = F[from + i]
  <2>1. from + i \in from .. (from + n - 1) /\ (from + i) + inc = from + inc + i
    OBVIOUS
  <2>2. from + i \in lo .. (hi - 1)
    BY <2>1
  <2> QED BY <2>1, <2>2 DEF Shows
<1> QED BY <1>1 DEF Chars

LEMMA MovedIs ==
  ASSUME mode \in Mode, NEW s, Sound(s, mode), NEW inc \in Int, NEW lo \in Int, NEW hi \in Int,
         NEW v, Moved(v, s, inc), Lies(s, lo, hi)
  PROVE  /\ \A m : Has(v, m) <=> Has(s, m)
         /\ \A m : Has(s, m) =>
              /\ At(v, m) = At(s, m) + inc /\ At(s, m) \in Int /\ Width(v, m, mode) = Width(s, m, mode)
              /\ Width(s, m, mode) \in Nat /\ Width(s, m, mode) > 0
              /\ Span(s, m, mode) = At(s, m) .. (At(s, m) + Width(s, m, mode) - 1)
              /\ Span(s, m, mode) \subseteq lo .. (hi - 1)
         /\ v.encLen = s.encLen
<1>1. \A m : Has(v, m) <=> Has(s, m)
  BY DEF Moved, Has
<1>2. ASSUME NEW m, Has(s, m)
      PROVE  /\ At(v, m) = At(s, m) + inc /\ At(s, m) \in Int
             /\ Width(v, m, mode) = Width(s, m, mode)
             /\ Width(s, m, mode) \in Nat /\ Width(s, m, mode) > 0
             /\ Span(s, m, mode) = At(s, m) .. (At(s, m) + Width(s, m, mode) - 1)
             /\ Span(s, m, mode) \subseteq lo .. (hi - 1)
  <2>1. At(s, m) \in Int /\ Width(s, m, mode) \in Nat /\ Width(s, m, mode) > 0
    BY <1>2, PlacesAre
  <2>2. At(v, m) = At(s, m) + inc
    BY <1>2 DEF Moved, At, Has
  <2>3. Width(v, m, mode) = Width(s, m, mode)
    BY DEF Width, Moved
  <2>4. Span(s, m, mode) \subseteq lo .. (hi - 1)
    BY <1>2 DEF Lies, Has
  <2> QED BY <2>1, <2>2, <2>3, <2>4 DEF Span
<1> QED BY <1>1, <1>2 DEF Moved

LEMMA PlaceMoved ==
  ASSUME mode \in Mode, NEW s, Sound(s, mode), NEW inc \in Int, NEW lo \in Int, NEW hi \in Int,
         NEW v, Moved(v, s, inc), Lies(s, lo, hi),
         NEW r, NEW F, Shows(r, F, inc, lo, hi),
         NEW m, Has(s, m), NEW n, n = Width(s, m, mode)
  PROVE  /\ Chars(r, At(v, m), n) = Chars(F, At(s, m), n)
         /\ \A i \in 0 .. (n - 1) : r[At(v, m) + i] = F[At(s, m) + i]
<1> DEFINE a == At(s, m)
           b == At(v, m)
<1>1. b = a + inc /\ a \in Int /\ n \in Nat /\ n > 0 /\ a .. (a + n - 1) \subseteq lo .. (hi - 1)
  BY MovedIs
<1> HIDE DEF a, b
<1>2. Chars(r, a + inc, n) = Chars(F, a, n)
      /\ \A i \in 0 .. (n - 1) : r[a + inc + i] = F[a + i]
  <2>1. lo <= a /\ a + n <= hi
    <3>1. a \in a .. (a + n - 1) /\ a + n - 1 \in a .. (a + n - 1)
      BY <1>1
    <3>2. a \in lo .. (hi - 1) /\ a + n - 1 \in lo .. (hi - 1)
      BY <1>1, <3>1
    <3> QED BY <1>1, <3>2
  <2> QED BY <1>1, <2>1, CharsMoved
<1>3. Chars(r, b, n) = Chars(F, a, n) /\ \A i \in 0 .. (n - 1) : r[b + i] = F[a + i]
  BY <1>1, <1>2
<1> QED BY <1>3 DEF a, b

LEMMA IdentityMoved ==
  ASSUME mode \in Mode, NEW s, Sound(s, mode), NEW inc \in Int, NEW lo \in Int, NEW hi \in Int,
         NEW v, Moved(v, s, inc), Lies(s, lo, hi),
         NEW r, NEW F, Shows(r, F, inc, lo, hi)
  PROVE  ReadPicc(v, r) = ReadPicc(s, F)
<1>1. (Has(v, "picc") <=> Has(s, "picc")) /\ (Has(v, "uid") <=> Has(s, "uid"))
      /\ (Has(v, "ctr") <=> Has(s, "ctr"))
  BY MovedIs
<1>2. CASE Has(s, "picc")
  <2>1. PiccLen[mode] = Width(s, "picc", mode)
    BY WidthIs
  <2>2. Chars(r, At(v, "picc"), PiccLen[mode]) = Chars(F, At(s, "picc"), PiccLen[mode])
    BY <1>2, <2>1, PlaceMoved
  <2> DEFINE got(chars) ==
        LET whole == {x \in PiccContent \X Ctrs :
                        \A i \in DOMAIN chars : chars[i] = <<"picc", x[1], x[2], i>>}
        IN  IF whole = {} THEN [uid |-> "junk", ctr |-> -2]
            ELSE LET x == CHOOSE x \in whole : TRUE
                 IN  [uid |-> IF "uid" \in x[1] THEN "tag" ELSE "none",
                      ctr |-> IF "ctr" \in x[1] THEN x[2] ELSE -1]
  <2>3. ReadPicc(v, r) = got(Chars(r, At(v, "picc"), PiccLen[mode]))
    BY <1>1, <1>2 DEF ReadPicc
  <2>4. ReadPicc(s, F) = got(Chars(F, At(s, "picc"), PiccLen[mode]))
    BY <1>2 DEF ReadPicc
  <2> HIDE DEF got
  <2> QED BY <2>2, <2>3, <2>4
<1>3. CASE ~Has(s, "picc")
  <2>1. Has(s, "uid") => ReadUid(r, At(v, "uid")) = ReadUid(F, At(s, "uid"))
    <3> SUFFICES ASSUME Has(s, "uid") PROVE ReadUid(r, At(v, "uid")) = ReadUid(F, At(s, "uid"))
      OBVIOUS
    <3>1. UidLen = Width(s, "uid", mode)
      BY WidthIs
    <3>2. Chars(r, At(v, "uid"), UidLen) = Chars(F, At(s, "uid"), UidLen)
      BY <3>1, PlaceMoved
    <3> QED BY <3>2 DEF ReadUid
  <2>2. Has(s, "ctr") => ReadCtr(r, At(v, "ctr")) = ReadCtr(F, At(s, "ctr"))
    <3> SUFFICES ASSUME Has(s, "ctr") PROVE ReadCtr(r, At(v, "ctr")) = ReadCtr(F, At(s, "ctr"))
      OBVIOUS
    <3>1. CtrLen = Width(s, "ctr", mode)
      BY WidthIs
    <3>2. Chars(r, At(v, "ctr"), CtrLen) = Chars(F, At(s, "ctr"), CtrLen)
      BY <3>1, PlaceMoved
    <3> QED BY <3>2 DEF ReadCtr
  <2> QED BY <1>1, <1>3, <2>1, <2>2 DEF ReadPicc
<1> QED BY <1>2, <1>3

LEMMA MacMoved ==
  ASSUME mode \in Mode, NEW s, Sound(s, mode), NEW inc \in Int, NEW lo \in Int, NEW hi \in Int,
         NEW v, Moved(v, s, inc), Lies(s, lo, hi),
         NEW r, NEW F, Shows(r, F, inc, lo, hi), Has(s, "mac"), NEW id
  PROVE  MacMatches(v, r, id) <=> MacMatches(s, F, id)
<1> DEFINE a == At(s, "mac")
           b == At(v, "mac")
           n == a - s.input
<1>1. MacLen = Width(s, "mac", mode)
  BY WidthIs
<1>2. \A i \in 0 .. (MacLen - 1) : r[b + i] = F[a + i]
  BY <1>1, PlaceMoved
<1>3. a \in Nat /\ s.input \in Nat /\ n \in Nat
  BY MacInputIs
<1>4. b = a + inc /\ v.input = s.input + inc
  <2>1. b = a + inc
    BY MovedIs
  <2> QED BY <2>1 DEF Moved
<1>5. Chars(r, v.input, b - v.input) = Chars(F, s.input, n)
  <2>1. b - v.input = n
    BY <1>3, <1>4
  <2>2. lo <= s.input /\ s.input + n <= hi
    <3>1. s.input >= lo
      BY DEF Lies
    <3>2. a \in lo .. (hi - 1)
      <4>1. Span(s, "mac", mode) = a .. (a + MacLen - 1) /\ Span(s, "mac", mode) \subseteq lo .. (hi - 1)
        BY <1>1, MovedIs
      <4>2. a \in a .. (a + MacLen - 1)
        BY <1>3, LengthsAre
      <4> QED BY <4>1, <4>2
    <3> QED BY <1>3, <3>1, <3>2
  <2>3. s.input \in Int
    BY <1>3
  <2> HIDE DEF n
  <2>4. Chars(r, v.input, n) = Chars(F, s.input, n)
    <3>1. Chars(r, s.input + inc, n) = Chars(F, s.input, n)
      BY <1>3, <2>2, <2>3, CharsMoved
    <3> QED BY <1>4, <3>1
  <2> QED BY <2>1, <2>4
<1> HIDE DEF a, b, n
<1>6. MacMatches(v, r, id) <=>
        \A i \in 0 .. (MacLen - 1) : r[b + i] = <<"mac", id, Chars(r, v.input, b - v.input), i>>
  BY DEF MacMatches, b
<1>7. MacMatches(s, F, id) <=>
        \A i \in 0 .. (MacLen - 1) : F[a + i] = <<"mac", id, Chars(F, s.input, n), i>>
  BY DEF MacMatches, a, n
<1> QED BY <1>2, <1>5, <1>6, <1>7

LEMMA DataMoved ==
  ASSUME mode \in Mode, NEW s, Sound(s, mode), NEW inc \in Int, NEW lo \in Int, NEW hi \in Int,
         NEW v, Moved(v, s, inc), Lies(s, lo, hi),
         NEW r, NEW F, Shows(r, F, inc, lo, hi)
  PROVE  EncData(v, r) = EncData(s, F) /\ ReadTamper(v, r) = ReadTamper(s, F)
<1>1. (Has(v, "enc") <=> Has(s, "enc")) /\ (Has(v, "tt") <=> Has(s, "tt"))
  BY MovedIs
<1>2. EncData(v, r) = EncData(s, F)
  <2>1. CASE Has(s, "enc")
    <3> DEFINE n == Width(s, "enc", mode)
    <3>1. n \in Nat /\ n > 0 /\ At(s, "enc") \in Int /\ At(v, "enc") = At(s, "enc") + inc
      BY <2>1, MovedIs
    <3>2. \A i \in 0 .. (n - 1) : r[At(v, "enc") + i] = F[At(s, "enc") + i]
      BY <2>1, PlaceMoved
    <3>3. 0 \in 0 .. (n - 1) /\ At(v, "enc") + 0 = At(v, "enc") /\ At(s, "enc") + 0 = At(s, "enc")
      BY <3>1
    <3>4. r[At(v, "enc")] = F[At(s, "enc")]
      BY <3>2, <3>3
    <3> QED BY <1>1, <2>1, <3>4 DEF EncData
  <2>2. CASE ~Has(s, "enc")
    BY <1>1, <2>2 DEF EncData
  <2> QED BY <2>1, <2>2
<1>3. ReadTamper(v, r) = ReadTamper(s, F)
  <2>1. CASE ~Has(s, "tt")
    BY <1>1, <2>1 DEF ReadTamper
  <2>2. CASE Has(s, "tt")
    <3> DEFINE t == At(s, "tt")
               u == At(v, "tt")
               e == At(s, "enc")
               f == At(v, "enc")
               n == Width(s, "enc", mode)
    <3>1. u = t + inc /\ t \in Int
      BY <2>2, MovedIs
    <3>2. Chars(r, u, TtLen) = Chars(F, t, TtLen)
      <4>1. TtLen = Width(s, "tt", mode)
        BY WidthIs
      <4> QED BY <2>2, <4>1, PlaceMoved
    <3>3. Has(s, "enc") => f = e + inc /\ e \in Int /\ n \in Nat
                           /\ Span(s, "enc", mode) = e .. (e + n - 1)
                           /\ Span(v, "enc", mode) = f .. (f + n - 1)
      BY MovedIs DEF Span
    <3> HIDE DEF t, u, e, f, n
    <3>4. Has(s, "enc") => u - f = t - e /\ (u \in Span(v, "enc", mode) <=> t \in Span(s, "enc", mode))
      BY <3>1, <3>3
    <3> QED BY <1>1, <1>2, <2>2, <3>2, <3>4 DEF ReadTamper, t, u, e, f
  <2> QED BY <2>1, <2>2
<1> QED BY <1>2, <1>3

LEMMA VerdictMoved ==
  ASSUME mode \in Mode, NEW s, Sound(s, mode), Has(s, "mac"), TagAccepts(s),
         NEW inc \in Int, NEW lo \in Int, NEW hi \in Int,
         NEW v, Moved(v, s, inc), Lies(s, lo, hi),
         NEW r, NEW F, Shows(r, F, inc, lo, hi)
  PROVE  Verdict(v, r) =
           IF MacMatches(s, F, ReadPicc(s, F))
             THEN [out |-> "ok", uid |-> ReadPicc(s, F).uid, ctr |-> ReadPicc(s, F).ctr,
                   tt |-> ReadTamper(s, F), data |-> EncData(s, F)]
             ELSE Failure("error")
<1>1. LongEnough(v, r)
  <2> SUFFICES ASSUME NEW m \in DOMAIN v.at, NEW q \in Span(v, m, mode) PROVE q \in DOMAIN r
    BY DEF LongEnough
  <2> DEFINE a == At(s, m)
             b == At(v, m)
             n == Width(s, m, mode)
  <2>1. Has(s, m)
    BY DEF Moved, Has
  <2>2. b = a + inc /\ a \in Int /\ n \in Nat /\ a .. (a + n - 1) \subseteq lo .. (hi - 1)
        /\ Span(v, m, mode) = b .. (b + n - 1)
    BY <2>1, MovedIs DEF Span
  <2> HIDE DEF a, b, n
  <2>3. q - inc \in a .. (a + n - 1) /\ (q - inc) + inc = q
    BY <2>2
  <2> QED BY <2>2, <2>3 DEF Shows
<1>2. ReadPicc(v, r) = ReadPicc(s, F)
  BY IdentityMoved
<1>3. \A id : MacMatches(v, r, id) <=> MacMatches(s, F, id)
  BY MacMoved
<1>4. EncData(v, r) = EncData(s, F) /\ ReadTamper(v, r) = ReadTamper(s, F)
  BY DataMoved
<1> QED BY <1>1, <1>2, <1>3, <1>4 DEF Verdict

-----------------------------------------------------------------------------
(* Settings that were moved are as good as before *)

LEMMA SpanMoved ==
  ASSUME NEW s, Sound(s, mode), NEW inc \in Int, NEW v, Moved(v, s, inc),
         NEW x \in Mode, NEW m, Has(s, m), NEW p \in Span(v, m, x)
  PROVE  p - inc \in Span(s, m, x)
<1> DEFINE a == At(s, m)
           b == At(v, m)
           n == Width(s, m, x)
<1>1. s \in SettingsType
  BY DEF Sound
<1>2. m \in Mirror /\ a \in 0 .. MaxOffset /\ s.encLen \in Nat
  BY <1>1, SettingsAre DEF Has, At
<1>3. n \in Nat
  <2>1. CASE m = "enc"
    BY <1>2, <2>1, WidthIs
  <2>2. CASE m \in {"uid", "ctr", "picc", "tt", "mac"}
    <3>1. UidLen \in Nat /\ CtrLen \in Nat /\ MacLen \in Nat /\ TtLen \in Nat /\ PiccLen[x] \in Nat
      BY LengthsAre
    <3> QED BY <2>2, <3>1, WidthIs
  <2> QED BY <1>2, <2>1, <2>2 DEF Mirror
<1>4. b = a + inc /\ Width(v, m, x) = n
  BY DEF Moved, At, Has, Width
<1>5. p \in b .. (b + n - 1) /\ Span(s, m, x) = a .. (a + n - 1)
  BY <1>4 DEF Span
<1> HIDE DEF a, b, n
<1> QED BY <1>2, <1>3, <1>4, <1>5

LEMMA OverlapMoved ==
  ASSUME NEW s, Sound(s, mode), NEW inc \in Int, NEW v, Moved(v, s, inc), NEW x \in Mode,
         NEW m1, NEW m2, Overlap(v, x, m1, m2)
  PROVE  Overlap(s, x, m1, m2)
<1>1. Has(s, m1) /\ Has(s, m2)
  BY DEF Overlap, Moved, Has
<1>2. PICK p : p \in Span(v, m1, x) /\ p \in Span(v, m2, x)
  BY DEF Overlap
<1>3. p - inc \in Span(s, m1, x) /\ p - inc \in Span(s, m2, x)
  BY <1>1, <1>2, SpanMoved
<1> QED BY <1>1, <1>3 DEF Overlap

LEMMA TryNewMoved ==
  ASSUME mode \in Mode, NEW s, Sound(s, mode), NEW inc \in Int, NEW v, Moved(v, s, inc),
         Includes(s) = Identity => Includes(v) = Identity
  PROVE  TryNew(v, mode)
<1>1. TryNewFromWire(s) /\ \A q \in ApartFromPicc : ~Overlap(s, mode, q[1], q[2])
  BY DEF Sound, TryNew
<1>2. ASSUME NEW m, Has(s, m) PROVE At(v, m) = At(s, m) + inc /\ At(s, m) \in Int
  <2>1. At(s, m) \in Nat
    BY <1>2, PlacesAre
  <2> QED BY <1>2, <2>1 DEF Moved, At, Has
<1>3. \A m : Has(v, m) <=> Has(s, m)
  BY DEF Moved, Has
<1>4. s.input \in Int /\ s.encLen \in Nat
  <2>1. s.input \in 0 .. MaxOffset /\ s.encLen \in Nat
    BY SettingsAre DEF Sound
  <2> QED BY <2>1
<1>5. v.input = s.input + inc /\ v.encLen = s.encLen
  BY DEF Moved
<1>6. WindowOrdered(v)
  <2> SUFFICES ASSUME Has(s, "mac") PROVE v.input <= At(v, "mac")
    BY <1>3 DEF WindowOrdered
  <2>1. s.input <= At(s, "mac")
    BY <1>1 DEF TryNewFromWire, WindowOrdered
  <2> DEFINE a == At(s, "mac")
             b == At(v, "mac")
  <2>2. b = a + inc /\ a \in Int
    BY <1>2
  <2> HIDE DEF a, b
  <2>3. v.input <= b
    BY <1>4, <1>5, <2>1, <2>2 DEF a
  <2> QED BY <2>3 DEF b
<1>7. EncInWindow(v)
  <2> SUFFICES ASSUME Has(s, "enc")
               PROVE  At(v, "enc") >= v.input /\ At(v, "enc") + v.encLen <= At(v, "mac")
    BY <1>3 DEF EncInWindow
  <2> DEFINE a == At(s, "mac")
             b == At(v, "mac")
             e == At(s, "enc")
             f == At(v, "enc")
  <2>1. Has(s, "mac")
    BY EncWithin
  <2>2. e >= s.input /\ e + s.encLen <= a
    BY <1>1 DEF TryNewFromWire, EncInWindow
  <2>3. b = a + inc /\ a \in Int /\ f = e + inc /\ e \in Int
    BY <1>2, <2>1
  <2> HIDE DEF a, b, e, f
  <2>4. f >= v.input /\ f + v.encLen <= b
    BY <1>4, <1>5, <2>2, <2>3
  <2> QED BY <2>4 DEF b, f
<1>8. EncHasBoth(v)
  BY <1>1, <1>3 DEF TryNewFromWire, EncHasBoth
<1>9. \A m1, m2 : Overlap(v, "Aes", m1, m2) => Overlap(s, "Aes", m1, m2)
  <2>1. "Aes" \in Mode
    BY DEF Mode
  <2> QED BY <2>1, OverlapMoved
<1>10. \A q \in Apart : ~Overlap(v, "Aes", q[1], q[2])
  BY <1>1, <1>9 DEF TryNewFromWire
<1>11. TamperBeforeCipher(v)
  <2> SUFFICES ASSUME Overlap(v, "Aes", "tt", "enc")
               PROVE  At(v, "tt") + TtLen <= At(v, "enc") + v.encLen \div 2
    BY DEF TamperBeforeCipher
  <2> DEFINE t == At(s, "tt")
             u == At(v, "tt")
             e == At(s, "enc")
             f == At(v, "enc")
             h == s.encLen \div 2
  <2>1. Overlap(s, "Aes", "tt", "enc")
    BY <1>9
  <2>2. t + TtLen <= e + h
    BY <1>1, <2>1 DEF TryNewFromWire, TamperBeforeCipher
  <2>3. u = t + inc /\ t \in Int /\ f = e + inc /\ e \in Int
    BY <1>2, <2>1 DEF Overlap
  <2>4. h \in Int /\ v.encLen \div 2 = h
    BY <1>4, <1>5
  <2> HIDE DEF t, u, e, f, h
  <2>5. u + TtLen <= f + h
    BY <2>2, <2>3, <2>4, LengthsAre
  <2> QED BY <2>4, <2>5 DEF u, f
<1>12. \A q \in ApartFromPicc : ~Overlap(v, mode, q[1], q[2])
  BY <1>1, OverlapMoved
<1> QED BY <1>6, <1>7, <1>8, <1>10, <1>11, <1>12 DEF TryNew, TryNewFromWire

SettingsParts == {"at", "content", "input", "encLen", "limit"}

LEMMA ValidMoved ==
  ASSUME mode \in Mode, NEW s, Sound(s, mode), NEW inc \in Int,
         NEW v, Moved(v, s, inc), DOMAIN v = SettingsParts
  PROVE  Valid(v)
<1> DEFINE any == IF Has(v, "picc") THEN Identity ELSE {}
           w == [v EXCEPT !.content = any]
<1>1. w.at = v.at /\ w.input = v.input /\ w.encLen = v.encLen /\ w.content = any
  BY Zenon DEF SettingsParts
<1> HIDE DEF w, any
<1>2. Moved(w, s, inc)
  BY <1>1 DEF Moved
<1>3. Includes(s) = Identity => Includes(w) = Identity
  <2>1. DOMAIN w.at = DOMAIN s.at
    BY <1>2 DEF Moved
  <2>2. (Has(w, "picc") <=> Has(s, "picc")) /\ (Has(v, "picc") <=> Has(w, "picc"))
    BY <1>1, <2>1 DEF Has
  <2> QED BY <1>1, <2>1, <2>2 DEF Includes, any
<1>4. TryNew(w, mode)
  BY <1>2, <1>3, TryNewMoved
<1> QED BY <1>4 DEF Valid, w, any

LEMMA ShiftedIs ==
  ASSUME NEW s, s \in SettingsType, NEW inc \in Int
  PROVE  Moved(Shifted(s, inc), s, inc) /\ DOMAIN Shifted(s, inc) = SettingsParts
<1> DEFINE at == [m \in DOMAIN s.at |-> s.at[m] + inc]
           input == s.input + inc
           v == [s EXCEPT !.at = at, !.input = input]
<1>1. DOMAIN s = SettingsParts
  <2>1. s = [at |-> s.at, content |-> s.content, input |-> s.input, encLen |-> s.encLen,
             limit |-> s.limit]
    BY SettingsAre
  <2> QED BY <2>1, Zenon DEF SettingsParts
<1>2. Shifted(s, inc) = v
  BY DEF Shifted
<1>3. DOMAIN at = DOMAIN s.at /\ \A m \in DOMAIN s.at : at[m] = s.at[m] + inc
  OBVIOUS
<1> HIDE DEF at, input
<1>4. DOMAIN v = SettingsParts /\ v.at = at /\ v.input = input /\ v.encLen = s.encLen
  BY <1>1, Zenon DEF SettingsParts
<1> HIDE DEF v
<1>5. Moved(v, s, inc)
  BY <1>3, <1>4 DEF Moved, input
<1> QED BY <1>2, <1>4, <1>5

LEMMA Unmoved ==
  ASSUME NEW s, s \in SettingsType
  PROVE  Moved(s, s, 0) /\ DOMAIN s = SettingsParts
<1>1. \A m \in DOMAIN s.at : s.at[m] \in Int
  <2>1. \A m \in DOMAIN s.at : s.at[m] \in 0 .. MaxOffset
    BY SettingsAre
  <2> QED BY <2>1
<1>2. s.input \in Int
  <2>1. s.input \in 0 .. MaxOffset
    BY SettingsAre
  <2> QED BY <2>1
<1>3. \A x \in Int : x = x + 0
  OBVIOUS
<1>4. DOMAIN s = SettingsParts
  <2>1. s = [at |-> s.at, content |-> s.content, input |-> s.input, encLen |-> s.encLen,
             limit |-> s.limit]
    BY SettingsAre
  <2> QED BY <2>1, Zenon DEF SettingsParts
<1> QED BY <1>1, <1>2, <1>3, <1>4 DEF Moved

\* A URL that fits in the file is within reach of the verifier.
LEMMA InReach ==
  ASSUME mode \in Mode, NEW s, Sound(s, mode), Has(s, "mac"), NEW size \in Int,
         Lies(s, UriAt, size), NEW pre \in Nat, pre + size - UriAt <= FileLen
  PROVE  CanShift(s, pre - UriAt)
<1>1. UriAt \in Nat /\ FileLen \in Nat
  BY FileAssumption
<1>2. \A m \in DOMAIN s.at : s.at[m] \in UriAt .. (size - 1)
  <2> SUFFICES ASSUME NEW m \in DOMAIN s.at PROVE At(s, m) \in UriAt .. (size - 1)
    BY DEF At
  <2> DEFINE a == At(s, m)
             n == Width(s, m, mode)
  <2>1. Has(s, m)
    BY DEF Has
  <2>2. a \in Nat /\ n \in Nat /\ n > 0
    BY <2>1, PlacesAre
  <2>3. Span(s, m, mode) = a .. (a + n - 1) /\ Span(s, m, mode) \subseteq UriAt .. (size - 1)
    BY DEF Span, Lies
  <2> HIDE DEF a, n
  <2>4. a \in a .. (a + n - 1)
    BY <2>2
  <2> QED BY <2>3, <2>4 DEF a
<1>3. s.input \in UriAt .. (size - 1)
  <2>1. s.input >= UriAt
    BY DEF Lies
  <2>2. At(s, "mac") \in UriAt .. (size - 1)
    BY <1>2 DEF At, Has
  <2>3. s.input <= At(s, "mac") /\ s.input \in Nat
    BY MacInputIs DEF Sound, TryNew, TryNewFromWire, WindowOrdered
  <2> DEFINE a == At(s, "mac")
  <2> HIDE DEF a
  <2>4. a \in UriAt .. (size - 1) /\ s.input <= a
    BY <2>2, <2>3 DEF a
  <2> QED BY <1>1, <2>1, <2>3, <2>4
<1>4. Has(s, "enc") => At(s, "enc") + s.encLen \in UriAt .. (size - 1)
  <2> SUFFICES ASSUME Has(s, "enc") PROVE At(s, "enc") + s.encLen \in UriAt .. (size - 1)
    OBVIOUS
  <2> DEFINE e == At(s, "enc")
             a == At(s, "mac")
             n == s.encLen
  <2>1. e \in UriAt .. (size - 1) /\ a \in UriAt .. (size - 1)
    BY <1>2 DEF At, Has
  <2>2. n \in Nat
    BY EncWithin
  <2>3. e + n <= a
    BY DEF Sound, TryNew, TryNewFromWire, EncInWindow
  <2> HIDE DEF e, a, n
  <2>4. e + n \in UriAt .. (size - 1)
    BY <1>1, <2>1, <2>2, <2>3
  <2> QED BY <2>4 DEF e, n
<1>5. \A p \in UriAt .. (size - 1) : p + (pre - UriAt) \in 0 .. (FileLen - 1)
  BY <1>1
<1> DEFINE positions == {s.at[m] : m \in DOMAIN s.at} \union {s.input} \union
                        (IF Has(s, "enc") THEN {At(s, "enc") + s.encLen} ELSE {})
<1>6. positions \subseteq UriAt .. (size - 1)
  <2>1. {s.at[m] : m \in DOMAIN s.at} \subseteq UriAt .. (size - 1)
    BY <1>2
  <2>2. (IF Has(s, "enc") THEN {At(s, "enc") + s.encLen} ELSE {}) \subseteq UriAt .. (size - 1)
    BY <1>4
  <2> QED BY <1>3, <2>1, <2>2
<1> HIDE DEF positions
<1>7. \A p \in positions : p + (pre - UriAt) \in 0 .. (FileLen - 1)
  BY <1>5, <1>6
<1> QED BY <1>7 DEF CanShift, positions

-----------------------------------------------------------------------------
(* What comes out of a verification *)

TruthOf(s, c, open) ==
  [out |-> "ok", uid |-> KeyOf(s, c).uid, ctr |-> KeyOf(s, c).ctr, tt |-> TamperOf(s, open),
   data |-> IF Has(s, "enc") THEN EncPlain(s, c, open) ELSE << >>]

\* x tells of the tag what the MAC vouches for.
Faithful(x, s, c, open) ==
  LET t == TruthOf(s, c, open)
  IN  /\ x.uid = t.uid /\ x.ctr = t.ctr /\ x.data = t.data
      /\ (Has(s, "tt") /\ Span(s, "tt", mode) \subseteq s.input .. (At(s, "mac") - 1))
           => x.tt = t.tt

LEMMA SpansAreInt ==
  ASSUME mode \in Mode, NEW s, Sound(s, mode), NEW m, Has(s, m)
  PROVE  Span(s, m, mode) \subseteq Int
<1>1. At(s, m) \in Nat /\ Width(s, m, mode) \in Nat
  BY PlacesAre
<1> QED BY <1>1 DEF Span

\* A verdict other than an error is of what the tag has mirrored ...
LEMMA OkTells ==
  ASSUME mode \in Mode, NEW s, Sound(s, mode), Has(s, "mac"), TagAccepts(s), TamperPlaced(s),
         NEW c, NEW open, NEW noise, NEW F, F = FileOf(s, c, open, noise),
         NEW inc \in Int, NEW lo \in Int, NEW hi \in Int,
         NEW v, Moved(v, s, inc), Lies(s, lo, hi), NEW r, Shows(r, F, inc, lo, hi),
         Verdict(v, r).out = "ok"
  PROVE  Faithful(Verdict(v, r), s, c, open)
<1> DEFINE id == ReadPicc(s, F)
           ok == [out |-> "ok", uid |-> id.uid, ctr |-> id.ctr,
                  tt |-> ReadTamper(s, F), data |-> EncData(s, F)]
           t == TruthOf(s, c, open)
<1>1. Verdict(v, r) = IF MacMatches(s, F, id) THEN ok ELSE Failure("error")
  BY VerdictMoved
<1>2. Failure("error").out # "ok"
  BY DEF Failure, Unverified
<1>3. MacMatches(s, F, id) /\ Verdict(v, r) = ok
  BY <1>1, <1>2
<1>4. id = KeyOf(s, c) /\ Told(s, c, open, F)
  <2> HIDE DEF id
  <2> QED BY <1>3, MacTells
<1>5. EncData(s, F) = t.data
  BY <1>4, DataIs DEF TruthOf
<1>6. ASSUME Has(s, "tt"), Span(s, "tt", mode) \subseteq s.input .. (At(s, "mac") - 1)
      PROVE  ReadTamper(s, F) = TamperOf(s, open)
  <2>1. \A p \in Span(s, "tt", mode) : F[p] = Encrypted(s, c, open, p)
    BY <1>4, <1>6 DEF Told
  <2> QED BY <1>4, <2>1, TamperIs
<1>7. t.uid = KeyOf(s, c).uid /\ t.ctr = KeyOf(s, c).ctr /\ t.tt = TamperOf(s, open)
  BY DEF TruthOf
<1>8. ok.uid = id.uid /\ ok.ctr = id.ctr /\ ok.tt = ReadTamper(s, F) /\ ok.data = EncData(s, F)
  OBVIOUS
<1> HIDE DEF ok, id, t
<1> QED BY <1>3, <1>4, <1>5, <1>6, <1>7, <1>8 DEF Faithful, t

\* ... and of a file that is not damaged it is all that was mirrored.
LEMMA WholeTells ==
  ASSUME mode \in Mode, NEW s, Sound(s, mode), Has(s, "mac"), TagAccepts(s), TamperPlaced(s),
         NEW c \in Ctrs, NEW open, NEW noise, noise \notin 0 .. (FileLen - 1),
         NEW F, F = FileOf(s, c, open, noise),
         NEW inc \in Int, NEW lo \in Int, NEW hi \in Int,
         NEW v, Moved(v, s, inc), Lies(s, lo, hi), NEW r, Shows(r, F, inc, lo, hi)
  PROVE  Verdict(v, r) = TruthOf(s, c, open)
<1> DEFINE id == ReadPicc(s, F)
<1>1. id = KeyOf(s, c)
  BY IdentityIs
<1>2. MacMatches(s, F, id) /\ Told(s, c, open, F)
  BY <1>1, MacHolds
<1>3. EncData(s, F) = IF Has(s, "enc") THEN EncPlain(s, c, open) ELSE << >>
  BY <1>2, DataIs
<1>4. ReadTamper(s, F) = TamperOf(s, open)
  <2>1. Has(s, "tt") => \A p \in Span(s, "tt", mode) : F[p] = Encrypted(s, c, open, p)
    <3> SUFFICES ASSUME Has(s, "tt"), NEW p \in Span(s, "tt", mode)
                 PROVE  F[p] = Encrypted(s, c, open, p)
      OBVIOUS
    <3>1. p \in Int /\ In(s, "tt", p)
      BY SpansAreInt DEF In
    <3>2. ~In(s, "mac", p)
      BY <3>1, Exclusive
    <3>3. In(s, "mac", p) \/ F[p] = Encrypted(s, c, open, p)
      BY FileWhole
    <3> QED BY <3>2, <3>3
  <2> QED BY <1>2, <2>1, TamperIs
<1> HIDE DEF id
<1>5. Verdict(v, r) = [out |-> "ok", uid |-> id.uid, ctr |-> id.ctr,
                       tt |-> ReadTamper(s, F), data |-> EncData(s, F)]
  BY <1>2, VerdictMoved DEF id
<1> QED BY <1>1, <1>3, <1>4, <1>5 DEF TruthOf

-----------------------------------------------------------------------------
(* The planner *)

PlanParts == {"st", "pos", "at", "content", "macStart", "encEnd"}

\* The planner stays within its buffer, and what it has seen lies behind it.
PlanOk(p, suite) ==
  /\ DOMAIN p = PlanParts
  /\ p.st \in {"parsing", "error", "done"}
  /\ p.pos \in UriAt .. (UriAt + FileLen)
  /\ p.at = [m \in DOMAIN p.at |-> p.at[m]] /\ DOMAIN p.at \subseteq Mirror
  /\ \A m \in DOMAIN p.at :
       p.at[m] \in UriAt .. p.pos /\ p.at[m] + Width(Disabled, m, suite) <= p.pos
  /\ p.content \subseteq Identity /\ (p.content # {} <=> "picc" \in DOMAIN p.at)
  /\ p.macStart = -1 \/ p.macStart \in UriAt .. p.pos
  /\ p.encEnd = -1 \/ p.encEnd \in UriAt .. p.pos

DoneOk == plan.st = "done" => Complete /\ plan.pos <= FileLen /\ TryNew(Planned, mode)

PlanInv == PlanOk(plan, mode) /\ DoneOk

LEMMA NarrowIs ==
  ASSUME NEW x \in Mode
  PROVE  /\ \A m \in Mirror : Width(Disabled, m, x) \in Nat
         /\ Width(Disabled, "enc", x) = 0
<1>1. Disabled.encLen = 0
  BY DEF Disabled
<1>2. /\ UidLen \in Nat /\ CtrLen \in Nat /\ MacLen \in Nat /\ TtLen \in Nat /\ PiccLen[x] \in Nat
  BY LengthsAre
<1>3. ASSUME NEW m \in Mirror PROVE Width(Disabled, m, x) \in Nat
  <2>1. CASE m = "enc"
    BY <1>1, <2>1, WidthIs
  <2>2. CASE m \in {"uid", "ctr", "picc", "tt", "mac"}
    BY <1>2, <2>2, WidthIs
  <2> QED BY <2>1, <2>2 DEF Mirror
<1> QED BY <1>1, <1>3, WidthIs

LEMMA FillIs ==
  ASSUME NEW m \in {"uid", "ctr", "tt", "mac", "picc"}
  PROVE  Fill(m) = Width(Disabled, m, mode)
<1>1. CASE m = "uid"
  BY <1>1, WidthIs DEF Fill
<1>2. CASE m = "ctr"
  BY <1>2, WidthIs DEF Fill
<1>3. CASE m = "tt"
  BY <1>3, WidthIs DEF Fill
<1>4. CASE m = "mac"
  BY <1>4, WidthIs DEF Fill
<1>5. CASE m = "picc"
  BY <1>5, WidthIs DEF Fill
<1> QED BY <1>1, <1>2, <1>3, <1>4, <1>5

LEMMA EmptyOk ==
  ASSUME NEW x \in Mode, NEW p, p = Empty \/ p = [Empty EXCEPT !.st = "error"]
  PROVE  PlanOk(p, x) /\ p.st # "done"
<1> DEFINE none == << >>
<1>1. none = [m \in DOMAIN none |-> none[m]] /\ DOMAIN none = {}
  OBVIOUS
<1> HIDE DEF none
<1>2. /\ DOMAIN p = PlanParts /\ p.st \in {"parsing", "error"} /\ p.pos = UriAt /\ p.at = none
      /\ p.content = {} /\ p.macStart = -1 /\ p.encEnd = -1
  <2>1. CASE p = Empty
    BY <2>1 DEF Empty, PlanParts, none
  <2>2. CASE p = [Empty EXCEPT !.st = "error"]
    BY <2>2 DEF Empty, PlanParts, none
  <2> QED BY <2>1, <2>2
<1>3. p.pos \in UriAt .. (UriAt + FileLen)
  BY <1>2, FileAssumption
<1> QED BY <1>1, <1>2, <1>3 DEF PlanOk

\* The parser goes on by n characters.
LEMMA FurtherOk ==
  ASSUME NEW x \in Mode, NEW p, PlanOk(p, x), NEW n \in Nat, p.pos + n <= UriAt + FileLen
  PROVE  /\ p.pos + n \in UriAt .. (UriAt + FileLen)
         /\ UriAt .. p.pos \subseteq UriAt .. (p.pos + n)
         /\ \A m \in DOMAIN p.at :
              p.at[m] \in UriAt .. (p.pos + n) /\ p.at[m] + Width(Disabled, m, x) <= p.pos + n
<1>1. UriAt \in Nat /\ FileLen \in Nat /\ p.pos \in UriAt .. (UriAt + FileLen)
  BY FileAssumption DEF PlanOk
<1>2. p.pos + n \in UriAt .. (UriAt + FileLen) /\ UriAt .. p.pos \subseteq UriAt .. (p.pos + n)
  BY <1>1
<1>3. ASSUME NEW m \in DOMAIN p.at
      PROVE  p.at[m] \in UriAt .. (p.pos + n) /\ p.at[m] + Width(Disabled, m, x) <= p.pos + n
  <2>1. p.at[m] \in UriAt .. p.pos /\ p.at[m] + Width(Disabled, m, x) <= p.pos
        /\ Width(Disabled, m, x) \in Nat
    BY NarrowIs DEF PlanOk
  <2> QED BY <1>1, <1>2, <2>1
<1> QED BY <1>2, <1>3

LEMMA TextOk ==
  ASSUME mode \in Mode, PlanOk(plan, mode), Text
  PROVE  PlanOk(plan', mode) /\ plan'.st # "done"
<1>1. CASE Fits(1)
  <2> DEFINE p == [plan EXCEPT !.pos = @ + 1]
  <2>1. plan' = p
    BY <1>1 DEF Text
  <2>2. plan.pos + 1 <= UriAt + FileLen
    <3>1. plan.pos - UriAt + 1 <= FileLen /\ plan.pos \in UriAt .. (UriAt + FileLen)
      BY <1>1 DEF Fits, PlanOk
    <3> QED BY <3>1, FileAssumption
  <2>3. /\ plan.pos + 1 \in UriAt .. (UriAt + FileLen)
        /\ UriAt .. plan.pos \subseteq UriAt .. (plan.pos + 1)
        /\ \A m \in DOMAIN plan.at : plan.at[m] \in UriAt .. (plan.pos + 1)
             /\ plan.at[m] + Width(Disabled, m, mode) <= plan.pos + 1
    BY <2>2, FurtherOk
  <2> DEFINE pos == plan.pos + 1
  <2>4. /\ DOMAIN p = PlanParts /\ p.st = plan.st /\ p.pos = pos /\ p.at = plan.at
        /\ p.content = plan.content /\ p.macStart = plan.macStart /\ p.encEnd = plan.encEnd
    BY Zenon DEF PlanOk, PlanParts
  <2> HIDE DEF p, pos
  <2>5. PlanOk(p, mode)
    BY <2>3, <2>4, Zenon DEF PlanOk, pos
  <2>6. p.st # "done"
    BY <2>4 DEF Text, Parsing
  <2> QED BY <2>1, <2>5, <2>6
<1>2. CASE ~Fits(1)
  BY <1>2, EmptyOk DEF Text, PlanErr
<1> QED BY <1>1, <1>2

LEMMA PlaceholderOk ==
  ASSUME mode \in Mode, PlanOk(plan, mode), NEW m \in {"uid", "ctr", "tt", "mac", "picc"},
         NEW content \in SUBSET Identity, content # {} <=> m = "picc", Placeholder(m, content)
  PROVE  PlanOk(plan', mode) /\ plan'.st # "done"
<1>1. CASE Seen(m) \/ (InEnc /\ m # "tt") \/ ~Fits(Fill(m))
  <2>1. plan' = [Empty EXCEPT !.st = "error"]
    BY <1>1 DEF Placeholder, PlanErr
  <2> QED BY <2>1, EmptyOk
<1>2. CASE ~(Seen(m) \/ (InEnc /\ m # "tt") \/ ~Fits(Fill(m)))
  <2> DEFINE n == Fill(m)
             at == Here(m)
             pos == plan.pos + n
             both == plan.content \union content
             p == [plan EXCEPT !.at = Here(m), !.pos = @ + n, !.content = @ \union content]
             D == DOMAIN plan.at \union {m}
  <2>1. plan' = p
    BY <1>2 DEF Placeholder
  <2>2. n = Width(Disabled, m, mode) /\ n \in Nat /\ m \in Mirror
    BY FillIs, NarrowIs DEF Mirror
  <2>3. UriAt \in Nat /\ FileLen \in Nat /\ plan.pos \in UriAt .. (UriAt + FileLen)
    BY FileAssumption DEF PlanOk
  <2>4. plan.pos + n <= UriAt + FileLen
    <3>1. plan.pos - UriAt + n <= FileLen
      BY <1>2 DEF Fits
    <3> HIDE DEF n
    <3> QED BY <2>2, <2>3, <3>1
  <2>5. /\ DOMAIN p = PlanParts /\ p.st = plan.st /\ p.pos = pos /\ p.at = at
        /\ p.content = both /\ p.macStart = plan.macStart /\ p.encEnd = plan.encEnd
    BY Zenon DEF PlanOk, PlanParts
  <2>6. /\ pos \in UriAt .. (UriAt + FileLen) /\ UriAt .. plan.pos \subseteq UriAt .. pos
        /\ \A k \in DOMAIN plan.at : plan.at[k] \in UriAt .. pos
             /\ plan.at[k] + Width(Disabled, k, mode) <= pos
    BY <2>2, <2>4, FurtherOk
  <2>7. plan.pos \in UriAt .. pos /\ plan.pos + n <= pos
    <3> HIDE DEF n
    <3> QED BY <2>2, <2>3
  <2>8. /\ DOMAIN at = D /\ at = [k \in D |-> at[k]] /\ at[m] = plan.pos
        /\ \A k \in DOMAIN plan.at : k # m => at[k] = plan.at[k]
    BY DEF Here
  <2> HIDE DEF n, at, pos, p, D
  <2>9. ASSUME NEW k \in D
        PROVE  at[k] \in UriAt .. pos /\ at[k] + Width(Disabled, k, mode) <= pos
    <3>1. CASE k = m
      BY <2>2, <2>7, <2>8, <3>1, Zenon
    <3>2. CASE k # m
      BY <2>6, <2>8, <3>2, Zenon DEF D
    <3> QED BY <3>1, <3>2
  <2>10. D \subseteq Mirror
    BY <2>2 DEF PlanOk, D
  <2>11. both \subseteq Identity /\ (both # {} <=> "picc" \in D)
    BY DEF PlanOk, D
  <2>12. plan.macStart = -1 \/ plan.macStart \in UriAt .. pos
    BY <2>6 DEF PlanOk
  <2>13. plan.encEnd = -1 \/ plan.encEnd \in UriAt .. pos
    BY <2>6 DEF PlanOk
  <2>14. plan.st = "parsing"
    BY DEF Placeholder, Parsing
  <2> HIDE DEF both
  <2>15. PlanOk(p, mode)
    BY <2>5, <2>6, <2>8, <2>9, <2>10, <2>11, <2>12, <2>13, <2>14, Zenon DEF PlanOk
  <2> QED BY <2>1, <2>5, <2>14, <2>15
<1> QED BY <1>1, <1>2

LEMMA OpenEncOk ==
  ASSUME mode \in Mode, PlanOk(plan, mode), OpenEnc
  PROVE  PlanOk(plan', mode) /\ plan'.st # "done"
<1>1. CASE Seen("enc")
  BY <1>1, EmptyOk DEF OpenEnc, PlanErr
<1>2. CASE ~Seen("enc")
  <2> DEFINE at == Here("enc")
             p == [plan EXCEPT !.at = Here("enc")]
             D == DOMAIN plan.at \union {"enc"}
  <2>1. plan' = p
    BY <1>2 DEF OpenEnc
  <2>2. Width(Disabled, "enc", mode) = 0 /\ "enc" \in Mirror
    BY NarrowIs DEF Mirror
  <2>3. plan.pos \in UriAt .. plan.pos /\ plan.pos + 0 <= plan.pos
    <3>1. UriAt \in Nat /\ FileLen \in Nat /\ plan.pos \in UriAt .. (UriAt + FileLen)
      BY FileAssumption DEF PlanOk
    <3> QED BY <3>1
  <2>4. /\ DOMAIN p = PlanParts /\ p.st = plan.st /\ p.pos = plan.pos /\ p.at = at
        /\ p.content = plan.content /\ p.macStart = plan.macStart /\ p.encEnd = plan.encEnd
    BY Zenon DEF PlanOk, PlanParts
  <2>5. /\ DOMAIN at = D /\ at = [k \in D |-> at[k]] /\ at["enc"] = plan.pos
        /\ \A k \in DOMAIN plan.at : k # "enc" => at[k] = plan.at[k]
    BY DEF Here
  <2> HIDE DEF at, p, D
  <2>6. ASSUME NEW k \in D
        PROVE  at[k] \in UriAt .. plan.pos /\ at[k] + Width(Disabled, k, mode) <= plan.pos
    <3>1. CASE k = "enc"
      BY <2>2, <2>3, <2>5, <3>1, Zenon
    <3>2. CASE k # "enc"
      BY <2>5, <3>2, Zenon DEF D, PlanOk
    <3> QED BY <3>1, <3>2
  <2>7. D \subseteq Mirror /\ ("picc" \in D <=> "picc" \in DOMAIN plan.at)
    BY <2>2 DEF PlanOk, D
  <2>8. PlanOk(p, mode)
    BY <2>4, <2>5, <2>6, <2>7, Zenon DEF PlanOk
  <2>9. p.st # "done"
    BY <2>4 DEF OpenEnc, Parsing
  <2> QED BY <2>1, <2>8, <2>9
<1> QED BY <1>1, <1>2

LEMMA MarkersOk ==
  ASSUME mode \in Mode, PlanOk(plan, mode), MacStart \/ CloseEnc \/ Malformed
  PROVE  PlanOk(plan', mode) /\ plan'.st # "done"
<1> DEFINE p == [plan EXCEPT !.macStart = plan.pos]
           q == [plan EXCEPT !.encEnd = plan.pos]
<1>1. plan' = [Empty EXCEPT !.st = "error"] \/ plan' = p \/ plan' = q
  BY DEF MacStart, CloseEnc, Malformed, PlanErr
<1>2. plan.st = "parsing"
  BY DEF MacStart, CloseEnc, Malformed, Parsing
<1>3. plan.pos \in UriAt .. plan.pos
  <2>1. UriAt \in Nat /\ FileLen \in Nat /\ plan.pos \in UriAt .. (UriAt + FileLen)
    BY FileAssumption DEF PlanOk
  <2> QED BY <2>1
<1>4. /\ DOMAIN p = PlanParts /\ p.st = plan.st /\ p.pos = plan.pos /\ p.at = plan.at
      /\ p.content = plan.content /\ p.macStart = plan.pos /\ p.encEnd = plan.encEnd
  BY Zenon DEF PlanOk, PlanParts
<1>5. /\ DOMAIN q = PlanParts /\ q.st = plan.st /\ q.pos = plan.pos /\ q.at = plan.at
      /\ q.content = plan.content /\ q.macStart = plan.macStart /\ q.encEnd = plan.pos
  BY Zenon DEF PlanOk, PlanParts
<1> HIDE DEF p, q
<1>6. PlanOk(p, mode) /\ p.st # "done"
  BY <1>2, <1>3, <1>4, Zenon DEF PlanOk
<1>7. PlanOk(q, mode) /\ q.st # "done"
  BY <1>2, <1>3, <1>5, Zenon DEF PlanOk
<1> QED BY <1>1, <1>6, <1>7, EmptyOk

LEMMA EndOk ==
  ASSUME mode \in Mode, PlanOk(plan, mode), EndOfTemplate
  PROVE  PlanOk(plan', mode) /\ DoneOk'
<1>1. CASE Complete /\ plan.pos <= FileLen /\ TryNew(Planned, mode)
  <2> DEFINE p == [plan EXCEPT !.st = "done"]
  <2>1. plan' = p /\ mode' = mode
    BY <1>1 DEF EndOfTemplate
  <2>2. /\ DOMAIN p = PlanParts /\ p.st = "done" /\ p.pos = plan.pos /\ p.at = plan.at
        /\ p.content = plan.content /\ p.macStart = plan.macStart /\ p.encEnd = plan.encEnd
    BY Zenon DEF PlanOk, PlanParts
  <2> HIDE DEF p
  <2>3. PlanOk(p, mode)
    BY <2>2, Zenon DEF PlanOk
  <2>4. Planned' = Planned /\ Seen("enc")' = Seen("enc")
    BY <2>1, <2>2 DEF Planned, Seen
  <2>5. Complete'
    BY <1>1, <2>1, <2>2, <2>4 DEF Complete, Seen, InEnc
  <2>6. plan'.pos <= FileLen
    BY <1>1, <2>1, <2>2
  <2>7. TryNew(Planned', mode')
    BY <1>1, <2>1, <2>4
  <2>8. DoneOk'
    BY <2>5, <2>6, <2>7 DEF DoneOk
  <2> QED BY <2>1, <2>3, <2>8
<1>2. CASE ~(Complete /\ plan.pos <= FileLen /\ TryNew(Planned, mode))
  <2>1. plan' = [Empty EXCEPT !.st = "error"]
    BY <1>2 DEF EndOfTemplate, PlanErr
  <2>2. PlanOk(plan', mode) /\ plan'.st # "done"
    BY <2>1, EmptyOk
  <2> QED BY <2>2 DEF DoneOk
<1> QED BY <1>1, <1>2

LEMMA PlanStepOk ==
  ASSUME mode \in Mode, PlanOk(plan, mode), PlanStep
  PROVE  mode' = mode /\ PlanInv'
<1>1. mode' = mode
  BY DEF PlanStep, Text, MacStart, OpenEnc, CloseEnc, Malformed, EndOfTemplate, Placeholder
<1>2. CASE EndOfTemplate
  BY <1>1, <1>2, EndOk DEF PlanInv
<1>3. ASSUME PlanOk(plan', mode) /\ plan'.st # "done" PROVE PlanInv'
  BY <1>1, <1>3 DEF PlanInv, DoneOk
<1>4. CASE Text
  BY <1>1, <1>3, <1>4, TextOk
<1>5. CASE MacStart \/ CloseEnc \/ Malformed
  BY <1>1, <1>3, <1>5, MarkersOk
<1>6. CASE OpenEnc
  BY <1>1, <1>3, <1>6, OpenEncOk
<1>7. ASSUME NEW m \in {"uid", "ctr", "tt", "mac"}, Placeholder(m, {}) PROVE PlanInv'
  <2>1. m \in {"uid", "ctr", "tt", "mac", "picc"} /\ m # "picc" /\ {} \in SUBSET Identity
    OBVIOUS
  <2>2. PlanOk(plan', mode) /\ plan'.st # "done"
    BY <1>7, <2>1, PlaceholderOk
  <2> QED BY <1>3, <2>2
<1>8. ASSUME NEW content \in PiccContent, Placeholder("picc", content) PROVE PlanInv'
  <2>1. content \in SUBSET Identity /\ content # {}
    BY DEF PiccContent
  <2>2. "picc" \in {"uid", "ctr", "tt", "mac", "picc"}
    OBVIOUS
  <2>3. PlanOk(plan', mode) /\ plan'.st # "done"
    BY <1>8, <2>1, <2>2, PlaceholderOk
  <2> QED BY <1>3, <2>3
<1> QED BY <1>1, <1>2, <1>4, <1>5, <1>6, <1>7, <1>8 DEF PlanStep

\* What the planner ends with are sound settings, all of which lie in the URL.
LEMMA PlannedSound ==
  ASSUME mode \in Mode, PlanInv, plan.st = "done"
  PROVE  /\ Sound(Planned, mode) /\ Has(Planned, "mac") /\ plan.pos \in 0 .. FileLen
         /\ Lies(Planned, UriAt, plan.pos) /\ Planned.limit = NoLimit
<1> DEFINE s == Planned
           start == IF plan.macStart = -1 THEN UriAt ELSE plan.macStart
           len == IF Seen("enc") THEN plan.encEnd - plan.at["enc"] ELSE 0
<1>1. PlanOk(plan, mode) /\ Complete /\ plan.pos <= FileLen /\ TryNew(s, mode)
  BY DEF PlanInv, DoneOk
<1>2. UriAt \in Nat /\ FileLen \in Nat /\ UriAt + FileLen <= MaxOffset /\ MaxOffset \in Nat
      /\ plan.pos \in UriAt .. (UriAt + FileLen)
  BY <1>1, FileAssumption, LengthsAre DEF PlanOk
<1>3. s = [at |-> plan.at, content |-> plan.content, input |-> start, encLen |-> len,
           limit |-> NoLimit]
  BY DEF Planned
<1>4. s.at = plan.at /\ s.content = plan.content /\ s.input = start /\ s.encLen = len
      /\ s.limit = NoLimit
  BY <1>3, Zenon
<1>5. \A m \in DOMAIN plan.at : plan.at[m] \in UriAt .. plan.pos
  BY <1>1 DEF PlanOk
<1>6. UriAt .. plan.pos \subseteq 0 .. MaxOffset
  BY <1>2
<1>7. plan.at \in Places
  <2> DEFINE D == DOMAIN plan.at
  <2>1. plan.at = [m \in D |-> plan.at[m]] /\ D \in SUBSET Mirror
    BY <1>1 DEF PlanOk
  <2>2. \A m \in D : plan.at[m] \in 0 .. MaxOffset
    BY <1>5, <1>6
  <2>3. plan.at \in [D -> 0 .. MaxOffset]
    BY <2>1, <2>2
  <2> HIDE DEF D
  <2> QED BY <2>1, <2>3 DEF Places
<1>8. start \in UriAt .. plan.pos
  <2>1. plan.macStart = -1 \/ plan.macStart \in UriAt .. plan.pos
    BY <1>1 DEF PlanOk
  <2>2. UriAt \in UriAt .. plan.pos
    BY <1>2
  <2> QED BY <2>1, <2>2
<1>9. len \in Nat /\ (Seen("enc") => len > 0 /\ len % EncUnit = 0) /\ (~Seen("enc") => len = 0)
  <2>1. CASE Seen("enc")
    <3>1. s.encLen > 0 /\ s.encLen % EncUnit = 0
      BY <1>1, <2>1 DEF Complete
    <3>2. plan.encEnd \in Int
      <4>1. plan.encEnd = -1 \/ plan.encEnd \in UriAt .. plan.pos
        BY <1>1 DEF PlanOk
      <4> QED BY <4>1
    <3>3. plan.at["enc"] \in Int
      BY <1>5, <2>1 DEF Seen
    <3>4. len \in Int
      BY <2>1, <3>2, <3>3
    <3> HIDE DEF len, s
    <3> QED BY <1>4, <2>1, <3>1, <3>4
  <2>2. CASE ~Seen("enc")
    BY <2>2
  <2> QED BY <2>1, <2>2
<1> HIDE DEF s, start, len
<1>10. s \in SettingsType
  <2>1. start \in 0 .. MaxOffset
    BY <1>6, <1>8
  <2>2. plan.content \in SUBSET Identity
    BY <1>1 DEF PlanOk
  <2> QED BY <1>3, <1>7, <1>9, <2>1, <2>2 DEF SettingsType
<1>11. \A m : Has(s, m) <=> Seen(m)
  BY <1>4 DEF Has, Seen
<1>12. Has(s, "mac")
  BY <1>1, <1>11 DEF Complete
<1>13. WellFormed(s)
  <2>1. DOMAIN s.at \subseteq Mirror
    BY <1>1, <1>4 DEF PlanOk
  <2>2. Has(s, "picc") => s.content # {} /\ Identity \intersect DOMAIN s.at = {}
    <3>1. Has(s, "picc") => ~Has(s, "uid") /\ ~Has(s, "ctr")
      BY <1>1, <1>11 DEF Complete
    <3>2. Has(s, "picc") => s.content # {}
      BY <1>1, <1>4 DEF PlanOk, Has
    <3> QED BY <3>1, <3>2 DEF Identity, Has
  <2>3. ~Has(s, "picc") => s.content = {}
    BY <1>1, <1>4 DEF PlanOk, Has
  <2>4. Has(s, "enc") => s.encLen > 0 /\ s.encLen % EncUnit = 0
    BY <1>4, <1>9, <1>11
  <2>5. ~Has(s, "enc") => s.encLen = 0
    BY <1>4, <1>9, <1>11
  <2> QED BY <1>4, <1>12, <2>1, <2>2, <2>3, <2>4, <2>5 DEF WellFormed
<1>14. Sound(s, mode)
  BY <1>1, <1>10, <1>13 DEF Sound, s
<1>15. ASSUME NEW m \in DOMAIN s.at, NEW p \in Span(s, m, mode)
       PROVE  p \in UriAt .. (plan.pos - 1)
  <2> DEFINE a == At(s, m)
             n == Width(s, m, mode)
  <2>1. a \in UriAt .. plan.pos
    BY <1>4, <1>5 DEF At
  <2>2. n \in Nat
    BY <1>14, PlacesAre DEF Has
  <2>3. a + n <= plan.pos
    <3>1. CASE m = "enc"
      <4>1. a + n <= At(s, "mac")
        BY <1>1, <3>1, WidthIs DEF TryNew, TryNewFromWire, EncInWindow, Has, s
      <4>2. At(s, "mac") \in UriAt .. plan.pos
        BY <1>4, <1>5, <1>12 DEF At, Has
      <4> HIDE DEF a, n
      <4> QED BY <1>2, <2>1, <2>2, <4>1, <4>2
    <3>2. CASE m # "enc"
      <4>1. m \in Mirror /\ a + Width(Disabled, m, mode) <= plan.pos
        BY <1>1, <1>4 DEF PlanOk, At
      <4>2. Width(Disabled, m, mode) = n
        BY <3>2, <4>1, WidthIs DEF Mirror
      <4> QED BY <4>1, <4>2
    <3> QED BY <3>1, <3>2
  <2>4. p \in a .. (a + n - 1)
    BY DEF Span
  <2> HIDE DEF a, n
  <2> QED BY <1>2, <2>1, <2>2, <2>3, <2>4
<1>16. s.input >= UriAt
  BY <1>2, <1>4, <1>8
<1>17. plan.pos \in 0 .. FileLen
  BY <1>1, <1>2
<1> QED BY <1>4, <1>12, <1>14, <1>15, <1>16, <1>17 DEF Lies, s

-----------------------------------------------------------------------------
(* The inductive invariant *)

\* Settings are given once and are sound; those from a URL lie in the URL.
ConfInv ==
  \/ conf = NotSet
  \/ /\ plan = Empty
     /\ conf.from \in {"direct", "url"} /\ conf.size \in 0 .. FileLen /\ Sound(conf.s, mode)
     /\ conf.from = "direct" => conf.size = FileLen
     /\ conf.from = "url" => Has(conf.s, "mac") /\ Lies(conf.s, UriAt, conf.size)

\* What is shown is of settings that the tag has taken.
ShownInv ==
  \/ shown = NotTapped
  \/ /\ conf # NotSet /\ TagAccepts(conf.s) /\ conf.s.limit = NoLimit
     /\ DOMAIN shown = {"ctr", "open", "noise"} /\ shown.ctr \in Ctrs
     /\ shown.noise = -1 \/ shown.noise \in 0 .. (conf.size - 1)

ResultInv ==
  /\ result.out \in {"none", "ok", "error", "no_mac", "no_shift", "invalid"}
  /\ result # Unverified => shown # NotTapped

SdmInv ==
  /\ mode \in Mode /\ PlanInv /\ ConfInv /\ ShownInv /\ ResultInv
  /\ Recovered /\ OkIsTrue

LEMMA InitOk == Init => SdmInv
<1> SUFFICES ASSUME Init PROVE SdmInv
  OBVIOUS
<1>1. mode \in Mode /\ plan = Empty /\ conf = NotSet /\ shown = NotTapped /\ result = Unverified
  BY DEF Init, PlanInit
<1>2. PlanInv
  BY <1>1, EmptyOk DEF PlanInv, DoneOk
<1>3. ResultInv
  BY <1>1 DEF ResultInv, Unverified
<1>4. Recovered /\ OkIsTrue
  <2>1. result.out = "none"
    BY <1>1 DEF Unverified
  <2> QED BY <1>1, <2>1 DEF Recovered, OkIsTrue
<1> QED BY <1>1, <1>2, <1>3, <1>4 DEF SdmInv, ConfInv, ShownInv

LEMMA PlanSame ==
  ASSUME PlanInv, mode' = mode, plan' = plan
  PROVE  PlanInv'
<1>1. PlanOk(plan', mode')
  BY DEF PlanInv
<1>2. Planned' = Planned
  BY DEF Planned, Seen
<1>3. Complete' <=> Complete
  BY <1>2 DEF Complete, Seen, InEnc
<1>4. TryNew(Planned', mode') <=> TryNew(Planned, mode)
  BY <1>2
<1> QED BY <1>1, <1>3, <1>4 DEF PlanInv, DoneOk

LEMMA ConfSame ==
  ASSUME ConfInv, mode' = mode, conf' = conf, conf = NotSet \/ plan' = plan
  PROVE  ConfInv'
<1>1. CASE conf = NotSet
  BY <1>1 DEF ConfInv
<1>2. CASE conf # NotSet
  <2>1. Lies(conf.s, UriAt, conf.size)' <=> Lies(conf.s, UriAt, conf.size)
    BY DEF Lies
  <2>2. Sound(conf.s, mode)' <=> Sound(conf.s, mode)
    OBVIOUS
  <2> QED BY <1>2, <2>1, <2>2 DEF ConfInv
<1> QED BY <1>1, <1>2

LEMMA ShownSame ==
  ASSUME ShownInv, mode' = mode, conf' = conf, shown' = shown
  PROVE  ShownInv'
<1>1. TagAccepts(conf.s)' <=> TagAccepts(conf.s)
  BY DEF TagAccepts
<1> QED BY <1>1 DEF ShownInv

LEMMA TruthSame ==
  ASSUME mode' = mode, conf' = conf, shown' = shown
  PROVE  /\ Truth(conf.s) = TruthOf(conf.s, shown.ctr, shown.open)
         /\ Truth(conf.s)' = Truth(conf.s)
         /\ TamperPlaced(conf.s)' <=> TamperPlaced(conf.s)
<1> DEFINE plain(x, s, c, open) ==
        [i \in 0 .. (s.encLen \div 2 - 1) |->
           LET p == At(s, "enc") + i
               j(m) == p - At(s, m)
               in(m) == Has(s, m) /\ p \in Span(s, m, x)
           IN  CASE in("uid")  -> <<"uid", j("uid")>>
                 [] in("ctr")  -> <<"digit", Digit(c, j("ctr"))>>
                 [] in("picc") -> <<"picc", s.content, c, j("picc")>>
                 [] in("tt")   -> <<"tt", open, j("tt")>>
                 [] OTHER      -> <<"text">>]
<1>1. EncPlain(conf.s, shown.ctr, shown.open) = plain(mode, conf.s, shown.ctr, shown.open)
  BY DEF EncPlain, Mirrored, In
<1>2. EncPlain(conf.s, shown.ctr, shown.open)' = plain(mode', conf'.s, shown'.ctr, shown'.open)
  BY DEF EncPlain, Mirrored, In
<1> HIDE DEF plain
<1>3. EncPlain(conf.s, shown.ctr, shown.open)' = EncPlain(conf.s, shown.ctr, shown.open)
  BY <1>1, <1>2
<1>4. TagTamper(conf.s)' = TagTamper(conf.s) /\ TagTamper(conf.s) = TamperOf(conf.s, shown.open)
  BY DEF TagTamper, TamperOf
<1>5. FileData(conf.s)' = FileData(conf.s)
  BY <1>3 DEF FileData
<1>6. Truth(conf.s)' = Truth(conf.s)
  BY <1>4, <1>5 DEF Truth
<1>7. Truth(conf.s) = TruthOf(conf.s, shown.ctr, shown.open)
  BY <1>4 DEF Truth, TruthOf, FileData
<1> QED BY <1>6, <1>7 DEF TamperPlaced

-----------------------------------------------------------------------------
(* Steps before the verification *)

\* Nothing to recover, as long as there is no result.
LEMMA NoResult ==
  ASSUME result' = Unverified, mode' \in Mode, PlanInv', ConfInv', ShownInv'
  PROVE  SdmInv'
<1>1. result'.out = "none"
  BY DEF Unverified
<1>2. ResultInv'
  BY <1>1 DEF ResultInv
<1>3. Recovered' /\ OkIsTrue'
  BY <1>1 DEF Recovered, OkIsTrue
<1> QED BY <1>2, <1>3 DEF SdmInv

\* The parser works before there are settings, and settings come before a tap.
LEMMA NotYet ==
  ASSUME SdmInv
  PROVE  /\ conf = NotSet => shown = NotTapped
         /\ shown = NotTapped => result = Unverified
         /\ plan # Empty => conf = NotSet
  BY DEF SdmInv, ConfInv, ShownInv, ResultInv

LEMMA PlanStepKeeps ==
  ASSUME SdmInv, conf = NotSet, PlanStep, UNCHANGED <<conf, shown, result>>
  PROVE  SdmInv'
<1>1. mode \in Mode /\ PlanOk(plan, mode)
  BY DEF SdmInv, PlanInv
<1>2. mode' = mode /\ PlanInv'
  BY <1>1, PlanStepOk
<1>3. ConfInv'
  BY DEF ConfInv
<1>4. shown = NotTapped /\ result = Unverified
  BY NotYet
<1>5. ShownInv'
  BY <1>4 DEF ShownInv
<1> QED BY <1>1, <1>2, <1>3, <1>4, <1>5, NoResult

LEMMA ConfigureKeeps ==
  ASSUME SdmInv, Configure
  PROVE  SdmInv'
<1>1. PICK names \in SUBSET Mirror, content \in SUBSET Identity, input \in Inputs,
           len \in EncLens \union {0}, limit \in {NoLimit, 1, MaxOffset, MaxOffset + 1} :
        LET shape == [at |-> [m \in names |-> 0], content |-> content,
                      input |-> input, encLen |-> len, limit |-> limit]
        IN  /\ WellFormed(shape)
            /\ \E at \in [names -> Offsets] :
                 LET s == [shape EXCEPT !.at = at]
                 IN  /\ TryNew(s, mode)
                     /\ conf' = [from |-> "direct", s |-> s, size |-> FileLen]
  BY DEF Configure
<1> DEFINE none == [m \in names |-> 0]
           shape == [at |-> none, content |-> content, input |-> input, encLen |-> len,
                     limit |-> limit]
<1>2. PICK at \in [names -> Offsets] :
        LET s == [shape EXCEPT !.at = at]
        IN  TryNew(s, mode) /\ conf' = [from |-> "direct", s |-> s, size |-> FileLen]
  BY <1>1
<1> DEFINE s == [at |-> at, content |-> content, input |-> input, encLen |-> len,
                 limit |-> limit]
<1>3. [shape EXCEPT !.at = at] = s
  <2> HIDE DEF none
  <2> QED OBVIOUS
<1>4. TryNew(s, mode) /\ conf' = [from |-> "direct", s |-> s, size |-> FileLen]
  BY <1>2, <1>3
<1>5. /\ s.at = at /\ s.content = content /\ s.input = input /\ s.encLen = len /\ s.limit = limit
      /\ shape.at = none /\ shape.content = content /\ shape.input = input
      /\ shape.encLen = len /\ shape.limit = limit
  OBVIOUS
<1>6. DOMAIN none = names /\ DOMAIN at = names
  OBVIOUS
<1>7. WellFormed(shape)
  BY <1>1
<1> HIDE DEF s, shape, none
<1>8. WellFormed(s)
  BY <1>5, <1>6, <1>7 DEF WellFormed, Has, Includes
<1>9. s \in SettingsType
  <2>1. at \in [names -> 0 .. MaxOffset]
    BY BoundAssumption
  <2>2. at \in Places
    BY <2>1 DEF Places
  <2>3. input \in 0 .. MaxOffset /\ len \in Nat
    BY BoundAssumption
  <2>4. limit \in Nat \union {NoLimit}
    BY LengthsAre
  <2> QED BY <2>2, <2>3, <2>4 DEF SettingsType, s
<1>10. mode \in Mode /\ mode' = mode /\ plan' = plan /\ plan = Empty /\ PlanInv
       /\ conf = NotSet /\ shown' = shown /\ result' = result
  BY DEF SdmInv, Configure
<1>11. conf'.from = "direct" /\ conf'.s = s /\ conf'.size = FileLen
  BY <1>4
<1>12. FileLen \in 0 .. FileLen
  BY FileAssumption
<1>13. ConfInv'
  BY <1>4, <1>8, <1>9, <1>10, <1>11, <1>12 DEF ConfInv, Sound
<1>14. shown = NotTapped /\ result = Unverified
  BY <1>10, NotYet
<1>15. ShownInv'
  BY <1>10, <1>14 DEF ShownInv
<1> QED BY <1>10, <1>13, <1>14, <1>15, PlanSame, NoResult

LEMMA TakePlanKeeps ==
  ASSUME SdmInv, TakePlan
  PROVE  SdmInv'
<1> DEFINE s == Planned
<1>1. /\ plan.st = "done" /\ conf' = [from |-> "url", s |-> s, size |-> plan.pos]
      /\ plan' = Empty /\ mode' = mode /\ shown' = shown /\ result' = result
      /\ mode \in Mode /\ PlanInv
  BY DEF SdmInv, TakePlan
<1>2. /\ Sound(s, mode) /\ Has(s, "mac") /\ plan.pos \in 0 .. FileLen
      /\ Lies(s, UriAt, plan.pos)
  BY <1>1, PlannedSound
<1> HIDE DEF s
<1>3. conf'.from = "url" /\ conf'.s = s /\ conf'.size = plan.pos
  BY <1>1
<1>4. plan # Empty
  BY <1>1 DEF Empty
<1>5. shown = NotTapped /\ result = Unverified
  BY <1>4, NotYet
<1>6. PlanInv'
  <2>1. PlanOk(plan', mode) /\ plan'.st # "done"
    BY <1>1, EmptyOk
  <2> QED BY <1>1, <2>1 DEF PlanInv, DoneOk
<1>7. ConfInv'
  <2>1. Lies(conf.s, UriAt, conf.size)'
    BY <1>1, <1>2, <1>3 DEF Lies
  <2> QED BY <1>1, <1>2, <1>3, <2>1 DEF ConfInv
<1>8. ShownInv'
  BY <1>1, <1>5 DEF ShownInv
<1> QED BY <1>1, <1>5, <1>6, <1>7, <1>8, NoResult

LEMMA TapKeeps ==
  ASSUME SdmInv, Tap
  PROVE  SdmInv'
<1>1. /\ mode \in Mode /\ mode' = mode /\ plan' = plan /\ conf' = conf /\ result' = result
      /\ conf # NotSet /\ shown = NotTapped /\ TagAccepts(conf.s) /\ conf.s.limit = NoLimit
      /\ PlanInv /\ ConfInv
  BY DEF SdmInv, Tap
<1>2. PICK c \in Ctrs, open \in BOOLEAN : shown' = [ctr |-> c, open |-> open, noise |-> -1]
  BY DEF Tap
<1>3. DOMAIN shown' = {"ctr", "open", "noise"} /\ shown'.ctr = c /\ shown'.noise = -1
  BY <1>2
<1>4. TagAccepts(conf.s)'
  BY <1>1 DEF TagAccepts
<1>5. ShownInv'
  BY <1>1, <1>3, <1>4 DEF ShownInv
<1> QED BY <1>1, <1>5, NotYet, PlanSame, ConfSame, NoResult

LEMMA NoiseKeeps ==
  ASSUME SdmInv, Noise
  PROVE  SdmInv'
<1>1. /\ mode \in Mode /\ mode' = mode /\ plan' = plan /\ conf' = conf /\ result' = result
      /\ shown # NotTapped /\ result = Unverified
      /\ PlanInv /\ ConfInv /\ ShownInv
  BY DEF SdmInv, Noise
<1>2. PICK p \in 0 .. (conf.size - 1) : shown' = [shown EXCEPT !.noise = p]
  BY DEF Noise
<1>3. DOMAIN shown = {"ctr", "open", "noise"}
  BY <1>1 DEF ShownInv
<1>4. DOMAIN shown' = {"ctr", "open", "noise"} /\ shown'.ctr = shown.ctr /\ shown'.noise = p
  BY <1>2, <1>3, Zenon
<1>5. TagAccepts(conf.s)' <=> TagAccepts(conf.s)
  BY <1>1 DEF TagAccepts
<1>6. ShownInv'
  BY <1>1, <1>4, <1>5 DEF ShownInv
<1> QED BY <1>1, <1>6, PlanSame, ConfSame, NoResult

-----------------------------------------------------------------------------
(* The verification *)

LEMMA VerdictIs ==
  ASSUME NEW v, NEW r
  PROVE  Verdict(v, r).out \in {"ok", "error"}
<1> DEFINE id == ReadPicc(v, r)
           ok == [out |-> "ok", uid |-> id.uid, ctr |-> id.ctr,
                  tt |-> ReadTamper(v, r), data |-> EncData(v, r)]
<1>1. Verdict(v, r) = Failure("error") \/ Verdict(v, r) = ok
  BY DEF Verdict
<1>2. ok.out = "ok" /\ Failure("error").out = "error"
  BY DEF Failure, Unverified
<1> HIDE DEF ok
<1> QED BY <1>1, <1>2

\* Whatever form the readout comes in, its characters are those of the file.
LEMMA ViewShows ==
  ASSUME NEW F, conf.size \in 0 .. FileLen, NEW pre \in Nat
  PROVE  /\ Shows(View(F, 0, 0), F, 0, 0, conf.size)
         /\ Shows(View(F, pre, UriAt), F, pre - UriAt, UriAt, conf.size)
<1> DEFINE n == conf.size
<1>1. n \in Nat /\ UriAt \in Nat
  BY FileAssumption
<1>2. \A before, drop :
        /\ DOMAIN View(F, before, drop) = 0 .. (before + n - drop - 1)
        /\ \A p \in 0 .. (before + n - drop - 1) :
             ~(p < before) => View(F, before, drop)[p] = F[p - before + drop]
  BY DEF View
<1> HIDE DEF n
<1>3. Shows(View(F, 0, 0), F, 0, 0, n)
  <2> SUFFICES ASSUME NEW p \in 0 .. (n - 1)
               PROVE  p + 0 \in DOMAIN View(F, 0, 0) /\ View(F, 0, 0)[p + 0] = F[p]
    BY DEF Shows
  <2> DEFINE q == p + 0
             last == 0 + n - 0 - 1
  <2>1. q \in 0 .. last /\ ~(q < 0) /\ q - 0 + 0 = p
    BY <1>1
  <2>2. /\ DOMAIN View(F, 0, 0) = 0 .. last
        /\ \A x \in 0 .. last : ~(x < 0) => View(F, 0, 0)[x] = F[x - 0 + 0]
    BY <1>2, Zenon
  <2> HIDE DEF q, last
  <2>3. q \in DOMAIN View(F, 0, 0) /\ View(F, 0, 0)[q] = F[p]
    BY <2>1, <2>2, Zenon
  <2> QED BY <2>3 DEF q
<1>4. Shows(View(F, pre, UriAt), F, pre - UriAt, UriAt, n)
  <2> SUFFICES ASSUME NEW p \in UriAt .. (n - 1)
               PROVE  LET q == p + (pre - UriAt) IN
                      q \in DOMAIN View(F, pre, UriAt) /\ View(F, pre, UriAt)[q] = F[p]
    BY DEF Shows
  <2> DEFINE q == p + (pre - UriAt)
  <2>1. q \in 0 .. (pre + n - UriAt - 1) /\ ~(q < pre) /\ q - pre + UriAt = p
    BY <1>1
  <2> HIDE DEF q
  <2>2. q \in DOMAIN View(F, pre, UriAt) /\ View(F, pre, UriAt)[q] = F[p]
    BY <1>2, <2>1, Zenon
  <2> QED BY <2>2 DEF q
<1> QED BY <1>3, <1>4 DEF n

\* The settings of a verifier are those of the tag.
LEMMA SameSettings ==
  ASSUME mode \in Mode, NEW s, Sound(s, mode), s.limit = NoLimit,
         NEW t \in {s} \union {Decoded(w) : w \in {x \in Sent(s) : Decodes(x)}}
  PROVE  t = s
<1>1. CASE t = s
  BY <1>1
<1>3. t = s \/ t = Decoded(Encode(s))
  BY Zenon DEF Sent
<1>2. CASE t = Decoded(Encode(s))
  <2> DEFINE limit == IF s.limit = MaxOffset THEN NoLimit ELSE s.limit
  <2>1. Decoded(Encode(s)) = [s EXCEPT !.limit = IF @ = MaxOffset THEN NoLimit ELSE @]
    BY ReadBack
  <2>2. [s EXCEPT !.limit = IF @ = MaxOffset THEN NoLimit ELSE @] = [s EXCEPT !.limit = limit]
    OBVIOUS
  <2>3. limit = s.limit
    OBVIOUS
  <2> HIDE DEF limit
  <2>4. s = [at |-> s.at, content |-> s.content, input |-> s.input, encLen |-> s.encLen,
             limit |-> s.limit]
    BY SettingsAre DEF Sound
  <2>5. [s EXCEPT !.limit = s.limit] = s
    BY <2>4
  <2> QED BY <1>2, <2>1, <2>2, <2>3, <2>5
<1> QED BY <1>1, <1>2, <1>3

\* What the tag has taken lies in the file, and what was planned in the URL.
LEMMA LiesThere ==
  ASSUME SdmInv, shown # NotTapped
  PROVE  /\ mode \in Mode /\ Sound(conf.s, mode) /\ conf.size \in 0 .. FileLen
         /\ TagAccepts(conf.s) /\ conf.s.limit = NoLimit
         /\ conf.from \in {"direct", "url"} /\ Lies(conf.s, 0, conf.size)
         /\ conf.from = "url" => Has(conf.s, "mac") /\ Lies(conf.s, UriAt, conf.size)
<1>1. /\ mode \in Mode /\ Sound(conf.s, mode) /\ conf.size \in 0 .. FileLen
      /\ TagAccepts(conf.s) /\ conf.s.limit = NoLimit
      /\ conf.from \in {"direct", "url"} /\ (conf.from = "direct" => conf.size = FileLen)
      /\ (conf.from = "url" => Has(conf.s, "mac") /\ Lies(conf.s, UriAt, conf.size))
  BY DEF SdmInv, ConfInv, ShownInv
<1>2. UriAt \in Nat
  BY FileAssumption
<1>3. conf.s.input \in Nat
  <2>1. conf.s.input \in 0 .. MaxOffset
    BY <1>1, SettingsAre DEF Sound
  <2> QED BY <2>1, LengthsAre
<1>4. CASE conf.from = "direct"
  BY <1>1, <1>3, <1>4 DEF TagAccepts, Lies
<1>5. CASE conf.from = "url"
  <2>1. UriAt .. (conf.size - 1) \subseteq 0 .. (conf.size - 1)
    BY <1>2
  <2> QED BY <1>1, <1>3, <1>5, <2>1 DEF Lies
<1> QED BY <1>1, <1>4, <1>5

\* What `Verify` answers, for settings t and a prefix of pre characters.
AnswerTo(t, pre) ==
  LET raw == pre = -1
      inc == IF raw THEN 0 ELSE pre - UriAt
      v == IF raw THEN t ELSE Shifted(t, inc)
      r == IF raw THEN View(File, 0, 0) ELSE View(File, pre, UriAt)
  IN  IF ~Has(t, "mac") THEN Failure("no_mac")
      ELSE IF ~raw /\ ~CanShift(t, inc) THEN Failure("no_shift")
      ELSE IF ~Valid(v) THEN Failure("invalid")
      ELSE Verdict(v, r)

\* An answer that is no verdict has its reason.
LEMMA AnswerIs ==
  ASSUME SdmInv, shown # NotTapped, NEW pre \in Prefixes \union {-1},
         pre # -1 => conf.from = "url"
  PROVE  LET s == conf.s IN
         \/ ~Has(s, "mac") /\ AnswerTo(s, pre) = Failure("no_mac")
         \/ /\ conf.from = "url" /\ pre \in Prefixes /\ pre + conf.size - UriAt > FileLen
            /\ AnswerTo(s, pre) = Failure("no_shift")
         \/ /\ Has(s, "mac")
            /\ \E inc \in Int, lo \in Int : \E v, r :
                 /\ AnswerTo(s, pre) = Verdict(v, r)
                 /\ Moved(v, s, inc) /\ Lies(s, lo, conf.size)
                 /\ Shows(r, File, inc, lo, conf.size)
<1> DEFINE s == conf.s
           far == pre - UriAt
<1>1. /\ mode \in Mode /\ Sound(s, mode) /\ conf.size \in 0 .. FileLen /\ Lies(s, 0, conf.size)
      /\ (conf.from = "url" => Has(s, "mac") /\ Lies(s, UriAt, conf.size)) /\ s \in SettingsType
  BY LiesThere DEF Sound
<1>2. UriAt \in Nat /\ Prefixes \subseteq Nat /\ FileLen \in Nat
  BY FileAssumption, BoundAssumption
<1>3. CASE ~Has(s, "mac")
  BY <1>3 DEF AnswerTo
<1>4. CASE Has(s, "mac") /\ pre = -1
  <2>1. Moved(s, s, 0) /\ DOMAIN s = SettingsParts
    BY <1>1, Unmoved
  <2>2. Valid(s)
    <3>1. 0 \in Int
      OBVIOUS
    <3> QED BY <1>1, <2>1, <3>1, ValidMoved
  <2>3. AnswerTo(s, pre) = Verdict(s, View(File, 0, 0))
    BY <1>4, <2>2, Zenon DEF AnswerTo
  <2>4. 0 \in Nat /\ 0 \in Int
    OBVIOUS
  <2>5. Shows(View(File, 0, 0), File, 0, 0, conf.size)
    BY <1>1, <2>4, ViewShows
  <2> QED BY <1>1, <1>4, <2>1, <2>3, <2>4, <2>5
<1>5. CASE Has(s, "mac") /\ pre # -1
  <2>1. conf.from = "url" /\ pre \in Prefixes /\ pre \in Nat /\ far \in Int
    BY <1>2, <1>5
  <2>2. CASE ~CanShift(s, far)
    <3>1. AnswerTo(s, pre) = Failure("no_shift")
      BY <1>5, <2>2, Zenon DEF AnswerTo
    <3>2. ~(pre + conf.size - UriAt <= FileLen)
      <4>1. conf.size \in Int
        BY <1>1
      <4> QED BY <1>1, <1>5, <2>1, <2>2, <4>1, InReach
    <3>3. pre + conf.size - UriAt > FileLen
      BY <1>1, <1>2, <2>1, <3>2
    <3> QED BY <2>1, <3>1, <3>3
  <2>3. CASE CanShift(s, far)
    <3> DEFINE v == Shifted(s, far)
    <3>1. Moved(v, s, far) /\ DOMAIN v = SettingsParts
      BY <1>1, <2>1, ShiftedIs
    <3> HIDE DEF v
    <3>2. Valid(v)
      BY <1>1, <2>1, <3>1, ValidMoved
    <3>3. AnswerTo(s, pre) = Verdict(v, View(File, pre, UriAt))
      BY <1>5, <2>3, <3>2, Zenon DEF AnswerTo, v
    <3>4. Shows(View(File, pre, UriAt), File, far, UriAt, conf.size)
      BY <1>1, <2>1, ViewShows
    <3>5. UriAt \in Int
      BY <1>2
    <3> HIDE DEF far
    <3> QED BY <1>1, <1>5, <2>1, <3>1, <3>3, <3>4, <3>5
  <2> QED BY <2>2, <2>3
<1> QED BY <1>3, <1>4, <1>5

LEMMA VerifyKeeps ==
  ASSUME SdmInv, Verify
  PROVE  SdmInv'
<1> DEFINE s == conf.s
           c == shown.ctr
           open == shown.open
           noise == shown.noise
<1>1. /\ shown # NotTapped /\ result = Unverified /\ mode' = mode /\ plan' = plan
      /\ conf' = conf /\ shown' = shown /\ PlanInv /\ ConfInv /\ ShownInv
  BY DEF SdmInv, Verify
<1>2. /\ mode \in Mode /\ Sound(s, mode) /\ TagAccepts(s) /\ s.limit = NoLimit
      /\ conf.size \in 0 .. FileLen
  BY <1>1, LiesThere
<1>3. c \in Ctrs /\ (noise = -1 \/ noise \in 0 .. (conf.size - 1))
  BY <1>1 DEF ShownInv
<1>4. PICK t \in {s} \union {Decoded(w) : w \in {x \in Sent(s) : Decodes(x)}},
           pre \in IF conf.from = "url" THEN Prefixes \union {-1} ELSE {-1} :
        result' = AnswerTo(t, pre)
  BY DEF Verify, AnswerTo
<1>5. t = s
  BY <1>2, SameSettings
<1>6. pre \in Prefixes \union {-1} /\ (pre # -1 => conf.from = "url") /\ result' = AnswerTo(s, pre)
  BY <1>4, <1>5
<1>7. File = FileOf(s, c, open, noise)
  BY DEF File, FileOf
<1>8. /\ Truth(s) = TruthOf(s, c, open) /\ Truth(conf.s)' = Truth(s)
      /\ (TamperPlaced(conf.s)' <=> TamperPlaced(s))
  BY <1>1, TruthSame
<1>9. PlanInv' /\ ConfInv' /\ ShownInv' /\ mode' \in Mode
  BY <1>1, <1>2, PlanSame, ConfSame, ShownSame
<1>10. SUFFICES /\ result'.out \in {"none", "ok", "error", "no_mac", "no_shift", "invalid"}
                /\ (noise = -1 /\ TamperPlaced(s)) =>
                     \/ result' = TruthOf(s, c, open)
                     \/ result'.out = "no_mac" /\ ~Has(s, "mac")
                     \/ /\ result'.out = "no_shift" /\ conf.from = "url"
                        /\ \E p \in Prefixes : p + conf.size - UriAt > FileLen
                /\ (result'.out = "ok" /\ TamperPlaced(s)) => Faithful(result', s, c, open)
  <2>1. ResultInv'
    BY <1>1, <1>10 DEF ResultInv
  <2>2. Recovered'
    <3>1. Has(conf.s, "mac")' <=> Has(s, "mac")
      BY <1>1
    <3> QED BY <1>1, <1>8, <1>10, <3>1, Zenon DEF Recovered
  <2>3. OkIsTrue'
    <3> SUFFICES ASSUME (result'.out = "ok" /\ TamperPlaced(conf.s)') PROVE OkIsTrue'
      BY DEF OkIsTrue
    <3>1. Faithful(result', s, c, open)
      BY <1>8, <1>10
    <3> QED BY <1>1, <1>8, <3>1 DEF Faithful, OkIsTrue, TruthOf
  <2> QED BY <1>9, <2>1, <2>2, <2>3 DEF SdmInv
<1>11. CASE ~Has(s, "mac") /\ AnswerTo(s, pre) = Failure("no_mac")
  BY <1>6, <1>11 DEF Failure, Unverified
<1>12. CASE /\ conf.from = "url" /\ pre \in Prefixes /\ pre + conf.size - UriAt > FileLen
            /\ AnswerTo(s, pre) = Failure("no_shift")
  BY <1>6, <1>12 DEF Failure, Unverified
<1>13. ASSUME Has(s, "mac"), NEW inc \in Int, NEW lo \in Int, NEW v, NEW r,
              AnswerTo(s, pre) = Verdict(v, r), Moved(v, s, inc), Lies(s, lo, conf.size),
              Shows(r, File, inc, lo, conf.size)
       PROVE  /\ result'.out \in {"none", "ok", "error", "no_mac", "no_shift", "invalid"}
              /\ (noise = -1 /\ TamperPlaced(s)) => result' = TruthOf(s, c, open)
              /\ (result'.out = "ok" /\ TamperPlaced(s)) => Faithful(result', s, c, open)
  <2> DEFINE hi == conf.size
  <2>1. result' = Verdict(v, r) /\ hi \in Int
    BY <1>2, <1>6, <1>13
  <2>2. ASSUME noise = -1, TamperPlaced(s) PROVE Verdict(v, r) = TruthOf(s, c, open)
    <3>1. noise \notin 0 .. (FileLen - 1)
      BY <2>2
    <3> HIDE DEF s, c, open, noise, hi
    <3> QED BY <1>2, <1>3, <1>7, <1>13, <2>1, <2>2, <3>1, WholeTells DEF hi
  <2>3. ASSUME Verdict(v, r).out = "ok", TamperPlaced(s) PROVE Faithful(Verdict(v, r), s, c, open)
    <3> HIDE DEF s, c, open, noise, hi
    <3> QED BY <1>2, <1>3, <1>7, <1>13, <2>1, <2>3, OkTells DEF hi
  <2> QED BY <2>1, <2>2, <2>3, VerdictIs
<1> QED BY <1>1, <1>6, <1>11, <1>12, <1>13, AnswerIs

-----------------------------------------------------------------------------
(* The theorems *)

LEMMA StutterKeeps ==
  ASSUME SdmInv, UNCHANGED vars
  PROVE  SdmInv'
<1>1. /\ mode' = mode /\ plan' = plan /\ conf' = conf /\ shown' = shown /\ result' = result
      /\ mode \in Mode /\ PlanInv /\ ConfInv /\ ShownInv /\ ResultInv /\ Recovered /\ OkIsTrue
  BY DEF vars, SdmInv
<1>2. PlanInv' /\ ConfInv' /\ ShownInv' /\ ResultInv'
  BY <1>1, PlanSame, ConfSame, ShownSame DEF ResultInv
<1>3. /\ Truth(conf.s)' = Truth(conf.s) /\ (TamperPlaced(conf.s)' <=> TamperPlaced(conf.s))
  BY <1>1, TruthSame
<1>4. Recovered'
  <2>1. Has(conf.s, "mac")' <=> Has(conf.s, "mac")
    BY <1>1
  <2> QED BY <1>1, <1>3, <2>1, Zenon DEF Recovered
<1>5. OkIsTrue'
  BY <1>1, <1>3 DEF OkIsTrue
<1> QED BY <1>1, <1>2, <1>4, <1>5 DEF SdmInv

LEMMA StepKeeps == SdmInv /\ [Next]_vars => SdmInv'
<1> SUFFICES ASSUME SdmInv, [Next]_vars PROVE SdmInv'
  OBVIOUS
<1>1. CASE Configure
  BY <1>1, ConfigureKeeps
<1>2. CASE "url" \in Sources /\ conf = NotSet /\ PlanStep /\ UNCHANGED <<conf, shown, result>>
  BY <1>2, PlanStepKeeps
<1>3. CASE TakePlan
  BY <1>3, TakePlanKeeps
<1>4. CASE Tap
  BY <1>4, TapKeeps
<1>5. CASE Noise
  BY <1>5, NoiseKeeps
<1>6. CASE Verify
  BY <1>6, VerifyKeeps
<1>7. CASE UNCHANGED vars
  BY <1>7, StutterKeeps
<1> QED BY <1>1, <1>2, <1>3, <1>4, <1>5, <1>6, <1>7 DEF Next

\* The invariant that carries the theorems below: the planner stays in its
\* buffer, the settings are sound ones, and every answer so far was right.
THEOREM Invariant == Spec => []SdmInv
BY InitOk, StepKeeps, PTL DEF Spec

LEMMA TypeFollows == SdmInv => TypeOK
<1> SUFFICES ASSUME SdmInv PROVE TypeOK
  OBVIOUS
<1>1. mode \in Mode /\ plan.st \in {"parsing", "error", "done"}
      /\ plan.pos \in UriAt .. (UriAt + FileLen)
  BY DEF SdmInv, PlanInv, PlanOk
<1>2. result.out \in {"none", "ok", "error", "no_mac", "no_shift", "invalid"}
  BY DEF SdmInv, ResultInv
<1>3. CASE conf = NotSet
  <2>1. conf.from = "none" /\ conf.size = 0 /\ conf.s = Disabled
    BY <1>3 DEF NotSet
  <2>2. /\ DOMAIN Disabled.at = {} /\ Disabled.content = {} /\ Disabled.input = 0
        /\ Disabled.encLen = 0 /\ Disabled.limit = NoLimit
    BY DEF Disabled
  <2>3. WellFormed(conf.s)
    BY <2>1, <2>2 DEF WellFormed, Has
  <2>4. 0 \in 0 .. FileLen /\ 0 \in 0 .. MaxOffset
    BY FileAssumption, LengthsAre
  <2> QED BY <1>1, <1>2, <2>1, <2>2, <2>3, <2>4 DEF TypeOK
<1>4. CASE conf # NotSet
  <2>1. conf.from \in {"direct", "url"} /\ conf.size \in 0 .. FileLen /\ Sound(conf.s, mode)
    BY <1>4 DEF SdmInv, ConfInv
  <2>2. /\ WellFormed(conf.s) /\ \A m \in DOMAIN conf.s.at : conf.s.at[m] \in 0 .. MaxOffset
        /\ conf.s.input \in 0 .. MaxOffset /\ conf.s.limit \in Nat \union {NoLimit}
    BY <2>1, SettingsAre DEF Sound
  <2> QED BY <1>1, <1>2, <2>1, <2>2 DEF TypeOK
<1> QED BY <1>3, <1>4

\* sdm_url_config.rs never writes outside its buffer, and whatever settings
\* there are have the shape that the types of the code give them: for
\* placeholders of any length, files of any size and any template.
THEOREM TypeCorrect == Spec => []TypeOK
BY Invariant, TypeFollows, PTL

\* Settings that `Sdm::try_new` accepts work: whatever was mirrored in a
\* readout that was not damaged, `Verifier` recovers all of it, from the file
\* and from the URL behind any prefix, with settings made from a template,
\* directly, or read back from the tag.
THEOREM RecoveredCorrect == Spec => []Recovered
<1>1. SdmInv => Recovered
  BY DEF SdmInv
<1> QED BY Invariant, <1>1, PTL

\* What `Verifier` reports of a readout, damaged or not, is what the tag has
\* mirrored, so far as the MAC covers it.
THEOREM TrueWhenOk == Spec => []OkIsTrue
<1>1. SdmInv => OkIsTrue
  BY DEF SdmInv
<1> QED BY Invariant, <1>1, PTL

LEMMA RereadFollows == SdmInv => RereadSame
<1> SUFFICES ASSUME SdmInv, conf # NotSet
             PROVE  LET s == conf.s
                        w == Encode(s)
                    IN  /\ Encodable(s) <=> s.limit <= MaxOffset
                        /\ Encodable(s) =>
                             /\ Decodes(w)
                             /\ Decoded(w) = [s EXCEPT !.limit = IF @ = MaxOffset THEN NoLimit ELSE @]
  BY DEF RereadSame
<1>1. mode \in Mode /\ Sound(conf.s, mode)
  BY DEF SdmInv, ConfInv
<1> QED BY <1>1, ReadBack, SendableIs

\* Settings that `Sdm::try_new` accepts can be sent to the tag if, and only if,
\* their limit on the counter takes no more than three bytes, and mean the same
\* when they are read back: wherever their placeholders lie, however long these
\* are, and whatever the limit is.
THEOREM RereadCorrect == Spec => []RereadSame
BY Invariant, RereadFollows, PTL

=============================================================================
