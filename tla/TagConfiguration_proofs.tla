------------------------ MODULE TagConfiguration_proofs ------------------------
(***************************************************************************)
(* Machine-checked facts about the configuration of a tag, for any values  *)
(* and any number of `with_*` calls and of calls of `set_configuration`.   *)
(***************************************************************************)
EXTENDS TagConfiguration, TLAPS

AnySetter == Setter \union {<<"lrp", 0>>}

\* The `with_*` calls that set each option.
Options == {0, 4, 5, 7, 10, 11}
RandomUid == {"random uid"}
Chaining  == {"no chained writing"}
Caps      == {"lrp", "pdcap2.5", "pdcap2.6"}
Tamper    == {"tag tamper"}
Failed    == {"failed counter", "no failed counter"}
Strong    == {"strong modulation"}
Groups == {RandomUid, Chaining, Caps, {"lrp"}, {"pdcap2.5"}, {"pdcap2.6"}, Tamper, Failed, Strong}
NamesOf(option) ==
  IF option = 0 THEN RandomUid ELSE IF option = 4 THEN Chaining ELSE IF option = 5 THEN Caps
  ELSE IF option = 7 THEN Tamper ELSE IF option = 10 THEN Failed ELSE Strong

\* The calls of these names among s, and the last of them.
SaidIn(s, names) == {i \in DOMAIN s : s[i][1] \in names}
LastIn(s, names) == s[CHOOSE i \in SaidIn(s, names) : \A j \in SaidIn(s, names) : j <= i]
HasLast(s, names) == \E i \in SaidIn(s, names) : \A j \in SaidIn(s, names) : j <= i

ValueIn(s, name) == IF SaidIn(s, {name}) = {} THEN 0 ELSE LastIn(s, {name})[2]

CapArray(lrp, five, six) ==
  [i \in 1 .. 10 |-> IF i = 5 THEN lrp ELSE IF i = 9 THEN five ELSE IF i = 10 THEN six ELSE 0]
CapBytesOf(s) ==
  CapArray(IF SaidIn(s, {"lrp"}) = {} THEN 0 ELSE 2, ValueIn(s, "pdcap2.5"), ValueIn(s, "pdcap2.6"))

CounterBytes(c) ==
  IF c[1] = "failed counter" THEN <<1>> \o LittleEndian(c[2][1]) \o LittleEndian(c[2][2])
                             ELSE Zeros(5)

\* The bytes of each option are those of the calls made so far.
Reflects(s) ==
  /\ \A names \in Groups : SaidIn(s, names) # {} => HasLast(s, names)
  /\ \A o \in Options : o \in DOMAIN config <=> SaidIn(s, NamesOf(o)) # {}
  /\ 0 \in DOMAIN config => config[0] = <<2>>
  /\ 4 \in DOMAIN config => config[4] = [i \in 1 .. 2 |-> IF i = 1 THEN 4 ELSE 0]
  /\ 5 \in DOMAIN config => config[5] = CapBytesOf(s)
  /\ 7 \in DOMAIN config => config[7] = <<1, LastIn(s, Tamper)[2]>>
  /\ 10 \in DOMAIN config => config[10] = CounterBytes(LastIn(s, Failed))
  /\ 11 \in DOMAIN config => config[11] = <<LastIn(s, Strong)[2]>>

Sending == [state: {"new", "running", "ok", "failed"}, at: 0 .. 6, calls: Nat,
            said: Seq(AnySetter)]

\* A call under way has brought the tag to what the options mean up to where
\* it is, and has at least one more to send.
OnItsWay ==
  sending.state = "running" =>
    /\ sending.said = setters /\ Build(sending.at) # {}
    /\ device.now = MeantBy[sending.at]

ConfTypes == /\ setters \in Seq(AnySetter) /\ sending \in Sending
             /\ device = [now |-> device.now, before |-> device.before]
ConfInv == ConfTypes /\ Reflects(setters) /\ OnItsWay /\ ConfiguredInOrder

-----------------------------------------------------------------------------
(* The calls *)

\* What a caller may say, and of which values.
LEMMA SetterCases ==
  ASSUME NEW c \in AnySetter
  PROVE  \/ c[1] \in {"random uid", "no chained writing", "lrp", "no failed counter", "strong modulation"}
            /\ c[2] = 0
         \/ c[1] \in {"pdcap2.5", "pdcap2.6"} /\ c[2] \in CapBytes
         \/ c[1] = "tag tamper" /\ c[2] \in {2, 15}
         \/ c[1] = "failed counter" /\ c[2] \in Counters
<1>1. \/ c \in {<<"random uid", 0>>, <<"no chained writing", 0>>, <<"no failed counter", 0>>}
      \/ c \in {"pdcap2.5", "pdcap2.6"} \X CapBytes
      \/ c \in {"tag tamper"} \X {2, 15}
      \/ c \in {"failed counter"} \X Counters
      \/ c \in {"strong modulation"} \X {0}
      \/ c = <<"lrp", 0>>
  <2> DEFINE A == {"pdcap2.5", "pdcap2.6"} \X CapBytes
             B == {"tag tamper"} \X {2, 15}
             C == {"failed counter"} \X Counters
             D == {"strong modulation"} \X {0}
             E == {<<"random uid", 0>>, <<"no chained writing", 0>>, <<"no failed counter", 0>>}
  <2>1. AnySetter = (E \union A \union B \union C \union D) \union {<<"lrp", 0>>}
    BY DEF AnySetter, Setter
  <2> HIDE DEF A, B, C, D, E
  <2>2. c \in A \/ c \in B \/ c \in C \/ c \in D \/ c \in E \/ c = <<"lrp", 0>>
    BY <2>1
  <2> QED BY <2>2 DEF A, B, C, D, E
<1>2. CASE c \in {<<"random uid", 0>>, <<"no chained writing", 0>>, <<"no failed counter", 0>>}
  <2>1. CASE c = <<"random uid", 0>> BY <2>1
  <2>2. CASE c = <<"no chained writing", 0>> BY <2>2
  <2>3. CASE c = <<"no failed counter", 0>> BY <2>3
  <2> QED BY <1>2, <2>1, <2>2, <2>3
<1>3. CASE c \in {"pdcap2.5", "pdcap2.6"} \X CapBytes
  BY <1>3
<1>4. CASE c \in {"tag tamper"} \X {2, 15}
  BY <1>4
<1>5. CASE c \in {"failed counter"} \X Counters
  BY <1>5
<1>6. CASE c \in {"strong modulation"} \X {0}
  BY <1>6
<1>7. CASE c = <<"lrp", 0>>
  BY <1>7
<1> QED BY <1>1, <1>2, <1>3, <1>4, <1>5, <1>6, <1>7

LEMMA AppendFacts ==
  ASSUME NEW S, NEW s \in Seq(S), NEW c \in S
  PROVE  /\ Append(s, c) \in Seq(S) /\ Len(s) \in Nat
         /\ DOMAIN s = 1 .. Len(s) /\ DOMAIN Append(s, c) = 1 .. (Len(s) + 1)
         /\ \A i \in 1 .. Len(s) : Append(s, c)[i] = s[i]
         /\ Append(s, c)[Len(s) + 1] = c
  OBVIOUS

\* A call of other names changes nothing of what these say ...
LEMMA SaysNothing ==
  ASSUME NEW s \in Seq(AnySetter), NEW c \in AnySetter, NEW names, c[1] \notin names
  PROVE  /\ SaidIn(Append(s, c), names) = SaidIn(s, names)
         /\ HasLast(s, names) => /\ HasLast(Append(s, c), names)
                                 /\ LastIn(Append(s, c), names) = LastIn(s, names)
<1> DEFINE t == Append(s, c)
<1>1. SaidIn(t, names) = SaidIn(s, names)
  BY AppendFacts DEF SaidIn
<1>2. ASSUME HasLast(s, names) PROVE HasLast(t, names) /\ LastIn(t, names) = LastIn(s, names)
  <2> DEFINE m == CHOOSE i \in SaidIn(s, names) : \A j \in SaidIn(s, names) : j <= i
  <2>1. m \in SaidIn(s, names)
    BY <1>2 DEF HasLast
  <2>2. LastIn(s, names) = s[m] /\ LastIn(t, names) = t[m]
    BY <1>1 DEF LastIn
  <2>3. t[m] = s[m]
    BY <2>1, AppendFacts DEF SaidIn
  <2> QED BY <1>1, <1>2, <2>2, <2>3 DEF HasLast
<1> QED BY <1>1, <1>2

\* ... and one of these names is the last.
LEMMA SaysLast ==
  ASSUME NEW s \in Seq(AnySetter), NEW c \in AnySetter, NEW names, c[1] \in names
  PROVE  /\ SaidIn(Append(s, c), names) # {}
         /\ HasLast(Append(s, c), names)
         /\ LastIn(Append(s, c), names) = c
<1> DEFINE t == Append(s, c)
           n == Len(s) + 1
<1>1. n \in SaidIn(t, names) /\ t[n] = c /\ n \in Nat
  BY AppendFacts DEF SaidIn
<1>2. \A j \in SaidIn(t, names) : j \in Nat /\ j <= n
  BY AppendFacts DEF SaidIn
<1> HIDE DEF n
<1>3. \A i \in SaidIn(t, names) : (\A j \in SaidIn(t, names) : j <= i) => i = n
  BY <1>1, <1>2
<1>4. (CHOOSE i \in SaidIn(t, names) : \A j \in SaidIn(t, names) : j <= i) = n
  BY <1>1, <1>2, <1>3
<1> QED BY <1>1, <1>2, <1>4 DEF HasLast, LastIn
LEMMA MeantByIs ==
  MeantBy = [k \in 0 .. 6 |-> IF k = 0 THEN device.before
                              ELSE Meant(MeantBy[k - 1], <<0, 4, 5, 7, 10, 11>>[k])]
<1> DEFINE g0 == device.before
           g1 == Meant(g0, 0)
           g2 == Meant(g1, 4)
           g3 == Meant(g2, 5)
           g4 == Meant(g3, 7)
           g5 == Meant(g4, 10)
           g6 == Meant(g5, 11)
           Step(f) == [k \in 0 .. 6 |-> IF k = 0 THEN device.before
                              ELSE Meant(f[k - 1], <<0, 4, 5, 7, 10, 11>>[k])]
           F == [k \in 0 .. 6 |-> IF k = 0 THEN g0 ELSE IF k = 1 THEN g1 ELSE IF k = 2 THEN g2
                       ELSE IF k = 3 THEN g3 ELSE IF k = 4 THEN g4 ELSE IF k = 5 THEN g5 ELSE g6]
<1> HIDE DEF g0, g1, g2, g3, g4, g5, g6
<1>1. /\ F[0] = g0 /\ F[1] = g1 /\ F[2] = g2 /\ F[3] = g3 /\ F[4] = g4 /\ F[5] = g5 /\ F[6] = g6
  OBVIOUS
<1>2. F = Step(F)
  <2>1. ASSUME NEW k \in 0 .. 6
        PROVE  F[k] = IF k = 0 THEN device.before
                              ELSE Meant(F[k - 1], <<0, 4, 5, 7, 10, 11>>[k])
    <3>1. k \in {0, 1, 2, 3, 4, 5, 6}
      OBVIOUS
    <3> HIDE DEF F
    <3>2. k = 0 \/ k = 1 \/ k = 2 \/ k = 3 \/ k = 4 \/ k = 5 \/ k = 6
      BY <3>1
    <3> QED BY <3>2, <1>1 DEF g0, g1, g2, g3, g4, g5, g6
  <2> QED BY <2>1
<1>3. MeantBy = CHOOSE f : f = Step(f)
  BY DEF MeantBy
<1> HIDE DEF F
<1>4. \E f : f = Step(f)
  BY <1>2
<1> HIDE DEF Step
<1>5. (CHOOSE f : f = Step(f)) = Step(CHOOSE f : f = Step(f))
  BY <1>4
<1>6. MeantBy = Step(MeantBy)
  BY <1>3, <1>5
<1> QED BY <1>6 DEF Step

LEMMA MeantByIsToo ==
  (MeantBy = [k \in 0 .. 6 |-> IF k = 0 THEN device.before
                              ELSE Meant(MeantBy[k - 1], <<0, 4, 5, 7, 10, 11>>[k])])'
  BY MeantByIs, PTL
LEMMA MeantStays == ASSUME sending'.said = sending.said, NEW d, NEW o PROVE Meant(d, o)' = Meant(d, o)
  BY DEF Meant, Said, LastSaid, CapSaid

-----------------------------------------------------------------------------
(* The builder *)

LEMMA BitSet == OrBit(0, 2) = 2 /\ OrBit(2, 2) = 2 /\ OrBit(0, 4) = 4 /\ OrBit(4, 4) = 4
  BY DEF OrBit

LEMMA ArrayFacts ==
  ASSUME NEW a, NEW b, NEW d, NEW v
  PROVE  /\ CapArray(a, b, d)[5] = a /\ CapArray(a, b, d)[9] = b /\ CapArray(a, b, d)[10] = d
         /\ [CapArray(a, b, d) EXCEPT ![5] = v] = CapArray(v, b, d)
         /\ [CapArray(a, b, d) EXCEPT ![9] = v] = CapArray(a, v, d)
         /\ [CapArray(a, b, d) EXCEPT ![10] = v] = CapArray(a, b, v)
         /\ Zeros(10) = CapArray(0, 0, 0)
<1>1. CapArray(a, b, d)[5] = a /\ CapArray(a, b, d)[9] = b /\ CapArray(a, b, d)[10] = d
  BY DEF CapArray
<1>2. [CapArray(a, b, d) EXCEPT ![5] = v] = CapArray(v, b, d)
  BY DEF CapArray
<1>3. [CapArray(a, b, d) EXCEPT ![9] = v] = CapArray(a, v, d)
  <2> DEFINE f == [CapArray(a, b, d) EXCEPT ![9] = v]
             g == CapArray(a, v, d)
  <2>1. /\ f = [i \in 1 .. 10 |-> f[i]] /\ g = [i \in 1 .. 10 |-> g[i]]
    BY DEF CapArray
  <2>2. \A i \in 1 .. 10 : f[i] = g[i]
    BY DEF CapArray
  <2> QED BY <2>1, <2>2
<1>4. [CapArray(a, b, d) EXCEPT ![10] = v] = CapArray(a, b, v)
  <2> DEFINE f == [CapArray(a, b, d) EXCEPT ![10] = v]
             g == CapArray(a, b, v)
  <2>1. /\ f = [i \in 1 .. 10 |-> f[i]] /\ g = [i \in 1 .. 10 |-> g[i]]
    BY DEF CapArray
  <2>2. \A i \in 1 .. 10 : f[i] = g[i]
    BY DEF CapArray
  <2> QED BY <2>1, <2>2
<1>5. Zeros(10) = CapArray(0, 0, 0)
  BY DEF CapArray, Zeros
<1> QED BY <1>1, <1>2, <1>3, <1>4, <1>5

\* The option that a call sets, by its name.
LEMMA OptionSet ==
  ASSUME NEW c
  PROVE  /\ c[1] = "random uid" => WithOption(c) = <<0, <<OrBit(GetOrInsert(0, 1)[1], 2)>>>>
         /\ c[1] = "no chained writing" =>
              WithOption(c) = <<4, [GetOrInsert(4, 2) EXCEPT ![1] = OrBit(@, 4)]>>
         /\ c[1] = "lrp" => WithOption(c) = <<5, [GetOrInsert(5, 10) EXCEPT ![5] = OrBit(@, 2)]>>
         /\ c[1] = "pdcap2.5" => WithOption(c) = <<5, [GetOrInsert(5, 10) EXCEPT ![9] = c[2]]>>
         /\ c[1] = "pdcap2.6" => WithOption(c) = <<5, [GetOrInsert(5, 10) EXCEPT ![10] = c[2]]>>
         /\ c[1] = "tag tamper" => WithOption(c) = <<7, <<1, c[2]>>>>
         /\ c[1] = "failed counter" =>
              WithOption(c) = <<10, <<1>> \o LittleEndian(c[2][1]) \o LittleEndian(c[2][2])>>
         /\ c[1] = "no failed counter" => WithOption(c) = <<10, Zeros(5)>>
         /\ c[1] = "strong modulation" => WithOption(c) = <<11, <<c[2]>>>>
  BY Zenon DEF WithOption

\* Where the calls so far have brought the second and the third option.
LEMMA InsertedChaining ==
  ASSUME Reflects(setters)
  PROVE  [GetOrInsert(4, 2) EXCEPT ![1] = OrBit(@, 4)] = [i \in 1 .. 2 |-> IF i = 1 THEN 4 ELSE 0]
<1>1. CASE 4 \in DOMAIN config
  <2>1. GetOrInsert(4, 2) = [i \in 1 .. 2 |-> IF i = 1 THEN 4 ELSE 0]
    BY <1>1 DEF GetOrInsert, Reflects
  <2> QED BY <2>1, BitSet
<1>2. CASE 4 \notin DOMAIN config
  <2>1. GetOrInsert(4, 2) = [i \in 1 .. 2 |-> 0]
    BY <1>2 DEF GetOrInsert, Zeros
  <2> QED BY <2>1, BitSet
<1> QED BY <1>1, <1>2

LEMMA InsertedCaps ==
  ASSUME Reflects(setters)
  PROVE  GetOrInsert(5, 10) = CapBytesOf(setters)
<1>1. CASE 5 \in DOMAIN config
  BY <1>1 DEF GetOrInsert, Reflects
<1>2. CASE 5 \notin DOMAIN config
  <2>1. SaidIn(setters, Caps) = {}
    BY <1>2 DEF Reflects, Options, NamesOf
  <2>2. /\ SaidIn(setters, {"lrp"}) = {} /\ SaidIn(setters, {"pdcap2.5"}) = {}
        /\ SaidIn(setters, {"pdcap2.6"}) = {}
    BY <2>1 DEF SaidIn, Caps
  <2> QED BY <1>2, <2>2, ArrayFacts DEF GetOrInsert, CapBytesOf, ValueIn
<1> QED BY <1>1, <1>2

\* How each call changes the bytes of the capability option.
LEMMA CapsAfter ==
  ASSUME setters \in Seq(AnySetter), Reflects(setters), NEW c \in AnySetter,
         NEW t, t = Append(setters, c)
  PROVE  /\ c[1] = "lrp" => [CapBytesOf(setters) EXCEPT ![5] = OrBit(@, 2)] = CapBytesOf(t)
         /\ c[1] = "pdcap2.5" => [CapBytesOf(setters) EXCEPT ![9] = c[2]] = CapBytesOf(t)
         /\ c[1] = "pdcap2.6" => [CapBytesOf(setters) EXCEPT ![10] = c[2]] = CapBytesOf(t)
         /\ c[1] \notin Caps => CapBytesOf(setters) = CapBytesOf(t)
<1>1. ASSUME NEW name, c[1] # name, {name} \in Groups
      PROVE  SaidIn(t, {name}) = SaidIn(setters, {name}) /\ ValueIn(t, name) = ValueIn(setters, name)
  BY <1>1, SaysNothing DEF ValueIn, Reflects
<1>2. ASSUME NEW name, c[1] = name
      PROVE  SaidIn(t, {name}) # {} /\ ValueIn(t, name) = c[2]
  BY <1>2, SaysLast DEF ValueIn
<1>3. {"lrp"} \in Groups /\ {"pdcap2.5"} \in Groups /\ {"pdcap2.6"} \in Groups
  BY DEF Groups
<1>4. CASE c[1] = "lrp"
  <2>1. /\ SaidIn(t, {"lrp"}) # {} /\ ValueIn(t, "pdcap2.5") = ValueIn(setters, "pdcap2.5")
        /\ ValueIn(t, "pdcap2.6") = ValueIn(setters, "pdcap2.6")
    BY <1>1, <1>2, <1>3, <1>4
  <2>2. [CapBytesOf(setters) EXCEPT ![5] = OrBit(@, 2)] = CapBytesOf(t)
    BY <2>1, BitSet, ArrayFacts DEF CapBytesOf
  <2> QED BY <1>4, <2>2 DEF Caps
<1>5. CASE c[1] = "pdcap2.5"
  <2>1. /\ SaidIn(t, {"lrp"}) = SaidIn(setters, {"lrp"}) /\ ValueIn(t, "pdcap2.5") = c[2]
        /\ ValueIn(t, "pdcap2.6") = ValueIn(setters, "pdcap2.6")
    BY <1>1, <1>2, <1>3, <1>5
  <2>2. [CapBytesOf(setters) EXCEPT ![9] = c[2]] = CapBytesOf(t)
    BY <2>1, ArrayFacts DEF CapBytesOf
  <2> QED BY <1>5, <2>2 DEF Caps
<1>6. CASE c[1] = "pdcap2.6"
  <2>1. /\ SaidIn(t, {"lrp"}) = SaidIn(setters, {"lrp"}) /\ ValueIn(t, "pdcap2.6") = c[2]
        /\ ValueIn(t, "pdcap2.5") = ValueIn(setters, "pdcap2.5")
    BY <1>1, <1>2, <1>3, <1>6
  <2>2. [CapBytesOf(setters) EXCEPT ![10] = c[2]] = CapBytesOf(t)
    BY <2>1, ArrayFacts DEF CapBytesOf
  <2> QED BY <1>6, <2>2 DEF Caps
<1>7. CASE c[1] \notin Caps
  <2>1. /\ SaidIn(t, {"lrp"}) = SaidIn(setters, {"lrp"})
        /\ ValueIn(t, "pdcap2.6") = ValueIn(setters, "pdcap2.6")
        /\ ValueIn(t, "pdcap2.5") = ValueIn(setters, "pdcap2.5")
    BY <1>1, <1>3, <1>7 DEF Caps
  <2>2. CapBytesOf(setters) = CapBytesOf(t)
    BY <2>1, ArrayFacts DEF CapBytesOf
  <2> QED BY <1>7, <2>2 DEF Caps
<1> QED BY <1>4, <1>5, <1>6, <1>7 DEF Caps

\* The option that a call sets, and its bytes: those of all the calls together.
LEMMA PutBytes ==
  ASSUME setters \in Seq(AnySetter), Reflects(setters), NEW c \in AnySetter
  PROVE  LET t == Append(setters, c) IN
         \/ c[1] \in RandomUid /\ WithOption(c) = <<0, <<2>>>>
         \/ c[1] \in Chaining /\ WithOption(c) = <<4, [i \in 1 .. 2 |-> IF i = 1 THEN 4 ELSE 0]>>
         \/ c[1] \in Caps /\ WithOption(c) = <<5, CapBytesOf(t)>>
         \/ c[1] \in Tamper /\ WithOption(c) = <<7, <<1, LastIn(t, Tamper)[2]>>>>
         \/ c[1] \in Failed /\ WithOption(c) = <<10, CounterBytes(LastIn(t, Failed))>>
         \/ c[1] \in Strong /\ WithOption(c) = <<11, <<LastIn(t, Strong)[2]>>>>
<1> DEFINE t == Append(setters, c)
<1>1. CASE c[1] = "random uid"
  <2>1. GetOrInsert(0, 1)[1] \in {0, 2}
    BY DEF GetOrInsert, Zeros, Reflects
  <2> QED BY <1>1, <2>1, OptionSet, BitSet DEF RandomUid
<1>2. CASE c[1] = "no chained writing"
  BY <1>2, OptionSet, InsertedChaining DEF Chaining
<1>3. CASE c[1] = "lrp"
  <2>1. WithOption(c) = <<5, CapBytesOf(t)>>
    BY <1>3, OptionSet, InsertedCaps, CapsAfter, ZenonT(60)
  <2> QED BY <1>3, <2>1 DEF Caps
<1>4. CASE c[1] = "pdcap2.5"
  <2>1. WithOption(c) = <<5, CapBytesOf(t)>>
    <3>1. [CapBytesOf(setters) EXCEPT ![9] = c[2]] = CapBytesOf(t)
      BY <1>4, CapsAfter
    <3>2. GetOrInsert(5, 10) = CapBytesOf(setters)
      BY InsertedCaps
    <3>3. WithOption(c) = <<5, [GetOrInsert(5, 10) EXCEPT ![9] = c[2]]>>
      BY <1>4, OptionSet
    <3> QED BY <3>1, <3>2, <3>3
  <2> QED BY <1>4, <2>1 DEF Caps
<1>5. CASE c[1] = "pdcap2.6"
  <2>1. WithOption(c) = <<5, CapBytesOf(t)>>
    <3>1. [CapBytesOf(setters) EXCEPT ![10] = c[2]] = CapBytesOf(t)
      BY <1>5, CapsAfter
    <3>2. GetOrInsert(5, 10) = CapBytesOf(setters)
      BY InsertedCaps
    <3>3. WithOption(c) = <<5, [GetOrInsert(5, 10) EXCEPT ![10] = c[2]]>>
      BY <1>5, OptionSet
    <3> QED BY <3>1, <3>2, <3>3
  <2> QED BY <1>5, <2>1 DEF Caps
<1>6. CASE c[1] = "tag tamper"
  <2>1. c[1] \in Tamper
    BY <1>6 DEF Tamper
  <2>2. LastIn(t, Tamper) = c
    BY <2>1, SaysLast
  <2>3. WithOption(c) = <<7, <<1, c[2]>>>>
    BY <1>6, OptionSet
  <2> QED BY <2>1, <2>2, <2>3
<1>7. CASE c[1] \in Failed
  <2>1. LastIn(t, Failed) = c
    BY <1>7, SaysLast
  <2> QED BY <1>7, <2>1, OptionSet, ZenonT(60) DEF Failed, CounterBytes
<1>8. CASE c[1] = "strong modulation"
  <2>1. c[1] \in Strong
    BY <1>8 DEF Strong
  <2>2. LastIn(t, Strong) = c
    BY <2>1, SaysLast
  <2>3. WithOption(c) = <<11, <<c[2]>>>>
    BY <1>8, OptionSet
  <2> QED BY <2>1, <2>2, <2>3
<1> QED BY <1>1, <1>2, <1>3, <1>4, <1>5, <1>6, <1>7, <1>8, SetterCases DEF Failed

LEMMA NameFacts ==
  /\ NamesOf(0) = RandomUid /\ NamesOf(4) = Chaining /\ NamesOf(5) = Caps /\ NamesOf(7) = Tamper
  /\ NamesOf(10) = Failed /\ NamesOf(11) = Strong
  /\ \A o \in Options : NamesOf(o) \in Groups
  /\ \A o, p \in Options : \A n : n \in NamesOf(o) /\ n \in NamesOf(p) => o = p
<1>1. /\ NamesOf(0) = RandomUid /\ NamesOf(4) = Chaining /\ NamesOf(5) = Caps
      /\ NamesOf(7) = Tamper /\ NamesOf(10) = Failed /\ NamesOf(11) = Strong
  BY DEF NamesOf
<1>2. \A o \in Options : NamesOf(o) \in Groups
  BY <1>1 DEF Options, Groups
<1>3. \A o, p \in Options : \A n : n \in NamesOf(o) /\ n \in NamesOf(p) => o = p
  BY <1>1, ZenonT(60) DEF Options, RandomUid, Chaining, Caps, Tamper, Failed, Strong
<1> QED BY <1>1, <1>2, <1>3

LEMMA PutReflects ==
  ASSUME setters \in Seq(AnySetter), Reflects(setters), NEW c \in AnySetter, Put(c)
  PROVE  Reflects(setters)' /\ setters' \in Seq(AnySetter)
<1> DEFINE t  == Append(setters, c)
           op == WithOption(c)[1]
           bytes == WithOption(c)[2]
<1>1. setters' = t /\ t \in Seq(AnySetter)
  BY AppendFacts DEF Put
<1>2. /\ DOMAIN config' = DOMAIN config \union {op}
      /\ config'[op] = bytes
      /\ \A o \in DOMAIN config : o # op => config'[o] = config[o]
  BY DEF Put
<1>3. /\ op \in Options /\ c[1] \in NamesOf(op)
      /\ op = 0 => bytes = <<2>>
      /\ op = 4 => bytes = [i \in 1 .. 2 |-> IF i = 1 THEN 4 ELSE 0]
      /\ op = 5 => bytes = CapBytesOf(t)
      /\ op = 7 => bytes = <<1, LastIn(t, Tamper)[2]>>
      /\ op = 10 => bytes = CounterBytes(LastIn(t, Failed))
      /\ op = 11 => bytes = <<LastIn(t, Strong)[2]>>
  <2> HIDE DEF t
  <2>1. \/ c[1] \in RandomUid /\ WithOption(c) = <<0, <<2>>>>
        \/ c[1] \in Chaining /\ WithOption(c) = <<4, [i \in 1 .. 2 |-> IF i = 1 THEN 4 ELSE 0]>>
        \/ c[1] \in Caps /\ WithOption(c) = <<5, CapBytesOf(t)>>
        \/ c[1] \in Tamper /\ WithOption(c) = <<7, <<1, LastIn(t, Tamper)[2]>>>>
        \/ c[1] \in Failed /\ WithOption(c) = <<10, CounterBytes(LastIn(t, Failed))>>
        \/ c[1] \in Strong /\ WithOption(c) = <<11, <<LastIn(t, Strong)[2]>>>>
    BY PutBytes DEF t
  <2> QED BY <2>1, NameFacts DEF Options
<1> HIDE DEF t, op, bytes
<1>4. \A o \in Options : o # op => c[1] \notin NamesOf(o)
  BY <1>3, NameFacts
<1>5. ASSUME NEW names, c[1] \notin names, SaidIn(setters, names) # {} => HasLast(setters, names)
      PROVE  /\ SaidIn(t, names) = SaidIn(setters, names)
             /\ SaidIn(t, names) # {} => /\ HasLast(t, names)
                                         /\ LastIn(t, names) = LastIn(setters, names)
  BY <1>5, SaysNothing DEF t
<1>6. ASSUME NEW names, c[1] \in names
      PROVE  SaidIn(t, names) # {} /\ HasLast(t, names)
  BY <1>6, SaysLast DEF t
<1>7. \A names \in Groups : SaidIn(t, names) # {} => HasLast(t, names)
  BY <1>5, <1>6 DEF Reflects
<1>8. \A o \in Options : o \in DOMAIN config' <=> SaidIn(t, NamesOf(o)) # {}
  <2> SUFFICES ASSUME NEW o \in Options PROVE o \in DOMAIN config' <=> SaidIn(t, NamesOf(o)) # {}
    OBVIOUS
  <2>1. CASE o = op
    BY <1>2, <1>3, <1>6, <2>1
  <2>2. CASE o # op
    <3>1. NamesOf(o) \in Groups /\ c[1] \notin NamesOf(o)
      BY <1>4, <2>2, NameFacts
    <3>2. SaidIn(t, NamesOf(o)) = SaidIn(setters, NamesOf(o))
      BY <1>5, <3>1 DEF Reflects
    <3> QED BY <1>2, <2>2, <3>2 DEF Reflects
  <2> QED BY <2>1, <2>2
<1>9. \A o \in Options : o # op /\ o \in DOMAIN config' =>
        /\ o \in DOMAIN config /\ config'[o] = config[o] /\ c[1] \notin NamesOf(o)
        /\ LastIn(t, NamesOf(o)) = LastIn(setters, NamesOf(o))
  BY <1>2, <1>4, <1>5, <1>8, NameFacts DEF Reflects
<1>10. c[1] \notin Caps => CapBytesOf(t) = CapBytesOf(setters)
  BY CapsAfter DEF t
<1>11. /\ 0 \in Options /\ 4 \in Options /\ 5 \in Options /\ 7 \in Options /\ 10 \in Options
       /\ 11 \in Options
  BY DEF Options
<1>12. 0 \in DOMAIN config' => config'[0] = <<2>>
  BY <1>2, <1>3, <1>9, <1>11 DEF Reflects
<1>13. 4 \in DOMAIN config' => config'[4] = [i \in 1 .. 2 |-> IF i = 1 THEN 4 ELSE 0]
  <2>1. CASE op = 4
    BY <1>2, <1>3, <2>1
  <2>2. CASE op # 4
    BY <1>9, <1>11, <2>2 DEF Reflects
  <2> QED BY <2>1, <2>2
<1>14. 5 \in DOMAIN config' => config'[5] = CapBytesOf(t)
  BY <1>2, <1>3, <1>9, <1>10, <1>11, NameFacts DEF Reflects
<1>15. 7 \in DOMAIN config' => config'[7] = <<1, LastIn(t, Tamper)[2]>>
  BY <1>2, <1>3, <1>9, <1>11, NameFacts DEF Reflects
<1>16. 10 \in DOMAIN config' => config'[10] = CounterBytes(LastIn(t, Failed))
  BY <1>2, <1>3, <1>9, <1>11, NameFacts DEF Reflects
<1>17. 11 \in DOMAIN config' => config'[11] = <<LastIn(t, Strong)[2]>>
  BY <1>2, <1>3, <1>9, <1>11, NameFacts DEF Reflects
<1> QED BY <1>1, <1>7, <1>8, <1>12, <1>13, <1>14, <1>15, <1>16, <1>17 DEF Reflects

-----------------------------------------------------------------------------
(* What an option does, and what it is meant to do *)

LEMMA WithinNat == ASSUME NEW w \in Nat PROVE (w % 256) + 256 * (w \div 256) = w
  OBVIOUS

LEMMA PairFacts ==
  ASSUME NEW S, NEW T, NEW x \in S \X T
  PROVE  x[1] \in S /\ x[2] \in T /\ x = <<x[1], x[2]>>
<1>1. PICK a \in S, b \in T : x = <<a, b>>
  OBVIOUS
<1> QED BY <1>1

LEMMA CounterPair ==
  ASSUME NEW x \in Counters
  PROVE  x[1] \in Nat /\ x[2] \in Nat /\ x = <<x[1], x[2]>>
<1>1. \A n \in U16 : n \in Nat
  BY SMTT(90) DEF U16
<1>2. x \in (U16 \ {0}) \X U16
  BY ConfigurationAssumption
<1>3. x[1] \in U16 \ {0} /\ x[2] \in U16 /\ x = <<x[1], x[2]>>
  BY <1>2, PairFacts
<1> QED BY <1>1, <1>3

FiveBytes(a, b, d, e) == <<1>> \o <<a, b>> \o <<d, e>>

LEMMA FiveFacts ==
  ASSUME NEW p, NEW q, NEW r, NEW s
  PROVE  LET f == FiveBytes(p, q, r, s)
         IN  f[1] = 1 /\ f[2] = p /\ f[3] = q /\ f[4] = r /\ f[5] = s
  BY DEF FiveBytes

DecodedPair(b) == <<b[2] + 256 * b[3], b[4] + 256 * b[5]>>

LEMMA PairDecodes ==
  ASSUME NEW x \in Counters, NEW b,
         b = FiveBytes(x[1] % 256, x[1] \div 256, x[2] % 256, x[2] \div 256)
  PROVE  b[1] = 1 /\ DecodedPair(b) = x
<1>1. PICK l \in Nat, d \in Nat : l = x[1] /\ d = x[2] /\ x = <<l, d>>
  BY CounterPair
<1>2. /\ b[1] = 1 /\ b[2] = l % 256 /\ b[3] = l \div 256 /\ b[4] = d % 256 /\ b[5] = d \div 256
  BY <1>1, FiveFacts
<1>3. b[2] + 256 * b[3] = l /\ b[4] + 256 * b[5] = d
  BY <1>2, WithinNat
<1> QED BY <1>1, <1>2, <1>3 DEF DecodedPair

LEMMA CounterDecodes ==
  ASSUME NEW c, c[1] = "failed counter", c[2] \in Counters
  PROVE  CounterBytes(c)[1] = 1 /\ DecodedPair(CounterBytes(c)) = c[2]
<1>1. CounterBytes(c) = <<1>> \o LittleEndian(c[2][1]) \o LittleEndian(c[2][2])
  BY DEF CounterBytes
<1>2. CounterBytes(c) = FiveBytes(c[2][1] % 256, c[2][1] \div 256, c[2][2] % 256, c[2][2] \div 256)
  BY <1>1, Zenon DEF LittleEndian, FiveBytes
<1>3. ASSUME NEW x \in Counters, x = c[2]
      PROVE  CounterBytes(c)[1] = 1 /\ DecodedPair(CounterBytes(c)) = x
  <2>1. CounterBytes(c) = FiveBytes(x[1] % 256, x[1] \div 256, x[2] % 256, x[2] \div 256)
    BY <1>2, <1>3, Zenon
  <2> DEFINE b == CounterBytes(c)
  <2> HIDE DEF b
  <2>2. b = FiveBytes(x[1] % 256, x[1] \div 256, x[2] % 256, x[2] \div 256)
    BY <2>1 DEF b
  <2>3. b[1] = 1 /\ DecodedPair(b) = x
    BY ONLY <2>2, x \in Counters, PairDecodes
  <2> QED BY <2>3 DEF b
<1> QED BY <1>3

LEMMA Apart ==
  /\ 0 # 4 /\ 0 # 5 /\ 0 # 7 /\ 0 # 10 /\ 0 # 11
  /\ 4 # 0 /\ 5 # 0 /\ 7 # 0 /\ 10 # 0 /\ 11 # 0 /\ 5 # 4 /\ 7 # 4 /\ 10 # 4 /\ 11 # 4
  /\ 7 # 5 /\ 10 # 5 /\ 11 # 5 /\ 10 # 7 /\ 11 # 7 /\ 11 # 10
  OBVIOUS

LEMMA AppliedIs ==
  ASSUME NEW d, NEW data
  PROVE  /\ Applied(d, 0, data) = [d EXCEPT !.ruid = @ \/ IsOn(data[1], 2)]
         /\ Applied(d, 4, data) = [d EXCEPT !.chained = @ /\ ~IsOn(data[1], 4)]
         /\ Applied(d, 5, data) = [d EXCEPT !.lrp = @ \/ IsOn(data[5], 2), !.cap = <<data[9], data[10]>>]
         /\ Applied(d, 7, data) = [d EXCEPT !.tamper = IF data[1] = 1 THEN {data[2]} ELSE @]
         /\ Applied(d, 10, data) =
              [d EXCEPT !.failed = IF data[1] = 1
                 THEN {<<data[2] + 256 * data[3], data[4] + 256 * data[5]>>} ELSE {}]
         /\ Applied(d, 11, data) = [d EXCEPT !.strong = data[1] = 1]
<1>1. Applied(d, 0, data) = [d EXCEPT !.ruid = @ \/ IsOn(data[1], 2)]
  BY Apart, Zenon DEF Applied
<1>2. Applied(d, 4, data) = [d EXCEPT !.chained = @ /\ ~IsOn(data[1], 4)]
  BY Apart, Zenon DEF Applied
<1>3. Applied(d, 5, data) = [d EXCEPT !.lrp = @ \/ IsOn(data[5], 2), !.cap = <<data[9], data[10]>>]
  BY Apart, Zenon DEF Applied
<1>4. Applied(d, 7, data) = [d EXCEPT !.tamper = IF data[1] = 1 THEN {data[2]} ELSE @]
  BY Apart, Zenon DEF Applied
<1>5. Applied(d, 10, data) =
              [d EXCEPT !.failed = IF data[1] = 1
                 THEN {<<data[2] + 256 * data[3], data[4] + 256 * data[5]>>} ELSE {}]
  BY Apart, Zenon DEF Applied
<1>6. Applied(d, 11, data) = [d EXCEPT !.strong = data[1] = 1]
  BY Apart, Zenon DEF Applied
<1> QED BY <1>1, <1>2, <1>3, <1>4, <1>5, <1>6, Zenon

LEMMA MeantIs ==
  ASSUME NEW d
  PROVE  /\ Said(RandomUid) # {} => Meant(d, 0) = [d EXCEPT !.ruid = TRUE]
         /\ Said(Chaining) # {} => Meant(d, 4) = [d EXCEPT !.chained = FALSE]
         /\ Said(Caps) # {} => Meant(d, 5) =
              [d EXCEPT !.lrp = @ \/ Said({"lrp"}) # {},
                        !.cap = <<CapSaid("pdcap2.5"), CapSaid("pdcap2.6")>>]
         /\ Said(Tamper) # {} => Meant(d, 7) = [d EXCEPT !.tamper = {LastSaid(Tamper)[2]}]
         /\ Said(Failed) # {} => Meant(d, 10) =
              [d EXCEPT !.failed =
                 IF LastSaid(Failed)[1] = "failed counter" THEN {LastSaid(Failed)[2]} ELSE {}]
         /\ Said(Strong) # {} => Meant(d, 11) = [d EXCEPT !.strong = LastSaid(Strong)[2] = 1]
         /\ \A o \in Options : Said(NamesOf(o)) = {} => Meant(d, o) = d
<1>1. Said(RandomUid) # {} => Meant(d, 0) = [d EXCEPT !.ruid = TRUE]
  BY Apart, Zenon DEF Meant, RandomUid
<1>2. Said(Chaining) # {} => Meant(d, 4) = [d EXCEPT !.chained = FALSE]
  BY Apart, Zenon DEF Meant, Chaining
<1>3. Said(Caps) # {} => Meant(d, 5) =
              [d EXCEPT !.lrp = @ \/ Said({"lrp"}) # {},
                        !.cap = <<CapSaid("pdcap2.5"), CapSaid("pdcap2.6")>>]
  BY Apart, Zenon DEF Meant, Caps
<1>4. Said(Tamper) # {} => Meant(d, 7) = [d EXCEPT !.tamper = {LastSaid(Tamper)[2]}]
  BY Apart, Zenon DEF Meant, Tamper
<1>5. Said(Failed) # {} => Meant(d, 10) =
              [d EXCEPT !.failed =
                 IF LastSaid(Failed)[1] = "failed counter" THEN {LastSaid(Failed)[2]} ELSE {}]
  BY Apart, Zenon DEF Meant, Failed
<1>6. Said(Strong) # {} => Meant(d, 11) = [d EXCEPT !.strong = LastSaid(Strong)[2] = 1]
  BY Apart, Zenon DEF Meant, Strong
<1>7. ASSUME NEW o \in Options, Said(NamesOf(o)) = {}
      PROVE  Meant(d, o) = d
  <2>1. CASE o = 0
    BY <1>7, <2>1, Apart, NameFacts, Zenon DEF Meant, RandomUid
  <2>2. CASE o = 4
    BY <1>7, <2>2, Apart, NameFacts, Zenon DEF Meant, Chaining
  <2>3. CASE o = 5
    BY <1>7, <2>3, Apart, NameFacts, Zenon DEF Meant, Caps
  <2>4. CASE o = 7
    BY <1>7, <2>4, Apart, NameFacts, Zenon DEF Meant, Tamper
  <2>5. CASE o = 10
    BY <1>7, <2>5, Apart, NameFacts, Zenon DEF Meant, Failed
  <2>6. CASE o = 11
    BY <1>7, <2>6, Apart, NameFacts, Zenon DEF Meant, Strong
  <2> QED BY <2>1, <2>2, <2>3, <2>4, <2>5, <2>6 DEF Options
<1> QED BY <1>1, <1>2, <1>3, <1>4, <1>5, <1>6, <1>7, Zenon

LEMMA LastIs ==
  ASSUME NEW s \in Seq(AnySetter), NEW names, HasLast(s, names)
  PROVE  LastIn(s, names) \in AnySetter /\ LastIn(s, names)[1] \in names
<1> DEFINE m == CHOOSE i \in SaidIn(s, names) : \A j \in SaidIn(s, names) : j <= i
<1>1. m \in SaidIn(s, names)
  BY DEF HasLast
<1>2. LastIn(s, names) = s[m]
  BY DEF LastIn
<1> HIDE DEF m
<1>3. s[m] \in AnySetter /\ s[m][1] \in names
  BY <1>1 DEF SaidIn
<1> QED BY <1>2, <1>3

LEMMA SaidIs ==
  ASSUME sending.said = setters
  PROVE  /\ \A names : Said(names) = SaidIn(setters, names)
         /\ \A names : LastSaid(names) = LastIn(setters, names)
         /\ \A name : CapSaid(name) = ValueIn(setters, name)
<1>1. \A names : Said(names) = SaidIn(setters, names)
  BY DEF Said, SaidIn
<1>2. \A names : LastSaid(names) = LastIn(setters, names)
  BY <1>1 DEF LastSaid, LastIn
<1>3. \A name : CapSaid(name) = ValueIn(setters, name)
  BY <1>1, <1>2 DEF CapSaid, ValueIn
<1> QED BY <1>1, <1>2, <1>3

LEMMA Switches == IsOn(2, 2) /\ IsOn(4, 4) /\ ~IsOn(0, 2)
  BY DEF IsOn

\* The bytes of an option do to a tag what the calls that set it say.
LEMMA OptionDone ==
  ASSUME setters \in Seq(AnySetter), Reflects(setters), sending.said = setters,
         NEW d, NEW o \in Options, o \in DOMAIN config
  PROVE  Applied(d, o, config[o]) = Meant(d, o)
<1>1. SaidIn(setters, NamesOf(o)) # {} /\ HasLast(setters, NamesOf(o))
  BY NameFacts DEF Reflects
<1>2. Said(NamesOf(o)) # {} /\ LastSaid(NamesOf(o)) = LastIn(setters, NamesOf(o))
  BY <1>1, SaidIs
<1>3. LastIn(setters, NamesOf(o)) \in AnySetter /\ LastIn(setters, NamesOf(o))[1] \in NamesOf(o)
  BY <1>1, LastIs
<1>4. CASE o = 0
  <2>1. config[0][1] = 2
    BY <1>4 DEF Reflects
  <2>2. Applied(d, 0, config[0]) = [d EXCEPT !.ruid = TRUE]
    BY <2>1, Switches, AppliedIs
  <2> QED BY <1>2, <1>4, <2>2, MeantIs, NameFacts
<1>5. CASE o = 4
  <2>1. config[4][1] = 4
    BY <1>5 DEF Reflects
  <2>2. Applied(d, 4, config[4]) = [d EXCEPT !.chained = FALSE]
    BY <2>1, Switches, AppliedIs
  <2> QED BY <1>2, <1>5, <2>2, MeantIs, NameFacts
<1>6. CASE o = 5
  <2>1. /\ config[5][5] = IF SaidIn(setters, {"lrp"}) = {} THEN 0 ELSE 2
        /\ config[5][9] = ValueIn(setters, "pdcap2.5")
        /\ config[5][10] = ValueIn(setters, "pdcap2.6")
    BY <1>6, ArrayFacts DEF Reflects, CapBytesOf
  <2>2. IsOn(config[5][5], 2) <=> Said({"lrp"}) # {}
    BY <2>1, Switches, SaidIs
  <2>3. /\ config[5][9] = CapSaid("pdcap2.5") /\ config[5][10] = CapSaid("pdcap2.6")
    BY <2>1, SaidIs
  <2>4. Applied(d, 5, config[5]) = [d EXCEPT !.lrp = @ \/ IsOn(config[5][5], 2),
                                             !.cap = <<config[5][9], config[5][10]>>]
    BY Apart, Zenon DEF Applied
  <2>5. Meant(d, 5) = [d EXCEPT !.lrp = @ \/ Said({"lrp"}) # {},
                        !.cap = <<CapSaid("pdcap2.5"), CapSaid("pdcap2.6")>>]
    BY <1>2, <1>6, MeantIs, NameFacts
  <2>6. (d.lrp \/ IsOn(config[5][5], 2)) = (d.lrp \/ Said({"lrp"}) # {})
    BY <2>2
  <2>7. Applied(d, 5, config[5]) = Meant(d, 5)
    BY <2>3, <2>4, <2>5, <2>6
  <2> QED BY <1>6, <2>7
<1>7. CASE o = 7
  <2>1. config[7] = <<1, LastIn(setters, Tamper)[2]>>
    BY <1>7 DEF Reflects
  <2>2. config[7][1] = 1 /\ config[7][2] = LastIn(setters, Tamper)[2]
    BY <2>1
  <2>3. Applied(d, 7, config[7]) = [d EXCEPT !.tamper = IF config[7][1] = 1 THEN {config[7][2]} ELSE @]
    BY AppliedIs, Zenon
  <2>4. Applied(d, 7, config[7]) = [d EXCEPT !.tamper = {LastIn(setters, Tamper)[2]}]
    BY <2>2, <2>3
  <2>5. Meant(d, 7) = [d EXCEPT !.tamper = {LastSaid(Tamper)[2]}]
    BY <1>2, <1>7, MeantIs, NameFacts, Zenon
  <2>6. LastSaid(Tamper) = LastIn(setters, Tamper)
    BY SaidIs
  <2> QED BY <1>7, <2>4, <2>5, <2>6, Zenon
<1>8. CASE o = 10
  <2> DEFINE c == LastIn(setters, Failed)
  <2>1. config[10] = CounterBytes(c)
    BY <1>8 DEF Reflects
  <2>2. c \in AnySetter /\ c[1] \in Failed
    BY <1>3, <1>8, NameFacts
  <2>3. Applied(d, 10, CounterBytes(c)) =
          [d EXCEPT !.failed = IF CounterBytes(c)[1] = 1 THEN {DecodedPair(CounterBytes(c))} ELSE {}]
    BY AppliedIs DEF DecodedPair
  <2>4. Meant(d, 10) = [d EXCEPT !.failed = IF c[1] = "failed counter" THEN {c[2]} ELSE {}]
    BY <1>2, <1>8, MeantIs, NameFacts, ZenonT(60)
  <2> HIDE DEF c
  <2>5. CASE c[1] = "failed counter"
    <3>1. c[2] \in Counters
      BY <2>2, <2>5, SetterCases
    <3>2. CounterBytes(c)[1] = 1 /\ DecodedPair(CounterBytes(c)) = c[2]
      BY <2>5, <3>1, CounterDecodes
    <3> QED BY <1>8, <2>1, <2>3, <2>4, <2>5, <3>2, Zenon
  <2>6. CASE c[1] # "failed counter"
    <3>1. CounterBytes(c)[1] # 1
      <4>1. CounterBytes(c) = [i \in 1 .. 5 |-> 0]
        BY <2>6, Zenon DEF CounterBytes, Zeros
      <4> QED BY <4>1
    <3> QED BY <1>8, <2>1, <2>3, <2>4, <2>6, <3>1, Zenon
  <2> QED BY <2>5, <2>6
<1>9. CASE o = 11
  <2>1. config[11] = <<LastIn(setters, Strong)[2]>>
    BY <1>9 DEF Reflects
  <2>2. config[11][1] = LastIn(setters, Strong)[2]
    BY <2>1
  <2>3. Applied(d, 11, config[11]) = [d EXCEPT !.strong = config[11][1] = 1]
    BY Apart, Zenon DEF Applied
  <2>4. Applied(d, 11, config[11]) = [d EXCEPT !.strong = LastIn(setters, Strong)[2] = 1]
    BY <2>2, <2>3, Zenon
  <2> QED BY <1>2, <1>9, <2>4, MeantIs, NameFacts
<1> QED BY <1>4, <1>5, <1>6, <1>7, <1>8, <1>9 DEF Options

\* The calls say nothing of an option that is not set.
LEMMA OptionNotDone ==
  ASSUME Reflects(setters), sending.said = setters,
         NEW d, NEW o \in Options, o \notin DOMAIN config
  PROVE  Meant(d, o) = d
<1>1. Said(NamesOf(o)) = {}
  BY SaidIs DEF Reflects
<1> QED BY <1>1, MeantIs

-----------------------------------------------------------------------------
(* What the options mean up to a point of the order *)

LEMMA WireOrderIs ==
  /\ WireOrder = <<0, 4, 5, 7, 10, 11>>
  /\ \A k \in 1 .. 6 : WireOrder[k] \in Options
  BY DEF WireOrder, Options

LEMMA MeantSteps ==
  /\ MeantBy[0] = device.before
  /\ \A k \in 1 .. 6 : MeantBy[k] = Meant(MeantBy[k - 1], WireOrder[k])
<1>1. MeantBy[0] = device.before
  BY MeantByIs
<1>2. ASSUME NEW k \in 1 .. 6 PROVE MeantBy[k] = Meant(MeantBy[k - 1], WireOrder[k])
  <2>1. k \in 0 .. 6 /\ k # 0
    OBVIOUS
  <2> QED BY <2>1, MeantByIs, WireOrderIs
<1> QED BY <1>1, <1>2

LEMMA MeantStepsToo ==
  (/\ MeantBy[0] = device.before
   /\ \A k \in 1 .. 6 : MeantBy[k] = Meant(MeantBy[k - 1], WireOrder[k]))'
  BY MeantSteps, PTL

\* Options that are not set mean nothing.
LEMMA Skipped ==
  Reflects(setters) /\ sending.said = setters =>
    \A a, b \in 0 .. 6 :
      a <= b /\ (\A q \in (a + 1) .. b : WireOrder[q] \notin DOMAIN config) => MeantBy[b] = MeantBy[a]
<1> SUFFICES ASSUME Reflects(setters), sending.said = setters, NEW a \in 0 .. 6, NEW b \in 0 .. 6,
                    a <= b, \A q \in (a + 1) .. b : WireOrder[q] \notin DOMAIN config
             PROVE  MeantBy[b] = MeantBy[a]
  OBVIOUS
<1>1. ASSUME NEW k \in 1 .. 6, WireOrder[k] \notin DOMAIN config
      PROVE  MeantBy[k] = MeantBy[k - 1]
  BY <1>1, OptionNotDone, MeantSteps, WireOrderIs
<1>2. /\ a < 1 /\ 1 <= b => MeantBy[1] = MeantBy[0]
      /\ a < 2 /\ 2 <= b => MeantBy[2] = MeantBy[1]
      /\ a < 3 /\ 3 <= b => MeantBy[3] = MeantBy[2]
      /\ a < 4 /\ 4 <= b => MeantBy[4] = MeantBy[3]
      /\ a < 5 /\ 5 <= b => MeantBy[5] = MeantBy[4]
      /\ a < 6 /\ 6 <= b => MeantBy[6] = MeantBy[5]
  <2>1. ASSUME NEW k \in 1 .. 6, a < k, k <= b
        PROVE  MeantBy[k] = MeantBy[k - 1]
    BY <1>1, <2>1
  <2>2. 1 \in 1 .. 6 /\ 2 \in 1 .. 6 /\ 3 \in 1 .. 6 /\ 4 \in 1 .. 6 /\ 5 \in 1 .. 6 /\ 6 \in 1 .. 6
    OBVIOUS
  <2> QED BY <2>1, <2>2
<1>3. a \in {0, 1, 2, 3, 4, 5, 6} /\ b \in {0, 1, 2, 3, 4, 5, 6}
  OBVIOUS
<1> QED BY <1>2, <1>3

LEMMA SkippedToo ==
  (Reflects(setters) /\ sending.said = setters =>
    \A a, b \in 0 .. 6 :
      a <= b /\ (\A q \in (a + 1) .. b : WireOrder[q] \notin DOMAIN config) => MeantBy[b] = MeantBy[a])'
  BY Skipped, PTL

\* It stays what it is while a call is under way.
LEMMA MeantByStays ==
  ASSUME sending'.said = sending.said, device'.before = device.before
  PROVE  \A k \in 0 .. 6 : MeantBy'[k] = MeantBy[k]
<1>1. MeantBy'[0] = MeantBy[0]
  BY MeantSteps, MeantStepsToo
<1>2. ASSUME NEW k \in 1 .. 6, MeantBy'[k - 1] = MeantBy[k - 1]
      PROVE  MeantBy'[k] = MeantBy[k]
  <2>1. MeantBy'[k] = Meant(MeantBy[k - 1], WireOrder[k])'
    BY MeantStepsToo
  <2>2. Meant(MeantBy[k - 1], WireOrder[k])' = Meant(MeantBy'[k - 1], WireOrder'[k])
    BY MeantStays
  <2>3. WireOrder' = WireOrder
    BY DEF WireOrder
  <2> QED BY <1>2, <2>1, <2>2, <2>3, MeantSteps
<1>3. 1 \in 1 .. 6 /\ 2 \in 1 .. 6 /\ 3 \in 1 .. 6 /\ 4 \in 1 .. 6 /\ 5 \in 1 .. 6 /\ 6 \in 1 .. 6
  OBVIOUS
<1>4. \A k \in 1 .. 6 : MeantBy'[k - 1] = MeantBy[k - 1] => MeantBy'[k] = MeantBy[k]
  BY <1>2
<1> HIDE DEF MeantBy
<1>5. /\ MeantBy'[1] = MeantBy[1] /\ MeantBy'[2] = MeantBy[2] /\ MeantBy'[3] = MeantBy[3]
      /\ MeantBy'[4] = MeantBy[4] /\ MeantBy'[5] = MeantBy[5] /\ MeantBy'[6] = MeantBy[6]
  <2>1. MeantBy'[1] = MeantBy[1] BY <1>1, <1>3, <1>4
  <2>2. MeantBy'[2] = MeantBy[2] BY <2>1, <1>3, <1>4
  <2>3. MeantBy'[3] = MeantBy[3] BY <2>2, <1>3, <1>4
  <2>4. MeantBy'[4] = MeantBy[4] BY <2>3, <1>3, <1>4
  <2>5. MeantBy'[5] = MeantBy[5] BY <2>4, <1>3, <1>4
  <2>6. MeantBy'[6] = MeantBy[6] BY <2>5, <1>3, <1>4
  <2> QED BY <2>1, <2>2, <2>3, <2>4, <2>5, <2>6
<1>6. ASSUME NEW k \in 0 .. 6 PROVE k \in {0, 1, 2, 3, 4, 5, 6}
  OBVIOUS
<1> QED BY <1>1, <1>5, <1>6

-----------------------------------------------------------------------------
(* The invariant *)

LEMMA InitOk == InitConfiguration => ConfInv
<1> SUFFICES ASSUME InitConfiguration PROVE ConfInv
  OBVIOUS
<1>1. ConfTypes
  BY DEF InitConfiguration, ConfTypes, Sending
<1>2. \A names : SaidIn(<< >>, names) = {}
  BY DEF SaidIn
<1>3. Reflects(<< >>)
  BY <1>2 DEF InitConfiguration, Reflects
<1>4. setters = << >>
  BY DEF InitConfiguration
<1> QED BY <1>1, <1>3, <1>4 DEF InitConfiguration, ConfInv, OnItsWay, ConfiguredInOrder

LEMMA PutKeeps ==
  ASSUME ConfInv, NEW c \in AnySetter, Idle, Put(c)
  PROVE  ConfInv'
<1>1. Reflects(setters)' /\ setters' \in Seq(AnySetter)
  BY PutReflects DEF ConfInv, ConfTypes
<1>2. sending' = sending /\ device' = device
  BY DEF Put
<1>3. \A k \in 0 .. 6 : MeantBy'[k] = MeantBy[k]
  BY <1>2, MeantByStays
<1>4. ConfTypes'
  BY <1>1, <1>2 DEF ConfInv, ConfTypes
<1>5. OnItsWay'
  BY <1>2 DEF OnItsWay, Idle
<1>6. ConfiguredInOrder'
  BY <1>2, <1>3 DEF ConfInv, ConfiguredInOrder
<1> QED BY <1>1, <1>4, <1>5, <1>6 DEF ConfInv

LEMMA NewConfigurationKeeps ==
  ASSUME ConfInv, NewConfiguration
  PROVE  ConfInv'
<1>1. config' = << >> /\ setters' = << >> /\ sending' = [sending EXCEPT !.state = "new"] /\ device' = device
  BY DEF NewConfiguration
<1>2. \A names : SaidIn(<< >>, names) = {}
  BY DEF SaidIn
<1>3. Reflects(setters)'
  BY <1>1, <1>2 DEF Reflects
<1>4. sending' \in Sending /\ sending'.state = "new"
  BY <1>1 DEF ConfInv, ConfTypes, Sending
<1>5. ConfTypes'
  BY <1>1, <1>4 DEF ConfInv, ConfTypes
<1> QED BY <1>3, <1>4, <1>5 DEF ConfInv, OnItsWay, ConfiguredInOrder

\* All that is set of the options after a place of the order, and none of them.
LEMMA NothingLeft ==
  ASSUME NEW place \in 0 .. 6, Build(place) = {}
  PROVE  \A q \in (place + 1) .. 6 : WireOrder[q] \notin DOMAIN config
  BY DEF Build

LEMMA SetConfigurationKeeps ==
  ASSUME ConfInv, SetConfiguration
  PROVE  ConfInv'
<1>1. /\ config' = config /\ setters' = setters
      /\ device' = [device EXCEPT !.before = device.now]
      /\ sending' = [state |-> IF Build(0) = {} THEN "ok" ELSE "running", at |-> 0,
                     calls |-> sending.calls + 1, said |-> setters]
  BY DEF SetConfiguration
<1>2. ConfTypes
  BY DEF ConfInv
<1>3. /\ sending'.said = setters /\ sending'.at = 0
      /\ sending'.state = IF Build(0) = {} THEN "ok" ELSE "running"
  BY <1>1
<1>4. device'.now = device.now /\ device'.before = device.now
      /\ device' = [now |-> device'.now, before |-> device'.before]
  BY <1>1, <1>2 DEF ConfTypes
<1>5. sending' \in Sending
  BY <1>1, <1>2 DEF ConfTypes, Sending
<1>6. ConfTypes'
  BY <1>1, <1>2, <1>4, <1>5 DEF ConfTypes
<1>7. Reflects(setters)'
  BY <1>1 DEF ConfInv, Reflects
<1>8. MeantBy'[0] = device'.now
  BY <1>4, MeantStepsToo
<1>9. Build(0)' = Build(0)
  BY <1>1 DEF Build
<1>10. Build(0) = {} => MeantBy'[6] = device'.now
  <2> SUFFICES ASSUME Build(0) = {} PROVE MeantBy'[6] = device'.now
    OBVIOUS
  <2>1. \A q \in 1 .. 6 : WireOrder[q] \notin DOMAIN config
    BY NothingLeft
  <2>2. \A a, b \in 0 .. 6 :
          a <= b /\ (\A q \in (a + 1) .. b : WireOrder[q] \notin DOMAIN config') => MeantBy'[b] = MeantBy'[a]
    BY <1>1, <1>3, <1>7, SkippedToo DEF WireOrder
  <2>3. MeantBy'[6] = MeantBy'[0]
    BY <1>1, <2>1, <2>2
  <2> QED BY <1>8, <2>3
<1>11. OnItsWay'
  BY <1>1, <1>3, <1>8, <1>9 DEF OnItsWay
<1>12. ConfiguredInOrder'
  <2>1. 0 \in 0 .. 6
    OBVIOUS
  <2>2. \E k \in 0 .. 6 : device'.now = MeantBy'[k]
    BY <1>8, <2>1
  <2> QED BY <1>3, <1>10, <2>2 DEF ConfiguredInOrder
<1> QED BY <1>6, <1>7, <1>11, <1>12 DEF ConfInv

LEMMA SendOptionKeeps ==
  ASSUME ConfInv, SendOption
  PROVE  ConfInv'
<1>1. /\ ConfTypes /\ Reflects(setters) /\ sending.state = "running"
      /\ sending.said = setters /\ device.now = MeantBy[sending.at]
      /\ config' = config /\ setters' = setters
  BY DEF ConfInv, OnItsWay, SendOption
<1> DEFINE at == sending.at
<1>2. at \in 0 .. 6
  BY <1>1 DEF ConfTypes, Sending
<1>3. PICK p \in Build(at) :
        LET done == [device EXCEPT !.now = Applied(@, WireOrder[p], config[WireOrder[p]])]
        IN  /\ \A q \in Build(at) : p <= q
            /\ \/ /\ device' = done
                  /\ sending' = [sending EXCEPT !.at = p, !.state = IF Build(p) = {} THEN "ok" ELSE @]
               \/ /\ device' \in {done, device}
                  /\ sending' = [sending EXCEPT !.state = "failed"]
  BY DEF SendOption
<1> DEFINE o == WireOrder[p]
           done == [device EXCEPT !.now = Applied(@, o, config[o])]
<1>4. p \in 1 .. 6 /\ at < p /\ o \in DOMAIN config /\ o \in Options
  BY <1>2, WireOrderIs DEF Build
<1>5. MeantBy[p - 1] = MeantBy[at]
  <2>1. \A q \in (at + 1) .. (p - 1) : WireOrder[q] \notin DOMAIN config
    <3> SUFFICES ASSUME NEW q \in (at + 1) .. (p - 1), WireOrder[q] \in DOMAIN config PROVE FALSE
      OBVIOUS
    <3>1. q \in Build(at) /\ q < p /\ q \in Nat
      BY <1>2, <1>4 DEF Build
    <3> QED BY <1>3, <1>4, <3>1
  <2>2. p - 1 \in 0 .. 6 /\ at <= p - 1
    BY <1>2, <1>4
  <2> QED BY <1>1, <1>2, <2>1, <2>2, Skipped
<1>6. Applied(device.now, o, config[o]) = MeantBy[p]
  <2>1. Applied(device.now, o, config[o]) = Meant(device.now, o)
    BY <1>1, <1>4, OptionDone DEF ConfTypes
  <2>2. MeantBy[p] = Meant(MeantBy[p - 1], o)
    BY <1>4, MeantSteps
  <2> QED BY <1>1, <1>5, <2>1, <2>2
<1>7. /\ done.now = MeantBy[p] /\ done.before = device.before
      /\ done = [now |-> done.now, before |-> done.before]
  <2>1. device = [now |-> device.now, before |-> device.before]
    BY <1>1 DEF ConfTypes
  <2> QED BY <1>6, <2>1
<1> HIDE DEF o, done
<1>8. Build(p) = {} => MeantBy[6] = MeantBy[p]
  <2> SUFFICES ASSUME Build(p) = {} PROVE MeantBy[6] = MeantBy[p]
    OBVIOUS
  <2>1. \A q \in (p + 1) .. 6 : WireOrder[q] \notin DOMAIN config
    BY <1>4, NothingLeft
  <2> QED BY <1>1, <1>4, <2>1, Skipped
<1>9. Reflects(setters)'
  BY <1>1 DEF Reflects
<1>10. Build(p)' = Build(p)
  BY <1>1 DEF Build, WireOrder
<1>11. CASE /\ device' = done
            /\ sending' = [sending EXCEPT !.at = p, !.state = IF Build(p) = {} THEN "ok" ELSE @]
  <2>1. /\ sending' \in Sending /\ sending'.at = p /\ sending'.said = sending.said
        /\ sending'.state = IF Build(p) = {} THEN "ok" ELSE "running"
    <3> DEFINE st == IF Build(p) = {} THEN "ok" ELSE "running"
    <3>1. sending \in Sending
      BY <1>1 DEF ConfTypes
    <3>2. sending' = [sending EXCEPT !.at = p, !.state = st]
      BY <1>1, <1>11
    <3>3. st \in {"ok", "running"}
      OBVIOUS
    <3> HIDE DEF st
    <3>4. p \in 0 .. 6
      BY <1>4
    <3>5. sending' \in Sending /\ sending'.at = p /\ sending'.said = sending.said /\ sending'.state = st
      BY <3>1, <3>2, <3>3, <3>4 DEF Sending
    <3> QED BY <3>5 DEF st
  <2>2. \A k \in 0 .. 6 : MeantBy'[k] = MeantBy[k]
    BY <1>7, <1>11, <2>1, MeantByStays
  <2>3. p \in 0 .. 6 /\ 6 \in 0 .. 6
    BY <1>4
  <2>4. device'.now = MeantBy'[p] /\ (Build(p) = {} => device'.now = MeantBy'[6])
    BY <1>7, <1>8, <1>11, <2>2, <2>3
  <2>5. ConfTypes'
    BY <1>1, <1>7, <1>11, <2>1 DEF ConfTypes
  <2>6. OnItsWay'
    BY <1>1, <1>10, <2>1, <2>4 DEF OnItsWay
  <2>7. ConfiguredInOrder'
    BY <2>1, <2>3, <2>4 DEF ConfiguredInOrder
  <2> QED BY <1>9, <2>5, <2>6, <2>7 DEF ConfInv
<1>12. CASE /\ device' \in {done, device}
            /\ sending' = [sending EXCEPT !.state = "failed"]
  <2>1. /\ sending' \in Sending /\ sending'.said = sending.said /\ sending'.state = "failed"
    BY <1>1, <1>12 DEF ConfTypes, Sending
  <2>2. /\ device'.before = device.before
        /\ device' = [now |-> device'.now, before |-> device'.before]
        /\ device'.now = MeantBy[p] \/ device'.now = MeantBy[at]
    BY <1>1, <1>7, <1>12 DEF ConfTypes
  <2>3. \A k \in 0 .. 6 : MeantBy'[k] = MeantBy[k]
    BY <2>1, <2>2, MeantByStays
  <2>4. \E k \in 0 .. 6 : device'.now = MeantBy'[k]
    BY <1>2, <1>4, <2>2, <2>3
  <2>5. ConfTypes'
    BY <1>1, <2>1, <2>2 DEF ConfTypes
  <2> QED BY <1>9, <2>1, <2>4, <2>5 DEF ConfInv, OnItsWay, ConfiguredInOrder
<1> QED BY <1>3, <1>11, <1>12 DEF o, done

LEMMA Inductive == ConfInv /\ [ConfigurationNext]_confVars => ConfInv'
<1> SUFFICES ASSUME ConfInv, [ConfigurationNext]_confVars PROVE ConfInv'
  OBVIOUS
<1>1. ASSUME NEW c \in Setter, With(c) PROVE ConfInv'
  BY <1>1, PutKeeps DEF With, AnySetter
<1>2. CASE WithLrp
  BY <1>2, PutKeeps DEF WithLrp, AnySetter
<1>3. CASE NewConfiguration
  BY <1>3, NewConfigurationKeeps
<1>4. CASE SetConfiguration
  BY <1>4, SetConfigurationKeeps
<1>5. CASE SendOption
  BY <1>5, SendOptionKeeps
<1>6. CASE UNCHANGED confVars
  <2>1. /\ config' = config /\ setters' = setters /\ sending' = sending /\ device' = device
    BY <1>6 DEF confVars
  <2>2. \A k \in 0 .. 6 : MeantBy'[k] = MeantBy[k]
    BY <2>1, MeantByStays
  <2>3. ConfTypes' /\ Reflects(setters)'
    BY <2>1 DEF ConfInv, ConfTypes, Reflects
  <2>4. OnItsWay'
    BY <2>1, <2>2 DEF ConfInv, ConfTypes, Sending, OnItsWay, Build, WireOrder
  <2>5. ConfiguredInOrder'
    BY <2>1, <2>2 DEF ConfInv, ConfiguredInOrder
  <2> QED BY <2>3, <2>4, <2>5 DEF ConfInv
<1> QED BY <1>1, <1>2, <1>3, <1>4, <1>5, <1>6 DEF ConfigurationNext

\* Whatever `with_*` calls are made, in whatever order and however often, with
\* any values, and wherever any number of calls of `set_configuration` break
\* off: the tag has all that the calls say of the options up to some point of
\* the order and nothing of those after it, and all of it once the call has
\* succeeded.
THEOREM AppliedInOrder ==
  InitConfiguration /\ [][ConfigurationNext]_confVars => []ConfiguredInOrder
<1>1. ConfInv => ConfiguredInOrder
  BY DEF ConfInv
<1> QED BY InitOk, Inductive, <1>1, PTL
=============================================================================
