---------------------------- MODULE WireForms_proofs ----------------------------
(***************************************************************************)
(* Machine-checked facts about the parts below the sessions: the chain of  *)
(* frames of GetVersion, the cipher suites and the forms, and, from the    *)
(* modules of their own, settings and configuration; all as theorems of    *)
(* the one specification that puts these parts side by side.               *)
(***************************************************************************)
EXTENDS WireForms, Personalisation_proofs, TagConfiguration_proofs, WellFoundedInduction,
        FiniteSetTheorems

-----------------------------------------------------------------------------
(* Induction, as a fact about sets of numbers *)

LEMMA LeastNumber ==
  ASSUME NEW T \in SUBSET Nat, T # {}
  PROVE  \E x \in T : \A y \in T : x <= y
<1> DEFINE R == OpToRel(<, Nat)
<1>1. IsWellFoundedOn(R, Nat)
  BY NatLessThanWellFounded
<1>2. \A x, y \in Nat : <<x, y>> \in R <=> x < y
  BY DEF OpToRel
<1> HIDE DEF R
<1>3. PICK x \in T : \A y \in T : ~ (<<y, x>> \in R)
  BY <1>1, WFMin
<1>4. ASSUME NEW y \in T PROVE x <= y
  <2>1. x \in Nat /\ y \in Nat /\ ~(y < x)
    BY <1>2, <1>3
  <2> QED BY <2>1
<1> QED BY <1>4

LEMMA Induction ==
  ASSUME NEW S, 0 \in S, \A n \in Nat : n \in S => n + 1 \in S
  PROVE  Nat \subseteq S
<1> SUFFICES ASSUME Nat \ S # {} PROVE FALSE
  OBVIOUS
<1>1. PICK x \in Nat \ S : \A y \in Nat \ S : x <= y
  BY LeastNumber
<1>2. x \in Nat /\ x # 0 /\ x \notin S
  BY <1>1
<1>3. x - 1 \in Nat /\ x - 1 \in S
  BY <1>1, <1>2
<1> QED BY <1>2, <1>3

-----------------------------------------------------------------------------
(* GetVersion: for any number of calls and of sessions, whatever answers the *)
(* reader loses or repeats                                                   *)

Chip   == [due: Nat, ctr: Nat, session: Nat]
Asks   == [mode: {"plain", "mac"}, out: {"none", "running", "ok", "error"},
           parts: Seq(Nat), ctr: Nat, session: Nat, calls: Nat]
Whole  == <<1, 2, 3>>

\* Every MAC that the tag has made is one of all three parts, whatever session
\* and command counter it is for.
MacOfWhole(mac) == mac = << >> \/ \E s, c \in Nat : mac = Mac(s, c, Whole)

ChainTypes ==
  /\ chip \in Chip /\ asking \in Asks
  /\ reader = [last |-> reader.last, stale |-> reader.stale] /\ reader.stale \in BOOLEAN
  /\ MacOfWhole(reader.last.mac) /\ reader.last.parts \in Seq(Nat)

\* As long as no answer has been repeated, the tag is where the call is.
InStep ==
  ~reader.stale /\ asking.out = "running" =>
    \/ asking.parts = << >>
    \/ asking.parts = <<1>> /\ chip.due = 1
    \/ asking.parts = <<1, 2>> /\ chip.due = 2

ChainInv == ChainTypes /\ InStep /\ VersionWhole

\* What the tag answers: the three frames in turn, the last one with a MAC of
\* all of them, or an error.
LEMMA TagAnswers ==
  ASSUME ChainTypes, NEW first \in BOOLEAN
  PROVE  /\ MacOfWhole(TagAnswer(first).mac)
         /\ first => TagAnswer(first) = Answer("91AF", <<1>>, << >>)
         /\ ~first /\ chip.due = 1 => TagAnswer(first) = Answer("91AF", <<2>>, << >>)
         /\ ~first /\ chip.due = 2 =>
              TagAnswer(first).code = "9100" /\ TagAnswer(first).parts = <<3>>
         /\ TagAnswer(first).parts \in Seq(Nat)
<1> DEFINE mac == IF asking.mode = "plain" THEN << >> ELSE Mac(chip.session, chip.ctr + 1, Whole)
<1>1. chip.due \in Nat /\ chip.ctr + 1 \in Nat /\ chip.session \in Nat /\ 1 # 2 /\ 2 # 1
  BY DEF ChainTypes, Chip
<1>2. MacOfWhole(mac) /\ MacOfWhole(<< >>)
  BY <1>1 DEF MacOfWhole
<1>3. CASE first \/ chip.due = 1
  <2>1. TagAnswer(first) = Answer("91AF", <<FrameOf(first) + 1>>, << >>)
    BY <1>1, <1>3, Zenon DEF TagAnswer
  <2>2. first => FrameOf(first) + 1 = 1
    BY DEF FrameOf
  <2>3. ~first => FrameOf(first) + 1 = 2
    BY <1>3 DEF FrameOf
  <2> QED BY <1>1, <1>2, <1>3, <2>1, <2>2, <2>3 DEF Answer
<1>4. CASE ~first /\ chip.due = 2
  <2>1. TagAnswer(first) = Answer("9100", <<3>>, mac)
    BY <1>1, <1>4, Zenon DEF TagAnswer, Whole
  <2> QED BY <1>1, <1>2, <1>4, <2>1 DEF Answer
<1>5. CASE ~first /\ chip.due # 1 /\ chip.due # 2
  <2>1. TagAnswer(first) = Answer("911C", << >>, << >>)
    BY <1>5, Zenon DEF TagAnswer
  <2> QED BY <1>2, <1>5, <2>1 DEF Answer
<1> QED BY <1>3, <1>4, <1>5

LEMMA TagAfters ==
  ASSUME ChainTypes, NEW first \in BOOLEAN
  PROVE  /\ TagAfter(first) \in Chip
         /\ first => TagAfter(first).due = 1
         /\ ~first /\ chip.due = 1 => TagAfter(first).due = 2
<1>1. chip \in Chip /\ FrameOf(first) + 1 \in Nat
  BY DEF ChainTypes, Chip, FrameOf
<1>2. CASE TagAnswer(first).code = "9100"
  <2>1. TagAfter(first) = [chip EXCEPT !.due = 0, !.ctr = IF asking.mode = "plain" THEN @ ELSE @ + 1]
    BY <1>2 DEF TagAfter
  <2>2. PICK c \in Nat : TagAfter(first) = [due |-> 0, ctr |-> c, session |-> chip.session]
    <3>1. chip.ctr \in Nat /\ chip.ctr + 1 \in Nat
      BY <1>1 DEF Chip
    <3>2. CASE asking.mode = "plain"
      <4>1. TagAfter(first) = [chip EXCEPT !.due = 0]
        BY <1>1, <2>1, <3>2 DEF Chip
      <4> QED BY <1>1, <3>1, <4>1 DEF Chip
    <3>3. CASE asking.mode # "plain"
      <4>1. TagAfter(first) = [chip EXCEPT !.due = 0, !.ctr = @ + 1]
        BY <2>1, <3>3
      <4> QED BY <1>1, <3>1, <4>1 DEF Chip
    <3> QED BY <3>2, <3>3
  <2>3. TagAfter(first) \in Chip
    BY <1>1, <2>2 DEF Chip
  <2> QED BY <1>2, <2>3, TagAnswers DEF Answer
<1>3. CASE TagAnswer(first).code = "91AF"
  <2>1. TagAfter(first) = [chip EXCEPT !.due = FrameOf(first) + 1]
    BY <1>3 DEF TagAfter
  <2>2. TagAfter(first) \in Chip /\ TagAfter(first).due = FrameOf(first) + 1
    BY <1>1, <2>1 DEF Chip
  <2> QED BY <2>2, <1>1 DEF FrameOf, Chip
<1>4. CASE TagAnswer(first).code # "9100" /\ TagAnswer(first).code # "91AF"
  <2>1. TagAfter(first) = [chip EXCEPT !.due = 0]
    BY <1>4 DEF TagAfter
  <2>2. TagAfter(first) \in Chip
    BY <1>1, <2>1 DEF Chip
  <2> QED BY <1>4, <2>2, TagAnswers DEF Answer
<1> QED BY <1>2, <1>3, <1>4

-----------------------------------------------------------------------------
(* The call *)

LEMMA MacIs ==
  ASSUME NEW s, NEW c, NEW p, NEW t, NEW d, NEW q, Mac(s, c, p) = Mac(t, d, q)
  PROVE  p = q
  BY DEF Mac

LEMMA MacThere == ASSUME NEW s, NEW c, NEW p PROVE Mac(s, c, p) # << >>
  BY DEF Mac

LEMMA FramesJoined ==
  /\ << >> \o <<1>> = <<1>> /\ <<1>> \o <<2>> = <<1, 2>> /\ <<1, 2>> \o <<3>> = Whole
  /\ Len(<< >>) = 0 /\ Len(<<1>>) = 1 /\ Len(<<1, 2>>) = 2
  /\ <<1>> # << >> /\ <<1, 2>> # << >>
<1>1. << >> \o <<1>> = <<1>>
  BY <<1>> \in Seq(Nat), ConcatEmptySeq
<1>2. ASSUME NEW s \in Seq(Nat), Len(s) = 2, s[1] = 1, s[2] = 2
      PROVE  s = <<1, 2>>
  <2> DEFINE t == <<1, 2>>
  <2>1. t \in Seq(Nat) /\ Len(t) = 2 /\ t[1] = 1 /\ t[2] = 2
    OBVIOUS
  <2> HIDE DEF t
  <2>2. \A i \in 1 .. Len(s) : s[i] = t[i]
    <3>1. \A i \in 1 .. Len(s) : i = 1 \/ i = 2
      BY <1>2
    <3> QED BY <1>2, <2>1, <3>1
  <2>3. s = t
    BY <1>2, <2>1, <2>2, SeqEqual
  <2> QED BY <2>3 DEF t
<1>3. ASSUME NEW s \in Seq(Nat), Len(s) = 3, s[1] = 1, s[2] = 2, s[3] = 3
      PROVE  s = Whole
  <2>1. Whole \in Seq(Nat) /\ Len(Whole) = 3 /\ Whole[1] = 1 /\ Whole[2] = 2 /\ Whole[3] = 3
    BY DEF Whole
  <2>2. \A i \in 1 .. Len(s) : s[i] = Whole[i]
    <3>1. \A i \in 1 .. Len(s) : i = 1 \/ i = 2 \/ i = 3
      BY <1>3
    <3> QED BY <1>3, <2>1, <3>1
  <2> QED BY <1>3, <2>1, <2>2, SeqEqual
<1>4. <<1>> \o <<2>> = <<1, 2>>
  <2> DEFINE s == <<1>> \o <<2>>
  <2>1. s \in Seq(Nat) /\ Len(s) = 2 /\ s[1] = 1 /\ s[2] = 2
    OBVIOUS
  <2> HIDE DEF s
  <2>2. s = <<1, 2>>
    BY <1>2, <2>1
  <2> QED BY <2>2 DEF s
<1>5. <<1, 2>> \o <<3>> = Whole
  <2> DEFINE s == <<1, 2>> \o <<3>>
  <2>1. s \in Seq(Nat) /\ Len(s) = 3 /\ s[1] = 1 /\ s[2] = 2 /\ s[3] = 3
    OBVIOUS
  <2> HIDE DEF s
  <2>2. s = Whole
    BY <1>3, <2>1
  <2> QED BY <2>2 DEF s
<1>6. Len(<< >>) = 0 /\ Len(<<1>>) = 1 /\ Len(<<1, 2>>) = 2
  OBVIOUS
<1>7. <<1>> # << >> /\ <<1, 2>> # << >>
  OBVIOUS
<1> QED BY <1>1, <1>4, <1>5, <1>6, <1>7

LEMMA FailedChainIs ==
  ASSUME asking \in Asks
  PROVE  FailedChain \in Asks /\ FailedChain.out = "error"
  BY DEF Asks, FailedChain

\* A frame that is not the last.
LEMMA IntermediateIs ==
  ASSUME asking \in Asks, asking.out = "running", NEW a, a.parts \in Seq(Nat),
         asking' = Intermediate(a)
  PROVE  /\ asking' \in Asks
         /\ asking'.out \in {"running", "error"}
         /\ asking'.out = "running" =>
              /\ a.code = "91AF" /\ a.parts \in {<<1>>, <<2>>}
              /\ asking'.parts = asking.parts \o a.parts
<1>1. CASE a.code = "91AF" /\ a.parts \in {<<1>>, <<2>>}
  <2>1. asking' = [asking EXCEPT !.parts = @ \o a.parts]
    BY <1>1 DEF Intermediate
  <2>2. asking.parts \in Seq(Nat)
    BY DEF Asks
  <2>3. asking.parts \o a.parts \in Seq(Nat)
    BY <2>2
  <2> DEFINE p == asking.parts \o a.parts
  <2>4. asking' = [asking EXCEPT !.parts = p]
    BY <2>1 DEF Asks
  <2> HIDE DEF p
  <2>5. asking' \in Asks /\ asking'.parts = p /\ asking'.out = asking.out
    BY <2>3, <2>4 DEF Asks, p
  <2> QED BY <1>1, <2>5 DEF p
<1>2. CASE ~(a.code = "91AF" /\ a.parts \in {<<1>>, <<2>>})
  BY <1>2, FailedChainIs DEF Intermediate
<1> QED BY <1>1, <1>2

\* The last one: an answer that verifies is for all three parts, whenever the
\* tag has made it.
LEMMA LastFrameIs ==
  ASSUME asking \in Asks, asking.out = "running", NEW a, a.parts \in Seq(Nat),
         MacOfWhole(a.mac), asking' = Last(a)
  PROVE  /\ asking' \in Asks
         /\ asking'.out \in {"ok", "error"}
         /\ asking'.out = "ok" => /\ a.code = "9100"
                                  /\ asking'.parts = asking.parts \o a.parts
                                  /\ asking'.mode = "mac" => asking'.parts = Whole
<1>1. CASE a.code = "9100" /\ (asking.mode = "mac" => Verifies(a))
  <2> DEFINE p == asking.parts \o a.parts
             c == IF asking.mode = "mac" THEN asking.ctr + 1 ELSE asking.ctr
  <2>1. asking' = [asking EXCEPT !.parts = p, !.out = "ok", !.ctr = c]
    BY <1>1 DEF Last, Asks
  <2>2. p \in Seq(Nat) /\ c \in Nat
    BY DEF Asks
  <2>3. asking.mode = "mac" => p = Whole
    <3> SUFFICES ASSUME asking.mode = "mac" PROVE p = Whole
      OBVIOUS
    <3>1. a.mac = Mac(asking.session, asking.ctr + 1, p)
      BY <1>1 DEF Verifies
    <3> HIDE DEF p
    <3>2. a.mac # << >>
      BY <3>1, MacThere
    <3>3. PICK s \in Nat, n \in Nat : a.mac = Mac(s, n, Whole)
      BY <3>2 DEF MacOfWhole
    <3> QED BY <3>1, <3>3, MacIs
  <2> HIDE DEF p, c
  <2>4. /\ asking' \in Asks /\ asking'.parts = p /\ asking'.out = "ok"
        /\ asking'.mode = asking.mode
    BY <2>1, <2>2 DEF Asks
  <2> QED BY <1>1, <2>3, <2>4 DEF p
<1>2. CASE ~(a.code = "9100" /\ (asking.mode = "mac" => Verifies(a)))
  <2>1. asking' = FailedChain
    BY <1>2 DEF Last
  <2> QED BY <2>1, FailedChainIs
<1> QED BY <1>1, <1>2

-----------------------------------------------------------------------------
(* The invariant *)

LEMMA ChainStarts == InitChain => ChainInv
<1> SUFFICES ASSUME InitChain PROVE ChainInv
  OBVIOUS
<1>1. chip \in Chip /\ asking \in Asks
  BY DEF InitChain, Chip, Asks
<1>2. reader = [last |-> reader.last, stale |-> reader.stale] /\ reader.stale = FALSE
  BY DEF InitChain
<1>4. reader.last.mac = << >> /\ reader.last.parts = << >>
  BY DEF InitChain, NoAnswer, Answer
<1>5. MacOfWhole(reader.last.mac) /\ reader.last.parts \in Seq(Nat)
  BY <1>4 DEF MacOfWhole
<1>3. asking.out = "none"
  BY DEF InitChain
<1> QED BY <1>1, <1>2, <1>3, <1>5 DEF ChainInv, ChainTypes, InStep, VersionWhole

LEMMA GetVersionKeeps == ASSUME ChainInv, GetVersion PROVE ChainInv'
<1>1. /\ asking' \in Asks /\ asking'.out = "running" /\ asking'.parts = << >>
      /\ chip' = chip /\ reader' = reader
  <2>1. asking \in Asks
    BY DEF ChainInv, ChainTypes
  <2>2. PICK m \in {"plain", "mac"}, n \in Nat :
          asking' = [mode |-> m, out |-> "running", parts |-> << >>, ctr |-> asking.ctr,
                     session |-> asking.session, calls |-> n]
    <3> DEFINE m == IF asking.session = 0 THEN "plain" ELSE "mac"
               n == asking.calls + 1
    <3>1. m \in {"plain", "mac"}
      OBVIOUS
    <3>2. n \in Nat
      BY <2>1 DEF Asks
    <3>3. asking' = [asking EXCEPT !.mode = m, !.out = "running", !.parts = << >>, !.calls = n]
      BY Zenon DEF GetVersion
    <3> HIDE DEF m, n
    <3>4. asking' = [mode |-> m, out |-> "running", parts |-> << >>, ctr |-> asking.ctr,
                     session |-> asking.session, calls |-> n]
      BY <2>1, <3>3 DEF Asks
    <3> QED BY <3>1, <3>2, <3>4
  <2>3. asking' \in Asks /\ asking'.out = "running" /\ asking'.parts = << >>
    BY <2>1, <2>2 DEF Asks
  <2> QED BY <2>3 DEF GetVersion
<1> QED BY <1>1 DEF ChainInv, ChainTypes, InStep, VersionWhole

LEMMA NewAuthenticationKeeps == ASSUME ChainInv, NewAuthentication PROVE ChainInv'
<1>1. /\ asking' \in Asks /\ asking'.out = "none" /\ chip' \in Chip /\ reader' = reader
  <2>1. asking \in Asks /\ chip \in Chip
    BY DEF ChainInv, ChainTypes
  <2>2. chip.session + 1 \in Nat
    BY <2>1 DEF Chip
  <2> DEFINE n == chip.session + 1
  <2>3. /\ chip' = [due |-> 0, ctr |-> 0, session |-> n]
        /\ asking' = [asking EXCEPT !.ctr = 0, !.session = n, !.out = "none"] /\ reader' = reader
    BY DEF NewAuthentication
  <2> HIDE DEF n
  <2>4. chip' \in Chip
    BY <2>2, <2>3 DEF Chip, n
  <2>5. asking' \in Asks /\ asking'.out = "none"
    BY <2>1, <2>2, <2>3 DEF Asks, n
  <2> QED BY <2>3, <2>4, <2>5
<1> QED BY <1>1 DEF ChainInv, ChainTypes, InStep, VersionWhole

LEMMA RequestKeeps == ASSUME ChainInv, Request PROVE ChainInv'
<1> DEFINE first == asking.parts = << >>
           a == TagAnswer(first)
<1>1. /\ ChainTypes /\ asking \in Asks /\ asking.out = "running"
      /\ \/ /\ chip' = TagAfter(first) /\ Receives(a)
            /\ reader' = [reader EXCEPT !.last = a]
         \/ /\ chip' \in {chip, TagAfter(first)} /\ asking' = FailedChain
            /\ reader' = reader
         \/ /\ chip' \in {chip, TagAfter(first)} /\ Receives(reader.last)
            /\ reader' = [reader EXCEPT !.stale = TRUE]
  BY DEF ChainInv, ChainTypes, Request, Asking
<1>2. first \in BOOLEAN
  OBVIOUS
<1>3. TagAfter(first) \in Chip /\ chip \in Chip
  BY <1>1, <1>2, TagAfters DEF ChainTypes
<1>4. chip' \in Chip
  BY <1>1, <1>3
<1>5. MacOfWhole(a.mac) /\ a.parts \in Seq(Nat)
  BY <1>1, <1>2, TagAnswers
<1>6. CASE /\ chip' = TagAfter(first) /\ Receives(a)
           /\ reader' = [reader EXCEPT !.last = a]
  <2>1. /\ reader' = [last |-> reader'.last, stale |-> reader'.stale]
        /\ reader'.last = a /\ reader'.stale = reader.stale
    BY <1>1, <1>6 DEF ChainTypes
  <2>2. /\ asking' \in Asks
        /\ asking'.out = "ok" /\ asking'.mode = "mac" => asking'.parts = Whole
    BY <1>1, <1>5, <1>6, IntermediateIs, LastFrameIs DEF Receives
  <2>3. ChainTypes'
    BY <1>1, <1>4, <1>5, <2>1, <2>2 DEF ChainTypes
  <2>4. ASSUME ~reader.stale
        PROVE  InStep' /\ (asking'.out = "ok" => asking'.parts = Whole)
    <3>1. CASE asking.parts = << >>
      <4>1. a = Answer("91AF", <<1>>, << >>) /\ chip'.due = 1
        BY <1>1, <1>2, <1>6, <3>1, TagAnswers, TagAfters
      <4>2. asking' = Intermediate(a)
        BY <1>6, <3>1, FramesJoined DEF Receives
      <4>3. asking'.out # "ok" /\ (asking'.out = "running" => asking'.parts = <<1>>)
        BY <1>1, <1>5, <3>1, <4>1, <4>2, IntermediateIs, FramesJoined DEF Answer
      <4> QED BY <4>1, <4>3 DEF InStep
    <3>2. CASE asking.parts = <<1>> /\ chip.due = 1
      <4>1. a = Answer("91AF", <<2>>, << >>) /\ chip'.due = 2
        <5>1. ~first
          BY <3>2, FramesJoined
        <5> HIDE DEF first
        <5> QED BY <1>1, <1>2, <1>6, <3>2, <5>1, TagAnswers, TagAfters
      <4>2. asking' = Intermediate(a)
        BY <1>6, <3>2, FramesJoined DEF Receives
      <4>3. asking'.out # "ok" /\ (asking'.out = "running" => asking'.parts = <<1, 2>>)
        BY <1>1, <1>5, <3>2, <4>1, <4>2, IntermediateIs, FramesJoined DEF Answer
      <4> QED BY <4>1, <4>3 DEF InStep
    <3>3. CASE asking.parts = <<1, 2>> /\ chip.due = 2
      <4>1. a.parts = <<3>>
        <5>1. ~first
          BY <3>3, FramesJoined
        <5> HIDE DEF first
        <5> QED BY <1>1, <1>2, <3>3, <5>1, TagAnswers
      <4>2. asking' = Last(a)
        <5>1. Len(asking.parts) = 2
          BY <3>3, FramesJoined, Zenon
        <5>2. ~(Len(asking.parts) < 2)
          BY <5>1
        <5> QED BY <1>6, <5>2, Zenon DEF Receives
      <4>3. asking'.out # "running" /\ (asking'.out = "ok" => asking'.parts = Whole)
        <5>1. asking.parts \o a.parts = Whole
          BY <3>3, <4>1, FramesJoined, Zenon
        <5> HIDE DEF a
        <5> QED BY <1>1, <1>5, <4>2, <5>1, LastFrameIs
      <4> QED BY <4>3 DEF InStep
    <3> QED BY <1>1, <2>4, <3>1, <3>2, <3>3 DEF ChainInv, InStep
  <2>5. ASSUME reader.stale PROVE InStep'
    BY <2>1, <2>5 DEF InStep
  <2> QED BY <2>1, <2>2, <2>3, <2>4, <2>5 DEF ChainInv, ChainTypes, VersionWhole, Whole
<1>7. CASE /\ chip' \in {chip, TagAfter(first)} /\ asking' = FailedChain
           /\ reader' = reader
  <2>1. asking' \in Asks /\ asking'.out = "error"
    BY <1>1, <1>7, FailedChainIs
  <2> QED BY <1>1, <1>4, <1>7, <2>1 DEF ChainInv, ChainTypes, InStep, VersionWhole
<1>8. CASE /\ chip' \in {chip, TagAfter(first)} /\ Receives(reader.last)
           /\ reader' = [reader EXCEPT !.stale = TRUE]
  <2>1. /\ reader' = [last |-> reader'.last, stale |-> reader'.stale]
        /\ reader'.last = reader.last /\ reader'.stale = TRUE
    BY <1>1, <1>8 DEF ChainTypes
  <2>2. /\ asking' \in Asks
        /\ asking'.out = "ok" /\ asking'.mode = "mac" => asking'.parts = Whole
    BY <1>1, <1>8, IntermediateIs, LastFrameIs DEF Receives, ChainTypes
  <2> QED BY <1>1, <1>4, <2>1, <2>2 DEF ChainInv, ChainTypes, InStep, VersionWhole, Whole
<1> QED BY <1>1, <1>6, <1>7, <1>8

\* In an authenticated session a version that is returned consists of the three
\* parts that the tag has sent, each in its place, whatever answers the reader
\* repeats, in this session or from earlier ones, and though two of the three
\* frames carry no MAC; without authentication as long as it repeats none.
THEOREM WholeVersion == InitChain /\ [][ChainNext]_chainVars => []VersionWhole
<1>1. ChainInv /\ [ChainNext]_chainVars => ChainInv'
  <2> SUFFICES ASSUME ChainInv, [ChainNext]_chainVars PROVE ChainInv'
    OBVIOUS
  <2>1. CASE UNCHANGED chainVars
    BY <2>1 DEF chainVars, ChainInv, ChainTypes, InStep, VersionWhole
  <2> QED BY <2>1, GetVersionKeeps, NewAuthenticationKeeps, RequestKeeps DEF ChainNext
<1>2. ChainInv => VersionWhole
  BY DEF ChainInv
<1> QED BY <1>1, <1>2, ChainStarts, PTL
-----------------------------------------------------------------------------
(* Diversified keys *)

\* The 2 * BlockSize bytes that go into the CMAC, one by one.
LEMMA PaddedAt ==
  ASSUME NEW m \in Seq(0 .. 255), Accepted(m)
  PROVE  /\ BlockSize \in Nat /\ MaxInput = 2 * BlockSize - 1
         /\ Len(m) \in 1 .. MaxInput
         /\ Padded(m) \in Seq(0 .. 255) /\ Len(Padded(m)) = 2 * BlockSize
         /\ \A i \in 1 .. Len(m) : Padded(m)[i + 1] = m[i]
         /\ Len(m) < MaxInput => Padded(m)[Len(m) + 2] = 128
         /\ \A i \in (Len(m) + 3) .. 2 * BlockSize : Padded(m)[i] = 0
<1> DEFINE fill == [i \in 1 .. (MaxInput - Len(m)) |-> IF i = 1 THEN 128 ELSE 0]
           head == <<1>> \o m
<1>1. BlockSize \in Nat /\ BlockSize > 1 /\ MaxInput = 2 * BlockSize - 1 /\ Len(m) \in 1 .. MaxInput
  BY BlockSizeAssumption DEF MaxInput, Accepted
<1>2. fill \in Seq(0 .. 255) /\ Len(fill) = MaxInput - Len(m)
  BY <1>1
<1>3. \A i \in 1 .. (MaxInput - Len(m)) : fill[i] = IF i = 1 THEN 128 ELSE 0
  OBVIOUS
<1> HIDE DEF fill
<1>4. head \in Seq(0 .. 255) /\ Len(head) = 1 + Len(m) /\ \A i \in 1 .. Len(m) : head[i + 1] = m[i]
  <2>1. <<1>> \in Seq(0 .. 255) /\ Len(<<1>>) = 1
    OBVIOUS
  <2> QED BY <2>1
<1> HIDE DEF head
<1>5. Padded(m) = head \o fill
  BY DEF Padded, head, fill
<1>6. /\ Padded(m) \in Seq(0 .. 255) /\ Len(Padded(m)) = 2 * BlockSize
      /\ \A i \in 1 .. Len(head) : Padded(m)[i] = head[i]
      /\ \A i \in (Len(head) + 1) .. 2 * BlockSize : Padded(m)[i] = fill[i - Len(head)]
  <2>1. Len(head) \in Nat /\ Len(fill) \in Nat /\ Len(head) + Len(fill) = 2 * BlockSize
    BY <1>1, <1>2, <1>4
  <2>2. /\ Padded(m) \in Seq(0 .. 255) /\ Len(Padded(m)) = Len(head) + Len(fill)
        /\ \A i \in 1 .. (Len(head) + Len(fill)) :
             Padded(m)[i] = IF i <= Len(head) THEN head[i] ELSE fill[i - Len(head)]
    <3>1. head \in Seq(0 .. 255) /\ fill \in Seq(0 .. 255)
      BY <1>2, <1>4
    <3>2. /\ head \o fill \in Seq(0 .. 255) /\ Len(head \o fill) = Len(head) + Len(fill)
          /\ \A i \in 1 .. Len(head) + Len(fill) :
               (head \o fill)[i] = IF i <= Len(head) THEN head[i] ELSE fill[i - Len(head)]
      BY <3>1, ConcatProperties
    <3> QED BY <1>5, <3>2, Zenon
  <2> QED BY <1>1, <2>1, <2>2
<1>7. ASSUME NEW i \in 1 .. Len(m) PROVE Padded(m)[i + 1] = m[i]
  BY <1>1, <1>4, <1>6
<1>8. Len(m) < MaxInput => Padded(m)[Len(m) + 2] = 128
  <2> SUFFICES ASSUME Len(m) < MaxInput PROVE Padded(m)[Len(m) + 2] = 128
    OBVIOUS
  <2>1. Len(m) + 2 \in (Len(head) + 1) .. (2 * BlockSize) /\ Len(m) + 2 - Len(head) = 1
    BY <1>1, <1>4
  <2>2. Padded(m)[Len(m) + 2] = fill[1]
    BY <1>6, <2>1
  <2> QED BY <1>1, <1>3, <2>2
<1>9. ASSUME NEW i \in (Len(m) + 3) .. 2 * BlockSize PROVE Padded(m)[i] = 0
  <2>1. Padded(m)[i] = fill[i - Len(head)] /\ i - Len(head) \in 2 .. (MaxInput - Len(m))
    BY <1>1, <1>4, <1>6
  <2> QED BY <1>1, <1>3, <2>1
<1> QED BY <1>1, <1>6, <1>7, <1>8, <1>9

\* No two inputs have the same bytes and the same subkey.
LEMMA KeysApart ==
  ASSUME NEW m \in Seq(0 .. 255), NEW n \in Seq(0 .. 255), Accepted(m), Accepted(n),
         DiversifyAes128(m) = DiversifyAes128(n), Len(m) <= Len(n)
  PROVE  m = n
<1>1. /\ SubSeq(Padded(m), 1, BlockSize) = SubSeq(Padded(n), 1, BlockSize)
      /\ SubSeq(Padded(m), BlockSize + 1, 2 * BlockSize) = SubSeq(Padded(n), BlockSize + 1, 2 * BlockSize)
      /\ Subkey(m) = Subkey(n)
  BY DEF DiversifyAes128
<1>2. ASSUME NEW i \in 1 .. (2 * BlockSize) PROVE Padded(m)[i] = Padded(n)[i]
  <2>1. CASE i <= BlockSize
    <3>1. SubSeq(Padded(m), 1, BlockSize)[i] = Padded(m)[i] /\ SubSeq(Padded(n), 1, BlockSize)[i] = Padded(n)[i]
      BY PaddedAt, <2>1
    <3> QED BY <1>1, <3>1
  <2>2. CASE i > BlockSize
    <3> DEFINE j == i - BlockSize
    <3>1. /\ SubSeq(Padded(m), BlockSize + 1, 2 * BlockSize)[j] = Padded(m)[i]
          /\ SubSeq(Padded(n), BlockSize + 1, 2 * BlockSize)[j] = Padded(n)[i]
      <4>1. BlockSize \in Nat /\ j \in 1 .. BlockSize /\ i = BlockSize + 1 + j - 1
        BY PaddedAt, <2>2
      <4>2. \A k \in (BlockSize + 1) .. (2 * BlockSize) :
              Padded(m)[k] \in 0 .. 255 /\ Padded(n)[k] \in 0 .. 255
        <5>1. /\ Padded(m) \in Seq(0 .. 255) /\ Len(Padded(m)) = 2 * BlockSize
              /\ Padded(n) \in Seq(0 .. 255) /\ Len(Padded(n)) = 2 * BlockSize /\ BlockSize \in Nat
          BY PaddedAt
        <5> SUFFICES ASSUME NEW k \in (BlockSize + 1) .. (2 * BlockSize)
                     PROVE  Padded(m)[k] \in 0 .. 255 /\ Padded(n)[k] \in 0 .. 255
          OBVIOUS
        <5>2. k \in 1 .. Len(Padded(m)) /\ k \in 1 .. Len(Padded(n))
          BY <5>1
        <5> QED BY <5>1, <5>2, ElementOfSeq, ZenonT(60)
      <4>3. j \in 1 .. (2 * BlockSize - (BlockSize + 1) + 1)
        BY <4>1
      <4> HIDE DEF j
      <4> QED BY <4>1, <4>2, <4>3, SubSeqProperties
    <3> QED BY <1>1, <3>1
  <2> QED BY PaddedAt, <2>1, <2>2
<1>3. Len(m) = Len(n)
  <2> SUFFICES ASSUME Len(m) < Len(n) PROVE FALSE
    BY PaddedAt
  <2>1. Len(n) < MaxInput
    <3>1. "K1" # "K2"
      OBVIOUS
    <3>2. Subkey(m) = "K2"
      BY PaddedAt DEF Subkey
    <3> QED BY <1>1, <3>1, <3>2, Zenon DEF Subkey
  <2>2. Padded(n)[Len(n) + 2] = 128 /\ Padded(m)[Len(n) + 2] = 0 /\ Len(n) + 2 \in 1 .. (2 * BlockSize)
    BY <2>1, PaddedAt
  <2> QED BY <1>2, <2>2
<1>4. \A i \in 1 .. Len(m) : m[i] = n[i]
  BY PaddedAt, <1>2, <1>3
<1> QED BY <1>3, <1>4, SeqEqual

-----------------------------------------------------------------------------
(* URI records *)

\* The words of the table.
UriWords ==
  {"http://", "www.", "https://", "tel:", "mailto:", "ftp://", "anonymous:anonymous@",
   "ftp.", "ftps://", "sftp://", "smb://", "nfs://", "dav://", "news:", "telnet://",
   "imap:", "rtsp://", "urn:", "pop:", "sip:", "sips:", "tftp:", "btspp://", "btl2cap://",
   "btgoep://", "tcpobex://", "irdaobex://", "file://", "epc:", "id:", "tag:", "pat:",
   "raw:", "nfc:"}

LEMMA PrefixesAre ==
  /\ NdefUriPrefixes \in Seq(Seq(UriWords))
  /\ DOMAIN NdefUriPrefixes = 1 .. Len(NdefUriPrefixes) /\ Len(NdefUriPrefixes) \in Nat
<1>1. /\ "http://" \in UriWords /\ "www." \in UriWords /\ "https://" \in UriWords /\ "tel:" \in UriWords
      /\ "mailto:" \in UriWords /\ "ftp://" \in UriWords /\ "anonymous:anonymous@" \in UriWords
      /\ "ftp." \in UriWords /\ "ftps://" \in UriWords /\ "sftp://" \in UriWords /\ "smb://" \in UriWords
      /\ "nfs://" \in UriWords /\ "dav://" \in UriWords /\ "news:" \in UriWords /\ "telnet://" \in UriWords
      /\ "imap:" \in UriWords /\ "rtsp://" \in UriWords /\ "urn:" \in UriWords /\ "pop:" \in UriWords
      /\ "sip:" \in UriWords /\ "sips:" \in UriWords /\ "tftp:" \in UriWords /\ "btspp://" \in UriWords
      /\ "btl2cap://" \in UriWords /\ "btgoep://" \in UriWords /\ "tcpobex://" \in UriWords
      /\ "irdaobex://" \in UriWords /\ "file://" \in UriWords /\ "epc:" \in UriWords /\ "id:" \in UriWords
      /\ "tag:" \in UriWords /\ "pat:" \in UriWords /\ "raw:" \in UriWords /\ "nfc:" \in UriWords
  BY DEF UriWords
<1>2. NdefUriPrefixes \in Seq(Seq(UriWords))
  BY <1>1, SMTT(60) DEF NdefUriPrefixes
<1> QED BY <1>2, LenProperties

\* The prefix that is taken is one that the URL begins with, and the content
\* the rest of the URL.
LEMMA PrefixTaken ==
  ASSUME NEW url \in Seq(STRING)
  PROVE  /\ DetectUriPrefix(url) \in 0 .. Len(NdefUriPrefixes)
         /\ Prefix(DetectUriPrefix(url)) \in Seq(STRING)
         /\ Content(url) \in Seq(STRING) /\ Prefix(DetectUriPrefix(url)) \o Content(url) = url
<1> DEFINE code == DetectUriPrefix(url)
           p == Prefix(code)
<1>1. Matching(url) \subseteq 1 .. Len(NdefUriPrefixes)
  BY PrefixesAre DEF Matching
<1>2. CASE Matching(url) = {}
  <2>1. code = 0 /\ p = << >>
    BY <1>2 DEF DetectUriPrefix, Prefix
  <2> HIDE DEF code, p
  <2>2. Len(<< >>) + 1 = 1 /\ Len(NdefUriPrefixes) \in Nat
    BY PrefixesAre
  <2>3. Content(url) = url
    BY <2>1, <2>2, SubSeqFull DEF Content, code, p
  <2>4. << >> \o url = url /\ << >> \in Seq(STRING)
    BY ConcatEmptySeq
  <2>5. p \in Seq(STRING) /\ p \o Content(url) = url /\ Content(url) \in Seq(STRING)
    BY <2>1, <2>3, <2>4, Zenon
  <2>6. code \in 0 .. Len(NdefUriPrefixes)
    BY <2>1, <2>2
  <2> QED BY <2>5, <2>6, Zenon DEF code, p
<1>3. CASE Matching(url) # {}
  <2>1. Matching(url) \in SUBSET Nat /\ Matching(url) # {}
    BY <1>1, <1>3, PrefixesAre
  <2>2. \E c \in Matching(url) : \A d \in Matching(url) : c <= d
    BY <2>1, LeastNumber
  <2>3. code \in Matching(url)
    BY <1>3, <2>2 DEF DetectUriPrefix
  <2> HIDE DEF code
  <2>4. code \in 1 .. Len(NdefUriPrefixes) /\ BytesEqAt(url, NdefUriPrefixes[code])
    BY <1>1, <2>3 DEF Matching
  <2>5. code # 0 /\ p = NdefUriPrefixes[code] /\ p \in Seq(UriWords)
    BY <2>4, PrefixesAre, ElementOfSeq DEF Prefix
  <2> HIDE DEF p
  <2>6. Len(url) >= Len(p) /\ SubSeq(url, 1, Len(p)) = p
    BY <2>4, <2>5 DEF BytesEqAt
  <2>7. Content(url) = SubSeq(url, Len(p) + 1, Len(url))
    BY DEF Content, code, p
  <2>8. Len(p) \in Nat /\ Len(url) \in Nat /\ p \in Seq(STRING)
    <3>1. Len(p) \in Nat /\ Len(url) \in Nat
      BY <2>5, LenProperties
    <3> QED BY <2>6, <3>1
  <2>9. ASSUME NEW i \in 1 .. Len(p) PROVE url[i] = p[i]
    BY <2>6, <2>8, <2>9
  <2>10. /\ Content(url) \in Seq(STRING) /\ Len(Content(url)) = Len(url) - Len(p)
         /\ \A i \in 1 .. (Len(url) - Len(p)) : Content(url)[i] = url[Len(p) + i]
    BY <2>6, <2>7, <2>8
  <2>11. /\ p \o Content(url) \in Seq(STRING) /\ Len(p \o Content(url)) = Len(url)
         /\ \A i \in 1 .. Len(url) :
              (p \o Content(url))[i] = IF i <= Len(p) THEN p[i] ELSE Content(url)[i - Len(p)]
    <3>1. Len(p) + Len(Content(url)) = Len(url)
      BY <2>8, <2>10
    <3>2. /\ p \o Content(url) \in Seq(STRING)
          /\ Len(p \o Content(url)) = Len(p) + Len(Content(url))
          /\ \A i \in 1 .. Len(p) + Len(Content(url)) :
               (p \o Content(url))[i] = IF i <= Len(p) THEN p[i] ELSE Content(url)[i - Len(p)]
      BY <2>8, <2>10, ConcatProperties
    <3> QED BY <3>1, <3>2, Zenon
  <2>12. ASSUME NEW i \in 1 .. Len(url) PROVE (p \o Content(url))[i] = url[i]
    BY <2>8, <2>9, <2>10, <2>11
  <2>13. p \o Content(url) = url
    BY <2>11, <2>12, SeqEqual
  <2> QED BY <2>4, <2>8, <2>10, <2>13 DEF code, p
<1> QED BY <1>2, <1>3

\* What a plan writes is read back, whatever longer record it is written over,
\* as long as the string has room for it.
LEMMA PlanReadsBack ==
  ASSUME NEW url \in Seq(STRING), NEW old \in Seq(STRING), NEW alloc \in BOOLEAN,
         alloc \/ Len(url) <= MaxString
  PROVE  ParseNdefUri(WrittenOver(Planned(old), Planned(url)), alloc) = <<"ok", url>>
<1> DEFINE file == WrittenOver(Planned(old), Planned(url))
           c == Content(url)
           behind == SubSeq(Content(old), Len(c) + 1, Len(Content(old)))
<1>1. c \in Seq(STRING) /\ Content(old) \in Seq(STRING) /\ Len(c) \in Nat
  BY PrefixTaken, LenProperties
<1>2. /\ file.uri = TRUE /\ file.nlen = 4 + PayloadOf(url) /\ file.payload = PayloadOf(url)
      /\ file.code = DetectUriPrefix(url) /\ file.rest = c \o behind
  BY DEF Planned, WrittenOver
<1>3. PayloadOf(url) = 1 + Len(c)
  BY DEF PayloadOf
<1>4. behind \in Seq(STRING) /\ Len(behind) \in Nat
  BY <1>1
<1> HIDE DEF file, c, behind
<1>5. /\ file.rest \in Seq(STRING) /\ Len(file.rest) = Len(c) + Len(behind)
      /\ \A i \in 1 .. Len(c) : file.rest[i] = c[i]
  BY <1>1, <1>2, <1>4
<1>6. file.nlen = 5 + Len(c) /\ file.nlen + 2 = 7 + Len(c)
  BY <1>1, <1>2, <1>3
<1>7. Cut(file) = c
  <2>1. Cut(file) = SubSeq(file.rest, 1, Len(c))
    BY <1>1, <1>6 DEF Cut, Header
  <2>2. /\ Cut(file) \in Seq(STRING) /\ Len(Cut(file)) = Len(c)
        /\ \A i \in 1 .. Len(c) : Cut(file)[i] = c[i]
    BY <1>1, <1>4, <1>5, <2>1
  <2> QED BY <1>1, <2>2, SeqEqual
<1>8. /\ file.uri /\ ~(file.nlen + 2 > Header + Len(file.rest)) /\ ~(file.nlen + 2 < Header)
  BY <1>1, <1>2, <1>4, <1>5, <1>6 DEF Header
<1>9. ~(file.code \notin 0 .. Len(NdefUriPrefixes))
  BY <1>2, PrefixTaken
<1>10. ~(Header + Len(Cut(file)) # 6 + file.payload)
  BY <1>1, <1>2, <1>3, <1>7 DEF Header
<1>11. Prefix(file.code) \o Cut(file) = url
  BY <1>2, <1>7, PrefixTaken DEF c
<1>12. ~ ~HasRoom(file, alloc)
  <2> DEFINE p == Prefix(file.code)
  <2>1. p \in Seq(STRING)
    BY <1>2, PrefixTaken
  <2> HIDE DEF p
  <2>2. Len(p \o Cut(file)) = Len(p) + Len(Cut(file))
    BY <1>1, <1>7, <2>1, ConcatProperties, Zenon
  <2>3. Len(p) + Len(Cut(file)) = Len(url)
    BY <1>11, <2>2, Zenon DEF p
  <2> QED BY <2>3, Zenon DEF HasRoom, p
<1> QED BY <1>8, <1>9, <1>10, <1>11, <1>12, Zenon DEF ParseNdefUri, file

-----------------------------------------------------------------------------
(* Status words *)

SuccessNames == {"OperationOk", "NormalProcessing"}
SuccessWord(f) == IF f = "iso" THEN 36864 ELSE 37120
WordsOf(f)     == IF f = "iso" THEN 26368 .. 36864 ELSE 37120 .. 37360

\* The words of each framing are numbers apart from those of the other, and the
\* names of success stand for the words of success alone.
LEMMA TableIs ==
  ASSUME NEW f \in Framing
  PROVE  /\ \A row \in Table[f] :
              /\ row[1] \in WordsOf(f) /\ (f = "iso" => row[1] \notin WrongLe)
              /\ row[2] # "Unknown" /\ (row[2] \in SuccessNames <=> row[1] = SuccessWord(f))
         /\ \E row \in Table[f] : row[1] = SuccessWord(f)
<1>1. CASE f = "iso"
  <2> DEFINE word == 36864
             words == 26368 .. 36864
             ok == <<36864, "NormalProcessing">>
  <2>1. \A row \in Table["iso"] :
          /\ row[1] \in words /\ row[1] \notin WrongLe
          /\ row[2] # "Unknown" /\ (row[2] \in SuccessNames <=> row[1] = word)
    BY SMTT(150) DEF Table, WrongLe, SuccessNames
  <2>2. ok \in Table["iso"]
    BY SMTT(60) DEF Table
  <2>3. ok[1] = word
    OBVIOUS
  <2>4. SuccessWord("iso") = word /\ WordsOf("iso") = words
    BY DEF SuccessWord, WordsOf
  <2> HIDE DEF word, words, ok
  <2> QED BY <1>1, <2>1, <2>2, <2>3, <2>4, Zenon
<1>2. CASE f = "desfire"
  <2> DEFINE word == 37120
             words == 37120 .. 37360
             ok == <<37120, "OperationOk">>
  <2>1. \A row \in Table["desfire"] :
          /\ row[1] \in words
          /\ row[2] # "Unknown" /\ (row[2] \in SuccessNames <=> row[1] = word)
    BY SMTT(60) DEF Table, SuccessNames
  <2>2. ok \in Table["desfire"]
    BY SMTT(60) DEF Table
  <2>3. ok[1] = word
    OBVIOUS
  <2>4. SuccessWord("desfire") = word /\ WordsOf("desfire") = words /\ "desfire" # "iso"
    BY DEF SuccessWord, WordsOf
  <2> HIDE DEF word, words, ok
  <2> QED BY <1>2, <2>1, <2>2, <2>3, <2>4, Zenon
<1> QED BY <1>1, <1>2 DEF Framing

LEMMA WordsApart ==
  /\ \A w : ~(w \in WordsOf("iso") /\ w \in WordsOf("desfire"))
  /\ \A w \in WrongLe : w \in WordsOf("iso") /\ w # SuccessWord("iso")
<1> DEFINE iso == 26368 .. 36864
           desfire == 37120 .. 37360
           word == 36864
<1>1. WordsOf("iso") = iso /\ WordsOf("desfire") = desfire /\ SuccessWord("iso") = word
  BY DEF WordsOf, SuccessWord
<1>2. ASSUME NEW w \in iso, NEW x \in desfire PROVE w # x
  <2>1. w \in Int /\ w <= 36864
    OBVIOUS
  <2>2. x \in Int /\ 37120 <= x
    OBVIOUS
  <2> QED BY <2>1, <2>2
<1>3. \A w \in WrongLe : w \in iso /\ w # word
  BY DEF WrongLe
<1> HIDE DEF iso, desfire, word
<1> QED BY <1>1, <1>2, <1>3, Zenon

LEMMA StatusIs ==
  ASSUME NEW f \in Framing, NEW w
  PROVE  /\ w = SuccessWord(f) <=> Status(f, w) \in SuccessNames
         /\ Status(f, w) # "Unknown" => w \in WordsOf(f)
<1>1. "WrongLeFieldExpected" \notin SuccessNames /\ "Unknown" \notin SuccessNames
  BY DEF SuccessNames
<1>2. CASE f = "iso" /\ w \in WrongLe
  <2>1. Status(f, w) = "WrongLeFieldExpected"
    BY <1>2, Zenon DEF Status
  <2> QED BY <1>1, <1>2, <2>1, WordsApart, Zenon
<1>3. CASE ~(f = "iso" /\ w \in WrongLe) /\ \E row \in Table[f] : row[1] = w
  <2> DEFINE chosen == CHOOSE row \in Table[f] : row[1] = w
  <2>1. chosen \in Table[f] /\ chosen[1] = w
    BY <1>3, Zenon
  <2>2. Status(f, w) = chosen[2]
    BY <1>3, Zenon DEF Status
  <2> HIDE DEF chosen
  <2> QED BY <2>1, <2>2, TableIs, Zenon
<1>4. CASE ~(f = "iso" /\ w \in WrongLe) /\ ~ \E row \in Table[f] : row[1] = w
  <2>1. Status(f, w) = "Unknown"
    BY <1>4, Zenon DEF Status
  <2>2. w # SuccessWord(f)
    BY <1>4, TableIs, Zenon
  <2> QED BY <1>1, <2>1, <2>2, Zenon
<1> QED BY <1>2, <1>3, <1>4, Zenon

LEMMA StatusTold ==
  ASSUME NEW f \in Framing, NEW w
  PROVE  /\ Ok(f, w) <=> Status(f, w) \in SuccessNames
         /\ \A g \in Framing \ {f} : Status(f, w) # "Unknown" => Status(g, w) = "Unknown"
<1>1. f = "iso" \/ f = "desfire"
  BY DEF Framing
<1>2. Ok(f, w) <=> w = SuccessWord(f)
  BY <1>1 DEF Ok, SuccessWord
<1>3. ASSUME NEW g \in Framing \ {f}, Status(f, w) # "Unknown" PROVE Status(g, w) = "Unknown"
  <2>1. (f = "iso" /\ g = "desfire") \/ (f = "desfire" /\ g = "iso")
    BY <1>1 DEF Framing
  <2>2. g \in Framing
    BY <1>3
  <2> QED BY <1>3, <2>1, <2>2, StatusIs, WordsApart, Zenon
<1> QED BY <1>2, <1>3, StatusIs, Zenon

-----------------------------------------------------------------------------
(* Counters of several digits *)

LEMMA SuiteConstants ==
  Base \in Nat /\ Base > 1 /\ Width \in Nat /\ Width > 0 /\ MaxLength \in Nat /\ MaxMessages \in Nat
  BY SuiteAssumption

\* There are powers of the base up to any exponent.
LEMMA PowersThere ==
  ASSUME NEW n \in Nat
  PROVE  \E f : /\ f = [k \in 0 .. n |-> IF k = 0 THEN 1 ELSE Base * f[k - 1]]
                /\ \A k \in 0 .. n : f[k] \in Nat /\ f[k] > 0
<1> DEFINE Good(f, m) == /\ f = [k \in 0 .. m |-> IF k = 0 THEN 1 ELSE Base * f[k - 1]]
                         /\ \A k \in 0 .. m : f[k] \in Nat /\ f[k] > 0
           S == {m \in Nat : \E f : Good(f, m)}
<1>1. 0 \in S
  <2> DEFINE f == [k \in 0 .. 0 |-> 1]
  <2>1. f = [k \in 0 .. 0 |-> IF k = 0 THEN 1 ELSE Base * f[k - 1]]
    OBVIOUS
  <2>2. \A k \in 0 .. 0 : f[k] \in Nat /\ f[k] > 0
    OBVIOUS
  <2> QED BY <2>1, <2>2
<1>2. ASSUME NEW m \in Nat, m \in S PROVE m + 1 \in S
  <2>1. PICK f : Good(f, m)
    BY <1>2
  <2> DEFINE g == [k \in 0 .. (m + 1) |-> IF k = m + 1 THEN Base * f[m] ELSE f[k]]
  <2>2. \A k \in 0 .. m : f[k] = (IF k = 0 THEN 1 ELSE Base * f[k - 1]) /\ f[k] \in Nat /\ f[k] > 0
    BY <2>1
  <2>3. Base * f[m] \in Nat /\ Base * f[m] > 0
    <3>1. f[m] \in Nat /\ f[m] > 0
      BY <2>2
    <3> QED BY <3>1, SuiteConstants
  <2>4. \A k \in 0 .. (m + 1) : g[k] \in Nat /\ g[k] > 0
    BY <2>2, <2>3
  <2>5. ASSUME NEW k \in 0 .. (m + 1) PROVE g[k] = IF k = 0 THEN 1 ELSE Base * g[k - 1]
    <3>1. CASE k = m + 1
      <4>1. k - 1 = m /\ k # 0 /\ m \in 0 .. (m + 1) /\ m # m + 1
        BY <3>1
      <4>2. g[k] = Base * f[m] /\ g[m] = f[m]
        BY <3>1, <4>1
      <4> QED BY <4>1, <4>2
    <3>2. CASE k # m + 1 /\ k # 0
      <4>1. k \in 0 .. m /\ k - 1 \in 0 .. (m + 1) /\ k - 1 # m + 1
        BY <3>2
      <4>2. g[k] = f[k] /\ g[k - 1] = f[k - 1]
        BY <3>2, <4>1
      <4> QED BY <2>2, <3>2, <4>1, <4>2
    <3>3. CASE k = 0
      <4>1. 0 \in 0 .. m /\ 0 \in 0 .. (m + 1) /\ 0 # m + 1
        OBVIOUS
      <4>2. g[0] = f[0] /\ f[0] = 1
        BY <2>2, <4>1
      <4> QED BY <3>3, <4>2
    <3> QED BY <3>1, <3>2, <3>3
  <2>6. g = [k \in 0 .. (m + 1) |-> IF k = 0 THEN 1 ELSE Base * g[k - 1]]
    <3>1. \A k \in 0 .. (m + 1) : g[k] = IF k = 0 THEN 1 ELSE Base * g[k - 1]
      BY <2>5
    <3>2. g = [k \in 0 .. (m + 1) |-> g[k]]
      OBVIOUS
    <3> HIDE DEF g
    <3> QED BY <3>1, <3>2
  <2> HIDE DEF g
  <2>7. Good(g, m + 1)
    BY <2>4, <2>6
  <2> QED BY <2>7
<1> HIDE DEF S
<1>3. n \in S
  BY <1>1, <1>2, Induction
<1> QED BY <1>3 DEF S

LEMMA PowerIs ==
  /\ Power[0] = 1
  /\ \A k \in 0 .. Width : Power[k] \in Nat /\ Power[k] > 0
  /\ \A k \in 1 .. Width : Power[k] = Base * Power[k - 1]
<1> DEFINE Def(f) == f = [k \in 0 .. Width |-> IF k = 0 THEN 1 ELSE Base * f[k - 1]]
<1>1. Width \in Nat
  BY SuiteConstants
<1>2. \E f : Def(f)
  BY <1>1, PowersThere
<1>3. Power = CHOOSE f : Def(f)
  BY DEF Power
<1>4. Def(Power)
  <2> HIDE DEF Def
  <2> QED BY <1>2, <1>3, Zenon
<1>5. \A k \in 0 .. Width : Power[k] = IF k = 0 THEN 1 ELSE Base * Power[k - 1]
  BY <1>4
<1>6. PICK f : Def(f) /\ \A k \in 0 .. Width : f[k] \in Nat /\ f[k] > 0
  BY <1>1, PowersThere
<1>7. \A k \in 0 .. Width : f[k] = IF k = 0 THEN 1 ELSE Base * f[k - 1]
  BY <1>6
<1> HIDE DEF Def
<1> DEFINE S == {k \in Nat : k <= Width => Power[k] = f[k]}
<1>8. 0 \in S
  BY <1>1, <1>5, <1>7
<1>9. ASSUME NEW k \in Nat, k \in S PROVE k + 1 \in S
  <2> SUFFICES ASSUME k + 1 <= Width PROVE Power[k + 1] = f[k + 1]
    OBVIOUS
  <2>1. k <= Width /\ k + 1 \in 0 .. Width /\ k + 1 # 0 /\ k + 1 - 1 = k
    BY <1>1
  <2> QED BY <1>5, <1>7, <1>9, <2>1
<1>10. Nat \subseteq S
  BY <1>8, <1>9, Induction
<1>11. \A k \in 0 .. Width : Power[k] = f[k]
  BY <1>10
<1> QED BY <1>1, <1>5, <1>6, <1>11

LEMMA Divided ==
  ASSUME NEW n \in Nat, NEW m \in Nat, m > 0, NEW q, q = n \div m, NEW r, r = n % m
  PROVE  n = m * q + r /\ q \in Nat /\ r \in Nat /\ r < m
<1>1. q \in Nat /\ r \in Nat /\ r < m
  OBVIOUS
<1>2. r = n - m * q
  OBVIOUS
<1>3. n = m * q + r
  <2>1. m * q \in Nat
    BY <1>1
  <2> QED BY <1>1, <1>2, <2>1
<1> QED BY <1>1, <1>3

LEMMA DividedOnce ==
  ASSUME NEW m \in Nat, NEW q \in Nat, NEW r \in Nat, r < m
  PROVE  (m * q + r) \div m = q /\ (m * q + r) % m = r
  OBVIOUS

\* The rest by the next power: the digit at this one, and the rest by this one.
LEMMA RestOf ==
  ASSUME NEW n \in Nat, NEW m \in Nat, m > 0, NEW b \in Nat, b > 0
  PROVE  n % (b * m) = (m * ((n \div m) % b)) + (n % m)
<1> DEFINE q == n \div m
           r == n % m
           d == q % b
           p == b * m
<1>1. q = n \div m /\ r = n % m /\ d = q % b /\ p = b * m
  OBVIOUS
<1> HIDE DEF q, r, d, p
<1>2. n = m * q + r /\ q \in Nat /\ r \in Nat /\ r < m
  BY <1>1, Divided
<1> DEFINE c == q \div b
<1>3. q = b * c + d /\ c \in Nat /\ d \in Nat /\ d < b
  BY <1>1, <1>2, Divided
<1> HIDE DEF c
<1>4. n = (b * m) * c + (m * d + r)
  <2>1. m * q = m * (b * c) + m * d
    BY <1>2, <1>3
  <2>2. m * (b * c) = (b * m) * c
    BY <1>3
  <2>3. m * (b * c) \in Nat /\ m * d \in Nat
    BY <1>3
  <2> QED BY <1>2, <2>1, <2>2, <2>3
<1>5. m * d + r \in Nat /\ b * m \in Nat /\ m * d + r < b * m
  <2>1. m * d \in Nat /\ b * m \in Nat
    BY <1>3
  <2>2. m * d + m = m * (d + 1)
    BY <1>3
  <2>3. d + 1 \in Nat /\ d + 1 <= b
    BY <1>3
  <2>4. m * (d + 1) <= m * b
    BY <2>3
  <2>5. m * b = b * m
    OBVIOUS
  <2> QED BY <1>2, <2>1, <2>2, <2>4, <2>5
<1> DEFINE rest == m * d + r
<1>6. n = p * c + rest /\ p \in Nat /\ rest \in Nat /\ rest < p
  BY <1>1, <1>4, <1>5
<1> HIDE DEF rest
<1>7. n % p = rest
  BY <1>3, <1>6, DividedOnce
<1> QED BY <1>1, <1>7, Zenon DEF rest

\* The digit at place k of a number, counted from the lowest.
DigitAt(n, k) == (n \div Power[k]) % Base

LEMMA DigitIs ==
  ASSUME NEW n \in Nat, NEW k \in 0 .. Width
  PROVE  DigitAt(n, k) \in Nat /\ DigitAt(n, k) < Base
<1>1. Power[k] \in Nat /\ Power[k] > 0
  BY PowerIs
<1>2. n \div Power[k] \in Nat
  BY <1>1
<1> QED BY <1>2, SuiteConstants DEF DigitAt

LEMMA RestSteps ==
  ASSUME NEW n \in Nat, NEW k \in Nat, k < Width, NEW p, p = Power[k],
         NEW d, d = DigitAt(n, k), NEW r, r = n % p
  PROVE  /\ n % Power[k + 1] = p * d + r /\ Power[k + 1] = Base * p /\ p \in Nat /\ p > 0
         /\ r \in Nat /\ r < p
<1>1. k \in 0 .. Width /\ k + 1 \in 1 .. Width /\ k + 1 - 1 = k
  BY SuiteConstants
<1>2. p \in Nat /\ p > 0 /\ Power[k + 1] = Base * p
  BY <1>1, PowerIs
<1> DEFINE q == n \div p
           above == Power[k + 1]
<1>3. d = q % Base /\ q = n \div p /\ above = Base * p /\ Base > 0 /\ Base \in Nat
  BY <1>2, SuiteConstants DEF DigitAt
<1>4. r \in Nat /\ r < p
  BY <1>2
<1> HIDE DEF q, above
<1>5. n % above = p * d + r
  <2>1. q = n \div p /\ r = n % p /\ d = q % Base /\ above = Base * p
    BY <1>3
  <2>2. n \in Nat /\ p \in Nat /\ p > 0 /\ Base \in Nat /\ Base > 0
    BY <1>2, <1>3
  <2>3. n % (Base * p) = (p * ((n \div p) % Base)) + (n % p)
    BY <2>2, RestOf
  <2> QED BY <2>1, <2>3, Zenon
<1>6. n % Power[k + 1] = p * d + r
  BY <1>5 DEF above
<1> QED BY <1>2, <1>4, <1>6

\* All lower digits are the highest digit just where the rest is the highest.
LEMMA AllHighest ==
  ASSUME NEW n \in Nat, NEW k \in 0 .. Width
  PROVE  (\A j \in 0 .. (k - 1) : DigitAt(n, j) = Base - 1) <=> n % Power[k] = Power[k] - 1
<1> DEFINE S == {m \in Nat : m <= Width =>
                   ((\A j \in 0 .. (m - 1) : DigitAt(n, j) = Base - 1) <=> n % Power[m] = Power[m] - 1)}
<1>1. 0 \in S
  <2>1. n % 1 = 0
    OBVIOUS
  <2>2. Power[0] = 1
    BY PowerIs
  <2> QED BY <2>1, <2>2
<1>2. ASSUME NEW m \in Nat, m \in S PROVE m + 1 \in S
  <2> SUFFICES ASSUME m + 1 <= Width
               PROVE  (\A j \in 0 .. m : DigitAt(n, j) = Base - 1) <=> n % Power[m + 1] = Power[m + 1] - 1
    OBVIOUS
  <2> DEFINE p == Power[m]
             d == DigitAt(n, m)
             r == n % p
  <2>1. m < Width /\ m \in 0 .. Width /\ m + 1 \in 1 .. Width /\ m + 1 - 1 = m
    BY SuiteConstants
  <2>2. p \in Nat /\ p > 0 /\ Power[m + 1] = Base * p
    BY <2>1, PowerIs
  <2>3. n % Power[m + 1] = p * d + r /\ r \in Nat /\ r < p
    BY <2>1, RestSteps
  <2>4. d \in Nat /\ d < Base
    BY <2>1, DigitIs
  <2>5. (\A j \in 0 .. (m - 1) : DigitAt(n, j) = Base - 1) <=> r = p - 1
    BY <1>2, <2>1
  <2>6. (\A j \in 0 .. m : DigitAt(n, j) = Base - 1)
          <=> (\A j \in 0 .. (m - 1) : DigitAt(n, j) = Base - 1) /\ d = Base - 1
    <3>1. \A j : j \in 0 .. m <=> j \in 0 .. (m - 1) \/ j = m
      OBVIOUS
    <3> QED BY <3>1, Zenon DEF d
  <2> HIDE DEF p, d, r
  <2>7. (r = p - 1 /\ d = Base - 1) <=> p * d + r = Base * p - 1
    <3>1. CASE d = Base - 1
      <4>1. p * d = Base * p - p
        BY <2>2, <3>1, SuiteConstants
      <4>2. Base * p \in Nat
        BY <2>2, SuiteConstants
      <4> QED BY <2>2, <2>3, <3>1, <4>1, <4>2
    <3>2. CASE d # Base - 1
      <4>1. d + 1 \in Nat /\ d + 1 <= Base - 1
        BY <2>4, <3>2, SuiteConstants
      <4>2. p * (d + 1) <= p * (Base - 1)
        BY <2>2, <4>1, SuiteConstants
      <4>3. p * (d + 1) = p * d + p /\ p * (Base - 1) = Base * p - p
        BY <2>2, <2>4, SuiteConstants
      <4>4. p * d \in Nat /\ Base * p \in Nat
        BY <2>2, <2>4, SuiteConstants
      <4> QED BY <2>2, <2>3, <3>2, <4>2, <4>3, <4>4
    <3> QED BY <3>1, <3>2
  <2> QED BY <2>2, <2>3, <2>5, <2>6, <2>7
<1> HIDE DEF S
<1>3. k \in S
  BY <1>1, <1>2, Induction
<1> QED BY <1>3 DEF S

LEMMA OneMore ==
  ASSUME NEW n \in Nat, NEW p \in Nat, p > 0
  PROVE  /\ n % p = p - 1 => (n + 1) \div p = n \div p + 1 /\ (n + 1) % p = 0
         /\ n % p # p - 1 => (n + 1) \div p = n \div p /\ (n + 1) % p = (n % p) + 1
<1> DEFINE q == n \div p
           r == n % p
<1>1. q = n \div p /\ r = n % p
  OBVIOUS
<1> HIDE DEF q, r
<1>2. n = p * q + r /\ q \in Nat /\ r \in Nat /\ r < p
  BY <1>1, Divided
<1>3. CASE r = p - 1
  <2>1. n + 1 = p * (q + 1) + 0
    <3>1. p * (q + 1) = p * q + p /\ p * q \in Nat
      BY <1>2
    <3> QED BY <1>2, <1>3, <3>1
  <2>2. (p * (q + 1) + 0) \div p = q + 1 /\ (p * (q + 1) + 0) % p = 0
    BY <1>2, DividedOnce
  <2> QED BY <1>1, <1>3, <2>1, <2>2
<1>4. CASE r # p - 1
  <2>1. n + 1 = p * q + (r + 1) /\ r + 1 \in Nat /\ r + 1 < p
    <3>1. p * q \in Nat
      BY <1>2
    <3> QED BY <1>2, <1>4, <3>1
  <2>2. (p * q + (r + 1)) \div p = q /\ (p * q + (r + 1)) % p = r + 1
    BY <1>2, <2>1, DividedOnce
  <2> QED BY <1>1, <1>4, <2>1, <2>2
<1> QED BY <1>1, <1>3, <1>4

\* A step of a digit, past a carry or not.
LEMMA DigitStep ==
  ASSUME NEW n \in Nat, NEW k \in 0 .. Width
  PROVE  /\ n % Power[k] = Power[k] - 1 => DigitAt(n + 1, k) = (DigitAt(n, k) + 1) % Base
         /\ n % Power[k] # Power[k] - 1 => DigitAt(n + 1, k) = DigitAt(n, k)
<1> DEFINE p == Power[k]
           q == n \div p
<1>1. p \in Nat /\ p > 0 /\ p = Power[k]
  BY PowerIs
<1>2. q = n \div p /\ (n + 1) \div p = (n + 1) \div Power[k] /\ n \div p = n \div Power[k]
  OBVIOUS
<1> HIDE DEF p, q
<1>3. /\ n % p = p - 1 => (n + 1) \div p = q + 1
      /\ n % p # p - 1 => (n + 1) \div p = q
  BY <1>1, <1>2, OneMore
<1>4. q \in Nat
  BY <1>1, <1>2
<1>5. (q + 1) % Base = ((q % Base) + 1) % Base
  <2> DEFINE d == q % Base
  <2>1. Base \in Nat /\ Base > 1 /\ d \in Nat /\ d < Base /\ d = q % Base
    BY <1>4, SuiteConstants
  <2> HIDE DEF d
  <2>2. CASE d = Base - 1
    <3>1. (q + 1) % Base = 0
      <4>1. q % Base = Base - 1 /\ Base > 0
        BY <2>1, <2>2
      <4> QED BY <1>4, <2>1, <4>1, OneMore, Zenon
    <3>2. d + 1 = Base /\ Base % Base = 0
      <4>1. Base = Base * 1 + 0 /\ (Base * 1 + 0) % Base = 0
        BY <2>1, DividedOnce
      <4> QED BY <2>1, <2>2, <4>1
    <3> QED BY <2>1, <3>1, <3>2
  <2>3. CASE d # Base - 1
    <3>1. (q + 1) % Base = d + 1
      <4>1. q % Base # Base - 1 /\ Base > 0
        BY <2>1, <2>3
      <4>2. (q + 1) % Base = (q % Base) + 1
        BY <1>4, <2>1, <4>1, OneMore, Zenon
      <4> QED BY <2>1, <4>2
    <3>2. d + 1 \in Nat /\ d + 1 < Base
      BY <2>1, <2>3
    <3>3. d + 1 = Base * 0 + (d + 1) /\ (Base * 0 + (d + 1)) % Base = d + 1
      BY <2>1, <3>2, DividedOnce
    <3> QED BY <2>1, <3>1, <3>3
  <2> QED BY <2>2, <2>3
<1> QED BY <1>1, <1>2, <1>3, <1>5 DEF DigitAt

\* The length of a sequence.
LEMMA LengthIs ==
  ASSUME NEW s, NEW n \in Nat, DOMAIN s = 1 .. n, s = [i \in 1 .. n |-> s[i]]
  PROVE  s \in Seq({s[i] : i \in 1 .. n}) /\ Len(s) = n
  OBVIOUS

LEMMA DigitsAre ==
  ASSUME NEW n \in Nat
  PROVE  /\ Digits(n) = [i \in 1 .. Width |-> Digits(n)[i]]
         /\ DOMAIN Digits(n) = 1 .. Width /\ Len(Digits(n)) = Width
         /\ \A i \in 1 .. Width : Digits(n)[i] = DigitAt(n, Width - i) /\ Width - i \in 0 .. Width
<1>1. Width \in Nat
  BY SuiteConstants
<1>2. /\ Digits(n) = [i \in 1 .. Width |-> DigitAt(n, Width - i)]
      /\ DOMAIN Digits(n) = 1 .. Width
  BY DEF Digits, DigitAt
<1> DEFINE s == [i \in 1 .. Width |-> DigitAt(n, Width - i)]
<1>3. Len(s) = Width
  BY <1>1
<1> QED BY <1>1, <1>2, <1>3

LEMMA ModulusIs ==
  Modulus \in Nat /\ Modulus > 0 /\ Modulus = Power[Width]
  BY PowerIs, SuiteConstants DEF Modulus

\* A carry goes just as far as the lower digits are the highest.
LEMMA Carries ==
  ASSUME NEW n \in Nat, NEW i \in 1 .. Width
  PROVE  (\A j \in (i + 1) .. Width : Digits(n)[j] = Base - 1)
           <=> n % Power[Width - i] = Power[Width - i] - 1
<1> DEFINE k == Width - i
<1>1. k \in 0 .. Width /\ Width \in Nat
  BY SuiteConstants
<1>2. (\A j \in (i + 1) .. Width : Digits(n)[j] = Base - 1)
        <=> (\A j \in 0 .. (k - 1) : DigitAt(n, j) = Base - 1)
  <2>1. ASSUME \A j \in (i + 1) .. Width : Digits(n)[j] = Base - 1, NEW j \in 0 .. (k - 1)
        PROVE  DigitAt(n, j) = Base - 1
    <3>1. Width - j \in (i + 1) .. Width /\ Width - j \in 1 .. Width /\ Width - (Width - j) = j
      BY <1>1
    <3> QED BY <2>1, <3>1, DigitsAre
  <2>2. ASSUME \A j \in 0 .. (k - 1) : DigitAt(n, j) = Base - 1, NEW j \in (i + 1) .. Width
        PROVE  Digits(n)[j] = Base - 1
    <3>1. Width - j \in 0 .. (k - 1) /\ j \in 1 .. Width
      BY <1>1
    <3> QED BY <2>2, <3>1, DigitsAre
  <2> QED BY <2>1, <2>2
<1> QED BY <1>1, <1>2, AllHighest

\* The counter of the suite, advanced, is that of the next number.
LEMMA IncCounts ==
  ASSUME NEW n \in 0 .. (Modulus - 1)
  PROVE  Inc(Digits(n)) = Digits((n + 1) % Modulus) /\ (n + 1) % Modulus \in 0 .. (Modulus - 1)
<1>1. n \in Nat /\ n < Modulus /\ Modulus \in Nat /\ Modulus > 0 /\ Width \in Nat
  BY ModulusIs, SuiteConstants
<1> DEFINE next == (n + 1) % Modulus
<1>2. next \in Nat /\ next \in 0 .. (Modulus - 1)
  BY <1>1
<1>3. ASSUME NEW i \in 1 .. Width
      PROVE  DigitAt(next, Width - i) =
               IF n % Power[Width - i] = Power[Width - i] - 1
                 THEN (DigitAt(n, Width - i) + 1) % Base ELSE DigitAt(n, Width - i)
  <2> DEFINE k == Width - i
  <2>1. k \in 0 .. Width /\ k < Width /\ k \in Nat
    BY <1>1
  <2>2. CASE n + 1 < Modulus
    <3>1. next = n + 1
      <4>1. n + 1 = Modulus * 0 + (n + 1) /\ (Modulus * 0 + (n + 1)) % Modulus = n + 1
        BY <1>1, <2>2, DividedOnce
      <4> QED BY <4>1
    <3> HIDE DEF next, k
    <3> QED BY <1>1, <2>1, <3>1, DigitStep DEF k
  <2>3. CASE n + 1 = Modulus
    <3>1. next = 0
      <4>1. Modulus = Modulus * 1 + 0 /\ (Modulus * 1 + 0) % Modulus = 0
        BY <1>1, DividedOnce
      <4> QED BY <2>3, <4>1
    <3>2. n % Power[Width] = Power[Width] - 1
      <4>1. n = Modulus * 0 + n /\ (Modulus * 0 + n) % Modulus = n
        BY <1>1, DividedOnce
      <4> QED BY <1>1, <2>3, <4>1, ModulusIs
    <3>3. \A j \in 0 .. (Width - 1) : DigitAt(n, j) = Base - 1
      BY <1>1, <3>2, AllHighest
    <3>4. DigitAt(n, k) = Base - 1 /\ n % Power[k] = Power[k] - 1
      <4>1. \A j \in 0 .. (k - 1) : j \in 0 .. (Width - 1)
        BY <1>1
      <4>2. k \in 0 .. (Width - 1)
        BY <1>1, <2>1
      <4> HIDE DEF k
      <4> QED BY <1>1, <2>1, <3>3, <4>1, <4>2, AllHighest
    <3>5. DigitAt(0, k) = 0
      <4>1. Power[k] \in Nat /\ Power[k] > 0
        BY <2>1, PowerIs
      <4>2. 0 \div Power[k] = 0 /\ 0 % Base = 0
        BY <4>1, SuiteConstants
      <4> QED BY <4>2 DEF DigitAt
    <3>6. (DigitAt(n, k) + 1) % Base = 0
      <4>1. Base = Base * 1 + 0 /\ (Base * 1 + 0) % Base = 0
        BY SuiteConstants, DividedOnce
      <4> HIDE DEF k
      <4>2. DigitAt(n, k) + 1 = Base
        BY <3>4, SuiteConstants
      <4> QED BY <4>1, <4>2
    <3> HIDE DEF next
    <3> QED BY <3>1, <3>4, <3>5, <3>6
  <2> QED BY <1>1, <2>2, <2>3
<1> HIDE DEF next
<1>4. Inc(Digits(n)) = [i \in 1 .. Width |-> DigitAt(next, Width - i)]
  <2>1. Inc(Digits(n)) = [i \in 1 .. Width |->
          IF \A j \in (i + 1) .. Width : Digits(n)[j] = Base - 1
            THEN (Digits(n)[i] + 1) % Base ELSE Digits(n)[i]]
    BY <1>1, DigitsAre, Zenon DEF Inc
  <2>2. ASSUME NEW i \in 1 .. Width
        PROVE  (IF \A j \in (i + 1) .. Width : Digits(n)[j] = Base - 1
                  THEN (Digits(n)[i] + 1) % Base ELSE Digits(n)[i]) = DigitAt(next, Width - i)
    BY <1>1, <1>3, Carries, DigitsAre
  <2> QED BY <2>1, <2>2, Zenon
<1>5. Digits(next) = [i \in 1 .. Width |-> DigitAt(next, Width - i)]
  BY DEF Digits, DigitAt
<1> QED BY <1>2, <1>4, <1>5 DEF next

LEMMA RestAdds ==
  ASSUME NEW a \in Nat, NEW b \in Nat
  PROVE  ((a % Modulus) + b) % Modulus = (a + b) % Modulus
<1> DEFINE r == a % Modulus
           q == a \div Modulus
           r2 == (r + b) % Modulus
           q2 == (r + b) \div Modulus
<1>1. Modulus \in Nat /\ Modulus > 0
  BY ModulusIs
<1>2. a = Modulus * q + r /\ q \in Nat /\ r \in Nat
  BY <1>1, Divided
<1> HIDE DEF r, q
<1>3. r + b = Modulus * q2 + r2 /\ q2 \in Nat /\ r2 \in Nat /\ r2 < Modulus
  <2>1. r + b \in Nat
    BY <1>2
  <2> QED BY <1>1, <2>1, Divided
<1> HIDE DEF r2, q2
<1>4. a + b = Modulus * (q + q2) + r2
  <2>1. Modulus * (q + q2) = Modulus * q + Modulus * q2 /\ Modulus * q \in Nat /\ Modulus * q2 \in Nat
    BY <1>1, <1>2, <1>3
  <2> QED BY <1>2, <1>3, <2>1
<1>5. (a + b) % Modulus = r2
  <2>1. q + q2 \in Nat
    BY <1>2, <1>3
  <2>2. (Modulus * (q + q2) + r2) % Modulus = r2
    BY <1>1, <1>3, <2>1, DividedOnce
  <2> QED BY <1>4, <2>2
<1> QED BY <1>5 DEF r2, r

LEMMA RestNext ==
  ASSUME NEW n \in Nat, NEW i \in Nat
  PROVE  (((n + i) % Modulus) + 1) % Modulus = (n + (i + 1)) % Modulus
<1>1. n + i \in Nat /\ (n + i) + 1 = n + (i + 1)
  OBVIOUS
<1>2. (((n + i) % Modulus) + 1) % Modulus = ((n + i) + 1) % Modulus
  BY <1>1, RestAdds
<1> QED BY <1>1, <1>2

LEMMA RestSmall ==
  ASSUME NEW n \in 0 .. (Modulus - 1)
  PROVE  n % Modulus = n
<1>1. n \in Nat /\ n < Modulus /\ Modulus \in Nat
  BY ModulusIs
<1>2. n = Modulus * 0 + n /\ (Modulus * 0 + n) % Modulus = n
  BY <1>1, DividedOnce
<1> QED BY <1>2

\* Any number of steps of the suite's counter adds that number.
LEMMA AfterCounts ==
  ASSUME NEW n \in 0 .. (Modulus - 1), NEW k \in Nat
  PROVE  After(Digits(n), k) = Digits((n + k) % Modulus)
<1>1. n \in Nat /\ Modulus \in Nat /\ Modulus > 0
  BY ModulusIs
<1> DEFINE Def(f) == f = [i \in 0 .. k |-> IF i = 0 THEN Digits(n) ELSE Inc(f[i - 1])]
           at(i) == Digits((n + i) % Modulus)
           g == [i \in 0 .. k |-> at(i)]
<1>2. at(0) = Digits(n)
  <2>1. n + 0 = n /\ n % Modulus = n
    BY <1>1, RestSmall
  <2> QED BY <2>1
<1>3. ASSUME NEW i \in Nat PROVE Inc(at(i)) = at(i + 1)
  <2> DEFINE m == (n + i) % Modulus
  <2>1. m \in 0 .. (Modulus - 1) /\ m = (n + i) % Modulus
    BY <1>1
  <2> HIDE DEF m
  <2>2. Inc(Digits(m)) = Digits((m + 1) % Modulus)
    BY <2>1, IncCounts
  <2>3. (m + 1) % Modulus = (n + (i + 1)) % Modulus
    BY <1>1, <2>1, RestNext
  <2> QED BY <2>1, <2>2, <2>3, Zenon
<1> HIDE DEF at
<1>4. Def(g)
  <2>1. ASSUME NEW i \in 0 .. k PROVE g[i] = IF i = 0 THEN Digits(n) ELSE Inc(g[i - 1])
    <3>1. CASE i = 0
      BY <1>2, <3>1
    <3>2. CASE i # 0
      <4>1. i - 1 \in Nat /\ i - 1 \in 0 .. k /\ i - 1 + 1 = i
        BY <3>2
      <4>2. Inc(at(i - 1)) = at(i)
        BY <1>3, <4>1
      <4> QED BY <3>2, <4>1, <4>2
    <3> QED BY <3>1, <3>2
  <2>2. g = [i \in 0 .. k |-> g[i]]
    OBVIOUS
  <2> HIDE DEF g
  <2> QED BY <2>1, <2>2
<1> DEFINE c == CHOOSE f : Def(f)
<1>5. Def(c)
  <2> HIDE DEF Def, g
  <2>1. \E f : Def(f)
    BY <1>4
  <2> QED BY <2>1, Zenon
<1>6. After(Digits(n), k) = c[k]
  BY DEF After
<1> HIDE DEF c
<1>7. \A i \in 0 .. k : c[i] = IF i = 0 THEN Digits(n) ELSE Inc(c[i - 1])
  BY <1>5
<1> HIDE DEF Def, g
<1> DEFINE S == {i \in Nat : i <= k => c[i] = at(i)}
<1>8. 0 \in S
  BY <1>2, <1>7
<1>9. ASSUME NEW i \in Nat, i \in S PROVE i + 1 \in S
  <2> SUFFICES ASSUME i + 1 <= k PROVE c[i + 1] = at(i + 1)
    OBVIOUS
  <2>1. i <= k /\ i + 1 \in 0 .. k /\ i + 1 # 0 /\ i + 1 - 1 = i
    OBVIOUS
  <2>2. c[i + 1] = Inc(c[i])
    BY <1>7, <2>1
  <2> QED BY <1>3, <1>9, <2>1, <2>2
<1> HIDE DEF S
<1>10. k \in S
  BY <1>8, <1>9, Induction
<1>11. c[k] = at(k)
  BY <1>10 DEF S
<1> QED BY <1>6, <1>11 DEF at

\* Numbers below the modulus have digits of their own.
LEMMA DigitsDiffer ==
  ASSUME NEW n \in 0 .. (Modulus - 1), NEW m \in 0 .. (Modulus - 1), Digits(n) = Digits(m)
  PROVE  n = m
<1>1. n \in Nat /\ m \in Nat /\ Width \in Nat
  BY ModulusIs, SuiteConstants
<1>2. ASSUME NEW k \in Nat, k < Width PROVE DigitAt(n, k) = DigitAt(m, k)
  <2>1. Width - k \in 1 .. Width /\ Width - (Width - k) = k
    BY <1>1, <1>2
  <2>2. Digits(n)[Width - k] = DigitAt(n, k) /\ Digits(m)[Width - k] = DigitAt(m, k)
    BY <1>1, <2>1, DigitsAre
  <2> QED BY <2>2
<1> DEFINE S == {k \in Nat : k <= Width => n % Power[k] = m % Power[k]}
<1>3. 0 \in S
  <2>1. Power[0] = 1 /\ n % 1 = 0 /\ m % 1 = 0
    BY <1>1, PowerIs
  <2> QED BY <2>1
<1>4. ASSUME NEW k \in Nat, k \in S PROVE k + 1 \in S
  <2> SUFFICES ASSUME k + 1 <= Width PROVE n % Power[k + 1] = m % Power[k + 1]
    OBVIOUS
  <2>1. k < Width /\ k <= Width
    BY <1>1
  <2>2. n % Power[k + 1] = Power[k] * DigitAt(n, k) + (n % Power[k])
    BY <1>1, <2>1, RestSteps
  <2>3. m % Power[k + 1] = Power[k] * DigitAt(m, k) + (m % Power[k])
    BY <1>1, <2>1, RestSteps
  <2>4. n % Power[k] = m % Power[k]
    BY <1>4, <2>1
  <2>5. DigitAt(n, k) = DigitAt(m, k)
    BY <1>2, <2>1
  <2> QED BY <2>2, <2>3, <2>4, <2>5, Zenon
<1> HIDE DEF S
<1>5. Width \in S
  BY <1>1, <1>3, <1>4, Induction
<1>6. n % Modulus = m % Modulus
  BY <1>5, ModulusIs DEF S
<1> QED BY <1>6, RestSmall

\* Before a whole turn no number comes back.
LEMMA TurnsApart ==
  ASSUME NEW a \in Nat, NEW b \in Nat, a < b, b < a + Modulus
  PROVE  a % Modulus # b % Modulus
<1> DEFINE qa == a \div Modulus
           qb == b \div Modulus
           r == a % Modulus
<1>1. Modulus \in Nat /\ Modulus > 0
  BY ModulusIs
<1> SUFFICES ASSUME b % Modulus = r PROVE FALSE
  OBVIOUS
<1>2. a = Modulus * qa + r /\ qa \in Nat /\ r \in Nat
  BY <1>1, Divided
<1>3. b = Modulus * qb + r /\ qb \in Nat
  BY <1>1, Divided
<1> HIDE DEF qa, qb, r
<1>4. CASE qb <= qa
  <2>1. Modulus * qb <= Modulus * qa /\ Modulus * qb \in Nat /\ Modulus * qa \in Nat
    BY <1>1, <1>2, <1>3, <1>4
  <2> QED BY <1>2, <1>3, <2>1
<1>5. CASE qb > qa
  <2>1. qa + 1 <= qb
    BY <1>2, <1>3, <1>5
  <2>2. Modulus * (qa + 1) <= Modulus * qb
    BY <1>1, <1>2, <1>3, <2>1
  <2>3. Modulus * (qa + 1) = Modulus * qa + Modulus /\ Modulus * qa \in Nat /\ Modulus * qb \in Nat
    BY <1>1, <1>2, <1>3
  <2> QED BY <1>1, <1>2, <1>3, <2>2, <2>3
<1> QED BY <1>2, <1>3, <1>4, <1>5

-----------------------------------------------------------------------------
(* Ciphers *)

LEMMA XorTwice ==
  ASSUME NEW x, NEW y
  PROVE  Xor(Xor(x, y), y) = x
  BY DEF Xor

LEMMA Inverse1 ==
  ASSUME NEW k, NEW x
  PROVE  D(k, E(k, x)) = x
<1> DEFINE t == <<"E", k, x>>
           c == {t}
<1>1. t[1] = "E" /\ t[2] = k /\ t[3] = x
  OBVIOUS
<1>2. E(k, x) = c
  BY DEF E
<1> HIDE DEF t
<1>3. \E u \in c : c = {u} /\ u[1] = "E" /\ u[2] = k
  BY <1>1
<1>4. (CHOOSE u \in c : TRUE) = t
  <2>1. (CHOOSE u \in c : TRUE) \in c
    <3>1. \E u : u \in c /\ TRUE
      OBVIOUS
    <3>2. (CHOOSE u : u \in c /\ TRUE) \in c
      BY <3>1, Zenon
    <3> QED BY <3>2, Zenon
  <2> QED BY <2>1
<1> HIDE DEF c
<1> QED BY <1>1, <1>2, <1>3, <1>4, Zenon DEF D

Chain(f, n, iv, blocks) ==
  f = [i \in 0 .. n |-> IF i = 0 THEN iv ELSE E("enc", Xor(blocks[i], f[i - 1]))]

\* The chain of ciphertexts of CBC exists, for a message of any length.
LEMMA ChainThere ==
  ASSUME NEW n \in Nat, NEW iv, NEW blocks
  PROVE  \E f : Chain(f, n, iv, blocks)
<1> DEFINE Next1(i, x) == E("enc", Xor(blocks[i], x))
<1> HIDE DEF Next1
<1> DEFINE Good(f, m) == f = [i \in 0 .. m |-> IF i = 0 THEN iv ELSE Next1(i, f[i - 1])]
           S == {m \in Nat : \E f : Good(f, m)}
<1>1. 0 \in S
  <2> DEFINE f == [i \in 0 .. 0 |-> iv]
  <2>1. f = [i \in 0 .. 0 |-> IF i = 0 THEN iv ELSE Next1(i, f[i - 1])]
    OBVIOUS
  <2> QED BY <2>1
<1>2. ASSUME NEW m \in Nat, m \in S PROVE m + 1 \in S
  <2>1. PICK f : Good(f, m)
    BY <1>2
  <2> DEFINE g == [i \in 0 .. (m + 1) |-> IF i = m + 1 THEN Next1(m + 1, f[m]) ELSE f[i]]
  <2>2. \A i \in 0 .. m : f[i] = (IF i = 0 THEN iv ELSE Next1(i, f[i - 1]))
    BY <2>1
  <2>3. ASSUME NEW i \in 0 .. (m + 1) PROVE g[i] = IF i = 0 THEN iv ELSE Next1(i, g[i - 1])
    <3>1. CASE i = m + 1
      <4>1. i - 1 = m /\ i # 0 /\ m \in 0 .. (m + 1) /\ m # m + 1
        BY <3>1
      <4>2. g[i] = Next1(m + 1, f[m]) /\ g[m] = f[m]
        BY <3>1, <4>1
      <4> QED BY <3>1, <4>1, <4>2
    <3>2. CASE i # m + 1 /\ i # 0
      <4>1. i \in 0 .. m /\ i - 1 \in 0 .. (m + 1) /\ i - 1 # m + 1
        BY <3>2
      <4>2. g[i] = f[i] /\ g[i - 1] = f[i - 1]
        BY <3>2, <4>1
      <4> QED BY <2>2, <3>2, <4>1, <4>2
    <3>3. CASE i = 0
      <4>1. 0 \in 0 .. m /\ 0 \in 0 .. (m + 1) /\ 0 # m + 1
        OBVIOUS
      <4>2. g[0] = f[0] /\ f[0] = iv
        BY <2>2, <4>1
      <4> QED BY <3>3, <4>2
    <3> QED BY <3>1, <3>2, <3>3
  <2>4. g = [i \in 0 .. (m + 1) |-> g[i]]
    OBVIOUS
  <2> HIDE DEF g
  <2>5. Good(g, m + 1)
    BY <2>3, <2>4
  <2> QED BY <2>5
<1> HIDE DEF S
<1>3. n \in S
  BY <1>1, <1>2, Induction
<1>4. PICK f : Good(f, n)
  BY <1>3 DEF S
<1> QED BY <1>4 DEF Next1, Chain

\* CBC as an equation between neighbours.
LEMMA CbcIs ==
  ASSUME NEW iv, NEW blocks, Len(blocks) \in Nat, DOMAIN blocks = 1 .. Len(blocks)
  PROVE  /\ AesCbcEncrypt(iv, blocks) = [i \in 1 .. Len(blocks) |-> AesCbcEncrypt(iv, blocks)[i]]
         /\ DOMAIN AesCbcEncrypt(iv, blocks) = 1 .. Len(blocks)
         /\ \A i \in 1 .. Len(blocks) :
              AesCbcEncrypt(iv, blocks)[i] =
                E("enc", Xor(blocks[i], IF i = 1 THEN iv ELSE AesCbcEncrypt(iv, blocks)[i - 1]))
<1> DEFINE Chained(i, x) == E("enc", Xor(blocks[i], x))
           c == CHOOSE f : Chain(f, Len(blocks), iv, blocks)
           out == AesCbcEncrypt(iv, blocks)
<1>1. Chain(c, Len(blocks), iv, blocks)
  BY ChainThere, Zenon
<1>2. out = [i \in 1 .. Len(blocks) |-> c[i]]
  <2>1. out = [i \in DOMAIN blocks |-> c[i]]
    BY Zenon DEF AesCbcEncrypt, Chain
  <2> HIDE DEF c, out
  <2> QED BY <2>1, Zenon
<1> HIDE DEF c, out
<1>3. c = [i \in 0 .. Len(blocks) |-> IF i = 0 THEN iv ELSE Chained(i, c[i - 1])]
  BY <1>1 DEF Chain
<1> HIDE DEF Chained
<1>4. \A i \in 0 .. Len(blocks) : c[i] = IF i = 0 THEN iv ELSE Chained(i, c[i - 1])
  BY <1>3
<1>5. ASSUME NEW i \in 1 .. Len(blocks) PROVE out[i] = Chained(i, IF i = 1 THEN iv ELSE out[i - 1])
  <2>1. i \in 0 .. Len(blocks) /\ i # 0 /\ out[i] = Chained(i, c[i - 1])
    BY <1>2, <1>4
  <2>2. CASE i = 1
    <3>1. 0 \in 0 .. Len(blocks) /\ i - 1 = 0
      BY <2>2
    <3>2. c[0] = iv
      BY <1>4, <3>1
    <3> QED BY <2>1, <2>2, <3>1, <3>2
  <2>3. CASE i # 1
    <3>1. i - 1 \in 1 .. Len(blocks)
      BY <2>3
    <3> QED BY <1>2, <2>1, <2>3, <3>1
  <2> QED BY <2>2, <2>3
<1>6. out = [i \in 1 .. Len(blocks) |-> out[i]] /\ DOMAIN out = 1 .. Len(blocks)
  BY <1>2
<1> QED BY <1>5, <1>6, Zenon DEF Chained, out

\* What CBC encrypts, it decrypts.
LEMMA CbcRecovers ==
  ASSUME NEW iv, NEW blocks, Len(blocks) \in Nat, DOMAIN blocks = 1 .. Len(blocks)
  PROVE  /\ DOMAIN AesCbcEncrypt(iv, blocks) = 1 .. Len(blocks)
         /\ \A i \in 1 .. Len(blocks) :
              Xor(D("enc", AesCbcEncrypt(iv, blocks)[i]),
                  IF i = 1 THEN iv ELSE AesCbcEncrypt(iv, blocks)[i - 1]) = blocks[i]
<1> DEFINE c == AesCbcEncrypt(iv, blocks)
           before(i) == IF i = 1 THEN iv ELSE c[i - 1]
<1>1. /\ DOMAIN c = 1 .. Len(blocks)
      /\ \A i \in 1 .. Len(blocks) : c[i] = E("enc", Xor(blocks[i], before(i)))
  BY CbcIs, ZenonT(60)
<1> HIDE DEF before, c
<1>2. ASSUME NEW i \in 1 .. Len(blocks) PROVE Xor(D("enc", c[i]), before(i)) = blocks[i]
  <2>1. D("enc", c[i]) = Xor(blocks[i], before(i))
    BY <1>1, Inverse1, Zenon
  <2> QED BY <2>1, XorTwice, Zenon
<1> QED BY <1>1, <1>2, Zenon DEF before, c

-----------------------------------------------------------------------------
(* Session vectors *)

VectorBytes == SUBSET ({"a", "b", "const"} \X Nat)

HasA(i, x) == <<"a", i>> \in x
HasB(i, x) == <<"b", i>> \in x

LEMMA VectorBytesAre ==
  ASSUME NEW i \in Nat
  PROVE  RndA(i) \in VectorBytes /\ RndB(i) \in VectorBytes /\ Const(i) \in VectorBytes
<1>1. <<"a", i>> \in {"a", "b", "const"} \X Nat
  OBVIOUS
<1>2. <<"b", i>> \in {"a", "b", "const"} \X Nat
  OBVIOUS
<1>3. <<"const", i>> \in {"a", "b", "const"} \X Nat
  OBVIOUS
<1> QED BY <1>1, <1>2, <1>3 DEF RndA, RndB, Const, VectorBytes

LEMMA XorIs ==
  ASSUME NEW x \in VectorBytes, NEW y \in VectorBytes, NEW i
  PROVE  /\ Xor(x, y) \in VectorBytes
         /\ HasA(i, Xor(x, y)) <=> ~(HasA(i, x) <=> HasA(i, y))
         /\ HasB(i, Xor(x, y)) <=> ~(HasB(i, x) <=> HasB(i, y))
<1>1. Xor(x, y) \in VectorBytes
  BY DEF Xor, VectorBytes
<1>2. /\ HasA(i, Xor(x, y)) <=> ~(HasA(i, x) <=> HasA(i, y))
      /\ HasB(i, Xor(x, y)) <=> ~(HasB(i, x) <=> HasB(i, y))
  BY Zenon DEF Xor, HasA, HasB
<1> QED BY <1>1, <1>2

LEMMA HasIs ==
  ASSUME NEW i, NEW j
  PROVE  /\ HasA(i, RndA(j)) <=> i = j
         /\ HasB(i, RndB(j)) <=> i = j
         /\ ~HasA(i, RndB(j)) /\ ~HasB(i, RndA(j)) /\ ~HasA(i, Const(j)) /\ ~HasB(i, Const(j))
  BY DEF HasA, HasB, RndA, RndB, Const

LEMMA Concatenated ==
  ASSUME NEW S, NEW s \in Seq(S), NEW t \in Seq(S)
  PROVE  /\ s \o t \in Seq(S) /\ Len(s \o t) = Len(s) + Len(t)
         /\ \A i \in 1 .. Len(s) : (s \o t)[i] = s[i]
         /\ \A i \in 1 .. Len(t) : (s \o t)[Len(s) + i] = t[i]
<1>1. s \o t \in Seq(S) /\ Len(s \o t) = Len(s) + Len(t)
  OBVIOUS
<1>2. ASSUME NEW i \in 1 .. Len(s) PROVE (s \o t)[i] = s[i]
  OBVIOUS
<1>3. ASSUME NEW i \in 1 .. Len(t) PROVE (s \o t)[Len(s) + i] = t[i]
  OBVIOUS
<1> QED BY <1>1, <1>2, <1>3

LEMMA SequenceIs ==
  ASSUME NEW S, NEW n \in Nat, NEW s, s = [i \in 1 .. n |-> s[i]], \A i \in 1 .. n : s[i] \in S
  PROVE  s \in Seq(S) /\ Len(s) = n
  OBVIOUS

LEMMA ConstsDiffer ==
  ASSUME NEW x, NEW y, x # y
  PROVE  Const(x) # Const(y)
<1> DEFINE t == <<"const", x>>
           u == <<"const", y>>
<1>1. t[2] = x /\ u[2] = y
  OBVIOUS
<1> HIDE DEF t, u
<1>2. {t} # {u}
  BY <1>1
<1> QED BY <1>2, Zenon DEF Const, t, u

\* The bytes of the randoms, by their places.
LEMMA RandomsAre ==
  /\ Randoms \in Seq(VectorBytes) /\ Len(Randoms) = 26
  /\ \A i \in 1 .. 2 : Randoms[i] = RndA(i - 1)
  /\ \A i \in 1 .. 6 : Randoms[2 + i] = Xor(RndA(1 + i), RndB(i - 1))
  /\ \A i \in 1 .. 10 : Randoms[8 + i] = RndB(5 + i)
  /\ \A i \in 1 .. 8 : Randoms[18 + i] = RndA(7 + i)
<1> DEFINE first == As(0, 2)
           bs == Bs(6, 16)
           last == As(8, 16)
<1>1. first \in Seq(VectorBytes) /\ Len(first) = 2 /\ \A i \in 1 .. 2 : first[i] = RndA(i - 1)
  <2>1. first = [i \in 1 .. 2 |-> RndA(i - 1)]
    BY DEF As
  <2>2. \A i \in 1 .. 2 : RndA(i - 1) \in VectorBytes
    BY VectorBytesAre
  <2>3. \A i \in 1 .. 2 : first[i] \in VectorBytes
    BY <2>1, <2>2
  <2>4. first = [i \in 1 .. 2 |-> first[i]] /\ 2 \in Nat
    BY <2>1
  <2> HIDE DEF first
  <2> QED BY <2>1, <2>3, <2>4, SequenceIs
<1>2. Mixed \in Seq(VectorBytes) /\ Len(Mixed) = 6
      /\ \A i \in 1 .. 6 : Mixed[i] = Xor(RndA(1 + i), RndB(i - 1))
  <2>1. Mixed = [i \in 1 .. 6 |-> Xor(RndA(1 + i), RndB(i - 1))]
    BY DEF Mixed
  <2>2. \A i \in 1 .. 6 : Xor(RndA(1 + i), RndB(i - 1)) \in VectorBytes
    BY VectorBytesAre, XorIs
  <2>3. \A i \in 1 .. 6 : Mixed[i] \in VectorBytes
    BY <2>1, <2>2
  <2>4. Mixed = [i \in 1 .. 6 |-> Mixed[i]] /\ 6 \in Nat
    BY <2>1
  <2> QED BY <2>1, <2>3, <2>4, SequenceIs
<1>3. bs \in Seq(VectorBytes) /\ Len(bs) = 10 /\ \A i \in 1 .. 10 : bs[i] = RndB(5 + i)
  <2>1. bs = [i \in 1 .. 10 |-> RndB(5 + i)]
    BY DEF Bs
  <2>2. \A i \in 1 .. 10 : RndB(5 + i) \in VectorBytes
    BY VectorBytesAre
  <2>3. \A i \in 1 .. 10 : bs[i] \in VectorBytes
    BY <2>1, <2>2
  <2>4. bs = [i \in 1 .. 10 |-> bs[i]] /\ 10 \in Nat
    BY <2>1
  <2> HIDE DEF bs
  <2> QED BY <2>1, <2>3, <2>4, SequenceIs
<1>4. last \in Seq(VectorBytes) /\ Len(last) = 8 /\ \A i \in 1 .. 8 : last[i] = RndA(7 + i)
  <2>1. last = [i \in 1 .. 8 |-> RndA(7 + i)]
    BY DEF As
  <2>2. \A i \in 1 .. 8 : RndA(7 + i) \in VectorBytes
    BY VectorBytesAre
  <2>3. \A i \in 1 .. 8 : last[i] \in VectorBytes
    BY <2>1, <2>2
  <2>4. last = [i \in 1 .. 8 |-> last[i]] /\ 8 \in Nat
    BY <2>1
  <2> HIDE DEF last
  <2> QED BY <2>1, <2>3, <2>4, SequenceIs
<1>5. Randoms = first \o Mixed \o bs \o last
  BY DEF Randoms
<1> HIDE DEF first, bs, last
<1> DEFINE two == first \o Mixed
           three == two \o bs
           all == three \o last
<1>6. /\ two \in Seq(VectorBytes) /\ Len(two) = 8
      /\ \A i \in 1 .. 2 : two[i] = first[i]
      /\ \A i \in 1 .. 6 : two[2 + i] = Mixed[i]
  <2>1. first \in Seq(VectorBytes) /\ Mixed \in Seq(VectorBytes)
    BY <1>1, <1>2
  <2>2. /\ two \in Seq(VectorBytes) /\ Len(two) = Len(first) + Len(Mixed)
        /\ \A i \in 1 .. Len(first) : two[i] = first[i]
        /\ \A i \in 1 .. Len(Mixed) : two[Len(first) + i] = Mixed[i]
    BY <2>1, Concatenated
  <2>3. Len(first) = 2 /\ Len(Mixed) = 6
    BY <1>1, <1>2
  <2> HIDE DEF two
  <2> QED BY <2>2, <2>3
<1> HIDE DEF two
<1>7. /\ three \in Seq(VectorBytes) /\ Len(three) = 18
      /\ \A i \in 1 .. 8 : three[i] = two[i]
      /\ \A i \in 1 .. 10 : three[8 + i] = bs[i]
  <2>1. two \in Seq(VectorBytes) /\ bs \in Seq(VectorBytes)
    BY <1>6, <1>3
  <2>2. /\ three \in Seq(VectorBytes) /\ Len(three) = Len(two) + Len(bs)
        /\ \A i \in 1 .. Len(two) : three[i] = two[i]
        /\ \A i \in 1 .. Len(bs) : three[Len(two) + i] = bs[i]
    BY <2>1, Concatenated
  <2>3. Len(two) = 8 /\ Len(bs) = 10
    BY <1>6, <1>3
  <2> HIDE DEF three
  <2> QED BY <2>2, <2>3
<1> HIDE DEF three
<1>8. /\ all \in Seq(VectorBytes) /\ Len(all) = 26
      /\ \A i \in 1 .. 18 : all[i] = three[i]
      /\ \A i \in 1 .. 8 : all[18 + i] = last[i]
  <2>1. three \in Seq(VectorBytes) /\ last \in Seq(VectorBytes)
    BY <1>7, <1>4
  <2>2. /\ all \in Seq(VectorBytes) /\ Len(all) = Len(three) + Len(last)
        /\ \A i \in 1 .. Len(three) : all[i] = three[i]
        /\ \A i \in 1 .. Len(last) : all[Len(three) + i] = last[i]
    BY <2>1, Concatenated
  <2>3. Len(three) = 18 /\ Len(last) = 8
    BY <1>7, <1>4
  <2> HIDE DEF all
  <2> QED BY <2>2, <2>3
<1>9. Randoms = all
  BY <1>5 DEF two, three
<1> HIDE DEF all
<1>10. ASSUME NEW i \in 1 .. 2 PROVE all[i] = RndA(i - 1)
  <2>1. all[i] = three[i]
    BY <1>8, SMTT(30)
  <2>2. three[i] = two[i]
    BY <1>7
  <2>3. two[i] = first[i] /\ first[i] = RndA(i - 1)
    BY <1>1, <1>6
  <2> QED BY <2>1, <2>2, <2>3
<1>11. ASSUME NEW i \in 1 .. 6 PROVE all[2 + i] = Xor(RndA(1 + i), RndB(i - 1))
  <2>1. all[2 + i] = three[2 + i]
    <3>1. 2 + i \in 1 .. 18
      OBVIOUS
    <3> QED BY <1>8, <3>1
  <2>2. three[2 + i] = two[2 + i]
    BY <1>7
  <2>3. two[2 + i] = Mixed[i] /\ Mixed[i] = Xor(RndA(1 + i), RndB(i - 1))
    BY <1>2, <1>6
  <2> QED BY <2>1, <2>2, <2>3
<1>12. ASSUME NEW i \in 1 .. 10 PROVE all[8 + i] = RndB(5 + i)
  <2>1. all[8 + i] = three[8 + i]
    <3>1. 8 + i \in 1 .. 18
      OBVIOUS
    <3> QED BY <1>8, <3>1
  <2>2. three[8 + i] = bs[i] /\ bs[i] = RndB(5 + i)
    BY <1>3, <1>7
  <2> QED BY <2>1, <2>2
<1>13. ASSUME NEW i \in 1 .. 8 PROVE all[18 + i] = RndA(7 + i)
  BY <1>4, <1>8
<1> QED BY <1>8, <1>9, <1>10, <1>11, <1>12, <1>13, Zenon

PlaceOfA(i) == IF i < 8 THEN i + 1 ELSE i + 11
PlaceOfB(i) == i + 3

\* Each byte of a random has just one place.
LEMMA PlacesOf ==
  ASSUME NEW i \in 0 .. 15, NEW k \in 1 .. 26
  PROVE  /\ HasA(i, Randoms[k]) <=> k = PlaceOfA(i)
         /\ HasB(i, Randoms[k]) <=> k = PlaceOfB(i)
<1>1. CASE k \in 1 .. 2
  <2>1. Randoms[k] = RndA(k - 1)
    BY <1>1, RandomsAre
  <2> QED BY <1>1, <2>1, HasIs DEF PlaceOfA, PlaceOfB
<1>2. CASE k \in 3 .. 8
  <2>1. k - 2 \in 1 .. 6 /\ 2 + (k - 2) = k /\ 1 + (k - 2) = k - 1 /\ (k - 2) - 1 = k - 3
    BY <1>2
  <2>2. Randoms[k] = Xor(RndA(k - 1), RndB(k - 3)) /\ k - 1 \in Nat /\ k - 3 \in Nat
    <3> DEFINE i2 == k - 2
    <3>1. i2 \in 1 .. 6 /\ 2 + i2 = k /\ 1 + i2 = k - 1 /\ i2 - 1 = k - 3
      BY <2>1
    <3> HIDE DEF i2
    <3>2. Randoms[2 + i2] = Xor(RndA(1 + i2), RndB(i2 - 1))
      BY <3>1, RandomsAre
    <3> QED BY <1>2, <3>1, <3>2
  <2>3. /\ HasA(i, Randoms[k]) <=> i = k - 1
        /\ HasB(i, Randoms[k]) <=> i = k - 3
    BY <2>2, VectorBytesAre, XorIs, HasIs
  <2> QED BY <1>2, <2>3 DEF PlaceOfA, PlaceOfB
<1>3. CASE k \in 9 .. 18
  <2>1. k - 8 \in 1 .. 10 /\ 8 + (k - 8) = k /\ 5 + (k - 8) = k - 3
    BY <1>3
  <2>2. Randoms[k] = RndB(k - 3)
    BY <2>1, RandomsAre
  <2> QED BY <1>3, <2>2, HasIs DEF PlaceOfA, PlaceOfB
<1>4. CASE k \in 19 .. 26
  <2>1. k - 18 \in 1 .. 8 /\ 18 + (k - 18) = k /\ 7 + (k - 18) = k - 11
    BY <1>4
  <2>2. Randoms[k] = RndA(k - 11)
    BY <2>1, RandomsAre
  <2> QED BY <1>4, <2>2, HasIs DEF PlaceOfA, PlaceOfB
<1> QED BY <1>1, <1>2, <1>3, <1>4

\* So has each in a vector that has the randoms from some place on, and
\* constants elsewhere.
BytesOnce(v) ==
  /\ Len(v) = 32
  /\ \A i \in 0 .. 15 :
       /\ \E p \in 1 .. 32 : {j \in 1 .. 32 : HasA(i, v[j])} = {p}
       /\ \E p \in 1 .. 32 : {j \in 1 .. 32 : HasB(i, v[j])} = {p}

LEMMA VectorIsWhole ==
  ASSUME NEW v, Len(v) = 32, NEW off \in 0 .. 6,
         \A k \in 1 .. 26 : v[off + k] = Randoms[k],
         \A j \in (1 .. off) \union ((off + 27) .. 32) : \E c : v[j] = Const(c)
  PROVE  BytesOnce(v)
<1>1. ASSUME NEW i \in 0 .. 15, NEW j \in 1 .. 32
      PROVE  /\ HasA(i, v[j]) <=> j = off + PlaceOfA(i)
             /\ HasB(i, v[j]) <=> j = off + PlaceOfB(i)
  <2>0. PlaceOfA(i) \in 1 .. 26 /\ PlaceOfB(i) \in 1 .. 26
    BY DEF PlaceOfA, PlaceOfB
  <2>1. CASE j - off \in 1 .. 26
    <3>1. off + (j - off) = j
      OBVIOUS
    <3>2. v[j] = Randoms[j - off]
      BY <2>1, <3>1
    <3> QED BY <2>0, <2>1, <3>1, <3>2, PlacesOf, SMTT(30)
  <2>2. CASE j \in 1 .. off \/ j \in (off + 27) .. 32
    <3>1. PICK c : v[j] = Const(c)
      BY <2>2
    <3> QED BY <2>0, <2>2, <3>1, HasIs
  <2> QED BY <2>1, <2>2
<1>2. ASSUME NEW i \in 0 .. 15
      PROVE  off + PlaceOfA(i) \in 1 .. 32 /\ off + PlaceOfB(i) \in 1 .. 32
  BY DEF PlaceOfA, PlaceOfB
<1>3. ASSUME NEW i \in 0 .. 15
      PROVE  /\ {j \in 1 .. 32 : HasA(i, v[j])} = {off + PlaceOfA(i)}
             /\ {j \in 1 .. 32 : HasB(i, v[j])} = {off + PlaceOfB(i)}
  BY <1>1, <1>2
<1> QED BY <1>2, <1>3, Zenon DEF BytesOnce

LEMMA WholeCounts ==
  ASSUME NEW v, BytesOnce(v)
  PROVE  /\ Len(v) = 32
         /\ \A r \in {"a", "b"}, i \in 0 .. 15 :
              Cardinality({j \in 1 .. 32 : <<r, i>> \in v[j]}) = 1
<1>1. ASSUME NEW r \in {"a", "b"}, NEW i \in 0 .. 15
      PROVE  Cardinality({j \in 1 .. 32 : <<r, i>> \in v[j]}) = 1
  <2>1. CASE r = "a"
    <3>1. PICK p \in 1 .. 32 : {j \in 1 .. 32 : HasA(i, v[j])} = {p}
      BY DEF BytesOnce
    <3>2. {j \in 1 .. 32 : <<r, i>> \in v[j]} = {p}
      BY <2>1, <3>1, ZenonT(60) DEF HasA
    <3> QED BY <3>2, FS_Singleton, ZenonT(60)
  <2>2. CASE r = "b"
    <3>1. PICK p \in 1 .. 32 : {j \in 1 .. 32 : HasB(i, v[j])} = {p}
      BY DEF BytesOnce
    <3>2. {j \in 1 .. 32 : <<r, i>> \in v[j]} = {p}
      BY <2>2, <3>1, Zenon DEF HasB
    <3> QED BY <3>2, FS_Singleton, Zenon
  <2> QED BY <2>1, <2>2, Zenon
<1> QED BY <1>1, Zenon DEF BytesOnce

LEMMA LrpIsWhole == BytesOnce(SessionVectorLrp)
<1> DEFINE tail == <<Const(150), Const(105)>>
           front == Fixed \o Randoms
           v == front \o tail
<1>1. tail \in Seq(VectorBytes) /\ Len(tail) = 2 /\ \A j \in 1 .. 2 : \E c : tail[j] = Const(c)
  <2>1. Const(150) \in VectorBytes /\ Const(105) \in VectorBytes
    BY VectorBytesAre
  <2> QED BY <2>1
<1>2. Fixed \in Seq(VectorBytes) /\ Len(Fixed) = 4 /\ \A j \in 1 .. 4 : \E c : Fixed[j] = Const(c)
  <2>1. Const(0) \in VectorBytes /\ Const(1) \in VectorBytes /\ Const(128) \in VectorBytes
    BY VectorBytesAre
  <2> QED BY <2>1 DEF Fixed
<1>3. 4 + 26 = 30 /\ 30 + 2 = 32 /\ 4 \in Nat /\ 26 \in Nat /\ 30 \in Nat /\ 2 \in Nat
  OBVIOUS
<1>4. SessionVectorLrp = v
  BY DEF SessionVectorLrp
<1> HIDE DEF tail
<1>5. /\ front \in Seq(VectorBytes) /\ Len(front) = 30
      /\ \A i \in 1 .. 4 : front[i] = Fixed[i]
      /\ \A i \in 1 .. 26 : front[4 + i] = Randoms[i]
  <2>1. Fixed \in Seq(VectorBytes) /\ Randoms \in Seq(VectorBytes)
    BY <1>2, RandomsAre
  <2>2. /\ front \in Seq(VectorBytes) /\ Len(front) = Len(Fixed) + Len(Randoms)
        /\ \A i \in 1 .. Len(Fixed) : front[i] = Fixed[i]
        /\ \A i \in 1 .. Len(Randoms) : front[Len(Fixed) + i] = Randoms[i]
    BY <2>1, Concatenated
  <2>3. Len(Fixed) = 4 /\ Len(Randoms) = 26
    BY <1>2, RandomsAre
  <2> HIDE DEF front
  <2> QED BY <2>2, <2>3
<1> HIDE DEF front
<1>6. /\ Len(v) = 32
      /\ \A i \in 1 .. 30 : v[i] = front[i]
      /\ \A i \in 1 .. 2 : v[30 + i] = tail[i]
  <2>1. front \in Seq(VectorBytes) /\ tail \in Seq(VectorBytes)
    BY <1>5, <1>1
  <2>2. /\ v \in Seq(VectorBytes) /\ Len(v) = Len(front) + Len(tail)
        /\ \A i \in 1 .. Len(front) : v[i] = front[i]
        /\ \A i \in 1 .. Len(tail) : v[Len(front) + i] = tail[i]
    BY <2>1, Concatenated
  <2>3. Len(front) = 30 /\ Len(tail) = 2
    BY <1>5, <1>1
  <2> HIDE DEF v
  <2> QED BY <2>2, <2>3
<1> HIDE DEF v
<1>7. \A k \in 1 .. 26 : v[4 + k] = Randoms[k]
  <2>1. \A k \in 1 .. 26 : 4 + k \in 1 .. 30
    OBVIOUS
  <2> QED BY <1>5, <1>6, <2>1, ZenonT(60)
<1>8. ASSUME NEW j \in (1 .. 4) \union ((4 + 27) .. 32) PROVE \E c : v[j] = Const(c)
  <2>1. CASE j \in 1 .. 4
    <3>1. j \in 1 .. 30
      BY <2>1
    <3>2. PICK c : Fixed[j] = Const(c)
      BY <1>2, <2>1
    <3>3. front[j] = Fixed[j] /\ v[j] = front[j]
      BY <1>5, <1>6, <2>1, <3>1
    <3> QED BY <3>2, <3>3
  <2>2. CASE j \in 31 .. 32
    <3>1. j - 30 \in 1 .. 2 /\ 30 + (j - 30) = j
      BY <2>2
    <3>2. PICK c : tail[j - 30] = Const(c)
      BY <1>1, <3>1
    <3>3. v[30 + (j - 30)] = tail[j - 30]
      BY <1>6, <3>1
    <3> QED BY <3>1, <3>2, <3>3
  <2> QED BY <2>1, <2>2
<1> QED BY <1>4, <1>6, <1>7, <1>8, VectorIsWhole

LEMMA AesIsWhole ==
  ASSUME NEW x \in Nat, NEW y \in Nat
  PROVE  BytesOnce(SessionVectorAes(<<x, y>>)) /\ SessionVectorAes(<<x, y>>)[1] = Const(x)
<1> DEFINE label == <<Const(x), Const(y)>>
           front == label \o Fixed
           v == front \o Randoms
<1>1. label \in Seq(VectorBytes) /\ Len(label) = 2 /\ \A j \in 1 .. 2 : \E c : label[j] = Const(c)
  <2>1. Const(x) \in VectorBytes /\ Const(y) \in VectorBytes
    BY VectorBytesAre
  <2> QED BY <2>1
<1>2. Fixed \in Seq(VectorBytes) /\ Len(Fixed) = 4 /\ \A j \in 1 .. 4 : \E c : Fixed[j] = Const(c)
  <2>1. Const(0) \in VectorBytes /\ Const(1) \in VectorBytes /\ Const(128) \in VectorBytes
    BY VectorBytesAre
  <2> QED BY <2>1 DEF Fixed
<1>3. 2 + 4 = 6 /\ 6 + 26 = 32 /\ 4 \in Nat /\ 26 \in Nat /\ 6 \in Nat /\ 2 \in Nat
  OBVIOUS
<1>4. SessionVectorAes(<<x, y>>) = v /\ label[1] = Const(x)
  BY DEF SessionVectorAes
<1> HIDE DEF label
<1>5. /\ front \in Seq(VectorBytes) /\ Len(front) = 6
      /\ \A i \in 1 .. 2 : front[i] = label[i]
      /\ \A i \in 1 .. 4 : front[2 + i] = Fixed[i]
  <2>1. label \in Seq(VectorBytes) /\ Fixed \in Seq(VectorBytes)
    BY <1>1, <1>2
  <2>2. /\ front \in Seq(VectorBytes) /\ Len(front) = Len(label) + Len(Fixed)
        /\ \A i \in 1 .. Len(label) : front[i] = label[i]
        /\ \A i \in 1 .. Len(Fixed) : front[Len(label) + i] = Fixed[i]
    BY <2>1, Concatenated
  <2>3. Len(label) = 2 /\ Len(Fixed) = 4
    BY <1>1, <1>2
  <2> HIDE DEF front
  <2> QED BY <2>2, <2>3
<1> HIDE DEF front
<1>6. /\ Len(v) = 32
      /\ \A i \in 1 .. 6 : v[i] = front[i]
      /\ \A i \in 1 .. 26 : v[6 + i] = Randoms[i]
  <2>1. front \in Seq(VectorBytes) /\ Randoms \in Seq(VectorBytes)
    BY <1>5, RandomsAre
  <2>2. /\ v \in Seq(VectorBytes) /\ Len(v) = Len(front) + Len(Randoms)
        /\ \A i \in 1 .. Len(front) : v[i] = front[i]
        /\ \A i \in 1 .. Len(Randoms) : v[Len(front) + i] = Randoms[i]
    BY <2>1, Concatenated
  <2>3. Len(front) = 6 /\ Len(Randoms) = 26
    BY <1>5, RandomsAre
  <2> HIDE DEF v
  <2> QED BY <2>2, <2>3
<1> HIDE DEF v
<1>7. ASSUME NEW j \in (1 .. 6) \union ((6 + 27) .. 32) PROVE \E c : v[j] = Const(c)
  <2>1. CASE j \in 1 .. 2
    <3>1. j \in 1 .. 6
      BY <2>1
    <3>2. PICK c : label[j] = Const(c)
      BY <1>1, <2>1
    <3>3. front[j] = label[j] /\ v[j] = front[j]
      BY <1>5, <1>6, <2>1, <3>1
    <3> QED BY <3>2, <3>3
  <2>2. CASE j \in 3 .. 6
    <3>1. j - 2 \in 1 .. 4 /\ 2 + (j - 2) = j /\ j \in 1 .. 6
      BY <2>2
    <3>2. PICK c : Fixed[j - 2] = Const(c)
      BY <1>2, <3>1
    <3>3. front[2 + (j - 2)] = Fixed[j - 2] /\ v[j] = front[j]
      BY <1>5, <1>6, <3>1
    <3> QED BY <3>1, <3>2, <3>3
  <2> QED BY <2>1, <2>2
<1>8. BytesOnce(v)
  BY <1>6, <1>7, VectorIsWhole
<1>9. 1 \in 1 .. 2 /\ 1 \in 1 .. 6
  OBVIOUS
<1> QED BY <1>4, <1>5, <1>6, <1>8, <1>9, Zenon

KeysWhole(vectors) ==
  /\ vectors["enc"] # vectors["mac"]
  /\ \A v \in {vectors["enc"][1], vectors["mac"][1]} :
       /\ Len(v) = 32
       /\ \A r \in {"a", "b"}, i \in 0 .. 15 :
            Cardinality({j \in 1 .. 32 : <<r, i>> \in v[j]}) = 1

\* The vectors of either mode are whole, and those of the two keys differ.
LEMMA KeyVectorsWhole ==
  ASSUME NEW mode
  PROVE  KeysWhole(KeyVectors(mode))
<1> DEFINE vectors == KeyVectors(mode)
<1> DEFINE e == SessionVectorAes(<<165, 90>>)
           m == SessionVectorAes(<<90, 165>>)
           l == SessionVectorLrp
<1>1. BytesOnce(e) /\ BytesOnce(m) /\ BytesOnce(l) /\ e # m
  <2>1. BytesOnce(e) /\ e[1] = Const(165) /\ BytesOnce(m) /\ m[1] = Const(90)
    BY AesIsWhole
  <2>2. Const(165) # Const(90)
    <3>1. 165 # 90
      OBVIOUS
    <3> QED BY <3>1, ConstsDiffer
  <2> QED BY <2>1, <2>2, LrpIsWhole
<1>2. \/ vectors["enc"] = <<e, 0>> /\ vectors["mac"] = <<m, 0>>
      \/ vectors["enc"] = <<l, 1>> /\ vectors["mac"] = <<l, 0>>
  BY DEF KeyVectors
<1> HIDE DEF e, m, l, vectors
<1>3. vectors["enc"] # vectors["mac"]
  BY <1>1, <1>2
<1>4. \A v \in {vectors["enc"][1], vectors["mac"][1]} : BytesOnce(v)
  BY <1>1, <1>2
<1> QED BY <1>3, <1>4, WholeCounts, Zenon DEF KeysWhole, vectors

-----------------------------------------------------------------------------
(* The session of a suite *)

\* What a cipher of a session is given: a direction and a command counter, or
\* the digits of EncCtr.
SuiteInputs == ({"command", "response"} \X Nat) \union {Digits(n) : n \in Nat}

SuiteTypes ==
  /\ DOMAIN suite = {"mode", "vectors", "ctr", "used"}
  /\ DOMAIN link = {"count", "sent", "got", "refused"}
  /\ suite.mode \in {"none", "aes", "lrp"}
  /\ link.count \in Nat
  /\ suite.used \in Seq(SuiteInputs)

\* Counters that follow one another from a first one.
Line(used, start) ==
  \A i \in 1 .. Len(used) : used[i] = Digits((start + (i - 1)) % Modulus)

\* The counters used so far follow one another from the one the session has
\* started with, and EncCtr is where both ends go on from.
CountersInLine ==
  /\ peer \in 0 .. (Modulus - 1)
  /\ suite.ctr = Digits(peer)
  /\ \E start \in Nat :
       /\ peer = (start + Len(suite.used)) % Modulus
       /\ Line(suite.used, start)

\* Each IV is of a message of its own.
OwnIvs(used, count) ==
  /\ \A i \in 1 .. Len(used) :
       \E m \in Nat : m < count /\ used[i] = <<Direction(m), CmdCtr(m)>>
  /\ \A i, j \in 1 .. Len(used) : i # j => used[i] # used[j]

IvsOfMessages == OwnIvs(suite.used, link.count)

\* None of the properties is inductive without the lines above: that a message
\* comes back needs the two counters to be one number, which for the digits of
\* the suite needs more than its steps, and that no counter is used twice
\* needs to say which ones have been.
SuiteInv ==
  /\ SuiteTypes
  /\ MessageRecovered
  /\ suite.mode # "none" => suite.vectors = KeyVectors(suite.mode)
  /\ suite.mode = "lrp" => CountersInLine
  /\ suite.mode = "aes" => IvsOfMessages

LEMMA PlainIs ==
  ASSUME NEW m, NEW n \in Nat, NEW p, p = Plain(m, n)
  PROVE  DOMAIN p = 1 .. n /\ Len(p) = n /\ p = [i \in 1 .. n |-> p[i]]
<1>1. p = [i \in 1 .. n |-> {<<"data", m, i>>}]
  BY DEF Plain
<1>2. DOMAIN p = 1 .. n /\ p = [i \in 1 .. n |-> p[i]]
  BY <1>1, Zenon
<1> QED BY <1>2, LengthIs

\* Message by message: what goes in at one end comes out at the other.
LEMMA AesRecovers ==
  ASSUME suite.mode = "aes", NEW m, NEW n \in Nat
  PROVE  /\ TagDecrypts(m, Encrypt(m, Plain(m, n))) = Plain(m, n)
         /\ Decrypt(m, TagEncrypts(m, Plain(m, n))) = Plain(m, n)
<1> DEFINE p == Plain(m, n)
           iv == Iv(Direction(m), CmdCtr(m))
           c == AesCbcEncrypt(iv, p)
           opened == [i \in DOMAIN c |-> Xor(D("enc", c[i]), IF i = 1 THEN iv ELSE c[i - 1])]
<1>1. TagDecrypts(m, Encrypt(m, p)) = opened
  BY Zenon DEF TagDecrypts, Encrypt
<1>2. Decrypt(m, TagEncrypts(m, p)) = opened
  BY Zenon DEF Decrypt, TagEncrypts, AesCbcDecrypt
<1>3. DOMAIN p = 1 .. Len(p) /\ Len(p) \in Nat /\ p = [i \in 1 .. Len(p) |-> p[i]]
  BY PlainIs
<1> HIDE DEF p, iv
<1>4. DOMAIN c = 1 .. Len(p)
  BY <1>3, CbcRecovers
<1>5. \A i \in 1 .. Len(p) : Xor(D("enc", c[i]), IF i = 1 THEN iv ELSE c[i - 1]) = p[i]
  BY <1>3, CbcRecovers, Zenon
<1>6. opened = [i \in 1 .. Len(p) |-> p[i]]
  BY <1>4, <1>5, Zenon
<1> HIDE DEF opened, c
<1>7. TagDecrypts(m, Encrypt(m, p)) = p /\ Decrypt(m, TagEncrypts(m, p)) = p
  BY <1>1, <1>2, <1>3, <1>6, Zenon
<1> QED BY <1>7 DEF p

LEMMA LrpRecovers ==
  ASSUME suite.mode = "lrp", CountersInLine, NEW m, NEW n \in Nat
  PROVE  /\ TagDecrypts(m, Encrypt(m, Plain(m, n))) = Plain(m, n)
         /\ Decrypt(m, TagEncrypts(m, Plain(m, n))) = Plain(m, n)
<1> DEFINE p == Plain(m, n)
           mine(i) == After(suite.ctr, i - 1)
           theirs(i) == Digits((peer + i - 1) % Modulus)
           sealed == [i \in DOMAIN p |-> E(mine(i), p[i])]
           answer == [i \in DOMAIN p |-> E(theirs(i), p[i])]
<1>1. DOMAIN p = 1 .. n /\ p = [i \in 1 .. n |-> p[i]]
  BY PlainIs
<1>2. ASSUME NEW i \in 1 .. n PROVE mine(i) = theirs(i)
  <2>1. i - 1 \in Nat /\ peer \in 0 .. (Modulus - 1) /\ suite.ctr = Digits(peer)
    BY DEF CountersInLine
  <2>2. After(Digits(peer), i - 1) = Digits((peer + (i - 1)) % Modulus)
    BY <2>1, AfterCounts
  <2>3. peer + (i - 1) = peer + i - 1
    BY <2>1, ModulusIs
  <2> QED BY <2>1, <2>2, <2>3, Zenon
<1>3. /\ Encrypt(m, p) = sealed
      /\ TagDecrypts(m, sealed) = [i \in DOMAIN sealed |-> D(theirs(i), sealed[i])]
      /\ TagEncrypts(m, p) = answer
      /\ Decrypt(m, answer) = [i \in DOMAIN answer |-> D(mine(i), answer[i])]
  <2>1. suite.mode # "aes"
    OBVIOUS
  <2> QED BY <2>1, Zenon DEF Encrypt, TagDecrypts, TagEncrypts, Decrypt, LricbEncrypt, LricbDecrypt
<1> HIDE DEF p, mine, theirs
<1>4. ASSUME NEW i \in 1 .. n PROVE D(theirs(i), sealed[i]) = p[i] /\ D(mine(i), answer[i]) = p[i]
  <2>1. sealed[i] = E(mine(i), p[i]) /\ answer[i] = E(theirs(i), p[i])
    BY <1>1, Zenon
  <2> HIDE DEF sealed, answer
  <2> QED BY <1>2, <2>1, Inverse1, ZenonT(60)
<1>5. DOMAIN sealed = 1 .. n /\ DOMAIN answer = 1 .. n
  BY <1>1, Zenon
<1> HIDE DEF sealed, answer
<1>6. [i \in DOMAIN sealed |-> D(theirs(i), sealed[i])] = [i \in 1 .. n |-> p[i]]
  BY <1>4, <1>5, Zenon
<1>7. [i \in DOMAIN answer |-> D(mine(i), answer[i])] = [i \in 1 .. n |-> p[i]]
  BY <1>4, <1>5, Zenon
<1>8. TagDecrypts(m, Encrypt(m, p)) = p /\ Decrypt(m, TagEncrypts(m, p)) = p
  BY <1>1, <1>3, <1>6, <1>7, Zenon
<1> QED BY <1>8 DEF p

\* A sequence of digits that goes on where the counters were.
LEMMA LineGoesOn ==
  ASSUME NEW S, NEW used \in Seq(S), NEW more \in Seq(S), NEW start \in Nat,
         Line(used, start), Line(more, (start + Len(used)) % Modulus)
  PROVE  /\ (((start + Len(used)) % Modulus) + Len(more)) % Modulus = (start + Len(used \o more)) % Modulus
         /\ Line(used \o more, start)
<1> DEFINE l == Len(used)
           n == Len(more)
           p == (start + l) % Modulus
           all == used \o more
<1>1. l \in Nat /\ n \in Nat /\ Len(all) = l + n
  BY Concatenated
<1>2. /\ \A i \in 1 .. l : all[i] = used[i]
      /\ \A i \in 1 .. n : all[l + i] = more[i]
  BY Concatenated
<1>3. /\ p = (start + l) % Modulus
      /\ \A i \in 1 .. l : used[i] = Digits((start + (i - 1)) % Modulus)
      /\ \A i \in 1 .. n : more[i] = Digits((p + (i - 1)) % Modulus)
  BY DEF Line
<1> HIDE DEF l, n, all, p
<1>4. (p + n) % Modulus = (start + (l + n)) % Modulus
  <2>1. start + l \in Nat /\ (start + l) + n = start + (l + n)
    BY <1>1
  <2>2. (((start + l) % Modulus) + n) % Modulus = ((start + l) + n) % Modulus
    BY <1>1, <2>1, RestAdds
  <2> QED BY <1>3, <2>1, <2>2
<1>5. ASSUME NEW i \in 1 .. (l + n) PROVE all[i] = Digits((start + (i - 1)) % Modulus)
  <2>1. CASE i \in 1 .. l
    <3>1. all[i] = used[i]
      BY <1>2, <2>1
    <3> QED BY <1>3, <2>1, <3>1
  <2>2. CASE ~(i <= l)
    <3> DEFINE k == i - l
    <3>1. k \in 1 .. n /\ l + k = i /\ k - 1 \in Nat /\ start + l \in Nat
          /\ (start + l) + (k - 1) = start + (i - 1)
      BY <1>1, <2>2
    <3> HIDE DEF k
    <3>2. all[i] = Digits((p + (k - 1)) % Modulus)
      BY <1>2, <1>3, <3>1
    <3>3. (((start + l) % Modulus) + (k - 1)) % Modulus = ((start + l) + (k - 1)) % Modulus
      BY <3>1, RestAdds
    <3> QED BY <1>3, <3>1, <3>2, <3>3
  <2>3. i \in 1 .. l \/ ~(i <= l)
    BY <1>1
  <2> QED BY <2>1, <2>2, <2>3
<1>6. l = Len(used) /\ n = Len(more) /\ all = used \o more
  BY DEF l, n, all
<1> QED BY <1>1, <1>4, <1>5, <1>6 DEF Line, p

\* Two messages have two IVs.
LEMMA IvsDiffer ==
  ASSUME NEW a \in Nat, NEW b \in Nat, a # b
  PROVE  <<Direction(a), CmdCtr(a)>> # <<Direction(b), CmdCtr(b)>>
<1>1. Direction(a) = Direction(b) => a % 2 = b % 2
  BY DEF Direction
<1>2. a % 2 = b % 2 => (a + 1) \div 2 # (b + 1) \div 2
  OBVIOUS
<1> HIDE DEF Direction
<1>3. Direction(a) # Direction(b) \/ CmdCtr(a) # CmdCtr(b)
  BY <1>1, <1>2, Zenon DEF CmdCtr
<1> QED BY <1>3

LEMMA IvsGoOn ==
  ASSUME NEW S, NEW used \in Seq(S), NEW count \in Nat,
         <<Direction(count), CmdCtr(count)>> \in S, OwnIvs(used, count)
  PROVE  OwnIvs(used \o <<<<Direction(count), CmdCtr(count)>>>>, count + 1)
<1> DEFINE l == Len(used)
           one == <<Direction(count), CmdCtr(count)>>
           all == used \o <<one>>
           of(m) == <<Direction(m), CmdCtr(m)>>
<1>0. one \in S
  OBVIOUS
<1> HIDE DEF one
<1>1. /\ l \in Nat /\ Len(all) = l + 1
      /\ all[l + 1] = one /\ \A i \in 1 .. l : all[i] = used[i]
  <2>1. <<one>> \in Seq(S) /\ Len(<<one>>) = 1 /\ <<one>>[1] = one
    BY <1>0
  <2> DEFINE t == <<one>>
  <2>2. t \in Seq(S) /\ Len(t) = 1 /\ t[1] = one
    BY <2>1
  <2> HIDE DEF t
  <2>3. /\ Len(used \o t) = Len(used) + Len(t) /\ Len(used) \in Nat
        /\ \A i \in 1 .. Len(used) : (used \o t)[i] = used[i]
        /\ \A i \in 1 .. Len(t) : (used \o t)[Len(used) + i] = t[i]
    <3>1. t \in Seq(S)
      BY <2>2
    <3> QED BY <3>1, Concatenated
  <2>4. /\ Len(used \o t) = Len(used) + 1
        /\ (used \o t)[Len(used) + 1] = one
    BY <2>2, <2>3
  <2> QED BY <2>3, <2>4 DEF t
<1>2. /\ \A i \in 1 .. l : \E m \in Nat : m < count /\ used[i] = of(m)
      /\ \A i, j \in 1 .. l : i # j => used[i] # used[j]
      /\ one = of(count)
  BY DEF one, OwnIvs
<1>3. \A a, b \in Nat : a # b => of(a) # of(b)
  BY IvsDiffer
<1> HIDE DEF l, all, of
<1>4. ASSUME NEW i \in 1 .. (l + 1) PROVE \E m \in Nat : m < count + 1 /\ all[i] = of(m)
  <2>1. CASE i \in 1 .. l
    <3>1. PICK m \in Nat : m < count /\ used[i] = of(m)
      BY <1>2, <2>1
    <3>2. m < count + 1
      BY <3>1
    <3> QED BY <1>1, <2>1, <3>1, <3>2
  <2>2. CASE i = l + 1
    <3>1. count < count + 1
      OBVIOUS
    <3> QED BY <1>1, <1>2, <2>2, <3>1
  <2> QED BY <1>1, <2>1, <2>2
<1>5. ASSUME NEW i \in 1 .. l PROVE all[i] # one
  <2>1. PICK m \in Nat : m < count /\ used[i] = of(m)
    BY <1>2
  <2>2. m # count
    BY <2>1
  <2> QED BY <1>1, <1>2, <1>3, <2>1, <2>2
<1>6. ASSUME NEW i \in 1 .. (l + 1), NEW j \in 1 .. (l + 1), i # j PROVE all[i] # all[j]
  <2>1. CASE i \in 1 .. l /\ j \in 1 .. l
    BY <1>1, <1>2, <1>6, <2>1
  <2>2. CASE i = l + 1
    <3>1. j \in 1 .. l
      BY <1>1, <1>6, <2>2
    <3> QED BY <1>1, <1>5, <2>2, <3>1
  <2>3. CASE j = l + 1
    <3>1. i \in 1 .. l
      BY <1>1, <1>6, <2>3
    <3> QED BY <1>1, <1>5, <2>3, <3>1
  <2> QED BY <1>1, <2>1, <2>2, <2>3
<1>7. /\ \A i \in 1 .. Len(all) : \E m \in Nat : m < count + 1 /\ all[i] = of(m)
      /\ \A i, j \in 1 .. Len(all) : i # j => all[i] # all[j]
  BY <1>1, <1>4, <1>6
<1> QED BY <1>7, Zenon DEF all, of, one, OwnIvs

LEMMA DirectionIs ==
  ASSUME NEW m \in Nat
  PROVE  <<Direction(m), CmdCtr(m)>> \in SuiteInputs
<1>1. CmdCtr(m) \in Nat
  BY DEF CmdCtr
<1>2. Direction(m) \in {"command", "response"}
  BY DEF Direction
<1> HIDE DEF Direction, CmdCtr
<1> QED BY <1>1, <1>2 DEF SuiteInputs

LEMMA ProcessedIs ==
  ASSUME SuiteTypes, NEW n, Processed(n)
  PROVE  /\ DOMAIN suite' = {"mode", "vectors", "ctr", "used"}
         /\ DOMAIN link' = {"count", "sent", "got", "refused"}
         /\ suite'.mode = suite.mode /\ suite'.vectors = suite.vectors
         /\ suite'.used = suite.used \o Inputs(link.count, n)
         /\ suite.mode = "lrp" => suite'.ctr = After(suite.ctr, n)
         /\ peer' = (peer + n) % Modulus
         /\ link'.count = link.count + 1
         /\ link'.sent = Plain(link.count, n)
         /\ link'.got = (IF Direction(link.count) = "command"
                          THEN TagDecrypts(link.count, Encrypt(link.count, Plain(link.count, n)))
                          ELSE Decrypt(link.count, TagEncrypts(link.count, Plain(link.count, n))))
<1> DEFINE used == suite.used \o Inputs(link.count, n)
           ctr == After(suite.ctr, n)
           next == (peer + n) % Modulus
           plain == Plain(link.count, n)
           got == IF Direction(link.count) = "command"
                    THEN TagDecrypts(link.count, Encrypt(link.count, plain))
                    ELSE Decrypt(link.count, TagEncrypts(link.count, plain))
<1>1. /\ suite' = [suite EXCEPT !.ctr = IF suite.mode = "lrp" THEN ctr ELSE suite.ctr, !.used = used]
      /\ peer' = next
      /\ link' = [link EXCEPT !.count = link.count + 1, !.sent = plain, !.got = got]
  BY DEF Processed
<1> DEFINE more == link.count + 1
<1> HIDE DEF used, ctr, next, plain, got, more
<1>2. DOMAIN suite = {"mode", "vectors", "ctr", "used"} /\ DOMAIN link = {"count", "sent", "got", "refused"}
  BY DEF SuiteTypes
<1>3. /\ DOMAIN suite' = {"mode", "vectors", "ctr", "used"}
      /\ suite'.mode = suite.mode /\ suite'.vectors = suite.vectors /\ suite'.used = used
      /\ suite.mode = "lrp" => suite'.ctr = ctr
  BY <1>1, <1>2
<1>4. link' = [link EXCEPT !.count = more, !.sent = plain, !.got = got]
  BY <1>1, Zenon DEF more
<1>5. /\ DOMAIN link' = {"count", "sent", "got", "refused"}
      /\ link'.count = more /\ link'.sent = plain /\ link'.got = got
  BY <1>2, <1>4
<1>6. peer' = next
  BY <1>1
<1> QED BY <1>3, <1>5, <1>6, Zenon DEF used, ctr, next, plain, got, more

LEMMA MessageKeeps ==
  ASSUME SuiteInv, NEW n \in 1 .. MaxLength, Message(n)
  PROVE  SuiteInv'
<1>1. SuiteTypes /\ n \in Nat /\ suite.mode \in {"aes", "lrp"} /\ link.count \in Nat /\ Processed(n)
  <2>1. SuiteTypes /\ suite.mode # "none" /\ Processed(n)
    BY DEF SuiteInv, Message
  <2>2. suite.mode \in {"none", "aes", "lrp"} /\ link.count \in Nat
    BY <2>1 DEF SuiteTypes
  <2>3. n \in Nat
    BY SuiteConstants
  <2> QED BY <2>1, <2>2, <2>3, Zenon
<1> DEFINE count == link.count
           more == Inputs(count, n)
<1>2. /\ DOMAIN suite' = {"mode", "vectors", "ctr", "used"}
      /\ DOMAIN link' = {"count", "sent", "got", "refused"}
      /\ suite'.mode = suite.mode /\ suite'.vectors = suite.vectors
      /\ suite'.used = suite.used \o more
      /\ suite.mode = "lrp" => suite'.ctr = After(suite.ctr, n)
      /\ peer' = (peer + n) % Modulus
      /\ link'.count = count + 1
  BY <1>1, ProcessedIs, Zenon
<1>3. MessageRecovered'
  <2>1. /\ TagDecrypts(count, Encrypt(count, Plain(count, n))) = Plain(count, n)
        /\ Decrypt(count, TagEncrypts(count, Plain(count, n))) = Plain(count, n)
    <3>1. CASE suite.mode = "aes"
      BY <1>1, <3>1, AesRecovers, Zenon
    <3>2. CASE suite.mode = "lrp"
      <4>1. CountersInLine
        BY <3>2, Zenon DEF SuiteInv
      <4> QED BY <1>1, <3>2, <4>1, LrpRecovers, Zenon
    <3> QED BY <1>1, <3>1, <3>2, Zenon
  <2>2. /\ link'.sent = Plain(count, n)
        /\ link'.got = (IF Direction(count) = "command"
                         THEN TagDecrypts(count, Encrypt(count, Plain(count, n)))
                         ELSE Decrypt(count, TagEncrypts(count, Plain(count, n))))
    BY <1>1, ProcessedIs, Zenon
  <2>3. link'.got = link'.sent
    BY <2>1, <2>2, Zenon
  <2> QED BY <2>3 DEF MessageRecovered
<1>4. suite'.mode # "none" => suite'.vectors = KeyVectors(suite'.mode)
  BY <1>1, <1>2, Zenon DEF SuiteInv
<1>5. suite.used \in Seq(SuiteInputs) /\ count + 1 \in Nat
  BY <1>1 DEF SuiteTypes
<1>6. CASE suite.mode = "aes"
  <2> DEFINE one == <<Direction(count), CmdCtr(count)>>
  <2>1. more = <<one>>
    BY <1>6, Zenon DEF Inputs
  <2>2. one \in SuiteInputs
    BY <1>1, DirectionIs
  <2>3. IvsOfMessages
    BY <1>6, Zenon DEF SuiteInv
  <2> HIDE DEF count
  <2>4. OwnIvs(suite.used \o <<one>>, count + 1)
    <3>1. OwnIvs(suite.used, count) /\ count \in Nat
      BY <1>1, <2>3 DEF IvsOfMessages, count
    <3> QED BY <1>5, <2>2, <3>1, IvsGoOn, Zenon
  <2>5. IvsOfMessages'
    BY <1>2, <2>1, <2>4, Zenon DEF IvsOfMessages
  <2> HIDE DEF one
  <2>6. suite'.used \in Seq(SuiteInputs)
    <3>1. <<one>> \in Seq(SuiteInputs)
      BY <2>2
    <3> DEFINE t == <<one>>
    <3> HIDE DEF t
    <3>2. suite.used \o t \in Seq(SuiteInputs)
      BY <1>5, <3>1, Concatenated DEF t
    <3> QED BY <1>2, <2>1, <3>2, Zenon DEF t
  <2>7. SuiteTypes'
    BY <1>1, <1>2, <1>5, <2>6, Zenon DEF SuiteTypes, count
  <2>8. suite'.mode # "lrp"
    BY <1>2, <1>6
  <2> QED BY <1>3, <1>4, <2>5, <2>7, <2>8, Zenon DEF SuiteInv
<1>7. CASE suite.mode = "lrp"
  <2>1. CountersInLine
    BY <1>7, Zenon DEF SuiteInv
  <2>2. suite.mode # "aes" /\ suite'.mode # "aes"
    BY <1>2, <1>7
  <2>3. more = [i \in 1 .. n |-> After(suite.ctr, i - 1)]
    BY <2>2, Zenon DEF Inputs
  <2>4. peer \in 0 .. (Modulus - 1) /\ suite.ctr = Digits(peer)
    BY <2>1 DEF CountersInLine
  <2>5. PICK start \in Nat :
          /\ peer = (start + Len(suite.used)) % Modulus
          /\ Line(suite.used, start)
    BY <2>1, Zenon DEF CountersInLine
  <2> HIDE DEF more, count
  <2>6. ASSUME NEW i \in 1 .. n
        PROVE  /\ After(suite.ctr, i - 1) = Digits((peer + (i - 1)) % Modulus)
               /\ After(suite.ctr, i - 1) \in SuiteInputs
    <3>1. i - 1 \in Nat
      OBVIOUS
    <3>2. After(Digits(peer), i - 1) = Digits((peer + (i - 1)) % Modulus)
      BY <2>4, <3>1, AfterCounts
    <3>3. (peer + (i - 1)) % Modulus \in Nat
      BY <2>4, <3>1, ModulusIs
    <3> QED BY <2>4, <3>2, <3>3, Zenon DEF SuiteInputs
  <2>7. /\ more \in Seq(SuiteInputs) /\ Len(more) = n
        /\ \A i \in 1 .. n : more[i] = Digits((peer + (i - 1)) % Modulus)
    <3>1. \A i \in 1 .. n : more[i] = After(suite.ctr, i - 1)
      BY <2>3, Zenon
    <3>2. more = [i \in 1 .. n |-> more[i]] /\ \A i \in 1 .. n : more[i] \in SuiteInputs
      BY <2>3, <2>6, <3>1, Zenon
    <3>3. more \in Seq(SuiteInputs) /\ Len(more) = n
      BY <1>1, <3>2, SequenceIs
    <3> QED BY <2>6, <3>1, <3>3, Zenon
  <2>8. /\ (peer + Len(more)) % Modulus = (start + Len(suite.used \o more)) % Modulus
        /\ Line(suite.used \o more, start)
    <3>1. Line(more, peer)
      BY <2>7, Zenon DEF Line
    <3>2. more \in Seq(SuiteInputs)
      BY <2>7
    <3>3. /\ (((start + Len(suite.used)) % Modulus) + Len(more)) % Modulus
               = (start + Len(suite.used \o more)) % Modulus
          /\ Line(suite.used \o more, start)
      <4>1. Line(suite.used, start) /\ Line(more, (start + Len(suite.used)) % Modulus)
        BY <2>5, <3>1, Zenon
      <4> QED BY <1>5, <3>2, <4>1, LineGoesOn, Zenon
    <3> QED BY <2>5, <3>3, Zenon
  <2>9. peer' = (start + Len(suite'.used)) % Modulus
    BY <1>2, <2>7, <2>8, Zenon
  <2>10. Line(suite'.used, start)
    BY <1>2, <2>8, Zenon
  <2>11. suite'.ctr = Digits(peer')
    <3>1. After(Digits(peer), n) = Digits((peer + n) % Modulus)
      BY <1>1, <2>4, AfterCounts
    <3> QED BY <1>2, <1>7, <2>4, <3>1, Zenon
  <2>12. peer' \in 0 .. (Modulus - 1)
    <3>1. peer + n \in Nat
      BY <1>1, <2>4, ModulusIs
    <3>2. (peer + n) % Modulus \in 0 .. (Modulus - 1)
      BY <3>1, ModulusIs
    <3> QED BY <1>2, <3>2, Zenon
  <2>13. CountersInLine'
    BY <2>9, <2>10, <2>11, <2>12, Zenon DEF CountersInLine
  <2>14. suite'.used \in Seq(SuiteInputs)
    <3>1. suite.used \o more \in Seq(SuiteInputs)
      BY <1>5, <2>7, Concatenated
    <3> QED BY <1>2, <3>1, Zenon
  <2>15. SuiteTypes'
    BY <1>1, <1>2, <1>5, <2>14, Zenon DEF SuiteTypes, count
  <2> QED BY <1>3, <1>4, <2>2, <2>13, <2>15, Zenon DEF SuiteInv
<1> QED BY <1>1, <1>6, <1>7, Zenon

LEMMA DeriveKeeps ==
  ASSUME SuiteInv, NEW mode \in {"aes", "lrp"}, NEW start \in 0 .. (Modulus - 1), Derive(mode, start)
  PROVE  SuiteInv'
<1>1. /\ suite' = [mode |-> mode, vectors |-> KeyVectors(mode), ctr |-> Digits(start), used |-> << >>]
      /\ peer' = start /\ link' = link
  BY Zenon DEF Derive
<1> DEFINE vectors == KeyVectors(mode)
           ctr == Digits(start)
<1> HIDE DEF vectors, ctr
<1>2. /\ DOMAIN suite' = {"mode", "vectors", "ctr", "used"}
      /\ suite'.mode = mode /\ suite'.vectors = vectors /\ suite'.ctr = ctr /\ suite'.used = << >>
  BY <1>1 DEF vectors, ctr
<1>3. << >> \in Seq(SuiteInputs) /\ Len(<< >>) = 0
  OBVIOUS
<1>4. SuiteTypes'
  <2>1. suite'.mode \in {"none", "aes", "lrp"}
    BY <1>2
  <2> QED BY <1>1, <1>2, <1>3, <2>1, Zenon DEF SuiteInv, SuiteTypes
<1>5. MessageRecovered'
  BY <1>1, Zenon DEF SuiteInv, MessageRecovered
<1>6. IvsOfMessages'
  <2>1. \A i : ~(i \in 1 .. 0)
    OBVIOUS
  <2>2. Len(suite'.used) = 0
    BY <1>2, <1>3
  <2> QED BY <2>1, <2>2, Zenon DEF IvsOfMessages, OwnIvs
<1>7. CountersInLine'
  <2>1. \A i : ~(i \in 1 .. 0)
    OBVIOUS
  <2>2. Len(suite'.used) = 0
    BY <1>2, <1>3
  <2>3. start \in Nat /\ start = (start + 0) % Modulus
    <3>1. start \in Nat /\ start + 0 = start
      BY ModulusIs
    <3> QED BY <3>1, RestSmall
  <2>4. peer' \in 0 .. (Modulus - 1) /\ suite'.ctr = Digits(peer')
    BY <1>1, <1>2, Zenon DEF ctr
  <2>5. /\ peer' = (start + Len(suite'.used)) % Modulus
        /\ Line(suite'.used, start)
    BY <1>1, <2>1, <2>2, <2>3, Zenon DEF Line
  <2> QED BY <2>3, <2>4, <2>5, Zenon DEF CountersInLine
<1>8. suite'.vectors = KeyVectors(suite'.mode)
  BY <1>2, Zenon DEF vectors
<1> QED BY <1>4, <1>5, <1>6, <1>7, <1>8, Zenon DEF SuiteInv

\* A message without data, and a refused one, take nothing from the suite.
LEMMA NothingTaken ==
  ASSUME SuiteInv, NoData \/ BadLength
  PROVE  SuiteInv'
<1>1. DOMAIN link = {"count", "sent", "got", "refused"} /\ link.count \in Nat
  BY DEF SuiteInv, SuiteTypes
<1> DEFINE more == link.count + 1
<1>2. more \in Nat /\ (\A m \in Nat : m < link.count => m < more)
  BY <1>1
<1>3. suite' = suite /\ peer' = peer
  BY Zenon DEF NoData, BadLength
<1>4. /\ DOMAIN link' = {"count", "sent", "got", "refused"}
      /\ link'.got = link'.sent
      /\ link'.count = link.count \/ link'.count = more
  <2>1. CASE NoData
    <3>1. link' = [link EXCEPT !.count = more, !.sent = << >>, !.got = << >>]
      BY <2>1 DEF NoData
    <3> HIDE DEF more
    <3> QED BY <1>1, <3>1
  <2>2. CASE BadLength
    <3>1. link' = [link EXCEPT !.refused = TRUE]
      BY <2>2 DEF BadLength
    <3>2. link.got = link.sent
      BY DEF SuiteInv, MessageRecovered
    <3> HIDE DEF more
    <3> QED BY <1>1, <3>1, <3>2
  <2> QED BY <2>1, <2>2
<1> HIDE DEF more
<1>5. SuiteTypes'
  BY <1>1, <1>2, <1>3, <1>4, Zenon DEF SuiteInv, SuiteTypes
<1>6. MessageRecovered'
  BY <1>4 DEF MessageRecovered
<1>7. suite.mode = "lrp" => CountersInLine'
  BY <1>3, Zenon DEF SuiteInv, CountersInLine
<1>8. suite.mode = "aes" => IvsOfMessages'
  BY <1>2, <1>3, <1>4, Zenon DEF SuiteInv, IvsOfMessages, OwnIvs
<1> QED BY <1>3, <1>5, <1>6, <1>7, <1>8, Zenon DEF SuiteInv

LEMMA SuiteStarts == InitSuite => SuiteInv
<1> SUFFICES ASSUME InitSuite PROVE SuiteInv
  OBVIOUS
<1>1. /\ suite.mode = "none" /\ suite.used = << >> /\ link.count = 0 /\ link.got = link.sent
      /\ DOMAIN suite = {"mode", "vectors", "ctr", "used"}
      /\ DOMAIN link = {"count", "sent", "got", "refused"}
  BY DEF InitSuite
<1>2. << >> \in Seq(SuiteInputs) /\ 0 \in Nat
  OBVIOUS
<1>3. suite.mode # "aes" /\ suite.mode # "lrp" /\ suite.mode \in {"none", "aes", "lrp"}
  BY <1>1
<1> QED BY <1>1, <1>2, <1>3, Zenon DEF SuiteInv, SuiteTypes, MessageRecovered

LEMMA SuiteKeeps ==
  ASSUME SuiteInv, [SuiteNext]_suiteVars
  PROVE  SuiteInv'
<1>1. CASE UNCHANGED suiteVars
  <2>1. suite' = suite /\ peer' = peer /\ link' = link
    BY <1>1, Zenon DEF suiteVars
  <2> QED BY <2>1, Zenon DEF SuiteInv, SuiteTypes, MessageRecovered, CountersInLine, IvsOfMessages
<1>2. ASSUME NEW start \in 0 .. (Modulus - 1), Derive("lrp", start) PROVE SuiteInv'
  <2>1. "lrp" \in {"aes", "lrp"}
    OBVIOUS
  <2> QED BY <1>2, <2>1, DeriveKeeps, Zenon
<1>3. CASE Derive("aes", 0)
  <2>1. "aes" \in {"aes", "lrp"}
    OBVIOUS
  <2>2. 0 \in 0 .. (Modulus - 1)
    BY ModulusIs
  <2> QED BY <1>3, <2>1, <2>2, DeriveKeeps, Zenon
<1>4. ASSUME NEW n \in 1 .. MaxLength, Message(n) PROVE SuiteInv'
  BY <1>4, MessageKeeps, Zenon
<1>5. CASE NoData \/ BadLength
  BY <1>5, NothingTaken, Zenon
<1> QED BY <1>1, <1>2, <1>3, <1>4, <1>5, Zenon DEF SuiteNext

\* No number of the line comes back before a whole turn.
LEMMA InvCountersFresh ==
  ASSUME SuiteInv
  PROVE  CountersFresh
<1> SUFFICES ASSUME suite.mode # "none"
             PROVE  /\ suite.mode = "lrp" => suite.ctr = Digits(peer)
                    /\ \A i, j \in DOMAIN suite.used :
                         i # j /\ (suite.mode = "lrp" => i < j + Modulus /\ j < i + Modulus)
                           => suite.used[i] # suite.used[j]
  BY Zenon DEF CountersFresh
<1>1. suite.used \in Seq(SuiteInputs) /\ suite.mode \in {"none", "aes", "lrp"}
  BY DEF SuiteInv, SuiteTypes
<1>2. DOMAIN suite.used = 1 .. Len(suite.used) /\ Len(suite.used) \in Nat
  BY <1>1
<1>3. CASE suite.mode = "aes"
  <2>1. \A i, j \in 1 .. Len(suite.used) : i # j => suite.used[i] # suite.used[j]
    BY <1>3, Zenon DEF SuiteInv, IvsOfMessages, OwnIvs
  <2>2. suite.mode # "lrp"
    BY <1>3
  <2> QED BY <1>2, <2>1, <2>2, Zenon
<1>4. CASE suite.mode = "lrp"
  <2>1. CountersInLine
    BY <1>4, Zenon DEF SuiteInv
  <2>2. suite.ctr = Digits(peer)
    BY <2>1 DEF CountersInLine
  <2>3. PICK start \in Nat :
          \A i \in 1 .. Len(suite.used) : suite.used[i] = Digits((start + (i - 1)) % Modulus)
    BY <2>1, Zenon DEF CountersInLine, Line
  <2>4. ASSUME NEW i \in 1 .. Len(suite.used), NEW j \in 1 .. Len(suite.used),
               i # j, i < j + Modulus, j < i + Modulus
        PROVE  suite.used[i] # suite.used[j]
    <3> DEFINE a == start + (i - 1)
               b == start + (j - 1)
    <3>1. a \in Nat /\ b \in Nat /\ (a < b \/ b < a) /\ a < b + Modulus /\ b < a + Modulus
      BY <1>2, <2>4, ModulusIs
    <3> HIDE DEF a, b
    <3>2. a % Modulus # b % Modulus
      <4>1. a < b => a % Modulus # b % Modulus
        BY <3>1, TurnsApart
      <4>2. b < a => b % Modulus # a % Modulus
        BY <3>1, TurnsApart
      <4> QED BY <3>1, <4>1, <4>2
    <3>3. a % Modulus \in 0 .. (Modulus - 1) /\ b % Modulus \in 0 .. (Modulus - 1)
      BY <3>1, ModulusIs, SMTT(30)
    <3>4. Digits(a % Modulus) # Digits(b % Modulus)
      BY <3>2, <3>3, DigitsDiffer
    <3> QED BY <2>3, <3>4, Zenon DEF a, b
  <2> QED BY <1>2, <1>4, <2>2, <2>4, Zenon
<1> QED BY <1>1, <1>3, <1>4, Zenon

LEMMA InvVectorsWhole ==
  ASSUME SuiteInv
  PROVE  VectorsWhole
<1> SUFFICES ASSUME suite.mode # "none"
             PROVE  /\ suite.vectors["enc"] # suite.vectors["mac"]
                    /\ \A v \in {suite.vectors["enc"][1], suite.vectors["mac"][1]} :
                         /\ Len(v) = 32
                         /\ \A r \in {"a", "b"}, i \in 0 .. 15 :
                              Cardinality({j \in 1 .. 32 : <<r, i>> \in v[j]}) = 1
  BY Zenon DEF VectorsWhole
<1>1. suite.vectors = KeyVectors(suite.mode)
  BY Zenon DEF SuiteInv
<1>2. KeysWhole(KeyVectors(suite.mode))
  BY KeyVectorsWhole
<1>3. KeysWhole(suite.vectors)
  BY <1>1, <1>2, Zenon
<1> QED BY <1>3, Zenon DEF KeysWhole

\* What one end encrypts, the other decrypts, in both directions: for any
\* number of blocks, any base and number of digits, and past every carry.
THEOREM MessagesRecovered == InitSuite /\ [][SuiteNext]_suiteVars => []MessageRecovered
<1>1. SuiteInv => MessageRecovered
  BY DEF SuiteInv
<1> QED BY <1>1, SuiteStarts, SuiteKeeps, PTL

\* EncCtr is the number the tag counts, and no counter and no IV is used twice
\* before all have been.
THEOREM FreshCounters == InitSuite /\ [][SuiteNext]_suiteVars => []CountersFresh
  BY SuiteStarts, SuiteKeeps, InvCountersFresh, PTL

\* Each byte of both randoms has one place in the session vectors, and the two
\* keys come of different ones.
THEOREM WholeVectors == InitSuite /\ [][SuiteNext]_suiteVars => []VectorsWhole
  BY SuiteStarts, SuiteKeeps, InvVectorsWhole, PTL
-----------------------------------------------------------------------------
(* The forms *)

\* An input is none yet or one of those that can be chosen.
InputInv ==
  \/ input = NoInput
  \/ \E b \in Containers : input = [kind |-> "container", bytes |-> b]
  \/ \E u \in Urls, old \in OldUrls, alloc \in BOOLEAN :
       input = [kind |-> "url", url |-> u, alloc |-> alloc,
                file |-> WrittenOver(Planned(old), Planned(u))]
  \/ \E a, b \in DiversificationInputs : input = [kind |-> "keys", a |-> a, b |-> b]
  \/ \E f \in Framing, w \in Words : input = [kind |-> "status", framing |-> f, word |-> w]

LEMMA InputOk == Spec => []InputInv
<1>1. Init => InputInv
  BY DEF Init, InputInv
<1>2. InputInv /\ [Next]_vars => InputInv'
  <2> SUFFICES ASSUME InputInv, [Next]_vars PROVE InputInv'
    OBVIOUS
  <2>1. CASE Choose
    <3>1. CASE \E b \in Containers : input' = [kind |-> "container", bytes |-> b]
      BY <3>1, Zenon DEF InputInv
    <3>2. CASE \E u \in {v \in Urls : Fits(v)}, old \in OldUrls, alloc \in BOOLEAN :
                 input' = [kind |-> "url", url |-> u, alloc |-> alloc,
                           file |-> WrittenOver(Planned(old), Planned(u))]
      BY <3>2, Zenon DEF InputInv
    <3>3. CASE \E a, b \in DiversificationInputs : input' = [kind |-> "keys", a |-> a, b |-> b]
      BY <3>3, Zenon DEF InputInv
    <3>4. CASE \E f \in Framing, w \in Words :
                 input' = [kind |-> "status", framing |-> f, word |-> w]
      BY <3>4, Zenon DEF InputInv
    <3> QED BY <2>1, <3>1, <3>2, <3>3, <3>4, Zenon DEF Choose
  <2>2. CASE UNCHANGED input
    BY <2>2, Zenon DEF InputInv
  <2>3. Choose \/ UNCHANGED input
    BY Zenon DEF Next, vars
  <2> QED BY <2>1, <2>2, <2>3
<1> QED BY <1>1, <1>2, PTL DEF Spec

\* What the cases of InputInv say of each kind.
LEMMA KindIs ==
  ASSUME InputInv
  PROVE  /\ input.kind = "container" => input.bytes \in Containers
         /\ input.kind = "url" =>
              \E u \in Urls, old \in OldUrls :
                /\ input.url = u /\ input.alloc \in BOOLEAN
                /\ input.file = WrittenOver(Planned(old), Planned(u))
         /\ input.kind = "keys" => input.a \in DiversificationInputs /\ input.b \in DiversificationInputs
         /\ input.kind = "status" => input.framing \in Framing
<1>1. CASE input = NoInput
  BY <1>1 DEF NoInput
<1>2. ASSUME NEW b \in Containers, input = [kind |-> "container", bytes |-> b]
      PROVE  input.kind = "container" /\ input.bytes \in Containers
  BY <1>2
<1>3. ASSUME NEW u \in Urls, NEW old \in OldUrls, NEW alloc \in BOOLEAN, NEW file,
             file = WrittenOver(Planned(old), Planned(u)),
             input = [kind |-> "url", url |-> u, alloc |-> alloc, file |-> file]
      PROVE  input.kind = "url" /\ input.url = u /\ input.alloc \in BOOLEAN /\ input.file = file
  BY <1>3
<1>4. ASSUME NEW a \in DiversificationInputs, NEW b \in DiversificationInputs,
             input = [kind |-> "keys", a |-> a, b |-> b]
      PROVE  /\ input.kind = "keys" /\ input.a \in DiversificationInputs
             /\ input.b \in DiversificationInputs
  BY <1>4
<1>5. ASSUME NEW f \in Framing, NEW w \in Words,
             input = [kind |-> "status", framing |-> f, word |-> w]
      PROVE  input.kind = "status" /\ input.framing \in Framing
  BY <1>5
<1>6. /\ "container" # "url" /\ "container" # "keys" /\ "container" # "status"
      /\ "url" # "keys" /\ "url" # "status" /\ "keys" # "status"
  OBVIOUS
<1> DEFINE Good ==
      /\ input.kind = "container" => input.bytes \in Containers
      /\ input.kind = "url" =>
           \E u \in Urls, old \in OldUrls :
             /\ input.url = u /\ input.alloc \in BOOLEAN
             /\ input.file = WrittenOver(Planned(old), Planned(u))
      /\ input.kind = "keys" => input.a \in DiversificationInputs /\ input.b \in DiversificationInputs
      /\ input.kind = "status" => input.framing \in Framing
<1>7. ASSUME NEW b \in Containers, input = [kind |-> "container", bytes |-> b] PROVE Good
  BY <1>2, <1>6, <1>7, Zenon
<1>8. ASSUME NEW u \in Urls, NEW old \in OldUrls, NEW alloc \in BOOLEAN,
             input = [kind |-> "url", url |-> u, alloc |-> alloc,
                      file |-> WrittenOver(Planned(old), Planned(u))]
      PROVE  Good
  BY <1>3, <1>6, <1>8, Zenon
<1>9. ASSUME NEW a \in DiversificationInputs, NEW b \in DiversificationInputs,
             input = [kind |-> "keys", a |-> a, b |-> b]
      PROVE  Good
  BY <1>4, <1>6, <1>9, Zenon
<1>10. ASSUME NEW f \in Framing, NEW w \in Words,
              input = [kind |-> "status", framing |-> f, word |-> w]
       PROVE  Good
  BY <1>5, <1>6, <1>10, Zenon
<1>11. input = NoInput => Good
  BY <1>1, Zenon
<1> HIDE DEF Good
<1>12. Good
  BY <1>7, <1>8, <1>9, <1>10, <1>11, Zenon DEF InputInv
<1> QED BY <1>12 DEF Good

LEMMA InputsAreBytes == DiversificationInputs \subseteq Seq(0 .. 255)
<1> SUFFICES ASSUME NEW m \in DiversificationInputs PROVE m \in Seq(0 .. 255)
  OBVIOUS
<1> PICK uid \in Uids, k \in KeyNumbers, id \in SystemIds : m = InputOf(uid, k, id)
  BY DEF DiversificationInputs
<1>1. uid \in Seq(0 .. 255) /\ k \in 0 .. 255 /\ id \in Seq(0 .. 255)
  BY InputsAssumption
<1>2. <<k>> \in Seq(0 .. 255)
  BY <1>1
<1>3. uid \o <<k>> \in Seq(0 .. 255)
  BY <1>1, <1>2, ConcatProperties
<1>4. (uid \o <<k>>) \o id \in Seq(0 .. 255)
  BY <1>1, <1>3, ConcatProperties
<1> QED BY <1>4 DEF InputOf

LEMMA FormsHold ==
  ASSUME InputInv
  PROVE  ContainerRoundTrip /\ UrlReadsBack /\ KeysDistinct /\ StatusFaithful
<1>1. ContainerRoundTrip
  <2> SUFFICES ASSUME input.kind = "container", Parses(input.bytes)
               PROVE  ToBytes(FromBytes(input.bytes)) = SubSeq(input.bytes, 1, 7 + 8 * Count(input.bytes))
    BY Zenon DEF ContainerRoundTrip
  <2>1. input.bytes \in Seq(0 .. 255)
    BY KindIs, InputsAssumption, Zenon
  <2> QED BY <2>1, ContainerBack
<1>2. UrlReadsBack
  <2> SUFFICES ASSUME input.kind = "url", input.alloc \/ Len(input.url) <= MaxString
               PROVE  ParseNdefUri(input.file, input.alloc) = <<"ok", input.url>>
    BY Zenon DEF UrlReadsBack
  <2>1. PICK u \in Urls, old \in OldUrls :
          input.url = u /\ input.alloc \in BOOLEAN /\ input.file = WrittenOver(Planned(old), Planned(u))
    BY KindIs, Zenon
  <2>2. u \in Seq(STRING) /\ old \in Seq(STRING)
    BY InputsAssumption
  <2> QED BY <2>1, <2>2, PlanReadsBack, Zenon
<1>3. KeysDistinct
  <2> SUFFICES ASSUME input.kind = "keys", Accepted(input.a), Accepted(input.b),
                      DiversifyAes128(input.a) = DiversifyAes128(input.b)
               PROVE  input.a = input.b
    BY Zenon DEF KeysDistinct
  <2>1. input.a \in Seq(0 .. 255) /\ input.b \in Seq(0 .. 255)
    BY KindIs, InputsAreBytes, Zenon
  <2>2. Len(input.a) <= Len(input.b) \/ Len(input.b) <= Len(input.a)
    BY <2>1
  <2> QED BY <2>1, <2>2, KeysApart
<1>4. StatusFaithful
  <2> SUFFICES ASSUME input.kind = "status"
               PROVE  /\ Ok(input.framing, input.word)
                           <=> Status(input.framing, input.word) \in {"OperationOk", "NormalProcessing"}
                      /\ \A f \in Framing \ {input.framing} :
                           Status(input.framing, input.word) # "Unknown" => Status(f, input.word) = "Unknown"
    BY Zenon DEF StatusFaithful
  <2>1. input.framing \in Framing
    BY KindIs, Zenon
  <2> QED BY <2>1, StatusTold, Zenon DEF SuccessNames
<1> QED BY <1>1, <1>2, <1>3, <1>4

-----------------------------------------------------------------------------
(* The parts within the whole *)

LEMMA NextIs ==
  ASSUME [Next]_vars
  PROVE  /\ [PersonalisationNext]_persVars /\ [ConfigurationNext]_confVars
         /\ [SuiteNext]_suiteVars /\ [ChainNext]_chainVars
<1>1. CASE UNCHANGED vars
  BY <1>1, Zenon DEF vars
<1>2. CASE Choose
  BY <1>2, Zenon DEF Choose
<1> QED BY <1>1, <1>2, Zenon DEF Next

LEMMA PartsStart ==
  Spec => /\ InitPersonalisation /\ [][PersonalisationNext]_persVars
          /\ InitConfiguration /\ [][ConfigurationNext]_confVars
          /\ InitSuite /\ [][SuiteNext]_suiteVars
          /\ InitChain /\ [][ChainNext]_chainVars
<1>1. Init => InitPersonalisation /\ InitConfiguration /\ InitSuite /\ InitChain
  BY DEF Init
<1> QED BY <1>1, NextIs, PTL DEF Spec

\* What a parsed container is written back as, for any bytes.
THEOREM ContainersReadBack == Spec => []ContainerRoundTrip
  BY InputOk, FormsHold, PTL

\* `parse_ndef_uri` gives back the URL that the planner has abbreviated and
\* framed, whatever record lay under it and under every prefix of the table:
\* any URL in a build with `alloc`, and in one without any that is no longer
\* than the string it is put together in.
THEOREM UrlsReadBack == Spec => []UrlReadsBack
  BY InputOk, FormsHold, PTL

\* Padding and subkeys keep inputs apart: no two inputs of `diversify_ntag424`
\* make one key, for every block size and whatever the bytes are.
THEOREM KeysApartCorrect == Spec => []KeysDistinct
  BY InputOk, FormsHold, PTL

\* Success in one framing is nothing in the other, for both tests for it.
THEOREM StatusCorrect == Spec => []StatusFaithful
  BY InputOk, FormsHold, PTL

\* File settings and containers for the whole: edits read back, calls are
\* refused for the rights alone, and a container publishes what they grant.
THEOREM SettingsCorrect == Spec => EditReadsBack /\ RefusedForRightsOnly /\ []ContainerHonest
  BY PartsStart, EditsReadBack, RefusedForRights, HonestContainer, PTL

\* `apply_configuration` for the whole: the tag has the options in the
\* documented order, up to where a call has broken off.
THEOREM OrderCorrect == Spec => []ConfiguredInOrder
  BY PartsStart, AppliedInOrder, PTL

\* GetVersion for the whole: a version has its three parts, each in its place.
THEOREM VersionCorrect == Spec => []VersionWhole
  BY PartsStart, WholeVersion, PTL

\* The suites for the whole: the messages, the counters and the vectors.
THEOREM SuiteCorrect == Spec => []MessageRecovered /\ []CountersFresh /\ []VectorsWhole
  BY PartsStart, MessagesRecovered, FreshCounters, WholeVectors, PTL
=============================================================================
