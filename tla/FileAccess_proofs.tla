-------------------------- MODULE FileAccess_proofs --------------------------
(***************************************************************************)
(* Machine-checked facts about selections, transfers and the factory       *)
(* check, for any files, chunk sizes, offsets, lengths and number of calls.*)
(***************************************************************************)
EXTENDS FileAccess, TLAPS

CallRecord ==
  [op: Op \union {"none"}, mode: Mode \union {"auto"}, file: File \union {"none"},
   off: Nat, size: Nat, buf: Nat, pos: Nat, n: Nat, stage: Nat,
   chip: [odd: SUBSET Aspect, loop: BOOLEAN],
   out: {"none", "running", "ok", "error", "panic"}]

\* k bytes of a file from an offset, each at its place in the buffer.
Span(f, o, k) == {<<f, o + i, i>> : i \in 0 .. (k - 1)}

\* A session that has not been used again after a lost SELECT takes no other
\* EF for selected than the tag does, if the tag has any.
EfAgree == ~lostSelect /\ host.ef # "none" /\ card.ef # "none" => card.ef = host.ef

\* Only sessions that are not authenticated select anything.  (No call that
\* runs is without an operation.)
Selecting(c) ==
  \/ c.op \in {"none", "settings", "version", "authenticate", "check"}
  \/ c.op \in {"read", "write"} /\ c.mode = "iso"
OpenSession == Running /\ Selecting(call) => ~host.auth

\* A transfer on its way: the chunks so far, one behind the other.
TransferShape ==
  Running /\ call.op \in {"read", "write"} =>
    /\ call.file \in File
    /\ call.mode = "iso" \/ call.op = "write" => call.size = 0
    /\ call.pos = call.off + call.n
    /\ WholeFile \/ call.mode = "auto" => call.n = 0
    /\ ~lostSelect =>
         /\ moved = Span(call.file, call.off, call.n)
         /\ call.n > 0 => call.off + call.n <= Size[call.file]

\* What a factory check has read when it is at its present stage.
Looked ==
  IF call.stage = 1 THEN Span("cc", 0, call.n)
  ELSE IF call.stage = 2 THEN Span("cc", 0, Size["cc"])
  ELSE IF call.stage = 3 THEN Span("cc", 0, Size["cc"]) \union Span("ndef", 0, call.n)
  ELSE OpenFiles

\* No stage that lies behind a running check differs from the factory state.
CheckShape ==
  Running /\ Checking =>
    /\ call.stage \in 1 .. 15 /\ call.mode = "iso" /\ call.size = 0
    /\ call.stage = 1 => call.file = "cc" /\ call.buf = Size["cc"] /\ call.pos = call.n
    /\ call.stage = 3 => call.file = "ndef" /\ call.buf = Size["ndef"] /\ call.pos = call.n
    /\ \A i \in 1 .. (call.stage - 1) : StageOf(i) \notin call.chip.odd
    /\ ~lostSelect => moved = Looked

NothingYet == call = Idle => moved = {}

TypeInv      == TypeOK /\ call \in CallRecord
SelectionInv == EfAgree /\ OpenSession
BytesInv     == NothingYet /\ TransferShape /\ CheckShape /\ RightBytes /\ FactoryVerdict
FileInv      == TypeInv /\ SelectionInv /\ BytesInv

-----------------------------------------------------------------------------
(* Constants, records and stages *)

LEMMA SizeFacts ==
  /\ \A f \in File : /\ Size[f] \in Nat /\ 0 < Size[f]
                     /\ Size[f] < Field /\ Size[f] <= ReadCap["plain"]
  /\ IsoLimit \in Nat /\ Field \in Nat /\ 0 < Field /\ IsoLimit <= Field
  /\ "cc" \in File /\ "ndef" \in File /\ "none" \notin File
  BY FileAssumption, CapAssumption

LEMMA CapFacts ==
  ASSUME NEW m \in Mode
  PROVE  ReadCap[m] \in Nat /\ WriteCap[m] \in Nat
  BY CapAssumption

LEMMA StageFacts ==
  /\ Len(Stages) = 15
  /\ StageOf(1) = "cc" /\ StageOf(2) = "version" /\ StageOf(3) = "ndef" /\ StageOf(4) = "key0"
  /\ \A i \in 1 .. 15 : /\ StageOf(i) = "cc" <=> i = 1
                        /\ StageOf(i) = "version" <=> i = 2
                        /\ StageOf(i) = "ndef" <=> i = 3
                        /\ StageOf(i) = "key0" <=> i = 4
                        /\ StageOf(i) = "tamper" <=> i = 8
  BY DEF Stages, StageOf

\* The stages look at every required aspect.
LEMMA StagesCoverRequired == \A a \in Required : \E i \in 1 .. 15 : StageOf(i) = a
<1> SUFFICES ASSUME NEW a \in Required PROVE \E i \in 1 .. 15 : StageOf(i) = a
  OBVIOUS
<1>1. /\ StageOf(5) = "ccSettings" /\ StageOf(6) = "ndefSettings" /\ StageOf(7) = "propSettings"
      /\ StageOf(10) = "signature" /\ StageOf(11) = "key2" /\ StageOf(12) = "prop"
      /\ StageOf(13) = "key1" /\ StageOf(14) = "key3" /\ StageOf(15) = "key4"
  BY DEF Stages, StageOf
<1> QED BY <1>1, StageFacts DEF Required

LEMMA IdleFacts ==
  /\ Idle \in CallRecord /\ Idle.op = "none" /\ Idle.mode = "iso" /\ Idle.out = "none"
  /\ Idle.n = 0 /\ Idle.stage = 0 /\ Idle.size = 0 /\ Idle.buf = 0 /\ Idle.off = 0
  /\ Idle.file = "none" /\ Idle.pos = 0
  BY DEF Idle, CallRecord, NoChip, Mode

LEMMA EndedFacts ==
  ASSUME call \in CallRecord, NEW out \in {"ok", "error", "panic"}
  PROVE  LET c == Ended(out)
         IN  /\ c \in CallRecord /\ c.out = out /\ c.op = call.op /\ c.mode = call.mode
             /\ c.file = call.file /\ c.off = call.off /\ c.size = call.size /\ c.buf = call.buf
             /\ c.pos = call.pos /\ c.n = call.n /\ c.stage = call.stage /\ c.chip = call.chip
  BY DEF Ended, CallRecord

LEMMA OutFacts ==
  ASSUME NEW c \in CallRecord, NEW out \in {"ok", "error", "panic"}, NEW d,
         d = [c EXCEPT !.out = out]
  PROVE  /\ d \in CallRecord /\ d.out = out /\ d.op = c.op /\ d.mode = c.mode
         /\ d.file = c.file /\ d.off = c.off /\ d.size = c.size /\ d.buf = c.buf
         /\ d.pos = c.pos /\ d.n = c.n /\ d.stage = c.stage /\ d.chip = c.chip
<1>1. d \in CallRecord
  BY DEF CallRecord
<1> QED BY <1>1 DEF CallRecord

LEMMA AdvancedFacts ==
  ASSUME call \in CallRecord, NEW k \in Nat, NEW c, c = Advanced(k)
  PROVE  /\ c \in CallRecord /\ c.n = call.n + k /\ c.pos = call.pos + k
         /\ c.out = call.out /\ c.op = call.op /\ c.mode = call.mode
         /\ c.file = call.file /\ c.off = call.off /\ c.size = call.size /\ c.buf = call.buf
         /\ c.stage = call.stage /\ c.chip = call.chip
<1> DEFINE n == call.n + k
           pos == call.pos + k
<1>1. c = [call EXCEPT !.n = n, !.pos = pos] /\ n \in Nat /\ pos \in Nat
  BY DEF CallRecord, Advanced
<1> HIDE DEF n, pos
<1>2. c \in CallRecord
  BY <1>1 DEF CallRecord
<1>3. c.n = n /\ c.pos = pos
  BY <1>1 DEF CallRecord
<1> QED BY <1>1, <1>2, <1>3 DEF CallRecord, n, pos

LEMMA CallFields ==
  ASSUME call \in CallRecord
  PROVE  /\ call.op \in Op \union {"none"} /\ call.mode \in Mode \union {"auto"}
         /\ call.file \in File \union {"none"} /\ call.off \in Nat /\ call.size \in Nat
         /\ call.buf \in Nat /\ call.pos \in Nat /\ call.n \in Nat /\ call.stage \in Nat
         /\ call.chip \in [odd: SUBSET Aspect, loop: BOOLEAN]
         /\ call.out \in {"none", "running", "ok", "error", "panic"}
  BY DEF CallRecord

LEMMA SessionFacts ==
  /\ Fresh \in Selection /\ Fresh.ef = "none" /\ ~Fresh.auth /\ ~Fresh.app
  /\ Selected \in Selection /\ Selected.ef = "none" /\ ~Selected.auth /\ Selected.app
  BY DEF Fresh, Selected, Selection

-----------------------------------------------------------------------------
(* Bytes *)

LEMMA PrefixIsSpan == \A k \in Nat : Prefix(k) = Span(call.file, call.off, k)
  BY DEF Prefix, Span

\* k bytes that follow n others, from an offset and from a place in the buffer.
More(f, o, n, k) == {<<f, o + i, n + i>> : i \in 0 .. (k - 1)}

\* Two transfers, one behind the other, are one.
LEMMA SpanGrows ==
  ASSUME NEW f, NEW o \in Nat, NEW n \in Nat, NEW k \in Nat
  PROVE  Span(f, o, n) \union More(f, o + n, n, k) = Span(f, o, n + k)
<1> DEFINE more == More(f, o + n, n, k)
<1>1. ASSUME NEW x \in Span(f, o, n) PROVE x \in Span(f, o, n + k)
  BY DEF Span
<1>2. ASSUME NEW x \in more PROVE x \in Span(f, o, n + k)
  <2>1. PICK i \in 0 .. (k - 1) : x = <<f, (o + n) + i, n + i>>
    BY DEF More
  <2>2. n + i \in 0 .. (n + k - 1) /\ (o + n) + i = o + (n + i)
    OBVIOUS
  <2> QED BY <2>1, <2>2 DEF Span
<1>3. ASSUME NEW x \in Span(f, o, n + k) PROVE x \in Span(f, o, n) \union more
  <2>1. PICK j \in 0 .. (n + k - 1) : x = <<f, o + j, j>>
    BY DEF Span
  <2>2. CASE j < n
    BY <2>1, <2>2 DEF Span
  <2>3. CASE ~(j < n)
    <3>1. j - n \in 0 .. (k - 1) /\ (o + n) + (j - n) = o + j /\ n + (j - n) = j
      BY <2>3
    <3> QED BY <2>1, <3>1 DEF More
  <2> QED BY <2>2, <2>3
<1> QED BY <1>1, <1>2, <1>3

LEMMA EmptySpan == \A f, o : Span(f, o, 0) = {}
  BY DEF Span

LEMMA OpenFilesAre == OpenFiles = Span("cc", 0, Size["cc"]) \union Span("ndef", 0, Size["ndef"])
<1>1. \A f \in {"cc", "ndef"} :
        {<<g, p, p>> : g \in {f}, p \in 0 .. (Size[f] - 1)} = Span(f, 0, Size[f])
  BY SizeFacts DEF Span
<1> QED BY <1>1 DEF OpenFiles

-----------------------------------------------------------------------------
(* Steps that every operation has in common *)

LEMMA SameCall ==
  ASSUME FileInv, UNCHANGED <<call, moved, lostSelect, calls>>,
         host' \in Selection, card' \in Selection,
         SelectionInv'
  PROVE  FileInv'
<1>1. TypeInv'
  BY DEF FileInv, TypeInv, TypeOK, Target, CallRecord
<1>2. TransferShape' /\ RightBytes'
  BY DEF FileInv, BytesInv, TransferShape, RightBytes, Running, WholeFile, Target, Complete, Prefix
<1>3. CheckShape'
  BY DEF FileInv, BytesInv, CheckShape, Running, Checking, Looked
<1>4. FactoryVerdict' /\ NothingYet'
  BY DEF FileInv, BytesInv, FactoryVerdict, Checking, NothingYet
<1> QED BY <1>1, <1>2, <1>3, <1>4 DEF FileInv, BytesInv

\* What may have been moved when a call fails: what had been before, and the
\* last chunk of a write whose answer was lost.  (A check fails with no claim.)
LeftBehind ==
  \/ moved' = moved \/ Checking
  \/ /\ call.op = "write"
     /\ \E w \in Nat : /\ call.n + w <= Target
                       /\ ~lostSelect => moved' = Span(call.file, call.off, call.n + w)

LEMMA StoppedCall ==
  ASSUME FileInv, Running, NEW out \in {"error", "panic"}, call' = Ended(out),
         LeftBehind, UNCHANGED calls, lostSelect' \in {lostSelect, TRUE},
         host' \in Selection, card' \in Selection
  PROVE  TypeInv' /\ BytesInv' /\ OpenSession'
<1> USE DEF FileInv, TypeInv
<1>1. /\ call' \in CallRecord /\ call'.out = out /\ call'.op = call.op /\ call'.mode = call.mode
      /\ call'.file = call.file /\ call'.off = call.off /\ call'.size = call.size
      /\ call'.buf = call.buf /\ call'.n = call.n /\ call'.stage = call.stage
  BY EndedFacts
<1>2. TypeInv'
  BY <1>1 DEF TypeOK, Target
<1>3. ~Running'
  BY <1>1 DEF Running
<1>4. FactoryVerdict' /\ NothingYet'
  BY <1>1, IdleFacts DEF FactoryVerdict, NothingYet
<1>5. RightBytes'
  <2>1. Target' = Target /\ Target \in Nat /\ call.buf \in Nat /\ call.n \in 0 .. Target
    BY <1>1, CallFields DEF Target, TypeOK
  <2>2. \A k : Prefix(k)' = Prefix(k)
    BY <1>1 DEF Prefix
  <2>3. CASE moved' = moved
    BY <1>1, <2>1, <2>2, <2>3 DEF BytesInv, RightBytes
  <2>4. CASE Checking
    BY <1>1, <2>4 DEF RightBytes, Checking
  <2>5. CASE LeftBehind /\ moved' # moved /\ ~Checking
    <3>1. PICK k \in Nat : /\ k <= Target
                           /\ ~lostSelect => moved' = Span(call.file, call.off, k)
      BY <2>1, <2>5 DEF LeftBehind
    <3>2. Prefix(k)' = Span(call.file, call.off, k)
      BY <2>2, PrefixIsSpan
    <3>3. k \in 0 .. Target' + call'.buf
      BY <1>1, <2>1, <3>1
    <3> QED BY <1>1, <3>1, <3>2, <3>3 DEF RightBytes
  <2> QED BY <2>3, <2>4, <2>5
<1> QED BY <1>2, <1>3, <1>4, <1>5 DEF BytesInv, TransferShape, CheckShape, OpenSession

\* An error, with the tag as it was or with less selected.
LEMMA FailedCall ==
  ASSUME FileInv, Running, Fail, LeftBehind, UNCHANGED calls, card' \in Selection,
         card'.ef \in {card.ef, "none"}
  PROVE  FileInv'
<1> USE DEF FileInv, TypeInv
<1>1. call' = Ended("error") /\ host' \in {host, Fresh} /\ UNCHANGED lostSelect
  BY DEF Fail, Drop
<1>2. host' \in Selection /\ lostSelect' \in {lostSelect, TRUE}
  BY <1>1, SessionFacts DEF TypeOK
<1>3. TypeInv' /\ BytesInv' /\ OpenSession'
  BY <1>1, <1>2, StoppedCall
<1>4. EfAgree'
  BY <1>1, SessionFacts DEF SelectionInv, EfAgree
<1> QED BY <1>3, <1>4 DEF SelectionInv

\* A refusal may end the authentication at the tag, and no more.
LEMMA RefusedFacts ==
  ASSUME card \in Selection, card' \in Refusing
  PROVE  card' \in Selection /\ card'.ef = card.ef /\ card'.app = card.app
  BY DEF Refusing, Selection

LEMMA RefusedCall ==
  ASSUME FileInv, Running, Fail, LeftBehind, UNCHANGED calls, card' \in Refusing
  PROVE  FileInv'
<1>1. card \in Selection
  BY DEF FileInv, TypeInv, TypeOK
<1> QED BY <1>1, RefusedFacts, FailedCall

\* A call that does not move bytes comes to its end.
LEMMA FinishedCall ==
  ASSUME FileInv, Running, call.op \in Plain, call' = Ended("ok"),
         UNCHANGED <<moved, lostSelect, calls>>,
         host' \in Selection, card' \in Selection, EfAgree'
  PROVE  FileInv'
<1> USE DEF FileInv, TypeInv
<1>1. /\ call' \in CallRecord /\ call'.out = "ok" /\ call'.op = call.op /\ call'.mode = call.mode
      /\ call'.file = call.file /\ call'.size = call.size
      /\ call'.buf = call.buf /\ call'.n = call.n /\ call'.stage = call.stage
  BY EndedFacts
<1>2. TypeInv'
  BY <1>1 DEF TypeOK, Target
<1>3. BytesInv' /\ OpenSession'
  BY <1>1, IdleFacts DEF BytesInv, NothingYet, TransferShape, CheckShape, RightBytes,
     FactoryVerdict, OpenSession, Running, Checking, Plain
<1> QED BY <1>2, <1>3 DEF SelectionInv

-----------------------------------------------------------------------------
(* The caller *)

\* A call as it is made: nothing has been moved yet.
Fit(c) ==
  /\ c \in CallRecord /\ c.n = 0
  /\ c.op \in {"read", "write"} => /\ c.file \in File
                                   /\ c.mode = "iso" \/ c.op = "write" => c.size = 0
  /\ c.op = "check" => /\ c.stage = 1 /\ c.mode = "iso" /\ c.file = "cc" /\ c.off = 0
                       /\ c.size = 0 /\ c.buf = Size["cc"]
  /\ c.stage \in 0 .. 15

LEMMA BegunCall ==
  ASSUME FileInv, NEW c, Fit(c), Begin(c), Selecting(c) => ~host.auth
  PROVE  FileInv'
<1> USE DEF FileInv, TypeInv, Begin, Fit
<1>1. /\ call' \in CallRecord /\ call'.out = "running" /\ call'.op = c.op /\ call'.mode = c.mode
      /\ call'.file = c.file /\ call'.off = c.off /\ call'.size = c.size /\ call'.buf = c.buf
      /\ call'.n = 0 /\ call'.pos = c.off /\ call'.stage = c.stage /\ call'.chip = c.chip
  BY DEF CallRecord
<1>2. moved' = {} /\ UNCHANGED <<host, card, lostSelect>>
  BY DEF BytesInv, NothingYet
<1>3. TypeInv'
  <2>1. calls' \in 0 .. MaxCalls
    BY BoundAssumption DEF TypeOK
  <2>2. Target' \in Nat
    BY <1>1, CallFields DEF Target, CallRecord
  <2> QED BY <1>1, <1>2, <2>1, <2>2, StageFacts DEF TypeOK, CallRecord
<1>4. SelectionInv'
  BY <1>1, <1>2 DEF SelectionInv, EfAgree, OpenSession, Selecting, Running
<1>5. NothingYet' /\ FactoryVerdict'
  BY <1>1, <1>2 DEF NothingYet, FactoryVerdict
<1>6. TransferShape'
  BY <1>1, <1>2, EmptySpan DEF TransferShape, CallRecord
<1>7. CheckShape'
  BY <1>1, <1>2, EmptySpan DEF CheckShape, Looked, Checking
<1>8. RightBytes'
  <2>1. 0 \in 0 .. Target' + call'.buf
    BY <1>1 DEF Target, CallRecord
  <2>2. Prefix(0)' = {}
    BY DEF Prefix
  <2> QED BY <1>1, <1>2, <2>1, <2>2 DEF RightBytes
<1> QED BY <1>3, <1>4, <1>5, <1>6, <1>7, <1>8 DEF BytesInv

LEMMA SimpleFits == ASSUME NEW op \in Plain PROVE Fit(Simple(op)) /\ Simple(op).op = op
<1>1. Simple(op) \in CallRecord
  BY IdleFacts DEF Simple, CallRecord, Op
<1> QED BY <1>1, IdleFacts DEF Fit, Simple, Plain, CallRecord

LEMMA TransferFits ==
  ASSUME NEW op \in {"read", "write"}, NEW m \in Mode \union {"auto"}, NEW f \in File,
         NEW o \in Nat, NEW k \in Nat, NEW b \in Nat, m = "iso" \/ op = "write" => k = 0
  PROVE  LET c == Transfer(op, m, f, o, k, b) IN Fit(c) /\ c.op = op /\ c.mode = m
<1> DEFINE c == Transfer(op, m, f, o, k, b)
<1>1. c \in CallRecord
  BY IdleFacts DEF Transfer, CallRecord, Op
<1> QED BY <1>1, IdleFacts DEF Fit, Transfer, CallRecord

LEMMA ReadsFit ==
  ASSUME NEW m \in Mode \union {"auto"}, NEW c \in Reads(m)
  PROVE  Fit(c) /\ c.op = "read" /\ c.mode = m
<1> DEFINE sizes == IF m = "iso" THEN {0} ELSE Lengths
<1> HIDE DEF sizes
<1>1. PICK f \in File, o \in Offsets, k \in sizes, b \in Buffers :
        c = Transfer("read", m, f, o, k, b)
  BY DEF Reads, sizes
<1>2. o \in Nat /\ k \in Nat /\ b \in Nat /\ (m = "iso" => k = 0)
  BY BoundAssumption DEF sizes
<1> QED BY <1>1, <1>2, TransferFits

LEMMA WritesFit ==
  ASSUME NEW m \in Mode \union {"auto"}, NEW c \in Writes(m)
  PROVE  Fit(c) /\ c.op = "write" /\ c.mode = m
<1>1. PICK f \in File, o \in Offsets, b \in Buffers : c = Transfer("write", m, f, o, 0, b)
  BY DEF Writes
<1>2. o \in Nat /\ b \in Nat
  BY BoundAssumption
<1> QED BY <1>1, <1>2, TransferFits

LEMMA ChipsTyped == \A chip \in Chips : chip \in [odd: SUBSET Aspect, loop: BOOLEAN]
  BY DEF Chips, Aspect

LEMMA BeginUnauthenticatedInv == ASSUME FileInv, BeginUnauthenticated PROVE FileInv'
<1>1. ~host.auth
  BY DEF BeginUnauthenticated
<1>2. CASE \E c \in Reads("iso") \union Writes("iso") : Begin(c)
  BY <1>1, <1>2, ReadsFit, WritesFit, BegunCall DEF Mode
<1>3. CASE \E op \in {"settings", "version", "authenticate"} : Begin(Simple(op))
  BY <1>1, <1>3, SimpleFits, BegunCall DEF Plain
<1>4. ASSUME NEW chip \in Chips,
             Begin([Simple("check") EXCEPT !.file = "cc", !.buf = Size["cc"],
                                           !.stage = 1, !.chip = chip])
      PROVE  FileInv'
  <2> DEFINE c == [Simple("check") EXCEPT !.file = "cc", !.buf = Size["cc"],
                                          !.stage = 1, !.chip = chip]
  <2>1. c \in CallRecord
    BY IdleFacts, ChipsTyped, SizeFacts DEF Simple, CallRecord, Op
  <2>2. Fit(c)
    BY <2>1, IdleFacts DEF Fit, Simple, CallRecord
  <2> QED BY <1>1, <1>4, <2>2, BegunCall
<1> QED BY <1>2, <1>3, <1>4 DEF BeginUnauthenticated

LEMMA BeginAuthenticatedInv == ASSUME FileInv, BeginAuthenticated PROVE FileInv'
<1>1. ASSUME NEW m \in DataMode \union {"auto"}, NEW c \in Reads(m) \union Writes(m), Begin(c)
      PROVE  FileInv'
  <2>1. Fit(c) /\ c.op \in {"read", "write"} /\ c.mode # "iso"
    BY <1>1, ReadsFit, WritesFit DEF Mode, DataMode
  <2> QED BY <1>1, <2>1, BegunCall DEF Selecting
<1>2. ASSUME NEW op \in {"enableLrp", "changeMasterKey"}, Begin(Simple(op)) PROVE FileInv'
  BY <1>2, SimpleFits, BegunCall DEF Plain, Selecting
<1> QED BY <1>1, <1>2 DEF BeginAuthenticated

LEMMA ReturnInv == ASSUME FileInv, Return PROVE FileInv'
<1> USE DEF FileInv, TypeInv, Return
<1>1. call' = Idle /\ moved' = {} /\ UNCHANGED <<host, card, calls>>
  OBVIOUS
<1>2. TypeInv'
  BY <1>1, IdleFacts, StageFacts DEF TypeOK, Target, Op, Mode
<1>3. SelectionInv'
  BY <1>1, IdleFacts, SessionFacts
     DEF SelectionInv, EfAgree, OpenSession, Selecting, Running, TypeOK
<1>4. BytesInv'
  BY <1>1, IdleFacts
     DEF BytesInv, NothingYet, TransferShape, CheckShape, RightBytes, FactoryVerdict, Running, Checking
<1> QED BY <1>2, <1>3, <1>4

LEMMA NewSessionInv == ASSUME FileInv, NewSession PROVE FileInv'
<1> USE DEF FileInv, TypeInv, NewSession
<1>1. /\ call = Idle /\ host' = Fresh /\ lostSelect' = FALSE /\ moved = {}
      /\ UNCHANGED <<card, call, moved, calls>>
  BY DEF BytesInv, NothingYet
<1>2. TypeInv'
  BY <1>1, SessionFacts DEF TypeOK, Target
<1>3. SelectionInv'
  BY <1>1, IdleFacts, SessionFacts
     DEF SelectionInv, EfAgree, OpenSession, Running
<1>4. BytesInv'
  BY <1>1, IdleFacts
     DEF BytesInv, NothingYet, TransferShape, CheckShape, RightBytes, FactoryVerdict, Running, Checking
<1> QED BY <1>2, <1>3, <1>4

-----------------------------------------------------------------------------
(* Selections and short operations *)

LEMMA SelectApplicationInv == ASSUME FileInv, SelectApplication PROVE FileInv'
<1> USE DEF FileInv, TypeInv
<1>1. Running /\ UNCHANGED calls /\ ~host.auth
  <2>1. Selecting(call)
    BY DEF SelectApplication, NeedsApp, Iso, IsoCheck, Checking, Selecting
  <2> QED BY <2>1 DEF SelectApplication, NeedsApp, Ask, Exchange, SelectionInv, OpenSession
<1>2. CASE Fail /\ UNCHANGED moved /\ card' = Selected
  BY <1>1, <1>2, SessionFacts, FailedCall DEF LeftBehind
<1>4. CASE Fail /\ UNCHANGED moved /\ card' \in Refusing
  BY <1>1, <1>4, RefusedCall DEF LeftBehind
<1>3. CASE card' = Selected /\ host' = [host EXCEPT !.app = TRUE, !.ef = "none"]
           /\ UNCHANGED <<call, moved, lostSelect>>
  <2>1. host' \in Selection /\ card' \in Selection /\ host'.ef = "none" /\ ~host'.auth
    BY <1>1, <1>3, SessionFacts DEF TypeOK, Selection
  <2>2. SelectionInv'
    BY <1>1, <1>3, <2>1 DEF SelectionInv, EfAgree, OpenSession
  <2> QED BY <1>1, <1>3, <2>1, <2>2, SameCall
<1> QED BY <1>2, <1>3, <1>4 DEF SelectApplication, Ask, Exchange

LEMMA SelectEfInv == ASSUME FileInv, SelectEf PROVE FileInv'
<1> USE DEF FileInv, TypeInv
<1>1. Running /\ UNCHANGED <<moved, calls>> /\ ~host.auth /\ call.file \in File \union {"none"}
  <2>1. Selecting(call)
    BY DEF SelectEf, NeedsEf, Iso, IsoCheck, Checking, Selecting
  <2> QED BY <2>1, CallFields DEF SelectEf, NeedsEf, SelectionInv, OpenSession
<1>2. CASE card' \in Refusing /\ Fail
  BY <1>1, <1>2, RefusedCall DEF LeftBehind
<1>3. ASSUME card' = [card EXCEPT !.ef = call.file] PROVE card' \in Selection /\ card'.ef = call.file
  BY <1>1, <1>3 DEF TypeOK, Selection
<1>4. CASE card' = [card EXCEPT !.ef = call.file] /\ host' = [host EXCEPT !.ef = call.file]
           /\ UNCHANGED <<call, lostSelect>>
  <2>1. host' \in Selection /\ host'.ef = call.file /\ ~host'.auth
    BY <1>1, <1>4 DEF TypeOK, Selection
  <2>2. SelectionInv'
    BY <1>1, <1>3, <1>4, <2>1 DEF SelectionInv, EfAgree, OpenSession
  <2> QED BY <1>1, <1>3, <1>4, <2>1, <2>2, SameCall
<1>5. CASE /\ card' = [card EXCEPT !.ef = call.file] /\ call' = Ended("error")
           /\ (Drop /\ UNCHANGED lostSelect) \/ (UNCHANGED host /\ lostSelect' = TRUE)
  <2>1. host' \in Selection /\ lostSelect' \in {lostSelect, TRUE}
    BY <1>5, SessionFacts DEF Drop, TypeOK
  <2>2. TypeInv' /\ BytesInv' /\ OpenSession'
    BY <1>1, <1>3, <1>5, <2>1, StoppedCall DEF LeftBehind
  <2>3. EfAgree'
    BY <1>1, <1>5, SessionFacts DEF Drop, EfAgree
  <2> QED BY <2>2, <2>3 DEF SelectionInv
<1> QED BY <1>2, <1>4, <1>5 DEF SelectEf

LEMMA RefuseInv == ASSUME FileInv, Refuse PROVE FileInv'
<1>1. Running /\ Fail /\ UNCHANGED <<card, moved, calls>>
  BY DEF Refuse, Transferring, Reject
<1> QED BY <1>1, FailedCall DEF LeftBehind, FileInv, TypeInv, TypeOK

LEMMA PanicInv == ASSUME FileInv, Panic PROVE FileInv'
<1> USE DEF FileInv, TypeInv
<1>1. /\ Running /\ call' = Ended("panic") /\ host' = Fresh
      /\ UNCHANGED <<card, moved, lostSelect, calls>>
  BY DEF Panic, Transferring, Drop
<1>2. TypeInv' /\ BytesInv' /\ OpenSession'
  BY <1>1, SessionFacts, StoppedCall DEF LeftBehind, TypeOK
<1>3. EfAgree'
  BY <1>1, SessionFacts DEF EfAgree
<1> QED BY <1>2, <1>3 DEF SelectionInv

LEMMA ChooseModeInv == ASSUME FileInv, ChooseMode PROVE FileInv'
<1> USE DEF FileInv, TypeInv
<1>1. PICK m \in DataMode : Ask(card.auth, card, host, [call EXCEPT !.mode = m])
  BY DEF ChooseMode
<1>2. Running /\ call.mode = "auto" /\ UNCHANGED <<calls, moved>>
  BY <1>1 DEF ChooseMode, Ask, Exchange
<1>3. CASE Fail /\ card' \in Refusing
  BY <1>2, <1>3, RefusedCall DEF LeftBehind
<1>5. card \in Refusing
  BY DEF Refusing
<1>4. CASE call' = [call EXCEPT !.mode = m] /\ UNCHANGED <<host, card, lostSelect>>
  <2>1. /\ call' \in CallRecord /\ call'.mode = m /\ call'.op = call.op /\ call'.file = call.file
        /\ call'.off = call.off /\ call'.size = call.size /\ call'.buf = call.buf
        /\ call'.pos = call.pos /\ call'.n = call.n /\ call'.stage = call.stage
        /\ call'.out = call.out /\ call'.chip = call.chip
    BY <1>4 DEF CallRecord, Mode
  <2>2. Target' = Target
    BY <2>1 DEF Target
  <2>3. TypeInv'
    BY <1>2, <1>4, <2>1, <2>2 DEF TypeOK, Mode
  <2>4. SelectionInv'
    BY <1>2, <1>4, <2>1
       DEF SelectionInv, EfAgree, OpenSession, Selecting, DataMode, Running
  <2>5. CheckShape' /\ NothingYet' /\ FactoryVerdict'
    BY <1>2, <1>4, <2>1, IdleFacts
       DEF BytesInv, CheckShape, NothingYet, FactoryVerdict, Checking, Running
  <2>6. TransferShape'
    BY <1>2, <1>4, <2>1 DEF BytesInv, TransferShape, Running, WholeFile, DataMode
  <2>7. RightBytes'
    <3>1. \A k : Prefix(k)' = Prefix(k)
      BY <2>1 DEF Prefix
    <3> QED BY <1>2, <1>4, <2>1, <2>2, <3>1 DEF BytesInv, RightBytes, Running
  <2> QED BY <2>3, <2>4, <2>5, <2>6, <2>7 DEF BytesInv
<1> QED BY <1>1, <1>3, <1>4, <1>5 DEF Ask, Exchange

LEMMA GetFileSettingsInv == ASSUME FileInv, GetFileSettings PROVE FileInv'
<1> USE DEF FileInv, TypeInv, SelectionInv
<1>1. Running /\ call.op = "settings" /\ UNCHANGED <<moved, calls>> /\ card \in Refusing
  BY DEF GetFileSettings, Ask, Exchange, Refusing
<1>2. CASE Fail /\ card' \in Refusing
  BY <1>1, <1>2, RefusedCall DEF LeftBehind
<1>3. CASE UNCHANGED <<host, card, lostSelect>> /\ call' = Ended("ok")
  BY <1>1, <1>3, FinishedCall DEF Plain, TypeOK, EfAgree
<1> QED BY <1>1, <1>2, <1>3 DEF GetFileSettings, Ask, Exchange

LEMMA GetVersionInv == ASSUME FileInv, GetVersion PROVE FileInv'
<1> USE DEF FileInv, TypeInv, SelectionInv
<1>1. Running /\ call.op = "version" /\ UNCHANGED <<moved, calls>> /\ card \in Refusing
  BY DEF GetVersion, Ask, Exchange, Refusing
<1>2. CASE Fail /\ card' \in Refusing
  BY <1>1, <1>2, RefusedCall DEF LeftBehind
<1>3. CASE UNCHANGED <<host, card, lostSelect>> /\ call' = Ended("ok")
  BY <1>1, <1>3, FinishedCall DEF Plain, TypeOK, EfAgree
<1> QED BY <1>1, <1>2, <1>3 DEF GetVersion, Ask, Exchange

LEMMA AuthenticateInv == ASSUME FileInv, Authenticate PROVE FileInv'
<1> USE DEF FileInv, TypeInv, SelectionInv
<1>1. Running /\ call.op = "authenticate" /\ ~host.auth /\ UNCHANGED <<moved, calls>>
  BY DEF Authenticate, Ask, Exchange, OpenSession, Selecting
<1>2. ASSUME card' \in {card, [card EXCEPT !.auth = TRUE]}
      PROVE  card' \in Selection /\ card'.ef = card.ef
  BY <1>2 DEF TypeOK, Selection
<1>3. CASE Fail /\ card' = [card EXCEPT !.auth = TRUE]
  BY <1>1, <1>2, <1>3, FailedCall DEF LeftBehind
<1>5. CASE Fail /\ card' \in Refusing
  BY <1>1, <1>5, RefusedCall DEF LeftBehind
<1>4. CASE /\ card' = [card EXCEPT !.auth = TRUE] /\ host' = [host EXCEPT !.auth = TRUE]
           /\ call' = Ended("ok") /\ UNCHANGED lostSelect
  <2>1. host' \in Selection /\ host'.ef = host.ef /\ card'.auth
    BY <1>4 DEF TypeOK, Selection
  <2> QED BY <1>1, <1>2, <1>4, <2>1, FinishedCall DEF Plain, EfAgree
<1> QED BY <1>1, <1>3, <1>4, <1>5 DEF Authenticate, Ask, Exchange

LEMMA EnableLrpInv == ASSUME FileInv, EnableLrp PROVE FileInv'
<1> USE DEF FileInv, TypeInv, SelectionInv
<1>1. Running /\ call.op = "enableLrp" /\ UNCHANGED <<moved, calls>>
  BY DEF EnableLrp, Ask, Exchange
<1>2. ASSUME card' \in {card, [card EXCEPT !.auth = FALSE]}
      PROVE  card' \in Selection /\ card'.ef = card.ef
  BY <1>2 DEF TypeOK, Selection
<1>3. CASE Fail /\ card' \in Refusing
  BY <1>1, <1>3, RefusedCall DEF LeftBehind
<1>4. CASE /\ card' = [card EXCEPT !.auth = FALSE] /\ host' = [host EXCEPT !.auth = FALSE]
           /\ call' = Ended("ok") /\ UNCHANGED lostSelect
  <2>1. host' \in Selection /\ host'.ef = host.ef /\ ~host'.auth
    BY <1>4 DEF TypeOK, Selection
  <2> QED BY <1>1, <1>2, <1>4, <2>1, FinishedCall DEF Plain, EfAgree
<1> QED BY <1>1, <1>3, <1>4 DEF EnableLrp, Ask, Exchange, Refusing

LEMMA ChangeMasterKeyInv == ASSUME FileInv, ChangeMasterKey PROVE FileInv'
<1> USE DEF FileInv, TypeInv, SelectionInv
<1>1. Running /\ call.op = "changeMasterKey" /\ UNCHANGED <<moved, calls>>
  BY DEF ChangeMasterKey, Ask, Exchange
<1>2. ASSUME card' \in {card, [card EXCEPT !.auth = FALSE]}
      PROVE  card' \in Selection /\ card'.ef = card.ef
  BY <1>2 DEF TypeOK, Selection
<1>3. CASE Fail /\ card' \in Refusing
  BY <1>1, <1>3, RefusedCall DEF LeftBehind
<1>4. CASE card' = [card EXCEPT !.auth = FALSE] /\ host' = Fresh /\ call' = Ended("ok")
           /\ UNCHANGED lostSelect
  BY <1>1, <1>2, <1>4, SessionFacts, FinishedCall DEF Plain, EfAgree
<1> QED BY <1>1, <1>3, <1>4 DEF ChangeMasterKey, Ask, Exchange, Refusing

LEMMA PowerCycleInv == ASSUME FileInv, PowerCycle PROVE FileInv'
<1> USE DEF FileInv, TypeInv
<1>1. card' = Fresh /\ UNCHANGED <<host, call, moved, lostSelect, calls>>
  BY DEF PowerCycle
<1>2. SelectionInv'
  BY <1>1, SessionFacts DEF SelectionInv, EfAgree, OpenSession, Running
<1> QED BY <1>1, <1>2, SessionFacts, SameCall DEF TypeOK

-----------------------------------------------------------------------------
(* The stages of a factory check *)

\* What has been read when the present stage is done with.
Done == IF call.stage \in {1, 2} THEN Span("cc", 0, Size["cc"]) ELSE OpenFiles

\* A stage that a check goes on from is like the factory state; the one that is
\* skipped is no aspect at all.
LEMMA StageAfter ==
  ASSUME FileInv, Running, Checking, call' = NextStage, call' # Ended("error")
  PROVE  \/ call.stage = 15 /\ call' = Ended("ok") /\ \A i \in 1 .. 15 : StageOf(i) \notin call.chip.odd
         \/ \E next \in 2 .. 15 :
              /\ call.stage < next
              /\ \A i \in 1 .. (next - 1) : StageOf(i) \notin call.chip.odd
              /\ call.stage = 1 => next = 2
              /\ call.stage = 2 => next = 3
              /\ call.stage > 2 => next > 3
              /\ IF next = 3
                   THEN call' = [call EXCEPT !.stage = 3, !.file = "ndef", !.buf = Size["ndef"],
                                             !.pos = 0, !.n = 0]
                   ELSE call' = [call EXCEPT !.stage = next, !.file = "none"]
<1> DEFINE next == IF Skipped(call.stage + 1, call.chip) THEN call.stage + 2 ELSE call.stage + 1
<1>1. /\ call.stage \in 1 .. 15 /\ ~Refuses(call.stage, call.chip)
      /\ \A i \in 1 .. (call.stage - 1) : StageOf(i) \notin call.chip.odd
  BY DEF NextStage, FileInv, BytesInv, CheckShape
<1>2. \A i \in 1 .. call.stage : StageOf(i) \notin call.chip.odd
  BY <1>1 DEF Refuses
<1>3. CASE IsLast(call.stage)
  BY <1>1, <1>2, <1>3, StageFacts DEF NextStage, IsLast
<1>4. CASE ~IsLast(call.stage)
  <2>1. call.stage \in 1 .. 14
    BY <1>1, <1>4, StageFacts DEF IsLast
  <2>2. Skipped(call.stage + 1, call.chip) => call.stage = 7
    BY <2>1, StageFacts DEF Skipped
  <2>3. /\ next \in 2 .. 15 /\ call.stage < next /\ (next = 3 <=> call.stage = 2)
        /\ next \in {call.stage + 1, call.stage + 2}
        /\ next = call.stage + 2 => call.stage = 7
        /\ next > call.stage
    BY <2>1, <2>2
  <2>4. "tamper" \notin call.chip.odd
    BY CallFields DEF FileInv, TypeInv, Aspect, Required, Lasting
  <2>5. \A i \in 1 .. (next - 1) : StageOf(i) \notin call.chip.odd
    BY <1>2, <2>1, <2>3, <2>4, StageFacts
  <2>6. StageOf(next) = "ndef" <=> next = 3
    BY <2>3, StageFacts
  <2>7. IF next = 3
          THEN call' = [call EXCEPT !.stage = 3, !.file = "ndef", !.buf = Size["ndef"],
                                    !.pos = 0, !.n = 0]
          ELSE call' = [call EXCEPT !.stage = next, !.file = "none"]
    BY <1>1, <1>4, <2>6 DEF NextStage
  <2> HIDE DEF next
  <2>8. (call.stage = 1 => next = 2) /\ (call.stage = 2 => next = 3) /\ (call.stage > 2 => next > 3)
    BY <2>1, <2>3
  <2> QED BY <2>3, <2>5, <2>7, <2>8
<1> QED BY <1>3, <1>4

\* The call at its next stage.
LEMMA NdefStageFields ==
  ASSUME NEW c \in CallRecord, NEW d,
         d = [c EXCEPT !.stage = 3, !.file = "ndef", !.buf = Size["ndef"], !.pos = 0, !.n = 0]
  PROVE  /\ d \in CallRecord
         /\ d.op = c.op /\ d.mode = c.mode /\ d.size = c.size /\ d.chip = c.chip
         /\ d.out = c.out /\ d.stage = 3 /\ d.file = "ndef" /\ d.buf = Size["ndef"]
         /\ d.pos = 0 /\ d.n = 0
<1>1. d \in CallRecord
  BY SizeFacts DEF CallRecord
<1> QED BY <1>1 DEF CallRecord

AtStage(c, s) == [c EXCEPT !.stage = s, !.file = "none"]

LEMMA OtherStageFields ==
  ASSUME NEW c \in CallRecord, NEW s \in Nat, NEW d, d = AtStage(c, s)
  PROVE  /\ d \in CallRecord
         /\ d.op = c.op /\ d.mode = c.mode /\ d.size = c.size /\ d.chip = c.chip
         /\ d.out = c.out /\ d.stage = s /\ d.n = c.n /\ d.buf = c.buf
<1>1. d \in CallRecord
  BY DEF CallRecord, AtStage
<1> QED BY <1>1 DEF CallRecord, AtStage

LEMMA NextStageInv ==
  ASSUME FileInv, Running, Checking, call' = NextStage, UNCHANGED <<host, lostSelect, calls>>,
         card' \in Selection, EfAgree', ~lostSelect => moved' = Done
  PROVE  FileInv'
<1> USE DEF FileInv, TypeInv
<1>1. CASE call' = Ended("error")
  <2>1. TypeInv' /\ BytesInv' /\ OpenSession'
    BY <1>1, StoppedCall DEF LeftBehind, TypeOK
  <2> QED BY <2>1 DEF SelectionInv
<1>2. CASE call.stage = 15 /\ call' = Ended("ok") /\ \A i \in 1 .. 15 : StageOf(i) \notin call.chip.odd
  <2>1. /\ call' \in CallRecord /\ call'.out = "ok" /\ call'.op = "check" /\ call'.mode = call.mode
        /\ call'.file = call.file /\ call'.size = call.size /\ call'.chip = call.chip
        /\ call'.buf = call.buf /\ call'.n = call.n /\ call'.stage = call.stage
    BY <1>2, EndedFacts DEF Checking
  <2>2. TypeInv'
    BY <2>1 DEF TypeOK, Target, Op
  <2>3. call.chip.odd \subseteq Lasting
    BY <1>2, CallFields, StagesCoverRequired DEF Aspect
  <2>4. FactoryVerdict'
    <3>1. Report(call'.chip) = Report(call.chip) /\ call'.chip.odd = call.chip.odd
      BY <2>1
    <3>2. ~lostSelect' => moved' = OpenFiles
      BY <1>2 DEF Done
    <3>3. Strictly(Report(call.chip)) => call.chip.odd = {}
      BY <2>3 DEF Strictly, Report, Lasting
    <3> QED BY <2>3, <3>1, <3>2, <3>3 DEF FactoryVerdict
  <2>5. BytesInv' /\ OpenSession'
    BY <2>1, <2>4, IdleFacts DEF BytesInv, NothingYet, TransferShape, CheckShape, RightBytes,
       OpenSession, Running
  <2> QED BY <2>2, <2>5 DEF SelectionInv
<1>3. ASSUME NEW next \in 2 .. 15, call.stage < next,
             \A i \in 1 .. (next - 1) : StageOf(i) \notin call.chip.odd,
             call.stage = 1 => next = 2, call.stage = 2 => next = 3, call.stage > 2 => next > 3,
             IF next = 3
               THEN call' = [call EXCEPT !.stage = 3, !.file = "ndef", !.buf = Size["ndef"],
                                         !.pos = 0, !.n = 0]
               ELSE call' = [call EXCEPT !.stage = next, !.file = "none"]
      PROVE  FileInv'
  <2>1. /\ call' \in CallRecord /\ call'.out = "running" /\ call'.op = "check"
        /\ call'.mode = "iso" /\ call'.size = 0 /\ call'.chip = call.chip /\ call'.stage = next
        /\ next = 3 => /\ call'.file = "ndef" /\ call'.buf = Size["ndef"]
                       /\ call'.pos = 0 /\ call'.n = 0
        /\ next # 3 => call'.n = call.n /\ call'.buf = call.buf
    <3>1. call.mode = "iso" /\ call.size = 0 /\ call.out = "running" /\ call.op = "check"
      BY DEF BytesInv, CheckShape, Checking, Running
    <3>2. CASE next = 3
      <4>1. call' = [call EXCEPT !.stage = 3, !.file = "ndef", !.buf = Size["ndef"],
                                 !.pos = 0, !.n = 0]
        BY <1>3, <3>2
      <4>2. /\ call' \in CallRecord
            /\ call'.op = call.op /\ call'.mode = call.mode /\ call'.size = call.size
            /\ call'.chip = call.chip /\ call'.out = call.out /\ call'.stage = 3
            /\ call'.file = "ndef" /\ call'.buf = Size["ndef"]
            /\ call'.pos = 0 /\ call'.n = 0
        BY <4>1, NdefStageFields, ZenonT(60)
      <4> QED BY <3>1, <3>2, <4>2
    <3>3. CASE next # 3
      <4>1. call' = AtStage(call, next)
        BY <1>3, <3>3 DEF AtStage
      <4>2. next \in Nat /\ call \in CallRecord
        OBVIOUS
      <4>3. /\ call' \in CallRecord
            /\ call'.op = call.op /\ call'.mode = call.mode /\ call'.size = call.size
            /\ call'.chip = call.chip /\ call'.out = call.out /\ call'.stage = next
            /\ call'.n = call.n /\ call'.buf = call.buf
        BY <4>1, <4>2, OtherStageFields
      <4> QED BY <3>1, <3>3, <4>3
    <3> QED BY <3>2, <3>3
  <2>2. Target' \in Nat /\ call'.n \in 0 .. Target'
    BY <2>1, CallFields, SizeFacts DEF BytesInv, CheckShape, Target, TypeOK
  <2>3. TypeInv'
    BY <2>1, <2>2, StageFacts DEF TypeOK, CallRecord
  <2>4. OpenSession'
    BY <2>1 DEF SelectionInv, OpenSession, Selecting, Checking, Running
  <2>5. call.stage \in 1 .. 15
    BY DEF BytesInv, CheckShape
  <2>6. ~lostSelect => moved' = Looked'
    BY <1>3, <2>1, <2>5, EmptySpan DEF Looked, Done
  <2>7. CheckShape'
    BY <1>3, <2>1, <2>6 DEF CheckShape
  <2>8. NothingYet' /\ TransferShape' /\ RightBytes' /\ FactoryVerdict'
    BY <2>1, IdleFacts DEF NothingYet, TransferShape, RightBytes, FactoryVerdict
  <2> QED BY <2>3, <2>4, <2>7, <2>8 DEF BytesInv, SelectionInv
<1> QED BY <1>1, <1>2, <1>3, StageAfter

LEMMA CheckVersionInv == ASSUME FileInv, CheckVersion PROVE FileInv'
<1> USE DEF FileInv, TypeInv, SelectionInv
<1>1. Running /\ Checking /\ StageOf(call.stage) = "version" /\ UNCHANGED <<moved, calls>>
  BY DEF CheckVersion, Ask, Exchange
<1>2. CASE Fail /\ card' \in Refusing
  BY <1>1, <1>2, RefusedCall DEF LeftBehind
<1>3. CASE call' = NextStage /\ UNCHANGED <<host, card, lostSelect>>
  <2>1. call.stage = 2
    BY <1>1, StageFacts DEF BytesInv, CheckShape
  <2>2. ~lostSelect => moved' = Done
    BY <1>1, <2>1 DEF BytesInv, CheckShape, Looked, Done
  <2> QED BY <1>1, <1>3, <2>2, NextStageInv DEF TypeOK, EfAgree
<1> QED BY <1>2, <1>3 DEF CheckVersion, Ask, Exchange, Refusing

LEMMA CheckMasterKeyInv == ASSUME FileInv, CheckMasterKey PROVE FileInv'
<1> USE DEF FileInv, TypeInv, SelectionInv
<1>1. Running /\ Checking /\ StageOf(call.stage) = "key0" /\ UNCHANGED <<moved, calls>> /\ ~host.auth
  BY DEF CheckMasterKey, Ask, Exchange, OpenSession, Selecting, Checking
<1>2. /\ [Selected EXCEPT !.auth = TRUE] \in Selection
      /\ [Selected EXCEPT !.auth = TRUE].ef = "none"
  BY SessionFacts DEF Selection
<1>3. CASE Fail /\ card' \in {Selected, [Selected EXCEPT !.auth = TRUE]}
  BY <1>1, <1>2, <1>3, SessionFacts, FailedCall DEF LeftBehind
<1>5. CASE Fail /\ card' \in Refusing
  BY <1>1, <1>5, RefusedCall DEF LeftBehind
<1>4. CASE /\ card' = [Selected EXCEPT !.auth = TRUE] /\ call' = NextStage
           /\ UNCHANGED <<host, lostSelect>>
  <2>1. call.stage = 4
    BY <1>1, StageFacts DEF BytesInv, CheckShape
  <2>2. ~lostSelect => moved' = Done
    BY <1>1, <2>1 DEF BytesInv, CheckShape, Looked, Done
  <2>3. card' \in Selection /\ EfAgree'
    BY <1>1, <1>2, <1>4 DEF EfAgree
  <2> QED BY <1>1, <1>4, <2>2, <2>3, NextStageInv
<1> QED BY <1>3, <1>4, <1>5 DEF CheckMasterKey, Ask, Exchange

LEMMA CheckAuthenticatedInv == ASSUME FileInv, CheckAuthenticated PROVE FileInv'
<1> USE DEF FileInv, TypeInv, SelectionInv
<1>1. /\ Running /\ Checking /\ UNCHANGED <<moved, calls>>
      /\ StageOf(call.stage) \notin {"cc", "version", "ndef", "key0"}
  BY DEF CheckAuthenticated, Ask, Exchange
<1>2. CASE Fail /\ card' \in Refusing
  BY <1>1, <1>2, RefusedCall DEF LeftBehind
<1>3. CASE call' = NextStage /\ UNCHANGED <<host, card, lostSelect>>
  <2>1. call.stage \notin {1, 2, 3}
    BY <1>1, StageFacts
  <2>2. ~lostSelect => moved' = Done
    BY <1>1, <2>1 DEF BytesInv, CheckShape, Looked, Done
  <2> QED BY <1>1, <1>3, <2>2, NextStageInv DEF TypeOK, EfAgree
<1> QED BY <1>2, <1>3 DEF CheckAuthenticated, Ask, Exchange, Refusing

-----------------------------------------------------------------------------
(* Chunks *)

\* What is known of a call that has a chunk to send.
LEMMA SendableFacts ==
  ASSUME FileInv, Sendable
  PROVE  /\ Running /\ call \in CallRecord /\ call.mode \in Mode /\ call.buf > 0
         /\ call.op \in {"read", "write"} \/ (Checking /\ call.stage \in {1, 3})
         /\ Iso <=> call.mode = "iso"
         /\ Checking => call.mode = "iso"
         /\ call.file \in File
         /\ Target \in Nat /\ call.n \in 0 .. Target
         /\ call.op = "write" \/ call.mode = "iso" => Target = call.buf
         /\ Want \in Nat /\ call.n + Want <= Target
         /\ ~WholeFile => call.n + Want <= call.buf
<1> USE DEF FileInv, TypeInv
<1>1. Running /\ call \in CallRecord /\ call.n \in 0 .. Target
  BY DEF Sendable, Transferring, TypeOK
<1>2. /\ call.op \in {"read", "write"} \/ (Checking /\ call.stage \in {1, 3})
      /\ Iso <=> call.mode = "iso"
      /\ Checking => call.mode = "iso"
      /\ call.mode \in Mode /\ call.file \in File
  <2>1. Iso \/ (call.op \in {"read", "write"} /\ call.mode \in DataMode)
    BY DEF Sendable, Transferring
  <2>2. CASE Checking
    <3>1. IsoCheck /\ call.stage \in 1 .. 15
      BY <1>1, <2>1, <2>2 DEF Iso, Checking, BytesInv, CheckShape
    <3>2. call.stage \in {1, 3}
      BY <3>1, StageFacts DEF IsoCheck
    <3> QED BY <1>1, <2>2, <3>1, <3>2, SizeFacts DEF BytesInv, CheckShape, Mode, Iso
  <2>3. CASE ~Checking
    BY <1>1, <2>1, <2>3 DEF Iso, IsoCheck, Mode, DataMode, BytesInv, TransferShape
  <2> QED BY <2>2, <2>3
<1>3. call.buf # 0
  BY <1>2 DEF Sendable, BadRequest, BadIso, BadRead, BadWrite, Mode
<1>4. call.buf \in Nat /\ call.size \in Nat /\ Target \in Nat
  BY CallFields DEF Target
<1>5. call.op = "write" \/ call.mode = "iso" => Target = call.buf
  BY <1>1, <1>2 DEF BytesInv, TransferShape, CheckShape, Target, Checking
<1>6. Cap \in Nat
  BY <1>2, CapFacts DEF Cap
<1>7. Want \in Nat /\ call.n + Want <= Target
  BY <1>1, <1>4, <1>6 DEF Want, Least
<1>8. ~WholeFile => call.n + Want <= call.buf
  <2>1. CASE call.op = "write" \/ call.mode = "iso"
    BY <1>5, <1>7, <2>1
  <2>2. CASE call.op = "read" /\ call.mode = "plain"
    BY <1>1, <1>4, <1>7, <2>2 DEF Sendable, SliceTooShort
  <2>3. CASE call.op = "read" /\ call.mode \in {"mac", "full"}
    <3>1. call.size <= call.buf
      BY <1>4, <2>3 DEF Sendable, BadRequest, BadRead, DataMode
    <3> QED BY <1>1, <1>4, <1>7, <3>1 DEF Target
  <2> QED BY <1>2, <2>1, <2>2, <2>3 DEF Mode, DataMode
<1> QED BY <1>1, <1>2, <1>3, <1>4, <1>5, <1>7, <1>8

\* Where a transfer begins; a factory check reads its files from the start.
Base == IF Checking THEN 0 ELSE call.off

\* The tag acts on the file and at the offset that the session means: the EF
\* selected is the right one, and no offset wraps around.
LEMMA AtItsPlace ==
  ASSUME FileInv, Sendable, Obeys
  PROVE  /\ FileAtTag \in File /\ Position \in Nat /\ Available \in Int
         /\ Base \in Nat /\ call.pos = Base + call.n
         /\ ~lostSelect => /\ FileAtTag = call.file /\ Position = call.pos
                           /\ Available = Size[call.file] - call.pos
<1> USE DEF FileInv, TypeInv
<1>1. Base \in Nat /\ call.pos = Base + call.n /\ call.pos \in Nat
  BY SendableFacts, CallFields DEF Base, BytesInv, TransferShape, CheckShape, Checking
<1>2. FileAtTag \in File
  BY SendableFacts DEF FileAtTag, Obeys, TypeOK, Selection
<1>3. Position \in Nat
  BY <1>1, SizeFacts DEF Position
<1>4. Available \in Int
  BY <1>2, <1>3, SizeFacts DEF Available
<1>5. ~lostSelect => FileAtTag = call.file
  <2>1. CASE Iso
    <3>1. host.app /\ host.ef = call.file
      BY <2>1, SendableFacts DEF Sendable, Transferring, NeedsApp, NeedsEf
    <3>2. card.ef # "none" /\ call.file # "none"
      BY <2>1, SendableFacts, SizeFacts DEF Obeys
    <3> QED BY <2>1, <3>1, <3>2 DEF SelectionInv, EfAgree, FileAtTag
  <2>2. CASE ~Iso
    BY <2>2 DEF FileAtTag
  <2> QED BY <2>1, <2>2
<1>6. ~lostSelect => call.pos < Field
  <2>1. CASE call.mode = "iso"
    BY <1>1, <2>1, SizeFacts DEF Sendable, BadRequest, BadIso
  <2>2. CASE call.mode = "plain"
    <3>1. call.op \in {"read", "write"}
      BY <2>2, SendableFacts
    <3> QED BY <1>1, <2>2, <3>1, SizeFacts DEF Sendable, BadRequest, BadRead, BadWrite, DataMode
  <2>3. CASE call.mode \in {"mac", "full"}
    <3>1. call.op \in {"read", "write"} /\ ~Checking /\ call.off \in Nat /\ call.n \in Nat
      BY <2>3, SendableFacts, CallFields DEF Checking
    <3>2. call.off < Field
      BY <2>3, <3>1, SizeFacts DEF Sendable, BadRequest, BadRead, BadWrite, DataMode
    <3>3. ~lostSelect /\ call.n > 0 => call.off + call.n < Field
      BY <3>1, SendableFacts, SizeFacts DEF BytesInv, TransferShape
    <3> QED BY <1>1, <3>1, <3>2, <3>3 DEF Base
  <2> QED BY <2>1, <2>2, <2>3, SendableFacts DEF Mode, DataMode
<1>7. ~lostSelect => Position = call.pos
  BY <1>1, <1>6, SizeFacts DEF Position
<1> QED BY <1>1, <1>2, <1>3, <1>4, <1>5, <1>7 DEF Available

\* A chunk continues what has been moved before.
LEMMA ChunkMoves ==
  ASSUME FileInv, Sendable, Obeys, ~lostSelect, NEW k \in Nat
  PROVE  Span(call.file, Base, call.n) \union Bytes(k) = Span(call.file, Base, call.n + k)
<1>1. call.n \in Nat /\ Base \in Nat
  BY SendableFacts, AtItsPlace
<1>2. Bytes(k) = More(call.file, Base + call.n, call.n, k)
  <2>1. FileAtTag = call.file /\ Position = Base + call.n
    BY AtItsPlace
  <2> QED BY <2>1 DEF Bytes, More
<1> QED BY <1>1, <1>2, SpanGrows

\* A chunk of k bytes has been taken, by the tag or by the host.
LEMMA ChunkInv ==
  ASSUME FileInv, Sendable, Obeys, NEW k \in Nat, k <= Available, call.n + k <= Target,
         k < Want => k = Available,
         call.op # "write" => Available > 0,
         WholeFile => k = Least(Available, call.buf),
         ~WholeFile => k <= Want,
         call.op = "write" => k = Want,
         call' = AfterChunk(k), moved' = moved \union Bytes(k),
         UNCHANGED <<host, card, lostSelect, calls>>
  PROVE  FileInv'
<1> USE DEF FileInv, TypeInv
<1> DEFINE over == WholeFile \/ k < Want \/ call.n + k >= Target
<1>1. /\ Running /\ call \in CallRecord /\ call.n \in Nat /\ call.pos \in Nat /\ call.off \in Nat
      /\ call.buf \in Nat /\ call.size \in Nat
      /\ Target \in Nat /\ Want \in Nat /\ Available \in Int /\ call.buf > 0
      /\ call.file \in File /\ Size[call.file] \in Nat
  BY SendableFacts, CallFields, AtItsPlace, SizeFacts
<1>2. ~lostSelect => /\ Span(call.file, Base, call.n) \union Bytes(k)
                          = Span(call.file, Base, call.n + k)
                     /\ Available = Size[call.file] - call.pos
  BY ChunkMoves, AtItsPlace
<1>3. /\ Advanced(k) \in CallRecord /\ Advanced(k).n = call.n + k /\ Advanced(k).pos = call.pos + k
      /\ Advanced(k).op = call.op /\ Advanced(k).mode = call.mode /\ Advanced(k).file = call.file
      /\ Advanced(k).off = call.off /\ Advanced(k).size = call.size /\ Advanced(k).buf = call.buf
      /\ Advanced(k).stage = call.stage /\ Advanced(k).chip = call.chip
      /\ Advanced(k).out = "running"
  BY <1>1, AdvancedFacts DEF Running
<1>4. card' \in Selection /\ EfAgree'
  BY DEF TypeOK, SelectionInv, EfAgree
<1>5. over <=> WholeFile \/ k < Want \/ Advanced(k).n >= Target
  BY <1>3
<1> HIDE DEF over
<1>6. CASE Checking
  <2>1. call.stage \in {1, 3} /\ Base = 0 /\ ~WholeFile /\ call.op = "check"
    BY <1>6, SendableFacts DEF WholeFile, Base, Checking
  <2>2. /\ Target = Size[call.file] /\ call.pos = call.n
        /\ call.mode = "iso" /\ call.size = 0 /\ call.buf = Size[call.file]
        /\ call.stage = 1 => call.file = "cc"
        /\ call.stage = 3 => call.file = "ndef"
        /\ \A i \in 1 .. (call.stage - 1) : StageOf(i) \notin call.chip.odd
    BY <1>1, <1>6, <2>1, SendableFacts DEF BytesInv, CheckShape
  <2>3. ~lostSelect => /\ call.stage = 1 => moved' = Span("cc", 0, call.n + k)
                       /\ call.stage = 3 => moved' = Span("cc", 0, Size["cc"])
                                                       \union Span("ndef", 0, call.n + k)
    BY <1>1, <1>2, <1>6, <2>1, <2>2 DEF BytesInv, CheckShape, Looked
  <2>4. CASE over
    <3>1. call' = NextStage
      BY <1>5, <1>6, <2>4 DEF AfterChunk
    <3>2. ~lostSelect => call.n + k = Size[call.file]
      BY <1>1, <1>2, <2>1, <2>2, <2>4 DEF over
    <3>3. ~lostSelect => moved' = Done
      BY <2>1, <2>2, <2>3, <3>2, OpenFilesAre DEF Done
    <3> QED BY <1>1, <1>4, <1>6, <3>1, <3>3, NextStageInv
  <2>5. CASE ~over
    <3>1. call' = Advanced(k)
      BY <1>5, <2>5 DEF AfterChunk
    <3>2. TypeInv'
      BY <1>1, <1>3, <2>1, <2>2, <3>1, StageFacts DEF TypeOK, Target, Op, Mode
    <3>3. CheckShape'
      BY <1>1, <1>3, <2>1, <2>2, <2>3, <3>1 DEF CheckShape, Looked
    <3>4. OpenSession'
      BY <1>1, <1>3, <3>1 DEF SelectionInv, OpenSession, Selecting, Running
    <3>5. NothingYet' /\ TransferShape' /\ RightBytes' /\ FactoryVerdict'
      BY <1>3, <2>1, <3>1, IdleFacts DEF NothingYet, TransferShape, RightBytes, FactoryVerdict
    <3> QED BY <1>4, <3>2, <3>3, <3>4, <3>5 DEF BytesInv, SelectionInv
  <2> QED BY <2>4, <2>5
<1>7. CASE ~Checking
  <2>1. /\ call.op \in {"read", "write"} /\ Base = call.off /\ call.pos = call.off + call.n
        /\ call.mode = "iso" \/ call.op = "write" => call.size = 0
        /\ WholeFile => call.n = 0
        /\ call.mode # "auto"
        /\ ~lostSelect => moved = Span(call.file, call.off, call.n)
    BY <1>1, <1>7, SendableFacts DEF BytesInv, TransferShape, Base, Mode, DataMode
  <2>2. ~lostSelect => /\ moved' = Span(call.file, call.off, call.n + k)
                       /\ call.off + (call.n + k) <= Size[call.file]
    BY <1>1, <1>2, <2>1
  <2>3. CASE over
    <3> DEFINE c == Advanced(k)
    <3>1. call' = [c EXCEPT !.out = "ok"]
      BY <1>5, <1>7, <2>3 DEF AfterChunk
    <3>2. /\ call' \in CallRecord /\ call'.out = "ok" /\ call'.op = call.op
          /\ call'.mode = call.mode /\ call'.file = call.file /\ call'.off = call.off
          /\ call'.size = call.size /\ call'.buf = call.buf /\ call'.n = call.n + k
          /\ call'.stage = call.stage
      <4> HIDE DEF c
      <4>1. c \in CallRecord
        BY <1>3 DEF c
      <4>2. /\ call' \in CallRecord /\ call'.out = "ok" /\ call'.op = c.op
            /\ call'.mode = c.mode /\ call'.file = c.file /\ call'.off = c.off
            /\ call'.size = c.size /\ call'.buf = c.buf /\ call'.n = c.n
            /\ call'.stage = c.stage
        BY <3>1, <4>1, OutFacts
      <4> QED BY <1>3, <4>2 DEF c
    <3>3. Target' = Target /\ \A m : Prefix(m)' = Span(call.file, call.off, m)
      BY <3>2 DEF Target, Prefix, Span
    <3>4. TypeInv'
      BY <1>1, <3>2, <3>3 DEF TypeOK
    <3>5. ~lostSelect => Complete'
      <4>1. call.op = "write" => call.n + k = call.buf
        BY <1>1, <2>1, <2>3, SendableFacts DEF over, WholeFile
      <4>2. ~lostSelect /\ call.op = "read" => call.n + k = Least(Target, Size[call.file] - call.off)
        BY <1>1, <1>2, <2>1, <2>2, <2>3 DEF over, WholeFile, Least, Target
      <4>3. Size' = Size /\ Least(Target, Size[call.file] - call.off)'
                              = Least(Target, Size[call.file] - call.off)
        BY <3>2, <3>3 DEF Least
      <4> QED BY <2>2, <3>2, <3>3, <4>1, <4>2, <4>3 DEF Complete
    <3>6. RightBytes'
      <4>1. call.n + k \in 0 .. Target' + call'.buf
        BY <1>1, <3>2, <3>3
      <4> QED BY <2>2, <3>2, <3>3, <3>5, <4>1 DEF RightBytes
    <3>7. NothingYet' /\ TransferShape' /\ CheckShape' /\ FactoryVerdict' /\ OpenSession'
      BY <2>1, <3>2, IdleFacts
         DEF NothingYet, TransferShape, CheckShape, FactoryVerdict, OpenSession, Running, Checking
    <3> QED BY <1>4, <3>4, <3>6, <3>7 DEF BytesInv, SelectionInv
  <2>4. CASE ~over
    <3>1. call' = Advanced(k)
      BY <1>5, <2>4 DEF AfterChunk
    <3>2. Target' = Target /\ \A m : Prefix(m)' = Span(call.file, call.off, m)
      BY <1>3, <3>1 DEF Target, Prefix, Span
    <3>3. TypeInv'
      <4>1. /\ call' \in CallRecord /\ call'.op = call.op /\ call'.mode = call.mode
            /\ call'.file = call.file /\ call'.out = "running" /\ call'.stage = call.stage
            /\ call'.n \in 0 .. Target'
        BY <1>1, <1>3, <3>1, <3>2
      <4> QED BY <4>1 DEF TypeOK
    <3>4. TransferShape'
      <4>1. ~WholeFile'
        BY <1>3, <2>4, <3>1 DEF over, WholeFile
      <4> QED BY <1>1, <1>3, <2>1, <2>2, <3>1, <4>1 DEF TransferShape
    <3>5. RightBytes'
      <4>1. call.n + k \in 0 .. Target' + call'.buf
        BY <1>1, <1>3, <3>1, <3>2
      <4> QED BY <1>3, <2>2, <3>1, <3>2, <4>1 DEF RightBytes
    <3>6. NothingYet' /\ CheckShape' /\ FactoryVerdict' /\ OpenSession'
      BY <1>1, <1>3, <2>1, <3>1, IdleFacts
         DEF NothingYet, CheckShape, FactoryVerdict, SelectionInv, OpenSession, Selecting, Running,
             Checking
    <3> QED BY <1>4, <3>3, <3>4, <3>5, <3>6 DEF BytesInv, SelectionInv
  <2> QED BY <2>3, <2>4
<1> QED BY <1>6, <1>7

LEMMA ReadChunkInv ==
  ASSUME FileInv, Sendable, ReadChunk, call.op # "write"
  PROVE  FileInv'
<1> USE DEF FileInv, TypeInv
<1> DEFINE k == Least(Answered, call.buf)
<1>1. Running /\ UNCHANGED calls /\ card \in Refusing
  BY SendableFacts DEF ReadChunk, Exchange, Refusing
<1>2. CASE Fail /\ UNCHANGED moved /\ card' \in Refusing
  BY <1>1, <1>2, RefusedCall DEF LeftBehind
<1>3. CASE /\ Obeys /\ Available > 0 /\ UNCHANGED card
           /\ call' = AfterChunk(k) /\ moved' = moved \union Bytes(k)
           /\ UNCHANGED <<host, lostSelect>>
  <2>1. /\ Available \in Int /\ call.buf \in Nat /\ call.buf > 0 /\ Want \in Nat
        /\ call.n \in Nat /\ Target \in Nat /\ call.n + Want <= Target
        /\ ~WholeFile => call.n + Want <= call.buf
    BY <1>3, SendableFacts, CallFields, AtItsPlace
  <2>2. CASE WholeFile
    <3>1. call.n = 0 /\ Target = call.buf /\ Want = Least(call.buf, Cap) /\ Cap = ReadCap["plain"]
      BY <1>1, <2>1, <2>2 DEF WholeFile, Want, Target, Cap, BytesInv, TransferShape
    <3>2. Available <= Cap
      <4>1. FileAtTag \in File /\ Position \in Nat
        BY <1>3, AtItsPlace
      <4> QED BY <3>1, <4>1, SizeFacts, CapFacts DEF Available, Mode, DataMode
    <3>3. Cap \in Nat
      BY <3>1, CapFacts DEF Mode, DataMode
    <3>4. k = Least(Available, call.buf)
      BY <2>2 DEF Answered
    <3>5. /\ k \in Nat /\ k <= Available /\ call.n + k <= Target /\ (k < Want => k = Available)
      BY <1>3, <2>1, <3>1, <3>2, <3>3, <3>4 DEF Least
    <3> HIDE DEF k
    <3> QED BY <1>1, <1>3, <2>2, <3>4, <3>5, ChunkInv
  <2>3. CASE ~WholeFile
    <3>1. k = Least(Least(Want, Available), call.buf)
      BY <2>3 DEF Answered
    <3>2. k \in Nat /\ k <= Available /\ k <= Want /\ call.n + k <= Target
          /\ (k < Want => k = Available)
      BY <1>3, <2>1, <2>3, <3>1 DEF Least
    <3> HIDE DEF k
    <3> QED BY <1>1, <1>3, <2>3, <3>2, ChunkInv
  <2> QED BY <2>2, <2>3
<1> QED BY <1>1, <1>2, <1>3 DEF ReadChunk, Exchange

LEMMA WriteChunkInv ==
  ASSUME FileInv, Sendable, WriteChunk, call.op = "write"
  PROVE  FileInv'
<1> USE DEF FileInv, TypeInv
<1>1. Running /\ UNCHANGED calls /\ ~Checking /\ ~WholeFile /\ Want \in Nat
  BY SendableFacts DEF WriteChunk, Exchange, Checking, WholeFile
<1>2. CASE Fail /\ UNCHANGED moved /\ card' \in Refusing
  BY <1>1, <1>2, RefusedCall DEF LeftBehind
<1>3. CASE Fail /\ Obeys /\ UNCHANGED card /\ moved' = moved \union Bytes(Want)
  <2>1. call.n + Want <= Target
    BY SendableFacts
  <2>2. ~lostSelect => moved' = Span(call.file, call.off, call.n + Want)
    BY <1>1, <1>3, ChunkMoves DEF BytesInv, TransferShape, Base
  <2>3. LeftBehind
    BY <1>1, <2>1, <2>2 DEF LeftBehind
  <2> QED BY <1>1, <1>3, <2>3, FailedCall DEF TypeOK
<1>4. CASE /\ Obeys /\ Want <= Available /\ UNCHANGED card
           /\ call' = AfterChunk(Want) /\ moved' = moved \union Bytes(Want)
           /\ UNCHANGED <<host, lostSelect>>
  <2>1. call.n + Want <= Target /\ ~(Want < Want) /\ Want <= Want
    BY <1>1, SendableFacts
  <2> QED BY <1>1, <1>4, <2>1, ChunkInv
<1> QED BY <1>2, <1>3, <1>4 DEF WriteChunk, Exchange

-----------------------------------------------------------------------------
(* The invariant *)

LEMMA InitInv == Init => FileInv
<1> SUFFICES ASSUME Init PROVE FileInv
  OBVIOUS
<1>1. host = Fresh /\ card = Fresh /\ call = Idle /\ moved = {} /\ lostSelect = FALSE /\ calls = 0
  BY DEF Init
<1>2. TypeInv
  <2>1. /\ call \in CallRecord /\ call.op = "none" /\ call.mode = "iso" /\ call.file = "none"
        /\ call.stage = 0 /\ call.out = "none" /\ call.n = 0 /\ Target = 0
    BY <1>1, IdleFacts DEF Target
  <2>2. MaxCalls \in Nat
    BY BoundAssumption
  <2>3. calls \in 0 .. MaxCalls /\ host \in Selection /\ card \in Selection
    BY <1>1, <2>2, SessionFacts
  <2>4. lostSelect \in BOOLEAN
    BY <1>1
  <2> QED BY <2>1, <2>3, <2>4, StageFacts DEF TypeInv, TypeOK, Mode
<1>3. SelectionInv
  BY <1>1, IdleFacts, SessionFacts DEF SelectionInv, EfAgree, OpenSession, Running
<1>4. BytesInv
  BY <1>1, IdleFacts
     DEF BytesInv, NothingYet, TransferShape, CheckShape, RightBytes, FactoryVerdict, Running, Checking
<1> QED BY <1>2, <1>3, <1>4 DEF FileInv

LEMMA NextInv == FileInv /\ [Next]_vars => FileInv'
<1> SUFFICES ASSUME FileInv, [Next]_vars PROVE FileInv'
  OBVIOUS
<1>1. CASE BeginUnauthenticated BY <1>1, BeginUnauthenticatedInv
<1>2. CASE BeginAuthenticated BY <1>2, BeginAuthenticatedInv
<1>3. CASE Return BY <1>3, ReturnInv
<1>4. CASE NewSession BY <1>4, NewSessionInv
<1>5. CASE SelectApplication BY <1>5, SelectApplicationInv
<1>6. CASE SelectEf BY <1>6, SelectEfInv
<1>7. CASE Refuse BY <1>7, RefuseInv
<1>8. CASE Panic BY <1>8, PanicInv
<1>9. CASE ISOReadBinary BY <1>9, ReadChunkInv DEF ISOReadBinary
<1>10. CASE ISOUpdateBinary BY <1>10, WriteChunkInv DEF ISOUpdateBinary
<1>11. CASE ReadData BY <1>11, ReadChunkInv DEF ReadData
<1>12. CASE WriteData BY <1>12, WriteChunkInv DEF WriteData
<1>13. CASE ChooseMode BY <1>13, ChooseModeInv
<1>14. CASE GetFileSettings BY <1>14, GetFileSettingsInv
<1>15. CASE GetVersion BY <1>15, GetVersionInv
<1>16. CASE Authenticate BY <1>16, AuthenticateInv
<1>17. CASE EnableLrp BY <1>17, EnableLrpInv
<1>18. CASE ChangeMasterKey BY <1>18, ChangeMasterKeyInv
<1>19. CASE CheckVersion BY <1>19, CheckVersionInv
<1>20. CASE CheckMasterKey BY <1>20, CheckMasterKeyInv
<1>21. CASE CheckAuthenticated BY <1>21, CheckAuthenticatedInv
<1>22. CASE PowerCycle BY <1>22, PowerCycleInv
<1>23. CASE UNCHANGED vars
  <2>1. UNCHANGED <<host, card, call, moved, lostSelect, calls>>
    BY <1>23 DEF vars
  <2>2. SelectionInv'
    BY <2>1 DEF FileInv, SelectionInv, EfAgree, OpenSession, Running, Selecting
  <2> QED BY <2>1, <2>2, SameCall DEF FileInv, TypeInv, TypeOK
<1> QED BY <1>1, <1>2, <1>3, <1>4, <1>5, <1>6, <1>7, <1>8, <1>9, <1>10, <1>11, <1>12, <1>13,
           <1>14, <1>15, <1>16, <1>17, <1>18, <1>19, <1>20, <1>21, <1>22, <1>23 DEF Next

\* The strengthening of all four properties: what the session and the tag have
\* selected, and what a transfer has moved by the time of each of its APDUs.
THEOREM Invariant == Spec => []FileInv
  BY InitInv, NextInv, PTL DEF Spec

\* The session, the tag and the call have their types, and no transfer moves
\* more than it was asked for (session/mod.rs, commands/read_data.rs).
THEOREM TypeCorrect == Spec => []TypeOK
<1>1. FileInv => TypeOK
  BY DEF FileInv, TypeInv
<1> QED BY <1>1, Invariant, PTL

\* read_file, write_file and the chunk loops: what has been moved is always a
\* first part of what was asked for, every byte at its place, and success means
\* all of it, for any sizes, limits, offsets, lengths and losses.
THEOREM BytesCorrect == Spec => []RightBytes
<1>1. FileInv => RightBytes
  BY DEF FileInv, BytesInv
<1> QED BY <1>1, Invariant, PTL

-----------------------------------------------------------------------------
(* When a session loses its authentication *)

\* What AuthSurvives says of a step.
Kept ==
  AuthLost' => \/ AuthLost
               \/ /\ call.op \in {"read", "write"} /\ call.mode = "plain"
                  /\ call'.out = "error" /\ host' = host

\* Only a call of a session that is not authenticated, or a plain read or
\* write, leaves the session to its caller when it fails.
LEMMA FailKeeps ==
  ASSUME FileInv, Running, Fail PROVE Kept
<1>1. call \in CallRecord
  BY DEF FileInv, TypeInv
<1>2. CASE host' = Fresh
  BY <1>2, SessionFacts DEF Kept, AuthLost
<1>3. CASE host' = host /\ ~Consumes
  <2>1. CASE ~host.auth
    BY <1>3, <2>1 DEF Kept, AuthLost
  <2>2. CASE host.auth
    <3>1. ~Selecting(call)
      BY <2>2 DEF FileInv, SelectionInv, OpenSession
    <3>2. call.op \in {"read", "write"} /\ call.mode = "plain"
      BY <1>1, <1>3, <3>1, CallFields DEF Consumes, Selecting, Op, Plain, Mode, DataMode
    <3>3. call'.out = "error"
      BY <1>1, EndedFacts DEF Fail
    <3> QED BY <1>3, <3>2, <3>3 DEF Kept
  <2> QED BY <2>1, <2>2
<1> QED BY <1>2, <1>3 DEF Fail, Drop

LEMMA SameKeeps == ASSUME UNCHANGED <<host, card>> PROVE Kept
  BY DEF Kept, AuthLost

LEMMA ClosedKeeps == ASSUME ~host'.auth PROVE Kept
  BY DEF Kept, AuthLost

\* Of the other ways to select, none is taken by an authenticated session.
LEMMA SelectingKeeps ==
  ASSUME FileInv, Running, Selecting(call), host'.auth => host.auth PROVE Kept
<1>1. ~host'.auth
  BY DEF FileInv, SelectionInv, OpenSession
<1> QED BY <1>1, ClosedKeeps

LEMMA AskKeeps ==
  ASSUME FileInv, Running, NEW accepts, NEW callAfter, Ask(accepts, card, host, callAfter)
  PROVE  Kept
<1>1. Fail \/ UNCHANGED <<host, card>>
  BY DEF Ask, Exchange
<1> QED BY <1>1, FailKeeps, SameKeeps

LEMMA SelectKeeps ==
  ASSUME FileInv, SelectApplication \/ SelectEf \/ CheckMasterKey PROVE Kept
<1>1. host \in Selection /\ ~Fresh.auth
  BY SessionFacts DEF FileInv, TypeInv, TypeOK
<1>2. CASE SelectApplication
  <2>1. Running /\ Selecting(call)
    BY <1>2 DEF SelectApplication, NeedsApp, Iso, IsoCheck, Checking, Selecting
  <2>2. host' \in {host, Fresh, [host EXCEPT !.app = TRUE, !.ef = "none"]}
    BY <1>2 DEF SelectApplication, Ask, Exchange, Fail, Drop
  <2>3. [host EXCEPT !.app = TRUE, !.ef = "none"].auth = host.auth
    BY <1>1 DEF Selection
  <2> QED BY <1>1, <2>1, <2>2, <2>3, SelectingKeeps
<1>3. CASE SelectEf
  <2>1. Running /\ Selecting(call)
    BY <1>3 DEF SelectEf, NeedsEf, Iso, IsoCheck, Checking, Selecting
  <2>2. host' \in {host, Fresh, [host EXCEPT !.ef = call.file]}
    BY <1>3 DEF SelectEf, Fail, Drop
  <2>3. [host EXCEPT !.ef = call.file].auth = host.auth
    BY <1>1 DEF Selection
  <2> QED BY <1>1, <2>1, <2>2, <2>3, SelectingKeeps
<1>4. CASE CheckMasterKey
  <2>1. Running /\ Selecting(call)
    BY <1>4 DEF CheckMasterKey, Checking, Selecting
  <2>2. host' \in {host, Fresh}
    BY <1>4 DEF CheckMasterKey, Ask, Exchange, Fail, Drop
  <2> QED BY <1>1, <2>1, <2>2, SelectingKeeps
<1> QED BY <1>2, <1>3, <1>4

LEMMA ChunkKeeps ==
  ASSUME FileInv, Sendable, ReadChunk \/ WriteChunk PROVE Kept
<1>1. Running
  BY SendableFacts
<1>2. CASE ReadChunk
  BY <1>1, <1>2, FailKeeps, SameKeeps DEF ReadChunk, Exchange
<1>3. CASE WriteChunk
  BY <1>1, <1>3, FailKeeps, SameKeeps DEF WriteChunk, Exchange
<1> QED BY <1>2, <1>3

LEMMA EndKeeps ==
  ASSUME FileInv, Authenticate \/ EnableLrp \/ ChangeMasterKey PROVE Kept
<1>1. host \in Selection /\ card \in Selection
  BY DEF FileInv, TypeInv, TypeOK
<1>2. Running
  BY DEF Authenticate, EnableLrp, ChangeMasterKey
<1>3. CASE Fail
  BY <1>2, <1>3, FailKeeps
<1>4. CASE card' = [card EXCEPT !.auth = TRUE]
  <2>1. card'.auth
    BY <1>1, <1>4 DEF Selection
  <2> QED BY <2>1 DEF Kept, AuthLost
<1>5. CASE host' = [host EXCEPT !.auth = FALSE] \/ host' = Fresh
  <2>1. ~host'.auth
    BY <1>1, <1>5, SessionFacts DEF Selection
  <2> QED BY <2>1, ClosedKeeps
<1> QED BY <1>3, <1>4, <1>5 DEF Authenticate, EnableLrp, ChangeMasterKey, Ask, Exchange

LEMMA StepKeeps == FileInv /\ [Next]_vars => Kept
<1> SUFFICES ASSUME FileInv, [Next]_vars PROVE Kept
  OBVIOUS
<1>1. CASE BeginUnauthenticated \/ BeginAuthenticated \/ Return
  BY <1>1, SameKeeps DEF BeginUnauthenticated, BeginAuthenticated, Begin, Return
<1>2. CASE NewSession \/ Panic
  BY <1>2, SessionFacts, ClosedKeeps DEF NewSession, Panic, Drop
<1>3. CASE SelectApplication \/ SelectEf \/ CheckMasterKey
  BY <1>3, SelectKeeps
<1>4. CASE Refuse
  BY <1>4, FailKeeps DEF Refuse, Reject, Transferring
<1>5. CASE ISOReadBinary \/ ISOUpdateBinary \/ ReadData \/ WriteData
  BY <1>5, ChunkKeeps DEF ISOReadBinary, ISOUpdateBinary, ReadData, WriteData
<1>6. CASE Authenticate \/ EnableLrp \/ ChangeMasterKey
  BY <1>6, EndKeeps
<1>7. CASE GetFileSettings \/ GetVersion \/ CheckVersion \/ CheckAuthenticated
  BY <1>7, AskKeeps DEF GetFileSettings, GetVersion, CheckVersion, CheckAuthenticated
<1>8. CASE ChooseMode
  BY <1>8, AskKeeps DEF ChooseMode
<1>9. CASE PowerCycle
  BY <1>9, SessionFacts DEF PowerCycle, Kept, AuthLost
<1>10. CASE UNCHANGED vars
  BY <1>10, SameKeeps DEF vars
<1> QED BY <1>1, <1>2, <1>3, <1>4, <1>5, <1>6, <1>7, <1>8, <1>9, <1>10 DEF Next

\* Session<Authenticated<_>>: whatever is lost, refused or rejected, the session
\* and a tag that keeps its application part over the authentication in one way
\* only, a plain read or write that is refused and leaves the session usable.
THEOREM AuthCorrect == Spec => AuthSurvives
<1>1. FileInv /\ [Next]_vars => [Kept]_vars
  BY StepKeeps
<1> QED BY <1>1, Invariant, PTL DEF Spec, AuthSurvives, Kept

\* check_factory_state reports a tag only if every required aspect is as
\* delivered and both open files were read in full, whatever their sizes.
THEOREM VerdictCorrect == Spec => []FactoryVerdict
<1>1. FileInv => FactoryVerdict
  BY DEF FileInv, BytesInv
<1> QED BY <1>1, Invariant, PTL
=============================================================================
