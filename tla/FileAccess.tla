----------------------------- MODULE FileAccess -----------------------------
(***************************************************************************)
(* Reading and writing files.  A transfer is split into APDUs: with the    *)
(* ISO commands, which name no file and act on the EF that the tag has     *)
(* selected, or with ReadData and WriteData of an authenticated session in *)
(* one of three modes.  The session remembers which application and EF it  *)
(* has selected, so that it need not repeat it; its memory must agree with *)
(* the tag.  A step is one APDU: it or its answer may get lost, and the tag *)
(* may leave the field and come back at any time.  `check_factory_state`   *)
(* reads through the session and then through others of its own.           *)
(***************************************************************************)
EXTENDS Integers, FactoryCheck

CONSTANTS
  Size,                      \* the size of each elementary file
  ReadCap, WriteCap,         \* the most bytes that one APDU carries, by mode
  IsoLimit,                  \* ISO offsets are below this (15 bits)
  Field,                     \* offsets and lengths of ReadData are below this
  Offsets, Lengths, Buffers, \* bounds: what callers ask for
  MaxCalls                   \* bound: calls in one behaviour

File     == DOMAIN Size
DataMode == {"plain", "mac", "full"}
Mode     == DataMode \union {"iso"}

ASSUME FileAssumption ==
  /\ {"cc", "ndef"} \subseteq File /\ "none" \notin File
  /\ IsoLimit \in Nat /\ Field \in Nat \ {0} /\ IsoLimit <= Field
  /\ \A f \in File : Size[f] \in 1 .. IsoLimit /\ Size[f] < Field
ASSUME CapAssumption ==
  /\ ReadCap \in [Mode -> Nat \ {0}] /\ WriteCap \in [Mode -> Nat \ {0}]
  /\ \A f \in File : Size[f] <= ReadCap["plain"]
ASSUME BoundAssumption ==
  /\ MaxCalls \in Nat
  /\ Offsets \subseteq Nat /\ Lengths \subseteq Nat /\ Buffers \subseteq Nat

VARIABLES
  host,       \* the session: application selected, EF, authenticated
  card,       \* external: the same three as the tag has them
  call,       \* the call that is running or has just ended, or Idle
  moved,      \* bytes this call has copied into the caller's buffer or into a
              \* file: file, position in it, index in the buffer (history)
  lostSelect, \* the session is used again after a SELECT of an EF whose answer
              \* was lost (history)
  calls       \* calls made so far

vars == <<host, card, call, moved, lostSelect, calls>>

Fresh == [app |-> FALSE, ef |-> "none", auth |-> FALSE]
Selected == [app |-> TRUE, ef |-> "none", auth |-> FALSE]

NoChip == [odd |-> {}, loop |-> FALSE]
Idle == [op |-> "none", mode |-> "iso", file |-> "none", off |-> 0, size |-> 0,
         buf |-> 0, pos |-> 0, n |-> 0, stage |-> 0, chip |-> NoChip, out |-> "none"]

Plain == {"settings", "version", "authenticate", "enableLrp", "changeMasterKey"}
Op    == Plain \union {"read", "write", "check"}

Running == call.out = "running"

Least(a, b) == IF a < b THEN a ELSE b

-----------------------------------------------------------------------------
(* Calls *)

Begin(c) ==
  /\ call = Idle /\ calls < MaxCalls
  /\ call' = [c EXCEPT !.out = "running", !.pos = c.off]
  /\ calls' = calls + 1
  /\ UNCHANGED <<host, card, moved, lostSelect>>

Simple(op) == [Idle EXCEPT !.op = op]

\* `size` bytes of a file, or as many as the buffer takes.
Transfer(op, mode, f, o, size, b) ==
  [Idle EXCEPT !.op = op, !.mode = mode, !.file = f, !.off = o, !.size = size, !.buf = b]

\* ISO reads name only the buffer, writes only the data.
Reads(mode) ==
  {Transfer("read", mode, f, o, n, b) :
     f \in File, o \in Offsets, n \in IF mode = "iso" THEN {0} ELSE Lengths, b \in Buffers}

Writes(mode) == {Transfer("write", mode, f, o, 0, b) : f \in File, o \in Offsets, b \in Buffers}

\* Operations of `Session<Unauthenticated>`.
BeginUnauthenticated ==
  /\ ~host.auth
  /\ \/ \E c \in Reads("iso") \union Writes("iso") : Begin(c)
     \/ \E op \in {"settings", "version", "authenticate"} : Begin(Simple(op))
     \/ \E chip \in Chips :
          Begin([Simple("check") EXCEPT !.file = "cc", !.buf = Size["cc"],
                                        !.stage = 1, !.chip = chip])

\* Operations of `Session<Authenticated<_>>`; mode "auto" is `read_file` and
\* `write_file`.
BeginAuthenticated ==
  /\ host.auth
  /\ \/ \E m \in DataMode \union {"auto"} : \E c \in Reads(m) \union Writes(m) : Begin(c)
     \/ \E op \in {"enableLrp", "changeMasterKey"} : Begin(Simple(op))

\* The call returns to the caller.
Return ==
  /\ call # Idle /\ ~Running
  /\ call' = Idle /\ moved' = {} /\ lostSelect' = (lostSelect /\ host # Fresh)
  /\ UNCHANGED <<host, card, calls>>

\* `Session::new()`: the caller starts over.
NewSession ==
  /\ call = Idle /\ host # Fresh
  /\ host' = Fresh /\ lostSelect' = FALSE
  /\ UNCHANGED <<card, call, moved, calls>>

Ended(out) == [call EXCEPT !.out = out]

\* Methods that take `self` by value drop the session with an error; after the
\* others the caller drops it or uses it again.
Consumes ==
  \/ call.op \in {"authenticate", "enableLrp", "changeMasterKey"}
  \/ call.op \in {"read", "write"} /\ call.mode \in {"mac", "full", "auto"}

Drop == host' = Fresh

Fail ==
  /\ call' = Ended("error")
  /\ Drop \/ (~Consumes /\ UNCHANGED host)
  /\ UNCHANGED lostSelect

\* The caller's error, found before anything is sent.
Reject == Fail /\ UNCHANGED <<card, moved, calls>>

\* External: the tag refuses a command, which may end its authentication, or
\* never sees it.
Refusing == {card, [card EXCEPT !.auth = FALSE]}

\* One exchange: the tag accepts and answers, and the host goes on with
\* `goes`; or it accepts and the answer is lost; or it refuses or never sees
\* the command.
Exchange(accepts, cardAfter, movedAtTag, goes) ==
  /\ \/ accepts /\ card' = cardAfter /\ goes
     \/ accepts /\ card' = cardAfter /\ moved' = movedAtTag /\ Fail
     \/ card' \in Refusing /\ UNCHANGED moved /\ Fail
  /\ UNCHANGED calls

\* An exchange that moves no bytes and leaves the session as it is or as given.
Ask(accepts, cardAfter, hostAfter, callAfter) ==
  Exchange(accepts, cardAfter, moved,
           host' = hostAfter /\ call' = callAfter /\ UNCHANGED <<moved, lostSelect>>)

-----------------------------------------------------------------------------
(* Selections *)

Checking == call.op = "check"
IsoCheck == Checking /\ StageOf(call.stage) \in {"cc", "ndef"}
Iso      == (call.op \in {"read", "write"} /\ call.mode = "iso") \/ IsoCheck

NeedsApp ==
  /\ Running /\ ~host.app
  /\ Iso \/ call.op \in {"settings", "authenticate"}

NeedsEf == Running /\ Iso /\ host.app /\ host.ef # call.file

\* ISOSelectFile by DF name; it ends an authentication.
SelectApplication ==
  /\ NeedsApp
  /\ Ask(TRUE, Selected, [host EXCEPT !.app = TRUE, !.ef = "none"], call)

\* ISOSelectFile by file identifier.  If only the answer is lost, a session
\* that is used again remembers the EF of before.
SelectEf ==
  /\ NeedsEf
  /\ \/ /\ card.app /\ card' = [card EXCEPT !.ef = call.file]
        /\ \/ /\ host' = [host EXCEPT !.ef = call.file]
              /\ UNCHANGED <<call, lostSelect>>
           \/ /\ call' = Ended("error")
              /\ (Drop /\ UNCHANGED lostSelect) \/ (UNCHANGED host /\ lostSelect' = TRUE)
     \/ card' \in Refusing /\ Fail
  /\ UNCHANGED <<moved, calls>>

-----------------------------------------------------------------------------
(* Transfers *)

\* How many bytes the call is to move: `length`, or what the buffer holds.
Target == IF call.size = 0 THEN call.buf ELSE call.size

\* ReadData in plain mode with length 0 is a single APDU that names no length.
WholeFile == call.op = "read" /\ call.mode = "plain" /\ call.size = 0

Cap == IF call.op = "write" THEN WriteCap[call.mode] ELSE ReadCap[call.mode]

\* Deviation: the last chunk is as long as the others.
WantAlways == Cap

Want == Least(Target - call.n, Cap)

\* The offset as the header or P1-P2 carries it.
Position == call.pos % Field

\* The plain chunk loop takes the slice of the buffer without a check.
SliceTooShort == call.mode = "plain" /\ call.op = "read" /\ call.n + Want > call.buf

\* Errors that are found before an APDU is sent: by the ISO commands, ...
BadIso == call.mode = "iso" /\ (call.buf = 0 \/ call.pos >= IsoLimit)

\* ... by ReadData, in plain mode of each chunk, else of the request as a whole
BadRead ==
  /\ call.op = "read" /\ call.mode \in DataMode
  /\ \/ call.buf = 0
     \/ call.mode = "plain" /\ call.pos >= Field
     \/ call.mode # "plain" /\ (call.off >= Field \/ call.size >= Field \/ call.size > call.buf)

\* ... and by WriteData.
BadWrite ==
  /\ call.op = "write" /\ call.mode \in DataMode
  /\ \/ call.buf = 0
     \/ call.mode = "plain" /\ call.pos >= Field
     \/ call.mode # "plain" /\ (call.off >= Field \/ call.buf >= Field)

BadRequest == BadIso \/ BadRead \/ BadWrite

Transferring ==
  /\ Running /\ (Iso \/ (call.op \in {"read", "write"} /\ call.mode \in DataMode))
  /\ ~NeedsApp /\ ~NeedsEf

Panic ==
  /\ Transferring /\ SliceTooShort
  /\ call' = Ended("panic") /\ Drop
  /\ UNCHANGED <<card, moved, lostSelect, calls>>

Refuse == Transferring /\ ~SliceTooShort /\ BadRequest /\ Reject

\* External: the file that the tag acts on, if it accepts the command at all.
\* The ISO commands are refused while authenticated, the secured ones else.
FileAtTag == IF Iso THEN card.ef ELSE call.file
Obeys ==
  CASE Iso -> card.app /\ card.ef # "none" /\ ~card.auth
    [] call.mode = "plain" -> card.app
    [] OTHER -> card.app /\ card.auth

\* External: how many bytes the tag answers with.  At the end of the file it
\* may give what is left or refuse.
Available == Size[FileAtTag] - Position
Answered  == IF WholeFile THEN Available ELSE Least(Want, Available)

Bytes(k) == {<<FileAtTag, Position + i, call.n + i>> : i \in 0 .. (k - 1)}

\* The tag has been read to the end of this aspect of a check: it is as
\* delivered, or the check ends here.
NextStage ==
  LET next == IF Skipped(call.stage + 1, call.chip) THEN call.stage + 2 ELSE call.stage + 1
  IN  IF Refuses(call.stage, call.chip) THEN Ended("error")
      ELSE IF IsLast(call.stage) THEN Ended("ok")
      ELSE IF StageOf(next) = "ndef"
        THEN [call EXCEPT !.stage = next, !.file = "ndef", !.buf = Size["ndef"],
                          !.pos = 0, !.n = 0]
        ELSE [call EXCEPT !.stage = next, !.file = "none"]

\* Deviation: the offset counts from the start of the file for every chunk.
AdvancedFromZero(k) == [call EXCEPT !.n = @ + k, !.pos = call.n + k]

Advanced(k) == [call EXCEPT !.n = @ + k, !.pos = @ + k]

\* The loop ends when the target is reached or the answer is short.
AfterChunk(k) ==
  LET c == Advanced(k)
      over == WholeFile \/ k < Want \/ c.n >= Target
  IN  IF ~over THEN c
      ELSE IF Checking THEN NextStage
      ELSE [c EXCEPT !.out = "ok"]

\* In full mode the answer must be as long as was asked for.
ReadChunk ==
  LET k == Least(Answered, call.buf)
  IN  Exchange(Obeys /\ Available > 0, card, moved,
               IF call.mode = "full" /\ k # Want
                 THEN Fail /\ UNCHANGED moved
                 ELSE /\ call' = AfterChunk(k) /\ moved' = moved \union Bytes(k)
                      /\ UNCHANGED <<host, lostSelect>>)

\* A write beyond the end of the file is refused as a whole.
WriteChunk ==
  Exchange(Obeys /\ Want <= Available, card, moved \union Bytes(Want),
           /\ call' = AfterChunk(Want) /\ moved' = moved \union Bytes(Want)
           /\ UNCHANGED <<host, lostSelect>>)

Sendable == Transferring /\ ~BadRequest /\ ~SliceTooShort

ISOReadBinary   == Sendable /\ Iso /\ call.op # "write" /\ ReadChunk
ISOUpdateBinary == Sendable /\ Iso /\ call.op = "write" /\ WriteChunk
ReadData        == Sendable /\ ~Iso /\ call.op = "read" /\ ReadChunk
WriteData       == Sendable /\ ~Iso /\ call.op = "write" /\ WriteChunk

\* `read_file` and `write_file` ask for the settings of the file first; which
\* mode they make of them is in AccessRights.
ChooseMode ==
  /\ Running /\ call.mode = "auto"
  /\ \E m \in DataMode : Ask(card.auth, card, host, [call EXCEPT !.mode = m])

-----------------------------------------------------------------------------
(* Other operations *)

GetFileSettings ==
  /\ Running /\ call.op = "settings" /\ host.app
  /\ Ask(card.app, card, host, Ended("ok"))

\* GetVersion needs no application and no selection.
GetVersion ==
  /\ Running /\ call.op = "version"
  /\ Ask(TRUE, card, host, Ended("ok"))

Authenticate ==
  /\ Running /\ call.op = "authenticate" /\ host.app
  /\ Ask(card.app, [card EXCEPT !.auth = TRUE], [host EXCEPT !.auth = TRUE], Ended("ok"))

\* Deviation: the session still counts as authenticated after LRP has been enabled.
EnableLrpStaying ==
  /\ Running /\ call.op = "enableLrp"
  /\ Ask(card.auth, [card EXCEPT !.auth = FALSE], host, Ended("ok"))

\* The session keeps its selections.
EnableLrp ==
  /\ Running /\ call.op = "enableLrp"
  /\ Ask(card.auth, [card EXCEPT !.auth = FALSE], [host EXCEPT !.auth = FALSE], Ended("ok"))

\* The session starts from nothing.
ChangeMasterKey ==
  /\ Running /\ call.op = "changeMasterKey"
  /\ Ask(card.auth, [card EXCEPT !.auth = FALSE], Fresh, Ended("ok"))

CheckVersion ==
  /\ Running /\ Checking /\ StageOf(call.stage) = "version"
  /\ Ask(TRUE, card, host, NextStage)

\* The check authenticates in a session of its own, which selects the
\* application again; AES first, then, in another new session, LRP.
CheckMasterKey ==
  /\ Running /\ Checking /\ StageOf(call.stage) = "key0"
  /\ \/ Ask("key0" \notin call.chip.odd, [Selected EXCEPT !.auth = TRUE], host, NextStage)
     \/ card' = Selected /\ Fail /\ UNCHANGED <<moved, calls>>

\* Everything after that goes through the authenticated session; `self` is left
\* as it was.
CheckAuthenticated ==
  /\ Running /\ Checking
  /\ StageOf(call.stage) \notin {"cc", "version", "ndef", "key0"}
  /\ Ask(card.auth, card, host, NextStage)

\* External: the tag leaves the field and comes back.
PowerCycle ==
  /\ card # Fresh
  /\ card' = Fresh
  /\ UNCHANGED <<host, call, moved, lostSelect, calls>>

Init ==
  /\ host = Fresh /\ card = Fresh /\ call = Idle
  /\ moved = {} /\ lostSelect = FALSE /\ calls = 0

Next ==
  \/ BeginUnauthenticated \/ BeginAuthenticated \/ Return \/ NewSession
  \/ SelectApplication \/ SelectEf \/ Refuse \/ Panic
  \/ ISOReadBinary \/ ISOUpdateBinary \/ ReadData \/ WriteData
  \/ ChooseMode \/ GetFileSettings \/ GetVersion \/ Authenticate \/ EnableLrp
  \/ ChangeMasterKey \/ CheckVersion \/ CheckMasterKey \/ CheckAuthenticated
  \/ PowerCycle

Spec == Init /\ [][Next]_vars

-----------------------------------------------------------------------------
(* Properties *)

Selection == [app: BOOLEAN, ef: File \union {"none"}, auth: BOOLEAN]

\* The two ends of the selection, and the call, have their types; a transfer
\* never does more than it was asked for.
TypeOK ==
  /\ host \in Selection /\ card \in Selection
  /\ call.op \in Op \union {"none"} /\ call.mode \in Mode \union {"auto"}
  /\ call.file \in File \union {"none"} /\ call.stage \in 0 .. Len(Stages)
  /\ call.out \in {"none", "running", "ok", "error", "panic"}
  /\ call.n \in 0 .. Target
  /\ lostSelect \in BOOLEAN /\ calls \in 0 .. MaxCalls

\* The bytes that a transfer of k bytes is to move.
Prefix(k) == {<<call.file, call.off + i, i>> : i \in 0 .. (k - 1)}

\* What a transfer that ends well, and reports n bytes, has moved: a write all
\* of its data, a read what there is up to the end of the file.
Complete ==
  /\ moved = Prefix(call.n)
  /\ call.op = "write" => call.n = call.buf
  /\ call.op = "read" =>
       call.n = Least(Target, Size[call.file] - call.off)

\* Whatever is lost, refused or out of range in whichever chunk, what has been
\* moved is a first part of what was asked for: of the right file, every byte
\* at its place, nothing wrapped around; and success is reported only for all
\* of it.  (Only a session used again after a lost SELECT may be wrong.)
RightBytes ==
  (call.op \in {"read", "write"} /\ ~lostSelect) =>
    /\ \E k \in 0 .. Target + call.buf : moved = Prefix(k)
    /\ call.out = "ok" => Complete

\* mod.rs: `ef_selected` is "The currently selected EF File ID": as long as
\* the tag keeps power and no call has failed, the tag has that EF selected.
EfFlagTrue ==
  ~lostSelect /\ host.app /\ card.app /\ host.ef # "none" => card.ef = host.ef

\* The session counts as authenticated, and the tag, which still has the
\* application selected, does not.
AuthLost == host.auth /\ card.app /\ ~card.auth

\* Session<Authenticated<_>>: the one thing that can part the two is a plain
\* read or write that the tag refuses, because these methods borrow the session
\* and it can be used again.  No other operation does, whichever step of it
\* fails, and no power loss (the tag then has nothing selected).
AuthSurvives ==
  [][AuthLost' => \/ AuthLost
                  \/ /\ call.op \in {"read", "write"} /\ call.mode = "plain"
                     /\ call'.out = "error" /\ host' = host]_vars

\* The two files that are open to everyone, every byte at its place.
OpenFiles == {<<f, p, p>> : f \in {"cc"}, p \in 0 .. (Size["cc"] - 1)} \union
             {<<f, p, p>> : f \in {"ndef"}, p \in 0 .. (Size["ndef"] - 1)}

\* unauthenticated.rs: a tag is reported as in factory state only if all the
\* required aspects were looked at and are as delivered, the two open files
\* have been read in full, each as itself, and what cannot be undone is in the
\* report, so that `strictly` is true only of a tag that differs in nothing.
FactoryVerdict ==
  (Checking /\ call.out = "ok") =>
    /\ call.chip.odd \subseteq Lasting
    /\ Strictly(Report(call.chip)) => call.chip.odd = {}
    /\ ~lostSelect => moved = OpenFiles
=============================================================================
