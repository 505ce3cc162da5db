------------------------------ MODULE VersionChain ------------------------------
(***************************************************************************)
(* GetVersion, in three frames of which the last one carries a MAC over    *)
(* all if the session is authenticated.  The reader may lose an answer, or *)
(* hand over the answer to an earlier request once more, whether or not it *)
(* has passed the new one on.                                              *)
(***************************************************************************)
EXTENDS Naturals, Sequences

CONSTANT MaxVersions   \* bound: calls of `get_version`
ASSUME VersionsAssumption == MaxVersions \in Nat

VARIABLES
  chip,    \* external: the frame that is due, CmdCtr, the session's number
  reader,  \* the answer handed over last, and whether it was ever an old one
  asking   \* the call, and of the session its CmdCtr and number

chainVars == <<chip, reader, asking>>

Mac(session, ctr, parts) == <<session, ctr, parts>>
Answer(code, parts, mac) == [code |-> code, parts |-> parts, mac |-> mac]
NoAnswer == Answer("none", << >>, << >>)

InitChain ==
  /\ chip = [due |-> 0, ctr |-> 0, session |-> 0]
  /\ reader = [last |-> NoAnswer, stale |-> FALSE]
  /\ asking = [mode |-> "plain", out |-> "none", parts |-> << >>, ctr |-> 0, session |-> 0,
               calls |-> 0]

Asking == asking.out = "running"

\* In a session (its number is not 0) the MAC variant is used.
GetVersion ==
  /\ ~Asking /\ asking.calls < MaxVersions
  /\ asking' = [asking EXCEPT !.mode = IF asking.session = 0 THEN "plain" ELSE "mac",
                              !.out = "running", !.parts = << >>, !.calls = @ + 1]
  /\ UNCHANGED <<chip, reader>>

\* A handshake starts both counters again under new keys.
NewAuthentication ==
  /\ ~Asking /\ asking.session < MaxVersions
  /\ chip' = [due |-> 0, ctr |-> 0, session |-> chip.session + 1]
  /\ asking' = [asking EXCEPT !.ctr = 0, !.session = chip.session + 1, !.out = "none"]
  /\ UNCHANGED reader

\* External: the first request starts the chain wherever it was; the last
\* frame carries the MAC of what the tag has sent and counts the command.
FrameOf(first) == IF first THEN 0 ELSE chip.due
TagAnswer(first) ==
  CASE first \/ chip.due = 1 -> Answer("91AF", <<FrameOf(first) + 1>>, << >>)
    [] ~first /\ chip.due = 2 ->
         Answer("9100", <<3>>, IF asking.mode = "plain" THEN << >>
                               ELSE Mac(chip.session, chip.ctr + 1, <<1, 2, 3>>))
    [] OTHER -> Answer("911C", << >>, << >>)
TagAfter(first) ==
  IF TagAnswer(first).code = "9100"
    THEN [chip EXCEPT !.due = 0, !.ctr = IF asking.mode = "plain" THEN @ ELSE @ + 1]
    ELSE [chip EXCEPT !.due = IF TagAnswer(first).code = "91AF" THEN FrameOf(first) + 1 ELSE 0]

\* Deviation: the MAC is checked against the last frame only.
VerifiesLastFrame(a) ==
  Len(a.mac) = 3 /\ a.mac[1] = asking.session /\ a.mac[2] = asking.ctr + 1
    /\ a.mac[3][3] = a.parts[1]

\* The response MAC covers all three parts.
Verifies(a) == a.mac = Mac(asking.session, asking.ctr + 1, asking.parts \o a.parts)

\* A failed call in a session drops the session.
FailedChain == [asking EXCEPT !.out = "error", !.session = 0, !.ctr = 0]

Intermediate(a) ==
  IF a.code = "91AF" /\ a.parts \in {<<1>>, <<2>>}   \* 7 bytes each
    THEN [asking EXCEPT !.parts = @ \o a.parts] ELSE FailedChain

Last(a) ==
  IF a.code = "9100" /\ (asking.mode = "mac" => Verifies(a))
    THEN [asking EXCEPT !.parts = @ \o a.parts, !.out = "ok",
                        !.ctr = IF asking.mode = "mac" THEN @ + 1 ELSE @]
    ELSE FailedChain

Receives(a) == asking' = IF Len(asking.parts) < 2 THEN Intermediate(a) ELSE Last(a)

\* A request: answered; lost with or without reaching the tag; or answered
\* with what the reader had handed over before.
Request ==
  /\ Asking
  /\ LET first == asking.parts = << >>
         a == TagAnswer(first)
     IN  \/ /\ chip' = TagAfter(first) /\ Receives(a)
            /\ reader' = [reader EXCEPT !.last = a]
         \/ /\ chip' \in {chip, TagAfter(first)} /\ asking' = FailedChain
            /\ UNCHANGED reader
         \/ /\ reader.last # NoAnswer
            /\ chip' \in {chip, TagAfter(first)} /\ Receives(reader.last)
            /\ reader' = [reader EXCEPT !.stale = TRUE]

ChainNext == GetVersion \/ NewAuthentication \/ Request

\* In an authenticated session, whatever answers the reader repeats: a version
\* that is returned consists of the three parts that the tag has sent, each in
\* its place, though two of the three frames carry no MAC of their own.  Without
\* authentication the same, as long as the reader repeats none.
VersionWhole ==
  asking.out = "ok" /\ (asking.mode = "mac" \/ ~reader.stale) => asking.parts = <<1, 2, 3>>
=============================================================================
