--------------------------- MODULE SecureMessaging ---------------------------
(***************************************************************************)
(* The authenticated session of the crate and the tag it talks to.         *)
(*                                                                         *)
(* The host side is `Session<Authenticated<S>>` with its `SecureChannel`:  *)
(* session keys, transaction identifier, command counter and (LRP only)    *)
(* encryption counter.  The PICC is not part of the repository; it is      *)
(* modelled from the way the crate uses it and marked external.  Between   *)
(* them is a `Transport`: half-duplex, one APDU at a time, which may fail  *)
(* before or after the PICC has acted, and (if ReaderRepeats) may hand     *)
(* over an earlier answer in place of the right one.                       *)
(*                                                                         *)
(* Cryptography is symbolic.  A session key is named by the number of the  *)
(* handshake that derived it, a MAC is the tuple of what it covers, and a  *)
(* ciphertext is named by the initialisation vector it was made under.     *)
(***************************************************************************)
EXTENDS Naturals

CONSTANTS
  Command,       \* the commands the caller may issue, a subset of AllCommands
  CtrMod,        \* CmdCtr is a u16: 2^16 in the code
  MaxApdu,       \* bound: APDUs in one behaviour (no call starts beyond it)
  MaxChunks,     \* bound: APDUs that one chunked read or write is split into
  ReaderRepeats  \* whether the reader may hand over an earlier answer

SealedCommand == {"ChangeKey", "ChangeFileSettings", "SetConfiguration",
                  "EnableLrp", "ChangeMasterKey", "WriteFull"}
SealedAnswer  == {"GetCardUid", "GetFileCounters", "GetTtStatus", "ReadSig",
                  "ReadFull"}
PlainCommand  == {"ReadPlain", "WritePlain"}
AllCommands   == SealedCommand \union SealedAnswer \union PlainCommand \union
                 {"GetVersion", "GetKeyVersion", "GetFileSettings",
                  "ReadMac", "WriteMac"}
Chunked       == {"ReadPlain", "WritePlain", "ReadMac", "WriteMac",
                  "ReadFull", "WriteFull", "SetConfiguration"}
\* Reads that stop at a short answer (end of file).
StopsAtEof    == {"ReadPlain", "ReadMac"}
\* Commands whose answer may lack a MACt.
MayLackMact   == {"SetConfiguration", "EnableLrp"}
\* Commands after which the PICC has left the authenticated state.
EndsSession   == {"EnableLrp", "ChangeMasterKey"}
Handshake     == {"First", "NonFirst"}

ASSUME CommandAssumption == Command \subseteq AllCommands
ASSUME BoundAssumption ==
  /\ CtrMod \in Nat /\ MaxApdu \in Nat /\ MaxChunks \in Nat \ {0}
  /\ MaxApdu < CtrMod
ASSUME ReaderAssumption == ReaderRepeats \in BOOLEAN

VARIABLES
  sess,    \* the session value held by the caller or by the running call
  call,    \* the call that is running, or Idle
  failed,  \* plain calls of this transaction that returned an error (history)
  tag,     \* external: the secure-messaging state of the PICC
  wire,    \* the APDU, or the answer to it, that the transport carries
  stale,   \* the last answer that has left the wire
  sealed,  \* every initialisation vector used to encrypt so far (history)
  n        \* APDUs sent so far; names APDUs, handshakes, keys and TIs

vars == <<sess, call, failed, tag, wire, stale, sealed, n>>

-----------------------------------------------------------------------------
(* Data *)

Suite  == {"AES", "LRP"}
Ctr    == 0 .. CtrMod - 1
Id     == 0 .. MaxApdu

NoIv   == [key |-> 0, dir |-> "none", ti |-> 0, ctr |-> 0]
NoMac  == [key |-> 0, dir |-> "none", ti |-> 0, ctr |-> 0]
Cover  == [key: Id, dir: {"none", "cmd", "resp", "enc"}, ti: Id, ctr: Nat]

Keyless  == [suite |-> "AES", key |-> 0, ti |-> 0, ctr |-> 0, enc |-> 0]
Material == [suite: Suite, key: Id, ti: Id, ctr: Ctr, enc: Nat]

NoSession   == [st |-> "none", m |-> Keyless]
FreshSession == [st |-> "unauth", m |-> Keyless]
Authed(m)   == [st |-> "auth", m |-> m]

Idle == [cmd |-> "none", left |-> 0, phase |-> "none", keep |-> FALSE,
         suite |-> "AES", echo |-> 0]
NewCall(cmd, left, keep, suite) ==
  [cmd |-> cmd, left |-> left, phase |-> "send", keep |-> keep,
   suite |-> suite, echo |-> 0]

NoMsg == [type |-> "none", what |-> "none", n |-> 0, echo |-> 0,
          suite |-> "AES", mac |-> NoMac, iv |-> NoIv, data |-> FALSE]

\* u16::wrapping_add(1)
Succ(c) == IF c = CtrMod - 1 THEN 0 ELSE c + 1
Advance(m) == [m EXCEPT !.ctr = Succ(@)]

\* The initialisation vector of the next cipher call: AES rebuilds it from
\* (direction, TI, CmdCtr), LRP uses its running EncCtr and nothing else.
Iv(m, dir) ==
  IF m.suite = "AES"
    THEN [key |-> m.key, dir |-> dir, ti |-> m.ti, ctr |-> m.ctr]
    ELSE [key |-> m.key, dir |-> "enc", ti |-> 0, ctr |-> m.enc]

\* What a cipher call leaves behind: LRP counts blocks (one per payload here).
AfterCipher(m) == IF m.suite = "LRP" THEN [m EXCEPT !.enc = @ + 1] ELSE m

MacOver(m, dir) == [key |-> m.key, dir |-> dir, ti |-> m.ti, ctr |-> m.ctr]

Note(iv) == sealed' = IF iv = NoIv THEN sealed ELSE sealed \union {iv}

-----------------------------------------------------------------------------
(* Host: starting and ending calls *)

\* The bound: a call starts only if all its APDUs fit.
Fits(left) == n + left <= MaxApdu

\* `Session::new()`: the caller starts over, whatever it held before.
NewSession ==
  /\ call = Idle
  /\ sess # FreshSession
  /\ sess' = FreshSession
  /\ UNCHANGED <<call, failed, tag, wire, stale, sealed, n>>

\* `authenticate_aes` / `authenticate_lrp` on an unauthenticated session.
AuthenticateFirst(suite) ==
  /\ call = Idle /\ sess.st = "unauth" /\ Fits(2)
  /\ call' = NewCall("First", 2, FALSE, suite)
  /\ UNCHANGED <<sess, failed, tag, wire, stale, sealed, n>>

\* `AuthenticatedSession::authenticate`: same suite, TI and CmdCtr are kept.
AuthenticateNonFirst ==
  /\ call = Idle /\ sess.st = "auth" /\ Fits(2)
  /\ call' = NewCall("NonFirst", 2, FALSE, sess.m.suite)
  /\ UNCHANGED <<sess, failed, tag, wire, stale, sealed, n>>

\* A command of `AuthenticatedSession`; `left` counts the APDUs still to send.
\* Only read_file_plain and write_file_plain borrow the session (keep).
Begin(c, left, keep) ==
  /\ call = Idle /\ sess.st = "auth" /\ Fits(left)
  /\ c = "EnableLrp" => sess.m.suite = "AES"
  /\ keep => c \in PlainCommand
  /\ call' = NewCall(c, left, keep, sess.m.suite)
  /\ UNCHANGED <<sess, failed, tag, wire, stale, sealed, n>>

ApduCounts(c) ==
  IF c = "GetVersion" THEN {3} ELSE IF c \in Chunked THEN 1 .. MaxChunks ELSE {1}

\* Deviation: an error hands every session back to the caller.
FailsRetaining(m) ==
  /\ call' = Idle
  /\ sess' = IF call.cmd = "First" THEN NoSession ELSE Authed(m)
  /\ failed' = IF call.keep THEN failed + 1 ELSE failed

\* The `?` of every handler: a call that consumes the session drops it, a
\* borrowed session stays with the caller as it is.
Fails(m) ==
  /\ call' = Idle
  /\ sess' = IF call.keep THEN Authed(m) ELSE NoSession
  /\ failed' = IF call.keep THEN failed + 1 ELSE failed

-----------------------------------------------------------------------------
(* Host: sending one APDU *)

Request(what, echo, mac, iv) ==
  [type |-> "req", what |-> what, n |-> n + 1, echo |-> echo,
   suite |-> call.suite, mac |-> mac, iv |-> iv, data |-> FALSE]

CanSend == call.phase = "send"

Put(msg) ==
  /\ wire' = msg
  /\ n' = n + 1
  /\ call' = [call EXCEPT !.phase = "wait"]

\* Part 1 carries the key number, part 2 proves knowledge of RndB.
SendHandshake ==
  /\ CanSend /\ call.cmd \in Handshake
  /\ Put(Request(IF call.left = 2 THEN call.cmd ELSE "Part2", call.echo, NoMac, NoIv))
  /\ UNCHANGED <<sess, failed, tag, stale, sealed>>

SendPlain ==
  /\ CanSend /\ call.cmd \in PlainCommand
  /\ Put(Request(call.cmd, 0, NoMac, NoIv))
  /\ UNCHANGED <<sess, failed, tag, stale, sealed>>

\* The follow-on frames of the GetVersion chain are bare `90 AF`.
SendMore ==
  /\ CanSend /\ call.cmd = "GetVersion" /\ call.left < 3
  /\ Put(Request("More", 0, NoMac, NoIv))
  /\ UNCHANGED <<sess, failed, tag, stale, sealed>>

\* Deviation: encrypting does not move EncCtr.
SealingFrozen(m) == m

\* The session after encrypt_command.
Sealing(m) == AfterCipher(m)

\* A MAC'd command; a sealed one is encrypted first, the MAC covers ciphertext.
SendSecured ==
  /\ CanSend /\ call.cmd \in Command \ PlainCommand
  /\ call.cmd = "GetVersion" => call.left = 3
  /\ LET seals == call.cmd \in SealedCommand
         iv == IF seals THEN Iv(sess.m, "cmd") ELSE NoIv
         m  == IF seals THEN Sealing(sess.m) ELSE sess.m
     IN /\ Put(Request(call.cmd, 0, MacOver(m, "cmd"), iv))
        /\ sess' = Authed(m)
        /\ Note(iv)
  /\ UNCHANGED <<failed, tag, stale>>

-----------------------------------------------------------------------------
(* Host: receiving the outcome of a transmit *)

\* What the reader may still hand over later.
Late(msg) == IF ReaderRepeats THEN msg ELSE NoMsg

TakeAnswer == wire' = NoMsg /\ stale' = Late(wire)

Waiting(what) == call.phase = "wait" /\ wire.type = "ans" /\ wire.what = what

\* The reader reports an error: the APDU never arrived, or the answer is lost.
TransportError ==
  /\ call.phase = "wait"
  /\ Fails(sess.m)
  /\ wire' = NoMsg
  /\ stale' = IF wire.type = "ans" THEN Late(wire) ELSE stale
  /\ UNCHANGED <<tag, sealed, n>>

\* What the running call expects as status: `91 AF` inside a chain, else OK.
InChain == call.cmd \in Handshake \union {"GetVersion"} /\ call.left > 1
Expected == IF InChain THEN "af" ELSE "ok"

ReceiveStatusError ==
  /\ call.phase = "wait" /\ wire.type = "ans" /\ wire.what # Expected
  /\ Fails(sess.m)
  /\ TakeAnswer
  /\ UNCHANGED <<tag, sealed, n>>

\* Part 1 answer: RndB.  Anything that is not a challenge has another length.
ReceiveChallenge ==
  /\ Waiting("af") /\ call.cmd \in Handshake /\ call.left = 2
  /\ IF wire.echo # 0 /\ wire.suite = call.suite
       THEN /\ call' = [call EXCEPT !.left = 1, !.phase = "send", !.echo = wire.echo]
            /\ UNCHANGED <<sess, failed>>
       ELSE Fails(sess.m)
  /\ TakeAnswer
  /\ UNCHANGED <<tag, sealed, n>>

\* The session after a handshake whose second APDU has number id: fresh keys,
\* and after First a fresh TI and CmdCtr 0 (LRP has deciphered PICCData by then).
FirstKeys(suite, id) ==
  [suite |-> suite, key |-> id, ti |-> id, ctr |-> 0,
   enc |-> IF suite = "LRP" THEN 1 ELSE 0]

\* Deviation: re-authentication starts a new command count.
NonFirstKeysRestart(m, id) == [m EXCEPT !.key = id, !.enc = 0, !.ctr = 0]

\* After NonFirst only the keys are new.
NonFirstKeys(m, id) == [m EXCEPT !.key = id, !.enc = 0]

\* Part 2 answer: RndA' must be the RndA of this handshake.
ReceiveProof ==
  /\ Waiting("ok") /\ call.cmd \in Handshake /\ call.left = 1
  /\ IF wire.echo = n /\ wire.suite = call.suite
       THEN /\ sess' = Authed(IF call.cmd = "First" THEN FirstKeys(call.suite, n)
                                                    ELSE NonFirstKeys(sess.m, n))
            /\ failed' = IF call.cmd = "First" THEN 0 ELSE failed
            /\ call' = Idle
       ELSE Fails(sess.m)
  /\ TakeAnswer
  /\ UNCHANGED <<tag, sealed, n>>

\* Deviation: a session that ends keeps its key material.
ContinueWithKeys(m, eof) ==
  /\ UNCHANGED failed
  /\ IF call.left = 1 \/ eof
       THEN /\ call' = Idle
            /\ sess' = [st |-> IF call.cmd \in EndsSession THEN "unauth" ELSE "auth",
                        m |-> m]
       ELSE /\ call' = [call EXCEPT !.left = @ - 1, !.phase = "send"]
            /\ sess' = Authed(m)

\* Deviation: the next APDU of a chunked call is never sent.
ContinueWaiting(m, eof) ==
  /\ UNCHANGED failed
  /\ IF call.left = 1 \/ eof
       THEN /\ call' = Idle
            /\ sess' = IF call.cmd \in EndsSession THEN FreshSession ELSE Authed(m)
       ELSE /\ call' = [call EXCEPT !.left = @ - 1]
            /\ sess' = Authed(m)

\* A command APDU has succeeded and left the session at m.
Continue(m, eof) ==
  /\ UNCHANGED failed
  /\ IF call.left = 1 \/ eof
       THEN /\ call' = Idle
            /\ sess' = IF call.cmd \in EndsSession THEN FreshSession ELSE Authed(m)
       ELSE /\ call' = [call EXCEPT !.left = @ - 1, !.phase = "send"]
            /\ sess' = Authed(m)

Eof == IF call.cmd \in StopsAtEof THEN BOOLEAN ELSE {FALSE}

ReceivePlain ==
  /\ Waiting("ok") /\ call.cmd \in PlainCommand
  /\ \E eof \in Eof : Continue(Advance(sess.m), eof)
  /\ TakeAnswer
  /\ UNCHANGED <<tag, sealed, n>>

\* An intermediate GetVersion frame is seven bytes and carries no MAC.
ReceiveFrame ==
  /\ Waiting("af") /\ call.cmd = "GetVersion" /\ call.left > 1
  /\ IF wire.echo = 0 THEN Continue(sess.m, FALSE) ELSE Fails(sess.m)
  /\ TakeAnswer
  /\ UNCHANGED <<tag, sealed, n>>

Empty(msg) == msg.mac = NoMac /\ ~msg.data

\* ChangeMasterKey never gets a MACt, SetConfiguration may not: an empty body
\* counts as success and advances CmdCtr.
ReceiveUnsigned ==
  /\ Waiting("ok") /\ call.cmd \in MayLackMact \union {"ChangeMasterKey"}
  /\ Empty(wire)
  /\ Continue(Advance(sess.m), FALSE)
  /\ TakeAnswer
  /\ UNCHANGED <<tag, sealed, n>>

\* Deviation: the counter is not under the MACt.
MactVerifiesAnyCtr ==
  [wire.mac EXCEPT !.ctr = 0] = [MacOver(sess.m, "resp") EXCEPT !.ctr = 0]

MactVerifies == wire.mac = MacOver(Advance(sess.m), "resp")
Decrypts == Iv(Advance(sess.m), "resp") = wire.iv

\* Deviation: decrypting does not move EncCtr.
OpeningFrozen(m) == m

\* The session after decrypt_response.
Opening(m) == AfterCipher(m)

\* Every other answer: verify MACt over CmdCtr + 1, advance, then decrypt.  A
\* verified body may still not decode (length, padding, originality signature).
ReceiveMact ==
  /\ Waiting("ok") /\ ~InChain
  /\ call.cmd \in Command \ PlainCommand
  /\ call.cmd \in MayLackMact \union {"ChangeMasterKey"} => ~Empty(wire)
  /\ LET m == Advance(sess.m)
     IN IF \/ call.cmd = "ChangeMasterKey"
           \/ ~MactVerifies
           \/ call.cmd \in SealedAnswer /\ ~Decrypts
          THEN Fails(m)
          ELSE \/ Fails(m)
               \/ \E eof \in Eof :
                    Continue(IF call.cmd \in SealedAnswer THEN Opening(m) ELSE m, eof)
  /\ TakeAnswer
  /\ UNCHANGED <<tag, sealed, n>>

-----------------------------------------------------------------------------
(* External: the PICC *)

Answer(what, echo, mac, iv, data) ==
  wire' = [wire EXCEPT !.type = "ans", !.what = what, !.echo = echo,
                       !.mac = mac, !.iv = iv, !.data = data]

TagSuite == IF tag.lrp THEN "LRP" ELSE "AES"

TagFirstKeys(id) ==
  [suite |-> TagSuite, key |-> id, ti |-> id, ctr |-> 0,
   enc |-> IF tag.lrp THEN 1 ELSE 0]
TagNonFirstKeys(id) == [tag.m EXCEPT !.key = id, !.enc = 0]

Asked(what) == wire.type = "req" /\ wire.what = what

TagChallenge ==
  /\ Asked("First") \/ (Asked("NonFirst") /\ tag.st = "auth")
  /\ wire.suite = TagSuite
  /\ tag' = [tag EXCEPT !.st = "chal", !.chal = wire.n, !.frames = 0,
                        !.first = (wire.what = "First")]
  /\ Answer("af", wire.n, NoMac, NoIv, TRUE)
  /\ UNCHANGED <<sess, call, failed, stale, sealed, n>>

\* PICCData of AuthenticateLRPFirst is encrypted at EncCtr 0 of the new key.
TagProof ==
  /\ Asked("Part2") /\ tag.st = "chal" /\ wire.echo = tag.chal
  /\ LET m  == IF tag.first THEN TagFirstKeys(wire.n) ELSE TagNonFirstKeys(wire.n)
         iv == IF tag.first /\ tag.lrp THEN Iv([m EXCEPT !.enc = 0], "resp") ELSE NoIv
     IN /\ tag' = [tag EXCEPT !.st = "auth", !.m = m]
        /\ Answer("ok", wire.n, NoMac, iv, TRUE)
        /\ Note(iv)
  /\ UNCHANGED <<sess, call, failed, stale, n>>

\* Free access: served with or without an authenticated session, and counted
\* in the authenticated state.
TagPlain ==
  /\ wire.type = "req" /\ wire.what \in PlainCommand
  /\ tag' = [tag EXCEPT !.m = IF tag.st = "auth" THEN Advance(@) ELSE @, !.frames = 0]
  /\ Answer("ok", 0, NoMac, NoIv, wire.what = "ReadPlain")
  /\ UNCHANGED <<sess, call, failed, stale, sealed, n>>

TagAuthentic == tag.st = "auth" /\ wire.mac = MacOver(tag.m, "cmd")

TagOpensChain ==
  /\ Asked("GetVersion") /\ TagAuthentic
  /\ tag' = [tag EXCEPT !.frames = 2]
  /\ Answer("af", 0, NoMac, NoIv, TRUE)
  /\ UNCHANGED <<sess, call, failed, stale, sealed, n>>

TagNextFrame ==
  /\ Asked("More") /\ tag.st = "auth" /\ tag.frames > 0
  /\ tag' = [tag EXCEPT !.frames = @ - 1,
                        !.m = IF tag.frames = 1 THEN Advance(@) ELSE @]
  /\ IF tag.frames = 1
       THEN Answer("ok", 0, MacOver(Advance(tag.m), "resp"), NoIv, TRUE)
       ELSE Answer("af", 0, NoMac, NoIv, TRUE)
  /\ UNCHANGED <<sess, call, failed, stale, sealed, n>>

\* A MAC'd command: check the MAC, decrypt, perform, count, answer.
TagSecured ==
  /\ wire.type = "req" /\ wire.what \in Command \ (PlainCommand \union {"GetVersion"})
  /\ TagAuthentic
  /\ wire.what \in SealedCommand => wire.iv = Iv(tag.m, "cmd")
  /\ LET opened == IF wire.what \in SealedCommand THEN AfterCipher(tag.m) ELSE tag.m
         m  == Advance(opened)
         iv == IF wire.what \in SealedAnswer THEN Iv(m, "resp") ELSE NoIv
         macs == IF wire.what = "ChangeMasterKey" THEN {NoMac}
                 ELSE IF wire.what \in MayLackMact THEN {NoMac, MacOver(m, "resp")}
                 ELSE {MacOver(m, "resp")}
     IN /\ tag' = [tag EXCEPT
                     !.m = IF wire.what \in SealedAnswer THEN AfterCipher(m) ELSE m,
                     !.frames = 0,
                     !.lrp = @ \/ wire.what = "EnableLrp",
                     !.st = IF wire.what \in EndsSession THEN "idle" ELSE @]
        /\ \E mac \in macs :
             Answer("ok", 0, mac, iv, wire.what \notin SealedCommand \union {"WriteMac"})
        /\ Note(iv)
  /\ UNCHANGED <<sess, call, failed, stale, n>>

\* Any request may be refused (wrong key, denied, out of range, bad MAC); the
\* PICC may or may not leave the authenticated state over it.
TagRefuse ==
  /\ wire.type = "req"
  /\ \E st \in {"idle", IF tag.st = "auth" THEN "auth" ELSE "idle"} :
       tag' = [tag EXCEPT !.st = st, !.frames = 0]
  /\ Answer("err", 0, NoMac, NoIv, FALSE)
  /\ UNCHANGED <<sess, call, failed, stale, sealed, n>>

\* The tag leaves the field and comes back.
TagPowerCycle ==
  /\ tag.st # "idle"
  /\ tag' = [tag EXCEPT !.st = "idle", !.frames = 0]
  /\ UNCHANGED <<sess, call, failed, wire, stale, sealed, n>>

\* The reader hands over the answer before this one; this one comes late.
RepeatAnswer ==
  /\ ReaderRepeats /\ wire.type = "ans" /\ stale.type = "ans"
  /\ wire' = stale /\ stale' = wire
  /\ UNCHANGED <<sess, call, failed, tag, sealed, n>>

-----------------------------------------------------------------------------
(* Specification *)

Init ==
  /\ sess = FreshSession /\ call = Idle /\ failed = 0
  /\ tag \in [st: {"idle"}, lrp: BOOLEAN, m: {Keyless}, chal: {0},
               first: {FALSE}, frames: {0}]
  /\ wire = NoMsg /\ stale = NoMsg /\ sealed = {} /\ n = 0

Caller ==
  \/ NewSession
  \/ \E suite \in Suite : AuthenticateFirst(suite)
  \/ AuthenticateNonFirst
  \/ \E c \in Command, keep \in BOOLEAN :
       \E left \in ApduCounts(c) : Begin(c, left, keep)

Send == SendHandshake \/ SendPlain \/ SendMore \/ SendSecured

Receive ==
  \/ ReceiveStatusError \/ ReceiveChallenge \/ ReceiveProof \/ ReceivePlain
  \/ ReceiveFrame \/ ReceiveUnsigned \/ ReceiveMact

TagServes ==
  \/ TagChallenge \/ TagProof \/ TagPlain \/ TagOpensChain \/ TagNextFrame
  \/ TagSecured \/ TagRefuse

Next ==
  \/ Caller \/ Send \/ Receive \/ TransportError
  \/ TagServes \/ TagPowerCycle \/ RepeatAnswer

Spec == Init /\ [][Next]_vars

\* A call runs to its end once started, and `transmit` resolves: an answer or
\* an error.  The caller and the card holder owe nothing, and an answer that
\* has arrived is handled by the call, not lost for ever.
Fairness ==
  /\ WF_vars(Send) /\ WF_vars(Receive)
  /\ WF_vars(TagServes \/ (wire.type = "req" /\ TransportError))
FairSpec == Spec /\ Fairness

-----------------------------------------------------------------------------
(* Properties *)

Message ==
  [type: {"none", "req", "ans"},
   what: AllCommands \union Handshake \union
         {"none", "Part2", "More", "ok", "af", "err"},
   n: Id, echo: Id, suite: Suite, mac: Cover, iv: Cover, data: BOOLEAN]

Sessions == {NoSession, FreshSession} \union [st: {"auth"}, m: Material]

Calls == [cmd: AllCommands \union Handshake \union {"none"},
          left: 0 .. (MaxChunks + 3), phase: {"none", "send", "wait"},
          keep: BOOLEAN, suite: Suite, echo: Id]

Tags == [st: {"idle", "chal", "auth"}, lrp: BOOLEAN, m: Material,
         chal: Id, first: BOOLEAN, frames: 0 .. 2]

\* Types; a session that is not authenticated holds no key material, and a
\* call is on the wire exactly while it waits.
TypeOK ==
  /\ sess \in Sessions
  /\ call \in Calls
  /\ failed \in Nat
  /\ tag \in Tags
  /\ wire \in Message /\ stale \in Message
  /\ sealed \subseteq Cover
  /\ n \in Id
  /\ call.phase = "wait" <=> wire.type # "none"

SameKeys == sess.st = "auth" /\ tag.st = "auth" /\ sess.m.key = tag.m.key

\* Between calls the two ends of one session agree on suite, TI and EncCtr, and
\* the PICC is ahead of the host's CmdCtr by at most the number of borrowed
\* plain calls that returned an error since the First authentication: a NonFirst
\* authentication neither causes nor repairs a gap.
CountersAgree ==
  (call = Idle /\ SameKeys) =>
     /\ sess.m.suite = tag.m.suite /\ sess.m.ti = tag.m.ti
     /\ sess.m.enc = tag.m.enc
     /\ sess.m.ctr <= tag.m.ctr
     /\ tag.m.ctr <= sess.m.ctr + failed

\* A session none of whose plain calls has failed never sends a request that the
\* PICC, still in that session, would have to refuse for its MAC or decipher
\* under another IV.
NoSpuriousRejection ==
  (/\ wire.type = "req" /\ wire.mac # NoMac /\ failed = 0
   /\ tag.st = "auth" /\ wire.mac.key = tag.m.key) =>
     /\ wire.mac = MacOver(tag.m, "cmd")
     /\ wire.what \in SealedCommand => wire.iv = Iv(tag.m, "cmd")

\* The host verifies a MACt: it stays in its session, counts a command, and the
\* answer it counted carried a MAC.
Confirms ==
  /\ wire.type = "ans" /\ wire.mac # NoMac /\ call.cmd \notin PlainCommand
  /\ sess.st = "auth" /\ sess'.st = "auth" /\ sess'.m.ctr # sess.m.ctr

\* Whatever the reader repeats, a verified answer is the answer to the very APDU
\* that is waiting for it.
ConfirmedAnswerIsOwn == [][Confirms => wire.n = n]_vars

\* After a verified answer both ends are in step, EncCtr included: a session whose
\* counters have drifted apart never confirms anything.
ConfirmedInStep == [][(Confirms /\ SameKeys) => sess'.m = tag.m]_vars

\* No two payloads are encrypted under one initialisation vector, by either end,
\* across errors, retained sessions and re-authentication.
NoIvReuse ==
  [][/\ (n' # n /\ wire'.iv # NoIv) => wire'.iv \notin sealed
     /\ (wire.type = "req" /\ wire'.type = "ans" /\ wire'.iv # NoIv)
          => wire'.iv \notin sealed]_vars

\* Every call returns.
CallReturns == (call # Idle) ~> (call = Idle)

-----------------------------------------------------------------------------
(* The inductive invariant behind CountersAgree *)

Proved    == wire.type = "ans" /\ wire.what = "ok" /\ call.cmd \in Handshake
Performed == wire.type = "ans" /\ wire.what = "ok" /\ call.cmd \in Command

\* The running call never outgrows the bound...
CallBound ==
  /\ call.phase # "none" => call.left >= 1
  /\ call.phase = "send" => n + call.left <= MaxApdu
  /\ call.phase = "wait" => n + call.left <= MaxApdu + 1

\* ... and each APDU moves CmdCtr by at most one, so that it never wraps.
CtrBound ==
  /\ sess.m.ctr <= n /\ (call.phase = "wait" => sess.m.ctr < n)
  /\ tag.m.ctr <= n /\ (wire.type = "req" => tag.m.ctr < n)

\* Which session a running call belongs to.
CallRuns ==
  /\ call.phase = "none" => call = Idle
  /\ call.phase # "none" =>
       /\ call.cmd \in Command \union Handshake
       /\ call.cmd = "First" => sess.st = "unauth"
       /\ call.cmd # "First" => sess.st = "auth" /\ call.suite = sess.m.suite
       /\ call.keep => call.cmd \in PlainCommand
       /\ call.cmd \in Handshake => call.left \in {1, 2}

\* With a reader that repeats nothing, what is on the wire belongs to it.
CallShape == CallRuns /\ (wire.type # "none" => wire.n = n)

\* A request says what the running call is about to do.
RequestShape ==
  wire.type = "req" =>
    /\ wire.what \in {call.cmd, "Part2", "More"}
    /\ wire.what = "Part2" => call.cmd \in Handshake /\ call.left = 1
    /\ call.cmd \in Handshake /\ call.left = 1 => wire.what = "Part2"
    /\ wire.what = "More" => call.cmd = "GetVersion"
    /\ wire.what \in Command \ PlainCommand => wire.mac = MacOver(sess.m, "cmd")
    /\ wire.suite = call.suite

\* The handshake: a challenge answered is the PICC's current one, and a proof
\* came with the keys the host is about to derive.
HandshakeShape ==
  /\ (call.cmd \in Handshake /\ tag.st = "chal"
        /\ (call.left = 1 \/ wire.type = "ans")) =>
       tag.first = (call.cmd = "First") /\ TagSuite = call.suite
  /\ Proved =>
       /\ tag.st # "chal" /\ tag.frames = 0 /\ tag.m.key = n
       /\ call.cmd = "First" => tag.m = FirstKeys(call.suite, n)
       /\ call.cmd = "NonFirst" => tag.m.enc = 0

\* Only a running handshake can make the two ends hold different keys.
OneKey ==
  /\ sess.st = "auth" /\ ~Proved => sess.m.key = tag.m.key
  /\ sess.st = "auth" /\ tag.st = "chal" => call.cmd = "NonFirst"

\* A GetVersion chain the PICC has open belongs to the running call and was
\* opened in step.
ChainShape ==
  /\ tag.frames > 0 => tag.st = "auth"
  /\ sess.st = "auth" /\ tag.frames > 0 =>
       call.cmd = "GetVersion" /\ ~Performed /\ tag.m.ctr = sess.m.ctr

Live == sess.st = "auth" /\ (tag.st = "auth" \/ (tag.st = "chal" /\ ~tag.first))

\* How far the PICC may be ahead: the answered APDU and the failed plain calls.
Gap(done) ==
  /\ sess.m.suite = tag.m.suite /\ sess.m.ti = tag.m.ti
  /\ sess.m.ctr + done <= tag.m.ctr
  /\ tag.m.ctr <= sess.m.ctr + done + failed

Blocks(set) == IF call.cmd \in set /\ sess.m.suite = "LRP" THEN 1 ELSE 0

\* EncCtr: the host is ahead while a sealed request is open, the PICC while a
\* sealed answer is; a refused sealed request ends the session.
EncInStep ==
  /\ wire.type = "none" => sess.m.enc = tag.m.enc
  /\ wire.type = "req" => sess.m.enc = tag.m.enc + Blocks(SealedCommand)
  /\ Performed => tag.m.enc = sess.m.enc + Blocks(SealedAnswer)
  /\ wire.type = "ans" /\ ~Performed /\ call.cmd \notin SealedCommand
       => sess.m.enc = tag.m.enc

InStep ==
  Live =>
    /\ Gap(IF Performed THEN 1 ELSE 0)
    /\ Performed /\ call.cmd \notin PlainCommand => tag.m.ctr = sess.m.ctr + 1
    /\ call.cmd \notin Handshake => EncInStep

\* CountersAgree strengthened to hold in the middle of a call.
InStepInv ==
  /\ CallBound /\ CtrBound /\ CallShape /\ RequestShape /\ HandshakeShape
  /\ OneKey /\ ChainShape /\ InStep

-----------------------------------------------------------------------------
(* The inductive invariant behind ConfirmedAnswerIsOwn *)

\* Whatever answers are repeated, the request on the wire is the last APDU.
RequestOwn ==
  wire.type = "req" => wire.n = n /\ (wire.what = "GetVersion" => call.left = 3)

HasMact(a) == a.type = "ans" /\ a.mac # NoMac

\* A key is named by the APDU that made it, which no MACt under it precedes.
KeyAge ==
  /\ tag.m.key <= n /\ (wire.type = "req" => tag.m.key < n)
  /\ \A a \in {wire, stale} : HasMact(a) => a.mac.key < n

\* The PICC has as many GetVersion frames left as the host still asks for.
ChainOwn ==
  /\ tag.frames > 0 => tag.st = "auth"
  /\ tag.frames > 0 /\ wire.type = "ans" =>
       call.cmd = "GetVersion" /\ tag.frames = call.left - 1
  /\ tag.frames > 0 /\ sess.st = "auth" =>
       /\ tag.m.ctr = sess.m.ctr
       /\ wire.type # "ans" => call.cmd = "GetVersion" /\ tag.frames = call.left

\* The answer the running call waits for.
OwnAnswer(a) ==
  /\ wire.type = "ans" /\ a.n = n /\ a.mac.ctr = sess.m.ctr + 1
  /\ call.cmd \in Command \ PlainCommand /\ ~InChain

\* Of all answers under the keys of the session that the reader may hand over,
\* only that one has a MACt over the next CmdCtr.
AnswersSpent ==
  \A a \in {wire, stale} :
    (HasMact(a) /\ sess.st = "auth" /\ a.mac.key = sess.m.key) =>
       a.mac.ctr <= sess.m.ctr \/ OwnAnswer(a)

\* What makes a verified answer the answer to the APDU that waits for it.
OwnInv ==
  /\ CallBound /\ CtrBound /\ CallRuns /\ RequestShape /\ RequestOwn
  /\ KeyAge /\ ChainOwn /\ AnswersSpent

=============================================================================
