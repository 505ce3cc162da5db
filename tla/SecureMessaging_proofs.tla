----------------------- MODULE SecureMessaging_proofs -----------------------
(***************************************************************************)
(* Machine-checked facts about SecureMessaging, for every command set,      *)
(* counter width and bound.                                                 *)
(***************************************************************************)
EXTENDS SecureMessaging, TLAPS

USE CommandAssumption, BoundAssumption, ReaderAssumption
    DEF CommandAssumption, BoundAssumption, ReaderAssumption

TypeInv == TypeOK /\ CallBound

LEMMA KeylessMaterial == Keyless \in Material
  BY DEF Keyless, Material, Suite, Id, Ctr

LEMMA NoCover == NoIv \in Cover /\ NoMac \in Cover
  BY DEF NoIv, NoMac, Cover, Id

LEMMA SessMaterial == ASSUME TypeOK PROVE sess.m \in Material
  BY KeylessMaterial DEF TypeOK, Sessions, NoSession, FreshSession

LEMMA AdvanceType == ASSUME NEW m \in Material PROVE Advance(m) \in Material
  BY DEF Advance, Succ, Material, Ctr

LEMMA CipherType == ASSUME NEW m \in Material PROVE AfterCipher(m) \in Material
  BY DEF AfterCipher, Material, Ctr

LEMMA CoverType ==
  ASSUME NEW m \in Material, NEW dir \in {"cmd", "resp"}
  PROVE  Iv(m, dir) \in Cover /\ MacOver(m, dir) \in Cover
  BY DEF Iv, MacOver, Material, Cover, Ctr, Id

LEMMA KeysType ==
  ASSUME NEW suite \in Suite, NEW id \in Id, NEW m \in Material
  PROVE  FirstKeys(suite, id) \in Material /\ NonFirstKeys(m, id) \in Material
<1>1. 0 \in Ctr
  BY DEF Ctr
<1>2. FirstKeys(suite, id) \in Material
  BY <1>1 DEF FirstKeys, Material
<1>3. NonFirstKeys(m, id) \in Material
  BY DEF NonFirstKeys, Material
<1> QED BY <1>2, <1>3

LEMMA TagKeysType ==
  ASSUME NEW id \in Id, tag \in Tags
  PROVE  TagFirstKeys(id) \in Material /\ TagNonFirstKeys(id) \in Material
<1>1. 0 \in Ctr
  BY DEF Ctr
<1>2. TagFirstKeys(id) \in Material
  BY <1>1 DEF TagFirstKeys, TagSuite, Material, Suite
<1>3. TagNonFirstKeys(id) \in Material
  BY DEF TagNonFirstKeys, Tags, Material
<1> QED BY <1>2, <1>3

LEMMA ConstantTypes ==
  /\ NoMsg \in Message /\ NoMsg.type = "none"
  /\ Idle \in Calls /\ Idle.phase = "none" /\ Idle.left = 0
  /\ NoSession \in Sessions /\ FreshSession \in Sessions
  /\ \A m \in Material : Authed(m) \in Sessions
<1>1. NoMsg \in Message /\ NoMsg.type = "none"
  BY NoCover DEF NoMsg, Message, Suite, Id
<1>2. Idle \in Calls /\ Idle.phase = "none" /\ Idle.left = 0
  BY DEF Idle, Calls, Suite, Id
<1>3. NoSession \in Sessions /\ FreshSession \in Sessions
  BY DEF Sessions
<1>4. \A m \in Material : Authed(m) \in Sessions
  BY DEF Sessions, Authed
<1> QED BY <1>1, <1>2, <1>3, <1>4

-----------------------------------------------------------------------------
(* Type correctness *)

LEMMA NoteType ==
  ASSUME TypeOK, NEW iv \in Cover, Note(iv) PROVE sealed' \subseteq Cover
  BY DEF TypeOK, Note

LEMMA FailsType ==
  ASSUME TypeOK, NEW m \in Material, Fails(m)
  PROVE  sess' \in Sessions /\ call' = Idle /\ failed' \in Nat
  BY ConstantTypes DEF TypeOK, Fails

LEMMA ContinueType ==
  ASSUME TypeInv, NEW m \in Material, NEW eof \in BOOLEAN, Continue(m, eof),
         call.phase = "wait"
  PROVE  /\ sess' \in Sessions /\ failed' \in Nat /\ call' \in Calls
         /\ call' # Idle => /\ call'.left = call.left - 1
                            /\ call.left > 1
         /\ call'.phase \in {"none", "send"}
         /\ call'.phase = "none" => call' = Idle
<1> USE DEF TypeInv, TypeOK
<1>1. sess' \in Sessions /\ failed' \in Nat
  BY ConstantTypes DEF Continue
<1>2. CASE call.left = 1 \/ eof
  BY <1>1, <1>2, ConstantTypes DEF Continue
<1>3. CASE ~(call.left = 1 \/ eof)
  <2>1. call' = [call EXCEPT !.left = @ - 1, !.phase = "send"]
    BY <1>3 DEF Continue
  <2>2. call.left > 1 /\ call.left \in 0 .. (MaxChunks + 3)
    BY <1>3 DEF CallBound, Calls
  <2>3. call.left - 1 \in 0 .. (MaxChunks + 3)
    BY <2>2
  <2>4. call' \in Calls
    BY <2>1, <2>3 DEF Calls
  <2>5. call'.left = call.left - 1 /\ call'.phase = "send"
    BY <2>1 DEF Calls
  <2> QED BY <1>1, <2>2, <2>4, <2>5
<1> QED BY <1>2, <1>3

LEMMA TakeAnswerType ==
  ASSUME TypeOK, TakeAnswer
  PROVE  wire' = NoMsg /\ wire' \in Message /\ stale' \in Message /\ wire'.type = "none"
  BY ConstantTypes DEF TypeOK, TakeAnswer, Late

LEMMA NewCallType ==
  ASSUME NEW cmd \in AllCommands \union Handshake,
         NEW left \in 1 .. (MaxChunks + 3), NEW keep \in BOOLEAN,
         NEW suite \in Suite
  PROVE  /\ NewCall(cmd, left, keep, suite) \in Calls
         /\ NewCall(cmd, left, keep, suite).phase = "send"
         /\ NewCall(cmd, left, keep, suite).left = left
  BY DEF NewCall, Calls, Id

LEMMA RequestType ==
  ASSUME TypeInv, CanSend,
         NEW what \in AllCommands \union Handshake \union {"Part2", "More"},
         NEW echo \in Id, NEW mac \in Cover, NEW iv \in Cover,
         Put(Request(what, echo, mac, iv))
  PROVE  /\ wire' \in Message /\ wire'.type = "req"
         /\ n' \in Id /\ call' \in Calls /\ CallBound'
         /\ call'.phase = "wait"
<1> USE DEF TypeInv, TypeOK
<1>1. call.phase = "send" /\ call.left >= 1 /\ n + call.left <= MaxApdu
      /\ call.left \in Nat /\ n \in Nat
  BY DEF CanSend, CallBound, Calls, Id
<1>2. n' = n + 1 /\ n' \in Id
  BY <1>1 DEF Put, Id
<1>3. wire' = Request(what, echo, mac, iv)
  BY DEF Put
<1>4. wire' \in Message /\ wire'.type = "req"
  BY <1>2, <1>3 DEF Request, Message, Calls, Put
<1>5. call' = [call EXCEPT !.phase = "wait"]
  BY DEF Put
<1>6. call' \in Calls /\ call'.phase = "wait" /\ call'.left = call.left
  BY <1>5 DEF Calls
<1>7. CallBound'
  BY <1>1, <1>2, <1>6 DEF CallBound
<1> QED BY <1>2, <1>4, <1>6, <1>7

LEMMA AnswerType ==
  ASSUME TypeOK, NEW what \in {"ok", "af", "err"}, NEW echo \in Id,
         NEW mac \in Cover, NEW iv \in Cover, NEW data \in BOOLEAN,
         wire.type = "req", Answer(what, echo, mac, iv, data)
  PROVE  wire' \in Message /\ wire'.type = "ans"
BY DEF TypeOK, Answer, Message

\* The records of the PICC, one field at a time, then as its actions change them.
LEMMA TagFields ==
  ASSUME NEW t \in Tags
  PROVE  /\ \A st \in {"idle", "chal", "auth"} : [t EXCEPT !.st = st] \in Tags
         /\ \A m \in Material : [t EXCEPT !.m = m] \in Tags
         /\ \A f \in 0 .. 2 : [t EXCEPT !.frames = f] \in Tags
         /\ \A b \in BOOLEAN : [t EXCEPT !.lrp = b] \in Tags
         /\ \A b \in BOOLEAN : [t EXCEPT !.first = b] \in Tags
         /\ \A i \in Id : [t EXCEPT !.chal = i] \in Tags
  BY DEF Tags

LEMMA TagDrops ==
  ASSUME NEW t \in Tags, NEW st \in {"idle", "chal", "auth"}, NEW f \in 0 .. 2
  PROVE  [t EXCEPT !.st = st, !.frames = f] \in Tags
<1> DEFINE t1 == [t EXCEPT !.st = st]
<1>1. t1 \in Tags
  BY TagFields
<1> HIDE DEF t1
<1>2. [t1 EXCEPT !.frames = f] \in Tags
  BY <1>1, TagFields
<1> QED BY <1>2 DEF t1

LEMMA TagCounts ==
  ASSUME NEW t \in Tags, NEW m \in Material, NEW f \in 0 .. 2
  PROVE  /\ [t EXCEPT !.m = m, !.frames = f] \in Tags
         /\ [t EXCEPT !.frames = f, !.m = m] \in Tags
<1> DEFINE t1 == [t EXCEPT !.m = m]
           t2 == [t EXCEPT !.frames = f]
<1>1. t1 \in Tags /\ t2 \in Tags
  BY TagFields
<1> HIDE DEF t1, t2
<1>2. [t1 EXCEPT !.frames = f] \in Tags /\ [t2 EXCEPT !.m = m] \in Tags
  BY <1>1, TagFields
<1> QED BY <1>2 DEF t1, t2

LEMMA TagOpens ==
  ASSUME NEW t \in Tags, NEW st \in {"idle", "chal", "auth"}, NEW m \in Material
  PROVE  [t EXCEPT !.st = st, !.m = m] \in Tags
<1> DEFINE t1 == [t EXCEPT !.st = st]
<1>1. t1 \in Tags
  BY TagFields
<1> HIDE DEF t1
<1>2. [t1 EXCEPT !.m = m] \in Tags
  BY <1>1, TagFields
<1> QED BY <1>2 DEF t1

LEMMA TagPerforms ==
  ASSUME NEW t \in Tags, NEW st \in {"idle", "chal", "auth"}, NEW m \in Material,
         NEW f \in 0 .. 2, NEW b \in BOOLEAN
  PROVE  [t EXCEPT !.m = m, !.frames = f, !.lrp = b, !.st = st] \in Tags
<1> DEFINE t1 == [t EXCEPT !.m = m, !.frames = f]
           t2 == [t1 EXCEPT !.lrp = b]
<1>1. t1 \in Tags
  BY TagCounts
<1> HIDE DEF t1
<1>2. t2 \in Tags
  BY <1>1, TagFields
<1> HIDE DEF t2
<1>3. [t2 EXCEPT !.st = st] \in Tags
  BY <1>2, TagFields
<1> QED BY <1>3 DEF t1, t2

LEMMA TagChallenges ==
  ASSUME NEW t \in Tags, NEW st \in {"idle", "chal", "auth"}, NEW i \in Id,
         NEW f \in 0 .. 2, NEW b \in BOOLEAN
  PROVE  [t EXCEPT !.st = st, !.chal = i, !.frames = f, !.first = b] \in Tags
<1> DEFINE t1 == [t EXCEPT !.st = st]
           t2 == [t1 EXCEPT !.chal = i]
           t3 == [t2 EXCEPT !.frames = f]
<1>1. t1 \in Tags
  BY TagFields
<1> HIDE DEF t1
<1>2. t2 \in Tags
  BY <1>1, TagFields
<1> HIDE DEF t2
<1>3. t3 \in Tags
  BY <1>2, TagFields
<1> HIDE DEF t3
<1>4. [t3 EXCEPT !.first = b] \in Tags
  BY <1>3, TagFields
<1> QED BY <1>4 DEF t1, t2, t3

LEMMA CallContinues ==
  ASSUME NEW c \in Calls, NEW left \in 0 .. (MaxChunks + 3),
         NEW phase \in {"none", "send", "wait"}, NEW echo \in Id
  PROVE  [c EXCEPT !.left = left, !.phase = phase, !.echo = echo] \in Calls
<1> DEFINE c1 == [c EXCEPT !.left = left]
           c2 == [c1 EXCEPT !.phase = phase]
<1>1. c1 \in Calls
  BY DEF Calls
<1> HIDE DEF c1
<1>2. c2 \in Calls
  BY <1>1 DEF Calls
<1> HIDE DEF c2
<1>3. [c2 EXCEPT !.echo = echo] \in Calls
  BY <1>2 DEF Calls
<1> QED BY <1>3 DEF c1, c2

\* A host call starts: only `call` changes.
LEMMA StartType ==
  ASSUME TypeInv, NEW left \in 1 .. (MaxChunks + 3), call = Idle,
         call' \in Calls, call'.phase = "send", call'.left = left,
         n + left <= MaxApdu, UNCHANGED <<sess, failed, tag, wire, stale, sealed, n>>
  PROVE  TypeInv'
<1>1. wire' = wire /\ wire.type = "none" /\ n' = n /\ sess' = sess /\ failed' = failed
      /\ tag' = tag /\ stale' = stale /\ sealed' = sealed
  BY ConstantTypes DEF TypeInv, TypeOK
<1>2. TypeOK'
  BY <1>1 DEF TypeInv, TypeOK
<1>3. CallBound'
  BY <1>1 DEF CallBound
<1> QED BY <1>2, <1>3 DEF TypeInv

LEMMA TypeStep == TypeInv /\ [Next]_vars => TypeInv'
<1> SUFFICES ASSUME TypeInv, [Next]_vars PROVE TypeInv'
  OBVIOUS
<1> USE DEF TypeInv, TypeOK
<1>1. CASE NewSession
  BY <1>1, ConstantTypes DEF NewSession, CallBound
<1>2. ASSUME NEW suite \in Suite, AuthenticateFirst(suite) PROVE TypeInv'
  <2>1. call' \in Calls /\ call'.phase = "send" /\ call'.left = 2
    BY <1>2 DEF AuthenticateFirst, NewCall, Calls, Handshake, Id
  <2>2. 2 \in 1 .. (MaxChunks + 3) /\ call = Idle /\ n + 2 <= MaxApdu
        /\ UNCHANGED <<sess, failed, tag, wire, stale, sealed, n>>
    BY <1>2 DEF AuthenticateFirst, Fits
  <2> QED BY <2>1, <2>2, StartType, Zenon
<1>3. CASE AuthenticateNonFirst
  <2>1. sess.m.suite \in Suite
    BY SessMaterial DEF Material
  <2>2. call' \in Calls /\ call'.phase = "send" /\ call'.left = 2
    BY <1>3, <2>1 DEF AuthenticateNonFirst, NewCall, Calls, Handshake, Id
  <2>3. 2 \in 1 .. (MaxChunks + 3) /\ call = Idle /\ n + 2 <= MaxApdu
        /\ UNCHANGED <<sess, failed, tag, wire, stale, sealed, n>>
    BY <1>3 DEF AuthenticateNonFirst, Fits
  <2> QED BY <2>2, <2>3, StartType, Zenon
<1>4. ASSUME NEW c \in Command, NEW keep \in BOOLEAN, NEW left \in ApduCounts(c),
             Begin(c, left, keep)
      PROVE  TypeInv'
  <2>1. sess.m.suite \in Suite
    BY SessMaterial DEF Material
  <2>2. left \in 1 .. (MaxChunks + 3)
    BY DEF ApduCounts
  <2>3. call' \in Calls /\ call'.phase = "send" /\ call'.left = left
    BY <1>4, <2>1, <2>2, NewCallType DEF Begin
  <2> QED BY <1>4, <2>2, <2>3, StartType DEF Begin, Fits
<1>5. CASE SendHandshake
  <2>1. call.echo \in Id /\ call.cmd \in Handshake
    BY <1>5 DEF Calls, SendHandshake
  <2>2. wire' \in Message /\ wire'.type = "req" /\ n' \in Id /\ call' \in Calls
        /\ CallBound' /\ call'.phase = "wait"
    BY <1>5, <2>1, RequestType, NoCover DEF SendHandshake
  <2> QED BY <1>5, <2>2 DEF SendHandshake
<1>6. CASE SendPlain
  <2>1. call.cmd \in AllCommands /\ 0 \in Id
    BY <1>6 DEF SendPlain, AllCommands, Id
  <2>2. wire' \in Message /\ wire'.type = "req" /\ n' \in Id /\ call' \in Calls
        /\ CallBound' /\ call'.phase = "wait"
    BY <1>6, <2>1, RequestType, NoCover DEF SendPlain
  <2> QED BY <1>6, <2>2 DEF SendPlain
<1>7. CASE SendMore
  <2>1. wire' \in Message /\ wire'.type = "req" /\ n' \in Id /\ call' \in Calls
        /\ CallBound' /\ call'.phase = "wait"
    BY <1>7, RequestType, NoCover DEF SendMore, Id
  <2> QED BY <1>7, <2>1 DEF SendMore
<1>8. CASE SendSecured
  <2> DEFINE seals == call.cmd \in SealedCommand
             iv == IF seals THEN Iv(sess.m, "cmd") ELSE NoIv
             m  == IF seals THEN Sealing(sess.m) ELSE sess.m
  <2>1. m \in Material
    BY SessMaterial, CipherType DEF Sealing
  <2>2. iv \in Cover /\ MacOver(m, "cmd") \in Cover
    BY <2>1, SessMaterial, CoverType, NoCover
  <2>3. /\ Put(Request(call.cmd, 0, MacOver(m, "cmd"), iv))
        /\ sess' = Authed(m) /\ Note(iv) /\ CanSend
        /\ call.cmd \in AllCommands /\ UNCHANGED <<failed, tag, stale>>
    BY <1>8 DEF SendSecured
  <2> HIDE DEF iv, m
  <2>4. wire' \in Message /\ wire'.type = "req" /\ n' \in Id /\ call' \in Calls
        /\ CallBound' /\ call'.phase = "wait"
    BY <2>2, <2>3, RequestType, NoCover DEF Id
  <2>5. sess' \in Sessions /\ sealed' \subseteq Cover
    BY <2>1, <2>2, <2>3, ConstantTypes, NoteType
  <2> QED BY <2>3, <2>4, <2>5
<1>9. CASE TransportError
  <2>1. sess' \in Sessions /\ call' = Idle /\ failed' \in Nat
    BY <1>9, SessMaterial, FailsType DEF TransportError
  <2>2. stale' \in Message
    BY <1>9, ConstantTypes DEF TransportError, Late
  <2> QED BY <1>9, <2>1, <2>2, ConstantTypes DEF TransportError, CallBound
<1>10. CASE ReceiveStatusError
  <2>1. sess' \in Sessions /\ call' = Idle /\ failed' \in Nat
    BY <1>10, SessMaterial, FailsType DEF ReceiveStatusError
  <2> QED BY <1>10, <2>1, ConstantTypes, TakeAnswerType DEF ReceiveStatusError, CallBound
<1>11. CASE ReceiveChallenge
  <2>1. CASE wire.echo # 0 /\ wire.suite = call.suite
    <3>1. call' = [call EXCEPT !.left = 1, !.phase = "send", !.echo = wire.echo]
          /\ UNCHANGED <<sess, failed, tag, sealed, n>> /\ TakeAnswer
          /\ call.phase = "wait" /\ call.left = 2
      BY <1>11, <2>1 DEF ReceiveChallenge, Waiting
    <3>2. 1 \in 0 .. (MaxChunks + 3) /\ "send" \in {"none", "send", "wait"}
          /\ wire.echo \in Id
      BY DEF Message
    <3>5. call' \in Calls
      BY <3>1, <3>2, CallContinues, Zenon
    <3>6. call'.phase = "send" /\ call'.left = 1
      BY <3>1 DEF Calls
    <3>3. n + 2 <= MaxApdu + 1 /\ n' = n /\ n \in Nat
      BY <3>1 DEF CallBound, Id
    <3>4. CallBound'
      BY <3>6, <3>3 DEF CallBound
    <3> QED BY <3>1, <3>5, <3>6, <3>4, TakeAnswerType
  <2>2. CASE ~(wire.echo # 0 /\ wire.suite = call.suite)
    <3>1. sess' \in Sessions /\ call' = Idle /\ failed' \in Nat
      BY <1>11, <2>2, SessMaterial, FailsType DEF ReceiveChallenge
    <3> QED BY <1>11, <3>1, ConstantTypes, TakeAnswerType DEF ReceiveChallenge, CallBound
  <2> QED BY <2>1, <2>2
<1>12. CASE ReceiveProof
  <2>1. sess' \in Sessions /\ call' = Idle /\ failed' \in Nat
    <3>1. CASE wire.echo = n /\ wire.suite = call.suite
      <4>1. call.suite \in Suite
        BY DEF Calls
      <4>2. FirstKeys(call.suite, n) \in Material /\ NonFirstKeys(sess.m, n) \in Material
        BY <4>1, SessMaterial, KeysType
      <4> QED BY <1>12, <3>1, <4>2, ConstantTypes DEF ReceiveProof
    <3>2. CASE ~(wire.echo = n /\ wire.suite = call.suite)
      BY <1>12, <3>2, SessMaterial, FailsType DEF ReceiveProof
    <3> QED BY <3>1, <3>2
  <2> QED BY <1>12, <2>1, ConstantTypes, TakeAnswerType DEF ReceiveProof, CallBound
<1>13. ASSUME TakeAnswer, UNCHANGED <<tag, sealed, n>>, call.phase = "wait",
              NEW m \in Material, NEW eof \in BOOLEAN, Continue(m, eof)
       PROVE  TypeInv'
  <2>1. /\ sess' \in Sessions /\ failed' \in Nat /\ call' \in Calls
        /\ call' # Idle => call'.left = call.left - 1 /\ call.left > 1
        /\ call'.phase \in {"none", "send"}
        /\ call'.phase = "none" => call' = Idle
    BY <1>13, ContinueType
  <2>2. CallBound'
    BY <1>13, <2>1, ConstantTypes DEF CallBound, Id, Calls
  <2> QED BY <1>13, <2>1, <2>2, TakeAnswerType
<1>14. ASSUME TakeAnswer, UNCHANGED <<tag, sealed, n>>, NEW m \in Material, Fails(m)
       PROVE  TypeInv'
  <2>1. sess' \in Sessions /\ call' = Idle /\ failed' \in Nat
    BY <1>14, FailsType
  <2> QED BY <1>14, <2>1, ConstantTypes, TakeAnswerType DEF CallBound
<1>15. Advance(sess.m) \in Material /\ Eof \subseteq BOOLEAN
  BY SessMaterial, AdvanceType DEF Eof
<1>16. CASE ReceivePlain
  BY <1>13, <1>15, <1>16 DEF ReceivePlain, Waiting
<1>17. CASE ReceiveFrame
  BY <1>13, <1>14, <1>17, SessMaterial DEF ReceiveFrame, Waiting
<1>18. CASE ReceiveUnsigned
  BY <1>13, <1>15, <1>18 DEF ReceiveUnsigned, Waiting
<1>19. CASE ReceiveMact
  <2>1. Opening(Advance(sess.m)) \in Material
    BY <1>15, CipherType DEF Opening
  <2> QED BY <1>13, <1>14, <1>15, <1>19, <2>1 DEF ReceiveMact, Waiting
<1>20. CASE RepeatAnswer
  BY <1>20 DEF RepeatAnswer, CallBound
<1>21. CASE TagChallenge
  <2>1. wire.n \in Id /\ wire.type = "req"
    BY <1>21 DEF TagChallenge, Asked, Message
  <2>2. wire' \in Message /\ wire'.type = "ans"
    BY <1>21, <2>1, NoCover, AnswerType DEF TagChallenge
  <2>3. tag' = [tag EXCEPT !.st = "chal", !.chal = wire.n, !.frames = 0,
                           !.first = (wire.what = "First")]
    BY <1>21 DEF TagChallenge
  <2>4. "chal" \in {"idle", "chal", "auth"} /\ 0 \in 0 .. 2
    OBVIOUS
  <2>5. (wire.what = "First") \in BOOLEAN
    OBVIOUS
  <2>6. tag' \in Tags
    BY <2>1, <2>3, <2>4, <2>5, TagChallenges, Zenon
  <2> QED BY <1>21, <2>1, <2>2, <2>6 DEF TagChallenge, CallBound
<1>22. CASE TagProof
  <2> DEFINE m  == IF tag.first THEN TagFirstKeys(wire.n) ELSE TagNonFirstKeys(wire.n)
             iv == IF tag.first /\ tag.lrp THEN Iv([m EXCEPT !.enc = 0], "resp") ELSE NoIv
  <2>1. wire.n \in Id /\ wire.type = "req"
    BY <1>22 DEF TagProof, Asked, Message
  <2>2. m \in Material
    BY <2>1, TagKeysType
  <2>3. [m EXCEPT !.enc = 0] \in Material
    BY <2>2 DEF Material
  <2>4. iv \in Cover
    BY <2>3, CoverType, NoCover
  <2>5. /\ tag' = [tag EXCEPT !.st = "auth", !.m = m]
        /\ Answer("ok", wire.n, NoMac, iv, TRUE) /\ Note(iv)
        /\ UNCHANGED <<sess, call, failed, stale, n>>
    BY <1>22 DEF TagProof
  <2> HIDE DEF m, iv
  <2>6. wire' \in Message /\ wire'.type = "ans" /\ sealed' \subseteq Cover
    BY <2>1, <2>4, <2>5, NoCover, AnswerType, NoteType
  <2>7. "auth" \in {"idle", "chal", "auth"}
    OBVIOUS
  <2>8. tag' \in Tags
    BY <2>2, <2>5, <2>7, TagOpens, Zenon
  <2> QED BY <2>1, <2>5, <2>6, <2>8 DEF CallBound
<1>23. CASE TagPlain
  <2>1. wire.type = "req" /\ 0 \in Id /\ tag.m \in Material
    BY <1>23 DEF TagPlain, Id, Tags
  <2>2. wire' \in Message /\ wire'.type = "ans"
    BY <1>23, <2>1, NoCover, AnswerType DEF TagPlain
  <2> DEFINE m == IF tag.st = "auth" THEN Advance(tag.m) ELSE tag.m
  <2>3. m \in Material /\ 0 \in 0 .. 2
    BY <2>1, AdvanceType
  <2>4. tag' = [tag EXCEPT !.m = m, !.frames = 0]
    BY <1>23 DEF TagPlain
  <2>5. tag' \in Tags
    BY <2>3, <2>4, TagCounts, Zenon
  <2> QED BY <1>23, <2>1, <2>2, <2>5 DEF TagPlain, CallBound
<1>24. CASE TagOpensChain
  <2>1. wire.type = "req" /\ 0 \in Id
    BY <1>24 DEF TagOpensChain, Asked, Id
  <2>2. wire' \in Message /\ wire'.type = "ans"
    BY <1>24, <2>1, NoCover, AnswerType DEF TagOpensChain
  <2>3. tag' = [tag EXCEPT !.frames = 2] /\ 2 \in 0 .. 2
    BY <1>24 DEF TagOpensChain
  <2>4. tag' \in Tags
    BY <2>3, TagFields, Zenon
  <2> QED BY <1>24, <2>1, <2>2, <2>4 DEF TagOpensChain, CallBound
<1>25. CASE TagNextFrame
  <2>1. wire.type = "req" /\ 0 \in Id /\ tag.m \in Material
    BY <1>25 DEF TagNextFrame, Asked, Id, Tags
  <2>2. Advance(tag.m) \in Material /\ MacOver(Advance(tag.m), "resp") \in Cover
    BY <2>1, AdvanceType, CoverType
  <2>3. wire' \in Message /\ wire'.type = "ans"
    BY <1>25, <2>1, <2>2, NoCover, AnswerType DEF TagNextFrame
  <2> DEFINE m == IF tag.frames = 1 THEN Advance(tag.m) ELSE tag.m
             f == tag.frames - 1
  <2>4. m \in Material /\ f \in 0 .. 2
    BY <1>25, <2>1, <2>2 DEF TagNextFrame, Tags
  <2>5. tag' = [tag EXCEPT !.frames = f, !.m = m]
    BY <1>25 DEF TagNextFrame
  <2>6. tag' \in Tags
    BY <2>4, <2>5, TagCounts, Zenon
  <2> QED BY <1>25, <2>1, <2>3, <2>6 DEF TagNextFrame, CallBound
<1>26. CASE TagSecured
  <2> DEFINE opened == IF wire.what \in SealedCommand THEN AfterCipher(tag.m) ELSE tag.m
             m  == Advance(opened)
             iv == IF wire.what \in SealedAnswer THEN Iv(m, "resp") ELSE NoIv
             macs == IF wire.what = "ChangeMasterKey" THEN {NoMac}
                     ELSE IF wire.what \in MayLackMact THEN {NoMac, MacOver(m, "resp")}
                     ELSE {MacOver(m, "resp")}
  <2>1. wire.type = "req" /\ 0 \in Id /\ tag.m \in Material
    BY <1>26 DEF TagSecured, Id, Tags
  <2>2. m \in Material /\ AfterCipher(m) \in Material
    BY <2>1, AdvanceType, CipherType
  <2>3. iv \in Cover /\ macs \subseteq Cover
    BY <2>2, CoverType, NoCover
  <2>4. /\ tag' = [tag EXCEPT
                     !.m = IF wire.what \in SealedAnswer THEN AfterCipher(m) ELSE m,
                     !.frames = 0,
                     !.lrp = @ \/ wire.what = "EnableLrp",
                     !.st = IF wire.what \in EndsSession THEN "idle" ELSE @]
        /\ \E mac \in macs :
             Answer("ok", 0, mac, iv, wire.what \notin SealedCommand \union {"WriteMac"})
        /\ Note(iv) /\ UNCHANGED <<sess, call, failed, stale, n>>
    BY <1>26 DEF TagSecured
  <2> HIDE DEF m, iv, macs
  <2>5. wire' \in Message /\ wire'.type = "ans"
    BY <2>1, <2>3, <2>4, AnswerType
  <2>6. sealed' \subseteq Cover
    BY <2>3, <2>4, NoteType
  <2> DEFINE m2 == IF wire.what \in SealedAnswer THEN AfterCipher(m) ELSE m
             st == IF wire.what \in EndsSession THEN "idle" ELSE tag.st
             b  == tag.lrp \/ wire.what = "EnableLrp"
  <2>7. m2 \in Material /\ 0 \in 0 .. 2 /\ st \in {"idle", "chal", "auth"}
    BY <2>2 DEF Tags
  <2>8. b \in BOOLEAN
    OBVIOUS
  <2>9. tag' = [tag EXCEPT !.m = m2, !.frames = 0, !.lrp = b, !.st = st]
    BY <2>4
  <2>10. tag' \in Tags
    BY <2>7, <2>8, <2>9, TagPerforms, Zenon
  <2> QED BY <2>1, <2>4, <2>5, <2>6, <2>10 DEF CallBound
<1>27. CASE TagRefuse
  <2>1. wire.type = "req" /\ 0 \in Id
    BY <1>27 DEF TagRefuse, Id
  <2>2. wire' \in Message /\ wire'.type = "ans"
    BY <1>27, <2>1, NoCover, AnswerType DEF TagRefuse
  <2>3. PICK st \in {"idle", IF tag.st = "auth" THEN "auth" ELSE "idle"} :
              tag' = [tag EXCEPT !.st = st, !.frames = 0]
    BY <1>27 DEF TagRefuse
  <2>4. st \in {"idle", "chal", "auth"} /\ 0 \in 0 .. 2
    OBVIOUS
  <2>5. tag' \in Tags
    BY <2>3, <2>4, TagDrops, Zenon
  <2> QED BY <1>27, <2>1, <2>2, <2>5 DEF TagRefuse, CallBound
<1>28. CASE TagPowerCycle
  <2>1. tag' = [tag EXCEPT !.st = "idle", !.frames = 0]
    BY <1>28 DEF TagPowerCycle
  <2>2. "idle" \in {"idle", "chal", "auth"} /\ 0 \in 0 .. 2
    OBVIOUS
  <2>3. tag' \in Tags
    BY <2>1, <2>2, TagDrops, Zenon
  <2> QED BY <1>28, <2>3 DEF TagPowerCycle, CallBound
<1>29. CASE UNCHANGED vars
  BY <1>29 DEF vars, CallBound
<1> QED
  BY <1>1, <1>2, <1>3, <1>4, <1>5, <1>6, <1>7, <1>8, <1>9, <1>10, <1>11, <1>12,
     <1>16, <1>17, <1>18, <1>19, <1>20, <1>21, <1>22, <1>23, <1>24, <1>25, <1>26,
     <1>27, <1>28, <1>29
     DEF Next, Caller, Send, Receive, TagServes

LEMMA TypeInit == Init => TypeInv
<1> SUFFICES ASSUME Init PROVE TypeInv
  OBVIOUS
<1>1. "idle" \in {"idle", "chal", "auth"} /\ 0 \in Id /\ 0 \in 0 .. 2 /\ FALSE \in BOOLEAN
  BY DEF Id
<1>4. tag \in Tags
  BY <1>1, KeylessMaterial DEF Init, Tags
<1>2. TypeOK
  BY <1>1, <1>4, ConstantTypes DEF Init, TypeOK
<1>3. CallBound
  BY ConstantTypes DEF Init, CallBound
<1> QED BY <1>2, <1>3 DEF TypeInv

\* Every state of the session, the call, the tag and the transport is well
\* typed, and an APDU is on the wire exactly while a call waits for it.
THEOREM TypeCorrect == Spec => []TypeOK
<1>1. Spec => []TypeInv
  BY TypeInit, TypeStep, PTL DEF Spec
<1>2. TypeInv => TypeOK
  BY DEF TypeInv
<1> QED BY <1>1, <1>2, PTL

-----------------------------------------------------------------------------
(* The two ends stay in step *)

IndInv == TypeInv /\ InStepInv

\* The shape of the running call is open to all proofs below.
USE DEF CallRuns

\* With no call running nothing is on the wire.
LEMMA IdleFacts ==
  ASSUME TypeOK, call = Idle
  PROVE  /\ wire.type = "none" /\ call.phase = "none" /\ call.cmd = "none"
         /\ call.left = 0 /\ call.cmd \notin Handshake /\ call.cmd \notin Command
         /\ call.cmd \notin SealedCommand /\ call.cmd \notin SealedAnswer
  BY DEF TypeOK, Idle, Handshake, AllCommands, SealedCommand, SealedAnswer,
         PlainCommand

LEMMA FreshFacts ==
  /\ FreshSession.st = "unauth" /\ FreshSession.m = Keyless
  /\ NoSession.st = "none" /\ NoSession.m = Keyless
  /\ Keyless.ctr = 0 /\ Keyless.enc = 0
  /\ \A m \in Material : Authed(m).st = "auth" /\ Authed(m).m = m
  BY DEF FreshSession, NoSession, Authed, Keyless

\* The numbers the invariant compares are naturals.
LEMMA NumberTypes ==
  ASSUME TypeOK
  PROVE  /\ n \in Nat /\ n <= MaxApdu /\ failed \in Nat
         /\ sess.m.ctr \in Nat /\ sess.m.ctr < CtrMod /\ sess.m.enc \in Nat
         /\ tag.m.ctr \in Nat /\ tag.m.ctr < CtrMod /\ tag.m.enc \in Nat
         /\ tag.frames \in 0 .. 2 /\ call.left \in Nat /\ tag.m \in Material
  BY SessMaterial DEF TypeOK, Tags, Calls, Material, Ctr, Id

LEMMA NewSessionInStep ==
  ASSUME IndInv, TypeInv', NewSession PROVE InStepInv'
<1> USE DEF IndInv, TypeInv, InStepInv
<1>1. /\ sess' = FreshSession /\ UNCHANGED <<call, failed, tag, wire, stale, sealed, n>>
      /\ wire.type = "none" /\ call.cmd \notin Handshake /\ call.cmd = "none"
      /\ call.phase = "none" /\ call = Idle
  BY IdleFacts DEF NewSession
<1>2. sess'.st = "unauth" /\ sess'.m.ctr = 0
  BY <1>1, FreshFacts
<1>3. CtrBound'
  BY <1>1, <1>2, NumberTypes DEF CtrBound
<1>4. CallShape' /\ RequestShape'
  BY <1>1, <1>2 DEF CallShape, RequestShape
<1>5. HandshakeShape' /\ OneKey' /\ ChainShape' /\ InStep'
  BY <1>1, <1>2 DEF HandshakeShape, OneKey, ChainShape, InStep, Proved, Live
<1> QED BY <1>3, <1>4, <1>5

LEMMA StartInStep ==
  ASSUME IndInv, TypeInv', call = Idle,
         NEW c \in Command \union Handshake, NEW left \in 1 .. (MaxChunks + 3),
         NEW keep \in BOOLEAN, NEW suite \in Suite,
         call' = NewCall(c, left, keep, suite),
         UNCHANGED <<sess, failed, tag, wire, stale, sealed, n>>,
         c = "First" => sess.st = "unauth",
         c # "First" => sess.st = "auth" /\ suite = sess.m.suite,
         c \in Handshake => left = 2,
         keep => c \in PlainCommand
  PROVE  InStepInv'
<1> USE DEF IndInv, TypeInv, InStepInv
<1>1. /\ call'.cmd = c /\ call'.left = left /\ call'.phase = "send"
      /\ call'.keep = keep /\ call'.suite = suite
  BY DEF NewCall
<1>2. /\ wire.type = "none" /\ call.cmd \notin Handshake /\ call.cmd = "none"
      /\ call.phase = "none"
  BY IdleFacts
<1>3. CtrBound'
  BY <1>1, NumberTypes DEF CtrBound
<1>4. CallShape' /\ RequestShape'
  BY <1>1, <1>2 DEF CallShape, RequestShape
<1>5. HandshakeShape'
  BY <1>1, <1>2 DEF HandshakeShape, Proved
<1>6. OneKey' /\ ChainShape'
  BY <1>1, <1>2 DEF OneKey, ChainShape, Proved
<1>7. InStep'
  BY <1>1, <1>2 DEF InStep, EncInStep, Gap, Live, Performed
<1> QED BY <1>3, <1>4, <1>5, <1>6, <1>7

LEMMA AuthenticateInStep ==
  ASSUME IndInv, TypeInv',
         (\E suite \in Suite : AuthenticateFirst(suite)) \/ AuthenticateNonFirst
  PROVE  InStepInv'
<1>1. 2 \in 1 .. (MaxChunks + 3) /\ sess.m.suite \in Suite
  BY SessMaterial DEF Material, IndInv, TypeInv
<1>2. "First" \in Handshake /\ "NonFirst" \in Handshake
  BY DEF Handshake
<1>3. ASSUME NEW suite \in Suite, AuthenticateFirst(suite) PROVE InStepInv'
  BY <1>1, <1>2, <1>3, StartInStep DEF AuthenticateFirst
<1>4. ASSUME AuthenticateNonFirst PROVE InStepInv'
  <2>1. /\ call = Idle /\ sess.st = "auth" /\ FALSE \in BOOLEAN
        /\ call' = NewCall("NonFirst", 2, FALSE, sess.m.suite)
        /\ UNCHANGED <<sess, failed, tag, wire, stale, sealed, n>>
    BY <1>4 DEF AuthenticateNonFirst
  <2>2. "NonFirst" \in Command \union Handshake /\ "NonFirst" # "First"
    BY <1>2
  <2> QED BY <1>1, <2>1, <2>2, StartInStep, Zenon
<1> QED BY <1>3, <1>4

LEMMA BeginInStep ==
  ASSUME IndInv, TypeInv', NEW c \in Command, NEW keep \in BOOLEAN,
         NEW left \in ApduCounts(c), Begin(c, left, keep)
  PROVE  InStepInv'
<1>1. left \in 1 .. (MaxChunks + 3) /\ sess.m.suite \in Suite
  BY SessMaterial DEF ApduCounts, Material, IndInv, TypeInv
<1>2. c \notin Handshake /\ c # "First"
  BY DEF Handshake, AllCommands, SealedCommand, SealedAnswer, PlainCommand
<1> QED BY <1>1, <1>2, StartInStep DEF Begin

\* What sets apart the names that pass over the wire.
LEMMA NameFacts ==
  /\ Command \intersect Handshake = {}
  /\ "Part2" \notin Command \union Handshake /\ "More" \notin Command \union Handshake
  /\ PlainCommand \intersect Handshake = {} /\ "GetVersion" \notin Handshake
  /\ PlainCommand \intersect (SealedCommand \union SealedAnswer) = {}
  /\ PlainCommand \intersect EndsSession = {}
  /\ "GetVersion" \notin PlainCommand \union SealedCommand \union SealedAnswer
  /\ SealedCommand \intersect SealedAnswer = {}
  /\ (MayLackMact \union {"ChangeMasterKey"}) \intersect SealedAnswer = {}
  /\ EndsSession \intersect Handshake = {} /\ "GetVersion" \notin EndsSession
  /\ "Part2" \notin PlainCommand /\ "More" \notin PlainCommand
  BY DEF Handshake, AllCommands, SealedCommand, SealedAnswer, PlainCommand,
         EndsSession, MayLackMact

\* The effect of sending: only the message and the phase of the call change.
LEMMA PutFacts ==
  ASSUME TypeInv, CanSend, NEW what, NEW echo, NEW mac, NEW iv,
         Put(Request(what, echo, mac, iv))
  PROVE  /\ wire.type = "none" /\ wire'.type = "req" /\ wire'.what = what
         /\ wire'.mac = mac /\ wire'.suite = call.suite /\ wire'.n = n + 1
         /\ n' = n + 1 /\ call'.phase = "wait" /\ call.phase = "send"
         /\ call'.cmd = call.cmd /\ call'.left = call.left
         /\ call'.keep = call.keep /\ call'.suite = call.suite
  BY DEF CanSend, Put, Request, TypeInv, TypeOK, Calls

\* Sending keeps everything that does not look at the request.
LEMMA PutInStep ==
  ASSUME IndInv, CanSend, UNCHANGED <<failed, tag>>,
         NEW what, NEW echo, NEW mac, NEW iv, Put(Request(what, echo, mac, iv)),
         sess'.st = sess.st, sess'.m.suite = sess.m.suite, sess'.m.key = sess.m.key,
         sess'.m.ti = sess.m.ti, sess'.m.ctr = sess.m.ctr,
         call.cmd \notin Handshake =>
           sess'.m.enc = sess.m.enc + Blocks(SealedCommand)
  PROVE  /\ CtrBound' /\ CallShape' /\ HandshakeShape' /\ OneKey' /\ ChainShape'
         /\ InStep'
<1> USE DEF IndInv, TypeInv, InStepInv
<1>1. /\ wire.type = "none" /\ wire'.type = "req"
      /\ wire'.n = n + 1 /\ n' = n + 1 /\ call'.phase = "wait" /\ call.phase = "send"
      /\ call'.cmd = call.cmd /\ call'.left = call.left
      /\ call'.keep = call.keep /\ call'.suite = call.suite
  BY PutFacts
<1>2. CtrBound'
  BY <1>1, NumberTypes DEF CtrBound
<1>3. CallShape'
  BY <1>1 DEF CallShape
<1>4. HandshakeShape'
  BY <1>1 DEF HandshakeShape, Proved, TagSuite
<1>5. OneKey' /\ ChainShape'
  BY <1>1 DEF OneKey, ChainShape, Proved, Performed
<1>6. Live' => Live /\ Gap(0)'
  BY <1>1 DEF Live, InStep, Gap, Performed
<1>7. (Live' /\ call'.cmd \notin Handshake) => EncInStep'
  BY <1>1 DEF EncInStep, InStep, Live, Performed, Blocks
<1>8. InStep'
  BY <1>1, <1>6, <1>7 DEF InStep, Performed
<1> QED BY <1>2, <1>3, <1>4, <1>5, <1>8

LEMMA SendInStep ==
  ASSUME IndInv, TypeInv', Send PROVE InStepInv'
<1> USE DEF IndInv, TypeInv, InStepInv
<1>1. CASE SendHandshake
  <2>1. PICK what \in {call.cmd, "Part2"} :
          /\ what = "Part2" <=> call.left # 2
          /\ Put(Request(what, call.echo, NoMac, NoIv))
    BY <1>1, NameFacts DEF SendHandshake
  <2>2. CanSend /\ call.cmd \in Handshake /\ UNCHANGED <<sess, failed, tag>>
    BY <1>1 DEF SendHandshake
  <2>3. /\ CtrBound' /\ CallShape' /\ HandshakeShape' /\ OneKey' /\ ChainShape'
        /\ InStep'
    BY <2>1, <2>2, PutInStep
  <2>4. call.left \in {1, 2}
    BY <2>2 DEF CallShape, CanSend
  <2>5. RequestShape'
    BY <2>1, <2>2, <2>4, PutFacts, NameFacts DEF RequestShape
  <2> QED BY <2>3, <2>5
<1>2. CASE SendPlain
  <2>1. /\ CanSend /\ call.cmd \in PlainCommand /\ UNCHANGED <<sess, failed, tag>>
        /\ Put(Request(call.cmd, 0, NoMac, NoIv))
    BY <1>2 DEF SendPlain
  <2>2. sess.m.enc = sess.m.enc + Blocks(SealedCommand)
    BY <2>1, NameFacts, NumberTypes DEF Blocks
  <2>3. /\ CtrBound' /\ CallShape' /\ HandshakeShape' /\ OneKey' /\ ChainShape'
        /\ InStep'
    BY <2>1, <2>2, PutInStep
  <2>4. RequestShape'
    BY <2>1, PutFacts, NameFacts DEF RequestShape
  <2> QED BY <2>3, <2>4
<1>3. CASE SendMore
  <2>1. /\ CanSend /\ call.cmd = "GetVersion" /\ UNCHANGED <<sess, failed, tag>>
        /\ Put(Request("More", 0, NoMac, NoIv))
    BY <1>3 DEF SendMore
  <2>2. sess.m.enc = sess.m.enc + Blocks(SealedCommand)
    BY <2>1, NameFacts, NumberTypes DEF Blocks
  <2>3. /\ CtrBound' /\ CallShape' /\ HandshakeShape' /\ OneKey' /\ ChainShape'
        /\ InStep'
    BY <2>1, <2>2, PutInStep
  <2>4. RequestShape'
    BY <2>1, PutFacts, NameFacts DEF RequestShape
  <2> QED BY <2>3, <2>4
<1>4. CASE SendSecured
  <2> DEFINE seals == call.cmd \in SealedCommand
             iv == IF seals THEN Iv(sess.m, "cmd") ELSE NoIv
             m  == IF seals THEN Sealing(sess.m) ELSE sess.m
  <2>1. /\ CanSend /\ call.cmd \in Command \ PlainCommand /\ UNCHANGED <<failed, tag>>
        /\ Put(Request(call.cmd, 0, MacOver(m, "cmd"), iv))
        /\ sess' = Authed(m)
    BY <1>4 DEF SendSecured
  <2>2. sess.m \in Material /\ m \in Material
    BY SessMaterial, CipherType DEF Sealing
  <2>3. /\ m.suite = sess.m.suite /\ m.key = sess.m.key /\ m.ti = sess.m.ti
        /\ m.ctr = sess.m.ctr /\ m.enc = sess.m.enc + Blocks(SealedCommand)
    BY <2>2, NumberTypes DEF Sealing, AfterCipher, Blocks, Material
  <2> HIDE DEF m, iv
  <2>4. sess'.m = m /\ sess'.st = "auth" /\ sess.st = "auth"
    BY <2>1, <2>2, FreshFacts, NameFacts DEF CallShape, CanSend, Handshake
  <2>5. /\ CtrBound' /\ CallShape' /\ HandshakeShape' /\ OneKey' /\ ChainShape'
        /\ InStep'
    BY <2>1, <2>3, <2>4, PutInStep
  <2>6. RequestShape'
    BY <2>1, <2>4, PutFacts, NameFacts DEF RequestShape
  <2> QED BY <2>5, <2>6
<1> QED BY <1>1, <1>2, <1>3, <1>4 DEF Send

\* A call that fails: the session is gone, or it was borrowed for plain calls.
LEMMA FailsInStep ==
  ASSUME IndInv, call.phase = "wait", NEW m \in Material, Fails(m),
         call.keep => m = sess.m,
         wire'.type = "none", UNCHANGED <<tag, n>>
  PROVE  InStepInv' \/ ~TypeInv'
<1> SUFFICES ASSUME TypeInv' PROVE InStepInv'
  OBVIOUS
<1> USE DEF IndInv, TypeInv, InStepInv
<1>1. /\ call' = Idle /\ call'.cmd = "none" /\ call'.phase = "none"
      /\ call'.cmd \notin Handshake /\ call'.cmd \notin Command
  BY DEF Fails, Idle, Handshake, AllCommands, SealedCommand, SealedAnswer, PlainCommand
<1>2. CASE ~call.keep
  <2>1. sess'.st = "none" /\ sess'.m.ctr = 0
    BY <1>2, FreshFacts DEF Fails
  <2>2. CtrBound' /\ CallShape' /\ RequestShape' /\ HandshakeShape'
    BY <1>1, <2>1, NumberTypes
       DEF CtrBound, CallShape, RequestShape, HandshakeShape, Proved
  <2>3. OneKey' /\ ChainShape' /\ InStep'
    BY <1>1, <2>1 DEF OneKey, ChainShape, InStep, Live
  <2> QED BY <2>2, <2>3
<1>3. CASE call.keep
  <2>1. sess'.st = "auth" /\ sess'.m = sess.m /\ failed' = failed + 1
    BY <1>3, FreshFacts DEF Fails
  <2>2. call.cmd \in PlainCommand /\ call.cmd \notin Handshake /\ sess.st = "auth"
    BY <1>3, NameFacts DEF CallShape, Handshake
  <2>3. call.cmd \notin SealedCommand /\ call.cmd \notin SealedAnswer
        /\ call.cmd # "GetVersion" /\ call.cmd # "NonFirst"
    BY <2>2, NameFacts DEF Handshake
  <2>4. wire.type \in {"req", "ans"}
    BY DEF TypeOK, Message
  <2>5. CtrBound' /\ CallShape' /\ RequestShape' /\ HandshakeShape'
    BY <1>1, <2>1, NumberTypes
       DEF CtrBound, CallShape, RequestShape, HandshakeShape, Proved
  <2>6. OneKey' /\ ChainShape'
    BY <1>1, <2>1, <2>2, <2>3 DEF OneKey, ChainShape, Proved
  <2>7. Live' => Live
    BY <2>1, <2>2 DEF Live
  <2>8. Live => Gap(0)'
    BY <2>1, NumberTypes DEF InStep, Gap
  <2>9. Live => sess.m.enc = tag.m.enc
    BY <2>2, <2>3, <2>4, NumberTypes DEF InStep, EncInStep, Blocks, Performed
  <2>10. InStep'
    BY <1>1, <2>1, <2>7, <2>8, <2>9 DEF InStep, EncInStep, Performed
  <2> QED BY <2>5, <2>6, <2>10
<1> QED BY <1>2, <1>3

\* A command APDU that succeeds, given that it leaves the session in step.
LEMMA ContinueInStep ==
  ASSUME IndInv, TypeInv', call.phase = "wait", call.cmd \in Command,
         sess.st = "auth", wire.type = "ans",
         NEW m \in Material, NEW eof \in BOOLEAN, Continue(m, eof),
         wire'.type = "none", UNCHANGED <<tag, n>>,
         m.key = sess.m.key, m.suite = sess.m.suite, m.ti = sess.m.ti, m.ctr <= n,
         Live => /\ m.ctr <= tag.m.ctr /\ tag.m.ctr <= m.ctr + failed
                 /\ m.enc = tag.m.enc,
         tag.frames > 0 => call.left # 1 /\ ~eof /\ ~Performed /\ m.ctr = sess.m.ctr
  PROVE  InStepInv'
<1> USE DEF IndInv, TypeInv, InStepInv
<1>1. call.cmd \notin Handshake /\ failed' = failed /\ call.cmd # "NonFirst"
  BY NameFacts DEF Continue, Handshake
<1>2. CASE sess'.st = "unauth"
  <2>1. call' = Idle /\ sess' = FreshSession
    BY <1>2, FreshFacts DEF Continue
  <2>2. call'.cmd = "none" /\ call'.phase = "none" /\ sess'.m.ctr = 0
    BY <2>1, FreshFacts DEF Idle
  <2>3. CtrBound' /\ CallShape' /\ RequestShape' /\ HandshakeShape'
    BY <1>2, <2>1, <2>2, NumberTypes
       DEF CtrBound, CallShape, RequestShape, HandshakeShape, Proved, Handshake
  <2>4. OneKey' /\ ChainShape' /\ InStep'
    BY <1>2 DEF OneKey, ChainShape, InStep, Live
  <2> QED BY <2>3, <2>4
<1>3. CASE sess'.st # "unauth"
  <2>1. sess'.m = m /\ sess'.st = "auth"
    BY <1>3, FreshFacts DEF Continue
  <2>2. \/ call' = Idle /\ tag.frames = 0
        \/ call'.cmd = call.cmd /\ call'.phase = "send" /\ call'.suite = call.suite
           /\ call'.keep = call.keep
    <3>1. CASE call.left = 1 \/ eof
      BY <3>1, NumberTypes DEF Continue
    <3>2. CASE ~(call.left = 1 \/ eof)
      <4>1. call' = [call EXCEPT !.left = @ - 1, !.phase = "send"]
        BY <3>2 DEF Continue
      <4> QED BY <4>1 DEF TypeOK, Calls
    <3> QED BY <3>1, <3>2
  <2>3. call'.cmd \notin Handshake
    BY <1>1, <2>2 DEF Idle, Handshake
  <2>4. CtrBound' /\ RequestShape' /\ HandshakeShape'
    BY <2>1, <2>2, <2>3, NumberTypes
       DEF CtrBound, RequestShape, HandshakeShape, Proved, Idle
  <2>5. CallShape'
    BY <1>1, <2>1, <2>2 DEF CallShape, Idle, Handshake
  <2>6. OneKey'
    BY <1>1, <2>1 DEF OneKey, Proved
  <2>7. ChainShape'
    BY <2>1, <2>2 DEF ChainShape, Performed, Idle
  <2>8. Live' => Live
    BY <2>1 DEF Live
  <2>9. Live => Gap(0)' /\ sess'.m.enc = tag'.m.enc
    <3>1. m.ctr \in Nat
      BY DEF Material, Ctr
    <3>2. Live => sess.m.suite = tag.m.suite /\ sess.m.ti = tag.m.ti
      BY DEF InStep, Gap
    <3> QED BY <1>1, <2>1, <3>1, <3>2, NumberTypes DEF Gap
  <2>10. InStep'
    BY <2>8, <2>9 DEF InStep, EncInStep, Performed
  <2> QED BY <2>4, <2>5, <2>6, <2>7, <2>10
<1> QED BY <1>2, <1>3

\* Counting one more APDU never wraps: fewer than CtrMod of them are ever sent.
LEMMA NoWrap ==
  ASSUME TypeOK
  PROVE  /\ sess.m.ctr < n => Advance(sess.m).ctr = sess.m.ctr + 1
         /\ tag.m.ctr < n => Advance(tag.m).ctr = tag.m.ctr + 1
         /\ Advance(sess.m).key = sess.m.key /\ Advance(sess.m).suite = sess.m.suite
         /\ Advance(sess.m).ti = sess.m.ti /\ Advance(sess.m).enc = sess.m.enc
         /\ Advance(tag.m).key = tag.m.key /\ Advance(tag.m).suite = tag.m.suite
         /\ Advance(tag.m).ti = tag.m.ti /\ Advance(tag.m).enc = tag.m.enc
  BY NumberTypes, SessMaterial DEF Advance, Succ, Material

LEMMA AfterCipherFacts ==
  ASSUME NEW m \in Material
  PROVE  /\ AfterCipher(m).key = m.key /\ AfterCipher(m).suite = m.suite
         /\ AfterCipher(m).ti = m.ti /\ AfterCipher(m).ctr = m.ctr
         /\ AfterCipher(m).enc = m.enc + (IF m.suite = "LRP" THEN 1 ELSE 0)
  BY DEF AfterCipher, Material

\* Every way of receiving an error.
LEMMA ErrorInStep ==
  ASSUME IndInv, TypeInv', TransportError \/ ReceiveStatusError PROVE InStepInv'
<1>1. call.phase = "wait" /\ Fails(sess.m) /\ wire'.type = "none" /\ UNCHANGED <<tag, n>>
  BY ConstantTypes DEF TransportError, ReceiveStatusError, TakeAnswer
<1>2. sess.m \in Material
  BY SessMaterial DEF IndInv, TypeInv
<1> QED BY <1>1, <1>2, FailsInStep

LEMMA ChallengeInStep ==
  ASSUME IndInv, TypeInv', ReceiveChallenge PROVE InStepInv'
<1> USE DEF IndInv, TypeInv, InStepInv
<1>1. /\ call.phase = "wait" /\ wire.type = "ans" /\ wire.what = "af"
      /\ call.cmd \in Handshake /\ call.left = 2
      /\ wire'.type = "none" /\ UNCHANGED <<tag, n>>
  BY ConstantTypes DEF ReceiveChallenge, Waiting, TakeAnswer
<1>2. CASE ~(wire.echo # 0 /\ wire.suite = call.suite)
  BY <1>1, <1>2, SessMaterial, FailsInStep DEF ReceiveChallenge
<1>3. CASE wire.echo # 0 /\ wire.suite = call.suite
  <2>1. /\ call' = [call EXCEPT !.left = 1, !.phase = "send", !.echo = wire.echo]
        /\ UNCHANGED <<sess, failed>>
    BY <1>3 DEF ReceiveChallenge
  <2>2. /\ call'.cmd = call.cmd /\ call'.left = 1 /\ call'.phase = "send"
        /\ call'.keep = call.keep /\ call'.suite = call.suite
    BY <2>1 DEF TypeOK, Calls
  <2>3. CtrBound' /\ CallShape' /\ RequestShape'
    BY <1>1, <2>1, <2>2, NumberTypes DEF CtrBound, CallShape, RequestShape
  <2>4. HandshakeShape' /\ OneKey' /\ ChainShape'
    BY <1>1, <2>1, <2>2 DEF HandshakeShape, OneKey, ChainShape, Proved, Performed, TagSuite
  <2>5. InStep'
    BY <1>1, <2>1, <2>2 DEF InStep, Live, Gap, Performed
  <2> QED BY <2>3, <2>4, <2>5
<1> QED BY <1>2, <1>3

LEMMA ProofInStep ==
  ASSUME IndInv, TypeInv', ReceiveProof PROVE InStepInv'
<1> USE DEF IndInv, TypeInv, InStepInv
<1>1. /\ call.phase = "wait" /\ wire.type = "ans" /\ wire.what = "ok" /\ Proved
      /\ call.cmd \in Handshake /\ call.left = 1
      /\ wire'.type = "none" /\ UNCHANGED <<tag, n>>
  BY ConstantTypes DEF ReceiveProof, Waiting, TakeAnswer, Proved
<1>2. CASE ~(wire.echo = n /\ wire.suite = call.suite)
  BY <1>1, <1>2, SessMaterial, FailsInStep DEF ReceiveProof
<1>3. CASE wire.echo = n /\ wire.suite = call.suite
  <2> DEFINE m == IF call.cmd = "First" THEN FirstKeys(call.suite, n)
                                        ELSE NonFirstKeys(sess.m, n)
  <2>1. /\ sess' = Authed(m) /\ call' = Idle
        /\ failed' = IF call.cmd = "First" THEN 0 ELSE failed
    BY <1>3 DEF ReceiveProof
  <2>2. call.suite \in Suite /\ n \in Id
    BY DEF TypeOK, Calls
  <2>3. m \in Material
    BY <2>2, SessMaterial, KeysType
  <2>4. sess'.m = m /\ sess'.st = "auth"
    BY <2>1, <2>3, FreshFacts
  <2>5. tag.st # "chal" /\ tag.frames = 0 /\ tag.m.key = n
    BY <1>1 DEF HandshakeShape
  <2>6. call'.cmd = "none" /\ call'.phase = "none" /\ call'.cmd \notin Handshake
    BY <2>1 DEF Idle, Handshake
  <2>7. m.key = n
    BY SessMaterial DEF FirstKeys, NonFirstKeys, Material
  <2>8. CASE call.cmd = "First"
    <3>1. m = tag.m /\ failed' = 0 /\ m.ctr = 0
      BY <1>1, <2>1, <2>8 DEF HandshakeShape, FirstKeys
    <3>2. CtrBound'
      BY <1>1, <2>4, <2>6, <3>1, NumberTypes DEF CtrBound
    <3>3. InStep'
      BY <1>1, <2>4, <3>1, NumberTypes DEF InStep, Gap, EncInStep, Performed
    <3> HIDE DEF m
    <3> QED BY <1>1, <2>1, <2>4, <2>5, <2>6, <2>7, <3>2, <3>3
            DEF CallShape, RequestShape, HandshakeShape, OneKey, ChainShape, Proved
  <2>9. CASE call.cmd # "First"
    <3>1. call.cmd = "NonFirst" /\ sess.st = "auth" /\ failed' = failed
          /\ call.cmd \notin Command
      BY <1>1, <2>1, <2>9, NameFacts DEF CallShape, Handshake
    <3>2. m.suite = sess.m.suite /\ m.ti = sess.m.ti /\ m.ctr = sess.m.ctr /\ m.enc = 0
      BY <2>9, SessMaterial DEF NonFirstKeys, Material
    <3>3. tag.m.enc = 0
      BY <1>1, <3>1 DEF HandshakeShape
    <3>4. CtrBound'
      BY <1>1, <2>4, <2>6, <3>2, NumberTypes DEF CtrBound
    <3>5. Live' => Live /\ Gap(0)
      BY <1>1, <3>1, <2>5 DEF Live, InStep, Performed
    <3> HIDE DEF m
    <3>6. Live' => Gap(0)'
      BY <1>1, <2>4, <3>1, <3>2, <3>5 DEF Gap
    <3>7. InStep'
      BY <1>1, <2>4, <3>2, <3>3, <3>6 DEF InStep, EncInStep, Performed
    <3> QED BY <1>1, <2>1, <2>4, <2>5, <2>6, <2>7, <3>4, <3>7
            DEF CallShape, RequestShape, HandshakeShape, OneKey, ChainShape, Proved
  <2> QED BY <2>8, <2>9
<1> QED BY <1>2, <1>3

LEMMA FrameInStep ==
  ASSUME IndInv, TypeInv', ReceiveFrame PROVE InStepInv'
<1> USE DEF IndInv, TypeInv, InStepInv
<1>1. /\ call.phase = "wait" /\ wire.type = "ans" /\ wire.what = "af"
      /\ call.cmd = "GetVersion" /\ call.left > 1 /\ ~Performed
      /\ wire'.type = "none" /\ UNCHANGED <<tag, n>>
  BY ConstantTypes DEF ReceiveFrame, Waiting, TakeAnswer, Performed
<1>2. sess.m \in Material /\ FALSE \in BOOLEAN
  BY SessMaterial
<1>3. call.cmd \in Command /\ sess.st = "auth"
  BY <1>1, NameFacts DEF CallShape
<1>4. CASE wire.echo # 0
  BY <1>1, <1>2, <1>4, FailsInStep DEF ReceiveFrame
<1>5. CASE wire.echo = 0
  <2>1. Continue(sess.m, FALSE)
    BY <1>5 DEF ReceiveFrame
  <2>2. sess.m.ctr <= n
    BY DEF CtrBound
  <2>3. Live => /\ sess.m.ctr <= tag.m.ctr /\ tag.m.ctr <= sess.m.ctr + failed
                /\ sess.m.enc = tag.m.enc
    BY <1>1, NameFacts, NumberTypes DEF InStep, Gap, EncInStep
  <2>4. call.left # 1 /\ FALSE = FALSE
    BY <1>1
  <2> QED BY <1>1, <1>2, <1>3, <2>1, <2>2, <2>3, <2>4, ContinueInStep
<1> QED BY <1>4, <1>5

\* A performed command whose answer is taken: the host catches up.
LEMMA PerformedInStep ==
  ASSUME IndInv, TypeInv', call.phase = "wait", Waiting("ok"), call.cmd \in Command,
         NEW m \in Material, NEW eof \in BOOLEAN, Continue(m, eof),
         wire'.type = "none", UNCHANGED <<tag, n>>,
         m.key = sess.m.key, m.suite = sess.m.suite, m.ti = sess.m.ti,
         m.ctr = sess.m.ctr + 1, m.enc = sess.m.enc + Blocks(SealedAnswer)
  PROVE  InStepInv'
<1> USE DEF IndInv, TypeInv, InStepInv
<1>1. Performed /\ wire.type = "ans" /\ call.cmd \notin Handshake
  BY NameFacts DEF Performed, Waiting
<1>2. sess.st = "auth"
  BY NameFacts DEF CallShape, Handshake
<1>3. m.ctr <= n
  BY NumberTypes DEF CtrBound
<1>4. Live => /\ m.ctr <= tag.m.ctr /\ tag.m.ctr <= m.ctr + failed
              /\ m.enc = tag.m.enc
  BY <1>1, NumberTypes DEF InStep, Gap, EncInStep
<1>5. ~(tag.frames > 0)
  BY <1>1, <1>2 DEF ChainShape
<1> QED BY <1>1, <1>2, <1>3, <1>4, <1>5, ContinueInStep

LEMMA AnswerInStep ==
  ASSUME IndInv, TypeInv', ReceivePlain \/ ReceiveUnsigned \/ ReceiveMact
  PROVE  InStepInv'
<1> USE DEF IndInv, TypeInv, InStepInv
<1>1. /\ call.phase = "wait" /\ Waiting("ok") /\ wire'.type = "none"
      /\ UNCHANGED <<tag, n>>
  BY ConstantTypes DEF ReceivePlain, ReceiveUnsigned, ReceiveMact, Waiting, TakeAnswer
<1>2. call.cmd \in Command
  BY <1>1, NameFacts DEF ReceivePlain, ReceiveUnsigned, ReceiveMact, CallShape,
     PlainCommand, MayLackMact, Handshake
<1> DEFINE m == Advance(sess.m)
<1>3. /\ m \in Material /\ m.key = sess.m.key /\ m.suite = sess.m.suite
      /\ m.ti = sess.m.ti /\ m.enc = sess.m.enc
  BY SessMaterial, AdvanceType, NoWrap
<1>4. m.ctr = sess.m.ctr + 1
  BY <1>1, NoWrap DEF CtrBound
<1>5. Eof \subseteq BOOLEAN
  BY DEF Eof
<1> HIDE DEF m
<1>6. CASE ReceivePlain
  <2>1. PICK eof \in Eof : Continue(m, eof)
    BY <1>6 DEF ReceivePlain, m
  <2>2. m.enc = sess.m.enc + Blocks(SealedAnswer)
    BY <1>3, <1>6, NameFacts, NumberTypes DEF ReceivePlain, Blocks
  <2> QED BY <1>1, <1>2, <1>3, <1>4, <1>5, <2>1, <2>2, PerformedInStep
<1>7. CASE ReceiveUnsigned
  <2>1. Continue(m, FALSE)
    BY <1>7 DEF ReceiveUnsigned, m
  <2>2. m.enc = sess.m.enc + Blocks(SealedAnswer)
    BY <1>3, <1>7, NameFacts, NumberTypes DEF ReceiveUnsigned, Blocks
  <2> QED BY <1>1, <1>2, <1>3, <1>4, <2>1, <2>2, PerformedInStep
<1>8. CASE ReceiveMact
  <2> DEFINE m2 == IF call.cmd \in SealedAnswer THEN Opening(m) ELSE m
  <2>1. ~call.keep
    BY <1>1, <1>8 DEF ReceiveMact, CallShape
  <2>2. CASE Fails(m)
    BY <1>1, <1>3, <2>1, <2>2, FailsInStep
  <2>3. CASE \E eof \in Eof : Continue(m2, eof)
    <3>1. PICK eof \in Eof : Continue(m2, eof)
      BY <2>3
    <3>2. m2 \in Material
      BY <1>3, CipherType DEF Opening
    <3>3. /\ m2.key = sess.m.key /\ m2.suite = sess.m.suite /\ m2.ti = sess.m.ti
          /\ m2.ctr = sess.m.ctr + 1
      BY <1>3, <1>4, AfterCipherFacts DEF Opening
    <3>4. m2.enc = sess.m.enc + Blocks(SealedAnswer)
      BY <1>3, AfterCipherFacts, NumberTypes DEF Opening, Blocks
    <3> HIDE DEF m2
    <3> QED BY <1>1, <1>2, <1>5, <3>1, <3>2, <3>3, <3>4, PerformedInStep
  <2>4. Fails(m) \/ \E eof \in Eof : Continue(m2, eof)
    BY <1>8 DEF ReceiveMact, m
  <2> QED BY <2>2, <2>3, <2>4
<1> QED BY <1>6, <1>7, <1>8

\* What an answer keeps of the request it answers.
LEMMA AnswerFacts ==
  ASSUME TypeOK, NEW what, NEW echo, NEW mac, NEW iv, NEW data,
         Answer(what, echo, mac, iv, data)
  PROVE  /\ wire'.type = "ans" /\ wire'.what = what /\ wire'.n = wire.n
         /\ wire'.mac = mac /\ wire'.suite = wire.suite
  BY DEF Answer, TypeOK, Message

LEMMA TagChallengeInStep ==
  ASSUME IndInv, TypeInv', TagChallenge PROVE InStepInv'
<1> USE DEF IndInv, TypeInv, InStepInv
<1>1. /\ wire.type = "req" /\ wire.what \in Handshake /\ wire.suite = TagSuite
      /\ wire.what = "NonFirst" => tag.st = "auth"
      /\ Answer("af", wire.n, NoMac, NoIv, TRUE)
      /\ UNCHANGED <<sess, call, failed, n>>
      /\ tag' = [tag EXCEPT !.st = "chal", !.chal = wire.n, !.frames = 0,
                            !.first = (wire.what = "First")]
  BY DEF TagChallenge, Asked, Handshake
<1>2. wire'.type = "ans" /\ wire'.what = "af" /\ wire'.n = wire.n
  BY <1>1, AnswerFacts
<1>3. /\ tag'.st = "chal" /\ tag'.frames = 0 /\ tag'.m = tag.m /\ tag'.lrp = tag.lrp
      /\ tag'.first = (wire.what = "First")
  BY <1>1 DEF TypeOK, Tags
<1>4. wire.what = call.cmd /\ call.phase = "wait" /\ call.cmd \in Handshake
      /\ wire.suite = call.suite /\ call.cmd \notin Command
  BY <1>1, NameFacts DEF RequestShape, TypeOK
<1>5. CtrBound' /\ CallShape' /\ RequestShape'
  BY <1>1, <1>2, <1>3, <1>4, NumberTypes DEF CtrBound, CallShape, RequestShape
<1>6. HandshakeShape'
  BY <1>1, <1>2, <1>3, <1>4 DEF HandshakeShape, Proved, TagSuite
<1>7. sess.st = "auth" => call.cmd = "NonFirst" /\ tag.st = "auth"
  BY <1>1, <1>4 DEF CallShape, Handshake
<1>8. OneKey' /\ ChainShape'
  BY <1>1, <1>2, <1>3, <1>4, <1>7 DEF OneKey, ChainShape, Proved
<1>9. Live' => Live /\ Gap(0)
  BY <1>1, <1>7 DEF Live, InStep, Performed
<1>10. InStep'
  BY <1>1, <1>2, <1>3, <1>4, <1>9 DEF InStep, Gap, Performed
<1> QED BY <1>5, <1>6, <1>8, <1>10

LEMMA TagProofInStep ==
  ASSUME IndInv, TypeInv', TagProof PROVE InStepInv'
<1> USE DEF IndInv, TypeInv, InStepInv
<1> DEFINE m  == IF tag.first THEN TagFirstKeys(wire.n) ELSE TagNonFirstKeys(wire.n)
           iv == IF tag.first /\ tag.lrp THEN Iv([m EXCEPT !.enc = 0], "resp") ELSE NoIv
<1>1. /\ wire.type = "req" /\ wire.what = "Part2" /\ tag.st = "chal"
      /\ tag' = [tag EXCEPT !.st = "auth", !.m = m]
      /\ Answer("ok", wire.n, NoMac, iv, TRUE) /\ UNCHANGED <<sess, call, failed, n>>
  BY DEF TagProof, Asked
<1> HIDE DEF iv
<1>2. wire'.type = "ans" /\ wire'.what = "ok" /\ wire'.n = wire.n
  BY <1>1, AnswerFacts
<1>3. call.cmd \in Handshake /\ call.left = 1 /\ call.phase = "wait" /\ wire.n = n
      /\ call.cmd \notin Command
  BY <1>1, NameFacts DEF RequestShape, CallShape, TypeOK
<1>4. tag.first = (call.cmd = "First") /\ TagSuite = call.suite
  BY <1>1, <1>3 DEF HandshakeShape
<1>5. wire.n \in Id
  BY DEF TypeOK, Message
<1>6. m \in Material
  BY <1>5, TagKeysType DEF TypeOK
<1>7. /\ call.cmd = "First" => m = FirstKeys(call.suite, n)
      /\ call.cmd # "First" => m = TagNonFirstKeys(n)
  BY <1>3, <1>4 DEF TagFirstKeys, FirstKeys, TagSuite
<1>8. m.key = n /\ (call.cmd = "First" => m.ctr = 0)
  <2>1. FirstKeys(call.suite, n).key = n /\ FirstKeys(call.suite, n).ctr = 0
    BY DEF FirstKeys
  <2>2. TagNonFirstKeys(n).key = n
    BY NumberTypes DEF TagNonFirstKeys, Material
  <2> HIDE DEF m
  <2> QED BY <1>7, <2>1, <2>2
<1>9. call.cmd # "First" =>
        m.ctr = tag.m.ctr /\ m.enc = 0 /\ m.ti = tag.m.ti /\ m.suite = tag.m.suite
  BY <1>7, NumberTypes DEF TagNonFirstKeys, Material
<1> HIDE DEF m
<1>10. tag'.st = "auth" /\ tag'.m = m /\ tag'.frames = tag.frames /\ tag'.lrp = tag.lrp
  BY <1>1 DEF TypeOK, Tags
<1>11. tag.frames = 0
  BY <1>1, NumberTypes DEF ChainShape
<1>12. CtrBound' /\ CallShape' /\ RequestShape'
  BY <1>1, <1>2, <1>3, <1>8, <1>9, <1>10, NumberTypes
     DEF CtrBound, CallShape, RequestShape
<1>13. HandshakeShape'
  BY <1>1, <1>2, <1>3, <1>7, <1>8, <1>9, <1>10, <1>11 DEF HandshakeShape, Handshake
<1>14. OneKey' /\ ChainShape'
  BY <1>1, <1>2, <1>3, <1>8, <1>10, <1>11 DEF OneKey, ChainShape, Proved
<1>15. Live' => Live /\ call.cmd # "First" /\ Gap(0)
  BY <1>1, <1>3, <1>4, <1>10 DEF Live, CallShape, InStep, Performed
<1>16. InStep'
  BY <1>1, <1>2, <1>3, <1>9, <1>10, <1>15 DEF InStep, Gap, Performed
<1> QED BY <1>12, <1>13, <1>14, <1>16

\* What a step of the PICC that serves a command keeps.
LEMMA ServesInStep ==
  ASSUME IndInv, TypeInv', wire.type = "req", wire'.type = "ans", wire'.n = wire.n,
         call.cmd \in Command, UNCHANGED <<sess, call, failed, n>>,
         tag'.st \in {tag.st, "idle"}, tag'.m.key = tag.m.key, tag'.m.ctr <= n,
         tag'.frames = 0 \/ (call.cmd = "GetVersion" /\ ~Performed'
                             /\ tag'.st = "auth" /\ tag'.m.ctr = sess.m.ctr)
  PROVE  /\ CtrBound' /\ CallShape' /\ RequestShape' /\ HandshakeShape' /\ OneKey'
         /\ ChainShape' /\ sess.st = "auth"
         /\ Live' => /\ Live /\ sess.m.suite = tag.m.suite /\ sess.m.ti = tag.m.ti
                     /\ sess.m.ctr <= tag.m.ctr /\ tag.m.ctr <= sess.m.ctr + failed
                     /\ tag.st = "auth"
                     /\ sess.m.enc = tag.m.enc + Blocks(SealedCommand)
<1> USE DEF IndInv, TypeInv, InStepInv
<1>1. call.cmd \notin Handshake /\ call.phase = "wait" /\ call.cmd # "NonFirst"
      /\ call.cmd # "First"
  BY NameFacts DEF TypeOK, Handshake
<1>2. sess.st = "auth"
  BY <1>1 DEF CallShape
<1>3. CtrBound' /\ CallShape' /\ RequestShape'
  BY <1>1, NumberTypes DEF CtrBound, CallShape, RequestShape
<1>4. HandshakeShape' /\ OneKey'
  BY <1>1 DEF HandshakeShape, OneKey, Proved
<1>5. ChainShape'
  BY DEF ChainShape
<1>6. tag.st # "chal"
  BY <1>1, <1>2 DEF OneKey
<1>7. Live' => Live /\ tag.st = "auth"
  BY <1>2, <1>6 DEF Live
<1>8. Live => /\ sess.m.suite = tag.m.suite /\ sess.m.ti = tag.m.ti
              /\ sess.m.ctr <= tag.m.ctr /\ tag.m.ctr <= sess.m.ctr + failed
              /\ sess.m.enc = tag.m.enc + Blocks(SealedCommand)
  BY <1>1, NumberTypes DEF InStep, Gap, EncInStep, Performed
<1> QED BY <1>2, <1>3, <1>4, <1>5, <1>7, <1>8

LEMMA TagPlainInStep ==
  ASSUME IndInv, TypeInv', TagPlain PROVE InStepInv'
<1> USE DEF IndInv, TypeInv, InStepInv
<1> DEFINE m == IF tag.st = "auth" THEN Advance(tag.m) ELSE tag.m
<1>1. /\ wire.type = "req" /\ wire.what \in PlainCommand
      /\ Answer("ok", 0, NoMac, NoIv, wire.what = "ReadPlain")
      /\ UNCHANGED <<sess, call, failed, n>>
      /\ tag' = [tag EXCEPT !.m = m, !.frames = 0]
  BY DEF TagPlain
<1>2. wire'.type = "ans" /\ wire'.what = "ok" /\ wire'.n = wire.n
  BY <1>1, AnswerFacts
<1>3. call.cmd \in PlainCommand /\ call.cmd \in Command
  BY <1>1, NameFacts DEF RequestShape, CallShape, TypeOK
<1>4. tag'.st = tag.st /\ tag'.m = m /\ tag'.frames = 0
  BY <1>1 DEF TypeOK, Tags
<1>5. /\ m.key = tag.m.key /\ m.enc = tag.m.enc /\ m.suite = tag.m.suite
      /\ m.ti = tag.m.ti /\ m.ctr <= n
      /\ tag.st = "auth" => m.ctr = tag.m.ctr + 1
  BY <1>1, NoWrap, NumberTypes DEF CtrBound
<1> HIDE DEF m
<1>6. /\ CtrBound' /\ CallShape' /\ RequestShape' /\ HandshakeShape' /\ OneKey'
      /\ ChainShape'
      /\ Live' => /\ Live /\ sess.m.suite = tag.m.suite /\ sess.m.ti = tag.m.ti
                  /\ sess.m.ctr <= tag.m.ctr /\ tag.m.ctr <= sess.m.ctr + failed
                  /\ tag.st = "auth"
                  /\ sess.m.enc = tag.m.enc + Blocks(SealedCommand)
  BY <1>1, <1>2, <1>3, <1>4, <1>5, ServesInStep
<1>7. Performed'
  BY <1>1, <1>2, <1>3 DEF Performed
<1>8. Live' => Gap(1)'
  BY <1>1, <1>4, <1>5, <1>6, NumberTypes DEF Gap
<1>9. Live' => EncInStep'
  BY <1>1, <1>2, <1>3, <1>4, <1>5, <1>6, <1>7, NameFacts, NumberTypes
     DEF EncInStep, Blocks
<1>10. InStep'
  BY <1>1, <1>3, <1>7, <1>8, <1>9 DEF InStep
<1> QED BY <1>6, <1>10

LEMMA TagOpensChainInStep ==
  ASSUME IndInv, TypeInv', TagOpensChain PROVE InStepInv'
<1> USE DEF IndInv, TypeInv, InStepInv
<1>1. /\ wire.type = "req" /\ wire.what = "GetVersion" /\ TagAuthentic
      /\ Answer("af", 0, NoMac, NoIv, TRUE) /\ UNCHANGED <<sess, call, failed, n>>
      /\ tag' = [tag EXCEPT !.frames = 2]
  BY DEF TagOpensChain, Asked
<1>2. wire'.type = "ans" /\ wire'.what = "af" /\ wire'.n = wire.n
  BY <1>1, AnswerFacts
<1>3. call.cmd = "GetVersion" /\ call.cmd \in Command
  BY <1>1, NameFacts DEF RequestShape, CallShape, TypeOK
<1>4. tag'.st = tag.st /\ tag'.m = tag.m /\ tag'.frames = 2 /\ tag.st = "auth"
  BY <1>1 DEF TypeOK, Tags, TagAuthentic
<1>5. tag.m.ctr = sess.m.ctr
  BY <1>1, <1>3, NameFacts DEF TagAuthentic, RequestShape, MacOver
<1>6. ~Performed'
  BY <1>2 DEF Performed
<1>7. tag.m.ctr <= n
  BY DEF CtrBound
<1>8. /\ CtrBound' /\ CallShape' /\ RequestShape' /\ HandshakeShape' /\ OneKey'
      /\ ChainShape'
      /\ Live' => /\ Live /\ sess.m.suite = tag.m.suite /\ sess.m.ti = tag.m.ti
                  /\ sess.m.ctr <= tag.m.ctr /\ tag.m.ctr <= sess.m.ctr + failed
                  /\ tag.st = "auth"
                  /\ sess.m.enc = tag.m.enc + Blocks(SealedCommand)
  BY <1>1, <1>2, <1>3, <1>4, <1>5, <1>6, <1>7, ServesInStep
<1>9. Live' => Gap(0)' /\ EncInStep'
  BY <1>1, <1>2, <1>3, <1>4, <1>6, <1>8, NameFacts, NumberTypes
     DEF Gap, EncInStep, Blocks
<1>10. InStep'
  BY <1>6, <1>9 DEF InStep
<1> QED BY <1>8, <1>10

LEMMA TagNextFrameInStep ==
  ASSUME IndInv, TypeInv', TagNextFrame PROVE InStepInv'
<1> USE DEF IndInv, TypeInv, InStepInv
<1> DEFINE last == tag.frames = 1
           m == IF last THEN Advance(tag.m) ELSE tag.m
<1>1. /\ wire.type = "req" /\ wire.what = "More" /\ tag.st = "auth" /\ tag.frames > 0
      /\ UNCHANGED <<sess, call, failed, n>>
      /\ tag' = [tag EXCEPT !.frames = @ - 1, !.m = m]
  BY DEF TagNextFrame, Asked
<1>2. wire'.type = "ans" /\ wire'.n = wire.n /\ wire'.what = IF last THEN "ok" ELSE "af"
  <2>1. CASE last
    BY <2>1, AnswerFacts DEF TagNextFrame
  <2>2. CASE ~last
    BY <2>2, AnswerFacts DEF TagNextFrame
  <2> QED BY <2>1, <2>2
<1>3. call.cmd = "GetVersion" /\ call.cmd \in Command
  BY <1>1, NameFacts DEF RequestShape, CallShape, TypeOK
<1>4. /\ tag'.st = tag.st /\ tag'.m = m /\ tag'.frames = tag.frames - 1
      /\ tag.frames \in {1, 2}
  BY <1>1 DEF TypeOK, Tags
<1>5. /\ m.key = tag.m.key /\ m.enc = tag.m.enc /\ m.suite = tag.m.suite
      /\ m.ti = tag.m.ti /\ m.ctr <= n
      /\ m.ctr = tag.m.ctr + (IF last THEN 1 ELSE 0)
  BY <1>1, NoWrap, NumberTypes DEF CtrBound
<1> HIDE DEF m
<1>6. sess.st = "auth" /\ tag.m.ctr = sess.m.ctr
  BY <1>1, <1>3, NameFacts DEF ChainShape, CallShape, TypeOK
<1>7. Performed' <=> last
  BY <1>1, <1>2, <1>3 DEF Performed
<1>8. /\ CtrBound' /\ CallShape' /\ RequestShape' /\ HandshakeShape' /\ OneKey'
      /\ ChainShape'
      /\ Live' => /\ Live /\ sess.m.suite = tag.m.suite /\ sess.m.ti = tag.m.ti
                  /\ sess.m.ctr <= tag.m.ctr /\ tag.m.ctr <= sess.m.ctr + failed
                  /\ tag.st = "auth"
                  /\ sess.m.enc = tag.m.enc + Blocks(SealedCommand)
  BY <1>1, <1>2, <1>3, <1>4, <1>5, <1>6, <1>7, NumberTypes, ServesInStep
<1>9. Live' => (last => Gap(1)') /\ (~last => Gap(0)')
  BY <1>1, <1>4, <1>5, <1>6, <1>8, NumberTypes DEF Gap
<1>10. Live' => EncInStep' /\ tag'.m.ctr = sess'.m.ctr + (IF last THEN 1 ELSE 0)
  BY <1>1, <1>2, <1>3, <1>4, <1>5, <1>6, <1>7, <1>8, NameFacts, NumberTypes
     DEF EncInStep, Blocks
<1>11. CASE last
  <2>1. InStep'
    BY <1>7, <1>9, <1>10, <1>11 DEF InStep
  <2> QED BY <1>8, <2>1
<1>12. CASE ~last
  <2>1. InStep'
    BY <1>7, <1>9, <1>10, <1>12 DEF InStep
  <2> QED BY <1>8, <2>1
<1> QED BY <1>11, <1>12

LEMMA TagSecuredInStep ==
  ASSUME IndInv, TypeInv', TagSecured PROVE InStepInv'
<1> USE DEF IndInv, TypeInv, InStepInv
<1> DEFINE opened == IF wire.what \in SealedCommand THEN AfterCipher(tag.m) ELSE tag.m
           m  == Advance(opened)
           m2 == IF wire.what \in SealedAnswer THEN AfterCipher(m) ELSE m
           iv == IF wire.what \in SealedAnswer THEN Iv(m, "resp") ELSE NoIv
           st == IF wire.what \in EndsSession THEN "idle" ELSE tag.st
           b  == tag.lrp \/ wire.what = "EnableLrp"
<1>1. /\ wire.type = "req" /\ wire.what \in Command \ (PlainCommand \union {"GetVersion"})
      /\ TagAuthentic /\ UNCHANGED <<sess, call, failed, n>>
      /\ \E mac : Answer("ok", 0, mac, iv, wire.what \notin SealedCommand \union {"WriteMac"})
      /\ tag' = [tag EXCEPT !.m = m2, !.frames = 0, !.lrp = b, !.st = st]
  BY DEF TagSecured
<1> HIDE DEF iv
<1>2. wire'.type = "ans" /\ wire'.what = "ok" /\ wire'.n = wire.n
  BY <1>1, AnswerFacts
<1>3. wire.what = call.cmd /\ call.cmd \in Command \ PlainCommand
      /\ call.cmd # "GetVersion"
  BY <1>1, NameFacts DEF RequestShape
<1>4. /\ tag.m \in Material /\ tag.m.ctr < n /\ opened \in Material
      /\ opened.key = tag.m.key /\ opened.suite = tag.m.suite /\ opened.ti = tag.m.ti
      /\ opened.ctr = tag.m.ctr
      /\ opened.enc = tag.m.enc
            + (IF call.cmd \in SealedCommand /\ tag.m.suite = "LRP" THEN 1 ELSE 0)
  BY <1>1, <1>3, NumberTypes, CipherType, AfterCipherFacts DEF CtrBound
<1> HIDE DEF opened
<1>5. /\ m \in Material /\ m.key = tag.m.key /\ m.suite = tag.m.suite
      /\ m.ti = tag.m.ti /\ m.ctr = tag.m.ctr + 1 /\ m.enc = opened.enc
  BY <1>4, NumberTypes, AdvanceType DEF Advance, Succ, Material
<1> HIDE DEF m
<1>6. /\ m2.key = tag.m.key /\ m2.suite = tag.m.suite /\ m2.ti = tag.m.ti
      /\ m2.ctr = tag.m.ctr + 1 /\ m2.ctr <= n
      /\ m2.enc = opened.enc
            + (IF call.cmd \in SealedAnswer /\ tag.m.suite = "LRP" THEN 1 ELSE 0)
  BY <1>3, <1>4, <1>5, NumberTypes, AfterCipherFacts DEF Material
<1> HIDE DEF m2
<1>7. tag'.st = st /\ tag'.m = m2 /\ tag'.frames = 0
  BY <1>1 DEF TypeOK, Tags
<1>8. tag.m.ctr = sess.m.ctr
  BY <1>1, <1>3, NameFacts DEF TagAuthentic, RequestShape, MacOver
<1>9. Performed'
  BY <1>1, <1>2, <1>3 DEF Performed
<1>10. /\ CtrBound' /\ CallShape' /\ RequestShape' /\ HandshakeShape' /\ OneKey'
       /\ ChainShape'
       /\ Live' => /\ Live /\ sess.m.suite = tag.m.suite /\ sess.m.ti = tag.m.ti
                   /\ sess.m.ctr <= tag.m.ctr /\ tag.m.ctr <= sess.m.ctr + failed
                   /\ tag.st = "auth"
                   /\ sess.m.enc = tag.m.enc + Blocks(SealedCommand)
  BY <1>1, <1>2, <1>3, <1>6, <1>7, ServesInStep
<1>11. Live' => Gap(1)' /\ tag'.m.ctr = sess'.m.ctr + 1
  BY <1>1, <1>6, <1>7, <1>8, <1>10, NumberTypes DEF Gap
<1>12. Live' => opened.enc = sess.m.enc
  BY <1>4, <1>10, NumberTypes DEF Blocks
<1>13. Live' => tag'.m.enc = sess'.m.enc + Blocks(SealedAnswer)'
  BY <1>1, <1>6, <1>7, <1>10, <1>12, NumberTypes DEF Blocks
<1>14. Live' => EncInStep'
  BY <1>2, <1>9, <1>13 DEF EncInStep
<1>15. InStep'
  BY <1>9, <1>11, <1>14 DEF InStep
<1> QED BY <1>10, <1>15

LEMMA TagRefuseInStep ==
  ASSUME IndInv, TypeInv', TagRefuse PROVE InStepInv'
<1> USE DEF IndInv, TypeInv, InStepInv
<1>1. PICK st \in {"idle", IF tag.st = "auth" THEN "auth" ELSE "idle"} :
           tag' = [tag EXCEPT !.st = st, !.frames = 0]
  BY DEF TagRefuse
<1>2. /\ wire.type = "req" /\ UNCHANGED <<sess, call, failed, n>>
      /\ Answer("err", 0, NoMac, NoIv, FALSE)
  BY DEF TagRefuse
<1>3. wire'.type = "ans" /\ wire'.what = "err" /\ wire'.n = wire.n
  BY <1>2, AnswerFacts
<1>4. tag'.st = st /\ tag'.m = tag.m /\ tag'.frames = 0
  BY <1>1 DEF TypeOK, Tags
<1>5. call.phase = "wait"
  BY <1>2 DEF TypeOK
<1>6. ~Performed' /\ ~Proved' /\ ~Performed /\ ~Proved
  BY <1>2, <1>3 DEF Performed, Proved
<1>7. CtrBound' /\ CallShape' /\ RequestShape'
  BY <1>2, <1>3, <1>4, <1>5, NumberTypes DEF CtrBound, CallShape, RequestShape
<1>8. HandshakeShape' /\ OneKey' /\ ChainShape'
  BY <1>2, <1>4, <1>6 DEF HandshakeShape, OneKey, ChainShape
<1>9. Live' => Live
  BY <1>2, <1>4 DEF Live
<1>10. Live => Gap(0)'
  BY <1>2, <1>4, <1>6 DEF InStep, Gap
<1>11. (Live /\ call.cmd \notin Handshake) => EncInStep'
  BY <1>2, <1>3, <1>4, <1>6, NumberTypes DEF InStep, EncInStep, Blocks
<1>12. InStep'
  BY <1>2, <1>6, <1>9, <1>10, <1>11 DEF InStep
<1> QED BY <1>7, <1>8, <1>12

LEMMA TagPowerCycleInStep ==
  ASSUME IndInv, TypeInv', TagPowerCycle PROVE InStepInv'
<1> USE DEF IndInv, TypeInv, InStepInv
<1>1. /\ tag' = [tag EXCEPT !.st = "idle", !.frames = 0]
      /\ UNCHANGED <<sess, call, failed, wire, n>>
  BY DEF TagPowerCycle
<1>2. tag'.st = "idle" /\ tag'.m = tag.m /\ tag'.frames = 0
  BY <1>1 DEF TypeOK, Tags
<1>3. CtrBound' /\ CallShape' /\ RequestShape'
  BY <1>1, <1>2 DEF CtrBound, CallShape, RequestShape
<1>4. HandshakeShape' /\ OneKey' /\ ChainShape' /\ InStep'
  BY <1>1, <1>2 DEF HandshakeShape, OneKey, ChainShape, InStep, Proved, Live
<1> QED BY <1>3, <1>4

LEMMA InStepInit == Init => InStepInv
<1> SUFFICES ASSUME Init PROVE InStepInv
  OBVIOUS
<1>1. /\ call = Idle /\ wire = NoMsg /\ sess = FreshSession /\ tag.st = "idle"
      /\ tag.m = Keyless /\ tag.frames = 0 /\ n = 0
  BY DEF Init
<1>2. /\ call.phase = "none" /\ call.cmd = "none" /\ wire.type = "none"
      /\ sess.st = "unauth" /\ sess.m.ctr = 0 /\ tag.m.ctr = 0
  BY <1>1, FreshFacts, ConstantTypes DEF Idle
<1>3. CallBound /\ CtrBound /\ CallShape /\ RequestShape
  BY <1>1, <1>2 DEF CallBound, CtrBound, CallShape, RequestShape
<1>4. HandshakeShape /\ OneKey /\ ChainShape /\ InStep
  BY <1>1, <1>2 DEF HandshakeShape, OneKey, ChainShape, InStep, Proved, Handshake, Live
<1> QED BY <1>3, <1>4 DEF InStepInv

LEMMA InStepStep ==
  ASSUME ReaderRepeats = FALSE, IndInv, [Next]_vars PROVE IndInv'
<1>1. TypeInv'
  BY TypeStep DEF IndInv
<1>2. InStepInv'
  <2>1. CASE Caller
    BY <1>1, <2>1, NewSessionInStep, AuthenticateInStep, BeginInStep DEF Caller
  <2>2. CASE Receive \/ TransportError
    BY <1>1, <2>2, ErrorInStep, ChallengeInStep, ProofInStep, FrameInStep, AnswerInStep
       DEF Receive
  <2>3. CASE TagServes \/ TagPowerCycle
    BY <1>1, <2>3, TagChallengeInStep, TagProofInStep, TagPlainInStep,
       TagOpensChainInStep, TagNextFrameInStep, TagSecuredInStep, TagRefuseInStep,
       TagPowerCycleInStep
       DEF TagServes
  <2>4. CASE UNCHANGED vars
    BY <2>4 DEF vars, IndInv, InStepInv, CallBound, CtrBound, CallShape, RequestShape,
       HandshakeShape, OneKey, ChainShape, InStep, Proved, Performed, Live, Gap,
       EncInStep, Blocks, TagSuite
  <2> QED BY <1>1, <2>1, <2>2, <2>3, <2>4, SendInStep DEF Next, RepeatAnswer
<1> QED BY <1>1, <1>2 DEF IndInv

LEMMA IndInvCounters == IndInv => CountersAgree
<1> SUFFICES ASSUME IndInv, call = Idle, SameKeys
             PROVE  /\ sess.m.suite = tag.m.suite /\ sess.m.ti = tag.m.ti
                    /\ sess.m.enc = tag.m.enc /\ sess.m.ctr <= tag.m.ctr
                    /\ tag.m.ctr <= sess.m.ctr + failed
  BY DEF CountersAgree
<1>1. wire.type = "none" /\ call.cmd \notin Handshake /\ Live
  BY IdleFacts DEF IndInv, TypeInv, SameKeys, Live
<1> QED BY <1>1, NumberTypes DEF IndInv, TypeInv, InStepInv, InStep, Gap, EncInStep, Performed

\* With a reader that does not repeat answers, the two ends of a session agree
\* between calls on suite, TI and EncCtr, and the PICC is ahead of the host's
\* CmdCtr by no more than the borrowed plain calls that failed.
THEOREM CountersCorrect ==
  ASSUME ReaderRepeats = FALSE PROVE Spec => []CountersAgree
<1>1. Init => IndInv
  BY TypeInit, InStepInit DEF IndInv
<1>2. IndInv /\ [Next]_vars => IndInv'
  BY InStepStep
<1> QED BY <1>1, <1>2, IndInvCounters, PTL DEF Spec

-----------------------------------------------------------------------------
(* Confirmed answers *)

\* A handler that confirms is the one that verifies a MACt, and it goes on.
LEMMA ConfirmingStep ==
  ASSUME TypeInv, CallRuns, [Next]_vars, Confirms PROVE ReceiveMact
<1> USE DEF TypeInv
<1>1. /\ wire.type = "ans" /\ wire.mac # NoMac /\ call.cmd \notin PlainCommand
      /\ sess.st = "auth" /\ sess'.st = "auth" /\ sess'.m.ctr # sess.m.ctr
      /\ call # Idle /\ ~CanSend
  BY IdleFacts DEF Confirms, CanSend, TypeOK
<1>2. CASE Caller
  BY <1>1, <1>2 DEF Caller, NewSession, AuthenticateFirst, AuthenticateNonFirst, Begin
<1>3. CASE Send
  BY <1>1, <1>3 DEF Send, SendHandshake, SendPlain, SendMore, SendSecured
<1>4. CASE TagServes \/ TagPowerCycle \/ RepeatAnswer \/ UNCHANGED vars
  BY <1>1, <1>4 DEF TagServes, TagChallenge, TagProof, TagPlain, TagOpensChain, TagNextFrame,
     TagSecured, TagRefuse, TagPowerCycle, RepeatAnswer, vars
<1>5. ASSUME Fails(sess.m) PROVE FALSE
  BY <1>1, <1>5, SessMaterial, FreshFacts DEF Fails
<1>6. CASE TransportError \/ ReceiveStatusError
  BY <1>5, <1>6 DEF TransportError, ReceiveStatusError
<1>7. CASE ReceiveChallenge
  BY <1>1, <1>5, <1>7 DEF ReceiveChallenge
<1>8. CASE ReceiveFrame
  BY <1>1, <1>5, <1>8, SessMaterial, FreshFacts DEF ReceiveFrame, Continue
<1>9. CASE ReceiveProof
  <2>1. call.cmd = "NonFirst"
    BY <1>1, <1>9 DEF ReceiveProof, Waiting, Handshake
  <2>2. sess' = Authed(NonFirstKeys(sess.m, n))
    BY <1>5, <1>9, <2>1 DEF ReceiveProof
  <2>3. NonFirstKeys(sess.m, n) \in Material /\ NonFirstKeys(sess.m, n).ctr = sess.m.ctr
    BY SessMaterial DEF NonFirstKeys, Material, TypeOK
  <2> QED BY <1>1, <2>2, <2>3, FreshFacts
<1>10. CASE ReceivePlain \/ ReceiveUnsigned
  BY <1>1, <1>10 DEF ReceivePlain, ReceiveUnsigned, Empty
<1> QED BY <1>2, <1>3, <1>4, <1>6, <1>7, <1>8, <1>9, <1>10 DEF Next, Receive

\* Key material has no field but these five.
LEMMA MaterialEqual ==
  ASSUME NEW a \in Material, NEW b \in Material, a.suite = b.suite, a.key = b.key,
         a.ti = b.ti, a.ctr = b.ctr, a.enc = b.enc
  PROVE  a = b
  BY DEF Material

\* At that moment the PICC has performed the command, so both ends have counted it.
LEMMA ConfirmedStep ==
  ASSUME ReaderRepeats = FALSE, IndInv, [Next]_vars, Confirms, SameKeys
  PROVE  sess'.m = tag.m
<1> USE DEF IndInv, TypeInv
<1>1. /\ ReceiveMact /\ Waiting("ok") /\ call.cmd \in Command \ PlainCommand
      /\ sess'.st = "auth" /\ sess.st = "auth" /\ tag.st = "auth" /\ sess.m.key = tag.m.key
  BY ConfirmingStep DEF ReceiveMact, Confirms, SameKeys, InStepInv, CallShape
<1>2. Performed /\ call.cmd \notin Handshake /\ ~call.keep
  BY <1>1, NameFacts DEF Performed, Waiting, InStepInv, CallShape
<1> DEFINE m == Advance(sess.m)
           m2 == IF call.cmd \in SealedAnswer THEN Opening(m) ELSE m
<1>3. /\ m \in Material /\ m.key = sess.m.key /\ m.suite = sess.m.suite
      /\ m.ti = sess.m.ti /\ m.enc = sess.m.enc
  BY SessMaterial, AdvanceType, NoWrap
<1>4. m.ctr = sess.m.ctr + 1
  BY <1>1, NoWrap DEF InStepInv, CtrBound, Waiting
<1>5. Fails(m) \/ \E eof \in Eof : Continue(m2, eof)
  BY <1>1 DEF ReceiveMact
<1> HIDE DEF m
<1>6. /\ m2 \in Material /\ m2.key = sess.m.key /\ m2.suite = sess.m.suite
      /\ m2.ti = sess.m.ti /\ m2.ctr = sess.m.ctr + 1
  BY <1>3, <1>4, CipherType, AfterCipherFacts DEF Opening
<1>7. m2.enc = sess.m.enc + Blocks(SealedAnswer)
  BY <1>3, AfterCipherFacts, NumberTypes DEF Opening, Blocks
<1> HIDE DEF m2
<1>8. ~Fails(m)
  BY <1>1, <1>2, FreshFacts DEF Fails
<1>9. PICK eof \in Eof : Continue(m2, eof)
  BY <1>5, <1>8
<1>10. sess'.m = m2
  BY <1>1, <1>6, <1>9, FreshFacts DEF Continue
<1>11. /\ tag.m.suite = sess.m.suite /\ tag.m.ti = sess.m.ti /\ tag.m.ctr = sess.m.ctr + 1
       /\ tag.m.enc = sess.m.enc + Blocks(SealedAnswer)
  BY <1>1, <1>2 DEF InStepInv, InStep, Live, Gap, EncInStep
<1>12. tag.m \in Material
  BY NumberTypes
<1> QED BY <1>1, <1>6, <1>7, <1>10, <1>11, <1>12, MaterialEqual

\* With a reader that does not repeat answers, a verified answer leaves both
\* ends with the same keys, TI, CmdCtr and EncCtr: what the host confirms, the
\* PICC has done at that count, whatever plain calls failed before.
THEOREM ConfirmedCorrect ==
  ASSUME ReaderRepeats = FALSE PROVE Spec => ConfirmedInStep
<1>1. Init => IndInv
  BY TypeInit, InStepInit DEF IndInv
<1>2. IndInv /\ [Next]_vars => IndInv'
  BY InStepStep
<1>3. IndInv /\ [Next]_vars => [(Confirms /\ SameKeys) => sess'.m = tag.m]_vars
  BY ConfirmedStep
<1> QED BY <1>1, <1>2, <1>3, PTL DEF Spec, ConfirmedInStep

-----------------------------------------------------------------------------
(* Requests that the PICC has to accept *)

\* The initialisation vector that the payload on the wire was sealed under.
SealedUnder ==
  IF sess.m.suite = "AES"
    THEN [key |-> sess.m.key, dir |-> "cmd", ti |-> sess.m.ti, ctr |-> sess.m.ctr]
    ELSE [key |-> sess.m.key, dir |-> "enc", ti |-> 0, ctr |-> sess.m.enc - 1]

\* A request with a MAC carries that of the session it was sent in.
CoverShape ==
  wire.type = "req" /\ wire.mac # NoMac =>
    /\ sess.st = "auth" /\ call.cmd \in Command \ PlainCommand /\ wire.what = call.cmd
    /\ wire.mac = MacOver(sess.m, "cmd")
    /\ wire.what \in SealedCommand => wire.iv = SealedUnder

LEMMA SecuredCover ==
  ASSUME IndInv, SendSecured PROVE CoverShape'
<1> USE DEF IndInv, TypeInv
<1> DEFINE seals == call.cmd \in SealedCommand
           iv == IF seals THEN Iv(sess.m, "cmd") ELSE NoIv
           m == IF seals THEN Sealing(sess.m) ELSE sess.m
<1>1. /\ CanSend /\ call.cmd \in Command \ PlainCommand
      /\ Put(Request(call.cmd, 0, MacOver(m, "cmd"), iv)) /\ sess' = Authed(m)
  BY DEF SendSecured
<1>2. m \in Material
  BY SessMaterial, CipherType DEF Sealing
<1>3. /\ m.key = sess.m.key /\ m.suite = sess.m.suite /\ m.ti = sess.m.ti
      /\ m.ctr = sess.m.ctr
      /\ seals /\ m.suite = "LRP" => m.enc = sess.m.enc + 1
  BY SessMaterial, AfterCipherFacts DEF Sealing
<1>4. seals => iv = IF m.suite = "AES"
                      THEN [key |-> m.key, dir |-> "cmd", ti |-> m.ti, ctr |-> m.ctr]
                      ELSE [key |-> m.key, dir |-> "enc", ti |-> 0, ctr |-> m.enc - 1]
  <2>1. m.suite \in {"AES", "LRP"} /\ sess.m.enc \in Nat
    BY <1>2, NumberTypes DEF Material, Suite
  <2>2. m.suite = "LRP" /\ seals => m.enc - 1 = sess.m.enc
    BY <1>3, <2>1
  <2> HIDE DEF m
  <2> QED BY <1>3, <2>1, <2>2 DEF Iv
<1> HIDE DEF m, iv
<1>5. sess'.st = "auth" /\ sess'.m = m
  BY <1>1, <1>2, FreshFacts
<1>6. /\ wire'.mac = MacOver(m, "cmd") /\ wire'.what = call.cmd /\ call'.cmd = call.cmd
  BY <1>1, PutFacts
<1>7. wire'.iv = iv
  BY <1>1 DEF Put, Request
<1> QED BY <1>1, <1>4, <1>5, <1>6, <1>7 DEF CoverShape, SealedUnder, MacOver

LEMMA CoverStep ==
  ASSUME IndInv, CoverShape, [Next]_vars PROVE CoverShape' \/ ReaderRepeats
<1> SUFFICES ASSUME ~ReaderRepeats PROVE CoverShape'
  OBVIOUS
<1> USE DEF IndInv, TypeInv
<1>1. CASE Caller
  <2>1. call = Idle /\ UNCHANGED wire
    BY <1>1 DEF Caller, NewSession, AuthenticateFirst, AuthenticateNonFirst, Begin
  <2> QED BY <2>1, IdleFacts DEF CoverShape
<1>2. CASE SendHandshake \/ SendPlain \/ SendMore
  <2>1. wire'.mac = NoMac
    BY <1>2 DEF SendHandshake, SendPlain, SendMore, Put, Request
  <2> QED BY <2>1 DEF CoverShape
<1>3. CASE Receive \/ TransportError
  <2>1. wire' = NoMsg
    BY <1>3 DEF Receive, ReceiveStatusError, ReceiveChallenge, ReceiveProof, ReceivePlain,
       ReceiveFrame, ReceiveUnsigned, ReceiveMact, TransportError, TakeAnswer
  <2> QED BY <2>1, ConstantTypes DEF CoverShape
<1>4. CASE TagServes
  <2>1. \E what, echo, mac, iv, data : Answer(what, echo, mac, iv, data)
    BY <1>4 DEF TagServes, TagChallenge, TagProof, TagPlain, TagOpensChain,
       TagNextFrame, TagSecured, TagRefuse
  <2>2. wire'.type = "ans"
    BY <2>1, AnswerFacts
  <2> QED BY <2>2 DEF CoverShape
<1>5. CASE TagPowerCycle \/ UNCHANGED vars
  BY <1>5 DEF TagPowerCycle, vars, CoverShape, SealedUnder
<1> QED BY <1>1, <1>2, <1>3, <1>4, <1>5, SecuredCover DEF Next, Send, RepeatAnswer

LEMMA CoverRejection == IndInv /\ CoverShape => NoSpuriousRejection
<1> SUFFICES ASSUME IndInv, CoverShape, wire.type = "req", wire.mac # NoMac, failed = 0,
                    tag.st = "auth", wire.mac.key = tag.m.key
             PROVE  /\ wire.mac = MacOver(tag.m, "cmd")
                    /\ wire.what \in SealedCommand => wire.iv = Iv(tag.m, "cmd")
  BY DEF NoSpuriousRejection
<1> USE DEF IndInv, TypeInv
<1>1. /\ sess.st = "auth" /\ call.cmd \in Command \ PlainCommand /\ wire.what = call.cmd
      /\ wire.mac = MacOver(sess.m, "cmd")
      /\ wire.what \in SealedCommand => wire.iv = SealedUnder
  BY DEF CoverShape
<1>2. Live /\ ~Performed /\ call.cmd \notin Handshake
  BY <1>1, NameFacts DEF Live, Performed
<1>3. /\ sess.m.suite = tag.m.suite /\ sess.m.ti = tag.m.ti /\ sess.m.ctr = tag.m.ctr
      /\ sess.m.key = tag.m.key
      /\ sess.m.enc = tag.m.enc + Blocks(SealedCommand)
  BY <1>1, <1>2, NumberTypes DEF InStepInv, InStep, Gap, EncInStep, MacOver
<1>4. wire.mac = MacOver(tag.m, "cmd")
  BY <1>1, <1>3 DEF MacOver
<1>5. ASSUME wire.what \in SealedCommand PROVE wire.iv = Iv(tag.m, "cmd")
  <2>1. tag.m.suite = "LRP" => sess.m.enc - 1 = tag.m.enc
    BY <1>1, <1>3, <1>5, NumberTypes DEF Blocks
  <2>2. tag.m.suite \in {"AES", "LRP"}
    BY NumberTypes DEF Material, Suite
  <2> QED BY <1>1, <1>3, <1>5, <2>1, <2>2 DEF SealedUnder, Iv
<1> QED BY <1>4, <1>5

\* With a reader that does not repeat answers, a session none of whose plain
\* calls has failed never sends a request that the PICC, still in that session,
\* would have to refuse for its MAC or decipher under another vector.
THEOREM RejectionCorrect ==
  ASSUME ReaderRepeats = FALSE PROVE Spec => []NoSpuriousRejection
<1>1. Init => IndInv /\ CoverShape
  BY TypeInit, InStepInit, ConstantTypes DEF IndInv, Init, CoverShape
<1>2. IndInv /\ CoverShape /\ [Next]_vars => (IndInv /\ CoverShape)'
  BY InStepStep, CoverStep
<1> QED BY <1>1, <1>2, CoverRejection, PTL DEF Spec

\* The strengthening itself: in the middle of every call, counters, keys and the
\* message on the wire belong together.
THEOREM InStepCorrect ==
  ASSUME ReaderRepeats = FALSE PROVE Spec => []InStepInv
<1>1. Init => IndInv
  BY TypeInit, InStepInit DEF IndInv
<1>2. IndInv /\ [Next]_vars => IndInv'
  BY InStepStep
<1>3. IndInv => InStepInv
  BY DEF IndInv
<1> QED BY <1>1, <1>2, <1>3, PTL DEF Spec

-----------------------------------------------------------------------------
(* Initialisation vectors *)

\* No key is used before the APDU that it is named for, and a request that may
\* become the proof of a handshake finds its name unused.
KeyBound ==
  /\ sess.m.key <= n /\ tag.m.key <= n
  /\ \A iv \in sealed : iv.key <= n /\ (wire.type = "req" => iv.key < n)

\* All that the new key has encrypted by the end of a handshake is PICCData.
ProofIvs ==
  Proved => \A iv \in sealed : iv.key = n =>
    call.cmd = "First" /\ call.suite = "LRP" /\ iv.dir = "enc" /\ iv.ctr = 0

\* What was sealed under the keys of the session lies behind its counters, except
\* for the APDU in flight.
HostIvs ==
  sess.st = "auth" => \A iv \in sealed : iv.key = sess.m.key =>
    /\ iv.dir = "cmd" =>
         /\ iv.ctr <= sess.m.ctr
         /\ iv.ctr = sess.m.ctr => call.phase = "wait" /\ call.cmd \in SealedCommand
    /\ iv.dir = "enc" =>
         /\ iv.ctr <= sess.m.enc
         /\ iv.ctr = sess.m.enc =>
              Performed /\ call.cmd \in SealedAnswer /\ sess.m.suite = "LRP"

\* An answer is sealed at the count it leaves the PICC with.
TagIvs ==
  \A iv \in sealed : iv.key = tag.m.key /\ iv.dir = "resp" => iv.ctr <= tag.m.ctr

Ivs   == KeyBound /\ ProofIvs /\ HostIvs /\ TagIvs
IvInv == IndInv /\ Ivs

\* The action of NoIvReuse.
FreshIv ==
  /\ (n' # n /\ wire'.iv # NoIv) => wire'.iv \notin sealed
  /\ (wire.type = "req" /\ wire'.type = "ans" /\ wire'.iv # NoIv)
       => wire'.iv \notin sealed

LEMMA IvTypes ==
  ASSUME TypeOK
  PROVE  /\ \A iv \in sealed : iv.key \in Nat /\ iv.ctr \in Nat
         /\ sess.m.key \in Nat /\ tag.m.key \in Nat
  BY SessMaterial, NumberTypes DEF TypeOK, Cover, Id, Material

LEMMA CallerIvs == ASSUME IvInv, Caller PROVE Ivs' /\ FreshIv
<1> USE DEF IvInv, IndInv, TypeInv, Ivs
<1>1. /\ call = Idle /\ UNCHANGED <<tag, wire, sealed, n>>
      /\ UNCHANGED sess \/ sess' = FreshSession
  BY DEF Caller, NewSession, AuthenticateFirst, AuthenticateNonFirst, Begin
<1>2. wire.type = "none" /\ call.phase = "none" /\ ~Performed
  BY <1>1, IdleFacts DEF Performed
<1>3. sess' = FreshSession => sess'.st # "auth" /\ sess'.m.key = 0
  BY FreshFacts DEF Keyless
<1>4. KeyBound' /\ ProofIvs' /\ TagIvs'
  BY <1>1, <1>2, <1>3, NumberTypes DEF KeyBound, ProofIvs, Proved, TagIvs
<1>5. HostIvs'
  BY <1>1, <1>2, <1>3 DEF HostIvs
<1> QED BY <1>1, <1>2, <1>4, <1>5 DEF FreshIv

\* Nothing is sealed.
LEMMA SendIvs ==
  ASSUME IvInv, SendHandshake \/ SendPlain \/ SendMore PROVE Ivs' /\ FreshIv
<1> USE DEF IvInv, IndInv, TypeInv, Ivs
<1>1. /\ CanSend /\ UNCHANGED <<sess, tag, sealed>>
      /\ \E what, echo : Put(Request(what, echo, NoMac, NoIv))
  BY DEF SendHandshake, SendPlain, SendMore
<1>2. /\ wire.type = "none" /\ wire'.type = "req" /\ n' = n + 1 /\ call.phase = "send"
      /\ ~Performed
  BY <1>1, PutFacts DEF Performed
<1>3. wire'.iv = NoIv
  BY <1>1 DEF Put, Request
<1>4. KeyBound' /\ ProofIvs' /\ TagIvs'
  BY <1>1, <1>2, NumberTypes, IvTypes DEF KeyBound, ProofIvs, Proved, TagIvs
<1>5. HostIvs'
  BY <1>1, <1>2 DEF HostIvs
<1> QED BY <1>2, <1>3, <1>4, <1>5 DEF FreshIv

LEMMA SendSecuredIvs == ASSUME IvInv, SendSecured PROVE Ivs' /\ FreshIv
<1> USE DEF IvInv, IndInv, TypeInv, Ivs
<1> DEFINE seals == call.cmd \in SealedCommand
           iv == IF seals THEN Iv(sess.m, "cmd") ELSE NoIv
           m == IF seals THEN Sealing(sess.m) ELSE sess.m
<1>1. /\ CanSend /\ call.cmd \in Command \ PlainCommand
      /\ Put(Request(call.cmd, 0, MacOver(m, "cmd"), iv)) /\ sess' = Authed(m)
      /\ Note(iv) /\ UNCHANGED tag
  BY DEF SendSecured
<1>2. m \in Material
  BY SessMaterial, CipherType DEF Sealing
<1>3. /\ m.key = sess.m.key /\ m.suite = sess.m.suite /\ m.ctr = sess.m.ctr
      /\ m.enc = sess.m.enc + (IF seals /\ sess.m.suite = "LRP" THEN 1 ELSE 0)
  BY SessMaterial, AfterCipherFacts, NumberTypes DEF Sealing
<1>4. sess.st = "auth"
  BY <1>1, NameFacts DEF InStepInv, CallShape, CanSend, Handshake
<1>5. /\ ~seals => iv = NoIv
      /\ seals => /\ iv.key = sess.m.key
                  /\ \/ sess.m.suite = "AES" /\ iv.dir = "cmd" /\ iv.ctr = sess.m.ctr
                     \/ sess.m.suite = "LRP" /\ iv.dir = "enc" /\ iv.ctr = sess.m.enc
  BY SessMaterial DEF Iv, Material, Suite
<1> HIDE DEF iv, m
<1>6. sess'.st = "auth" /\ sess'.m = m
  BY <1>1, <1>2, FreshFacts
<1>7. /\ wire.type = "none" /\ wire'.type = "req" /\ n' = n + 1 /\ call.phase = "send"
      /\ call'.phase = "wait" /\ call'.cmd = call.cmd /\ ~Performed
  BY <1>1, PutFacts DEF Performed
<1>8. wire'.iv = iv
  BY <1>1 DEF Put, Request
<1>9. \A x \in sealed : x.key = sess.m.key =>
        /\ x.dir = "cmd" => x.ctr < sess.m.ctr
        /\ x.dir = "enc" => x.ctr < sess.m.enc
  BY <1>4, <1>7, IvTypes, NumberTypes DEF HostIvs
<1>10. seals => iv \notin sealed
  BY <1>5, <1>9, NumberTypes
<1>11. \A x \in sealed' : x \in sealed \/ (seals /\ x = iv)
  BY <1>1, <1>5 DEF Note
<1>12. KeyBound'
  BY <1>1, <1>3, <1>5, <1>6, <1>7, <1>11, NumberTypes, IvTypes DEF KeyBound
<1>13. ProofIvs'
  BY <1>7 DEF ProofIvs, Proved
<1>14. TagIvs'
  BY <1>1, <1>5, <1>11 DEF TagIvs
<1>15. HostIvs'
  <2> SUFFICES ASSUME NEW x \in sealed', x.key = sess.m.key
               PROVE  /\ x.dir = "cmd" => x.ctr <= sess.m.ctr /\ (x.ctr = sess.m.ctr => seals)
                      /\ x.dir = "enc" => x.ctr <= m.enc /\ x.ctr # m.enc
    BY <1>3, <1>6, <1>7 DEF HostIvs
  <2>1. CASE x \in sealed
    BY <1>3, <1>9, <2>1, NumberTypes, IvTypes
  <2>2. CASE seals /\ x = iv
    BY <1>3, <1>5, <2>2, NumberTypes
  <2> QED BY <1>11, <2>1, <2>2
<1> QED BY <1>5, <1>7, <1>8, <1>10, <1>12, <1>13, <1>14, <1>15 DEF FreshIv

\* Everything but the session and the call stays, the answer is taken.
LEMMA TakenIvs ==
  ASSUME IvInv, wire' = NoMsg, UNCHANGED <<tag, sealed, n>>, sess'.m.key <= n, HostIvs'
  PROVE  Ivs' /\ FreshIv
<1> USE DEF IvInv, Ivs
<1>1. wire'.type = "none"
  BY ConstantTypes
<1> QED BY <1>1 DEF KeyBound, ProofIvs, Proved, TagIvs, FreshIv

LEMMA FailsIvs ==
  ASSUME IvInv, call.phase = "wait", NEW m \in Material, Fails(m), call.keep => m = sess.m,
         wire' = NoMsg, UNCHANGED <<tag, sealed, n>>
  PROVE  Ivs' /\ FreshIv
<1> USE DEF IvInv, IndInv, TypeInv, Ivs
<1>1. CASE ~call.keep
  <2>1. sess'.st # "auth" /\ sess'.m.key = 0
    BY <1>1, FreshFacts DEF Fails, Keyless
  <2> QED BY <2>1, NumberTypes, TakenIvs DEF HostIvs
<1>2. CASE call.keep
  <2>1. call.cmd \in PlainCommand /\ sess.st = "auth"
    BY <1>2, NameFacts DEF InStepInv, CallShape, Handshake
  <2>2. sess'.st = "auth" /\ sess'.m = sess.m
    BY <1>2, FreshFacts DEF Fails
  <2>3. HostIvs'
    BY <2>1, <2>2, NameFacts DEF HostIvs
  <2> QED BY <2>2, <2>3, TakenIvs DEF KeyBound
<1> QED BY <1>1, <1>2

LEMMA ContinueIvs ==
  ASSUME IvInv, call.phase = "wait", sess.st = "auth", NEW m \in Material, NEW eof,
         Continue(m, eof), wire' = NoMsg, UNCHANGED <<tag, sealed, n>>,
         m.key = sess.m.key, sess.m.ctr <= m.ctr, sess.m.enc <= m.enc,
         call.cmd \in SealedCommand => sess.m.ctr < m.ctr,
         call.cmd \in SealedAnswer /\ sess.m.suite = "LRP" => sess.m.enc < m.enc
  PROVE  Ivs' /\ FreshIv
<1> USE DEF IvInv, IndInv, TypeInv, Ivs
<1>1. sess' = Authed(m) \/ sess' = FreshSession
  BY DEF Continue
<1>2. CASE sess' = FreshSession
  <2>1. sess'.st # "auth" /\ sess'.m.key = 0
    BY <1>2, FreshFacts DEF Keyless
  <2> QED BY <2>1, NumberTypes, TakenIvs DEF HostIvs
<1>3. CASE sess' = Authed(m)
  <2>1. sess'.st = "auth" /\ sess'.m = m
    BY <1>3, FreshFacts
  <2>2. m.ctr \in Nat /\ m.enc \in Nat
    BY DEF Material, Ctr
  <2>3. \A x \in sealed : x.key = m.key =>
          /\ x.dir = "cmd" => x.ctr < m.ctr
          /\ x.dir = "enc" => x.ctr < m.enc
    BY <2>2, NumberTypes, IvTypes DEF HostIvs
  <2>4. HostIvs'
    BY <2>1, <2>2, <2>3, IvTypes DEF HostIvs
  <2> QED BY <2>1, <2>4, TakenIvs DEF KeyBound
<1> QED BY <1>1, <1>2, <1>3

LEMMA ErrorIvs ==
  ASSUME IvInv, TransportError \/ ReceiveStatusError PROVE Ivs' /\ FreshIv
<1>1. /\ call.phase = "wait" /\ Fails(sess.m) /\ wire' = NoMsg /\ UNCHANGED <<tag, sealed, n>>
      /\ sess.m \in Material
  BY SessMaterial DEF TransportError, ReceiveStatusError, TakeAnswer, IvInv, IndInv, TypeInv
<1> QED BY <1>1, FailsIvs

LEMMA ChallengeIvs == ASSUME IvInv, ReceiveChallenge PROVE Ivs' /\ FreshIv
<1> USE DEF IvInv, IndInv, TypeInv, Ivs
<1>1. /\ call.phase = "wait" /\ wire' = NoMsg /\ UNCHANGED <<tag, sealed, n>>
      /\ (UNCHANGED sess \/ Fails(sess.m)) /\ call.cmd \in Handshake
  BY DEF ReceiveChallenge, Waiting, TakeAnswer
<1>2. call.cmd \notin SealedCommand /\ call.cmd \notin SealedAnswer
  BY DEF ReceiveChallenge, Handshake, SealedCommand, SealedAnswer
<1>3. CASE UNCHANGED sess
  BY <1>1, <1>2, <1>3, TakenIvs DEF HostIvs, KeyBound
<1>4. CASE Fails(sess.m)
  BY <1>1, <1>4, SessMaterial, FailsIvs
<1> QED BY <1>1, <1>3, <1>4

\* The new key has sealed nothing yet, or PICCData at EncCtr 0, which is counted.
LEMMA ProofIvsStep == ASSUME IvInv, ReceiveProof PROVE Ivs' /\ FreshIv
<1> USE DEF IvInv, IndInv, TypeInv, Ivs
<1>1. /\ call.phase = "wait" /\ wire' = NoMsg /\ UNCHANGED <<tag, sealed, n>> /\ Proved
  BY DEF ReceiveProof, Waiting, TakeAnswer, Proved
<1> DEFINE m == IF call.cmd = "First" THEN FirstKeys(call.suite, n) ELSE NonFirstKeys(sess.m, n)
<1>2. sess' = Authed(m) \/ Fails(sess.m)
  BY DEF ReceiveProof
<1>3. CASE Fails(sess.m)
  BY <1>1, <1>3, SessMaterial, FailsIvs
<1>4. CASE sess' = Authed(m)
  <2>1. m \in Material /\ n \in Id
    BY SessMaterial, KeysType DEF TypeOK, Calls
  <2>2. m.key = n /\ (call.cmd = "First" /\ call.suite = "LRP" => m.enc = 1)
    BY SessMaterial DEF FirstKeys, NonFirstKeys, Material
  <2> HIDE DEF m
  <2>3. sess'.st = "auth" /\ sess'.m = m
    BY <1>4, <2>1, FreshFacts
  <2>4. HostIvs'
    BY <1>1, <2>2, <2>3 DEF HostIvs, ProofIvs
  <2> QED BY <1>1, <2>2, <2>3, <2>4, NumberTypes, TakenIvs
<1> QED BY <1>2, <1>3, <1>4

LEMMA ReceiveIvs ==
  ASSUME IvInv, ReceivePlain \/ ReceiveFrame \/ ReceiveUnsigned \/ ReceiveMact
  PROVE  Ivs' /\ FreshIv
<1> USE DEF IvInv, IndInv, TypeInv, Ivs
<1> DEFINE a == Advance(sess.m)
<1>1. /\ call.phase = "wait" /\ wire' = NoMsg /\ UNCHANGED <<tag, sealed, n>>
  BY DEF ReceivePlain, ReceiveFrame, ReceiveUnsigned, ReceiveMact, Waiting, TakeAnswer
<1>2. sess.st = "auth" /\ call.cmd # "First"
  BY <1>1, NameFacts DEF ReceivePlain, ReceiveFrame, ReceiveUnsigned, ReceiveMact, InStepInv,
     CallShape, MayLackMact, Handshake
<1>3. /\ a \in Material /\ a.key = sess.m.key /\ a.enc = sess.m.enc /\ a.suite = sess.m.suite
      /\ a.ctr = sess.m.ctr + 1
  BY <1>1, SessMaterial, AdvanceType, NoWrap DEF InStepInv, CtrBound
<1> HIDE DEF a
<1>4. /\ Opening(a) \in Material /\ Opening(a).key = a.key /\ Opening(a).ctr = a.ctr
      /\ Opening(a).enc = a.enc + (IF a.suite = "LRP" THEN 1 ELSE 0)
  BY <1>3, CipherType, AfterCipherFacts DEF Opening
<1>5. \/ \E eof : Continue(a, eof) /\ call.cmd \notin SealedAnswer
      \/ \E eof : Continue(Opening(a), eof)
      \/ \E eof : Continue(sess.m, eof) /\ call.cmd = "GetVersion"
      \/ Fails(sess.m) /\ ~call.keep
      \/ Fails(a) /\ ~call.keep
  <2>1. CASE ReceivePlain
    BY <2>1, NameFacts DEF ReceivePlain, a
  <2>2. CASE ReceiveFrame
    <3>1. ~call.keep
      BY <1>1, <2>2, NameFacts DEF ReceiveFrame, InStepInv, CallShape
    <3> QED BY <2>2, <3>1 DEF ReceiveFrame
  <2>3. CASE ReceiveUnsigned
    BY <2>3, NameFacts DEF ReceiveUnsigned, a
  <2>4. CASE ReceiveMact
    <3>1. ~call.keep
      BY <1>1, <2>4, NameFacts DEF ReceiveMact, InStepInv, CallShape
    <3> QED BY <2>4, <3>1 DEF ReceiveMact, a
  <2> QED BY <2>1, <2>2, <2>3, <2>4
<1>6. sess.m \in Material /\ sess.m.ctr \in Nat /\ sess.m.enc \in Nat
  BY SessMaterial, NumberTypes
<1>7. ASSUME NEW eof, Continue(a, eof), call.cmd \notin SealedAnswer PROVE Ivs' /\ FreshIv
  BY <1>1, <1>2, <1>3, <1>6, <1>7, ContinueIvs
<1>8. ASSUME NEW eof, Continue(Opening(a), eof) PROVE Ivs' /\ FreshIv
  BY <1>1, <1>2, <1>3, <1>4, <1>6, <1>8, ContinueIvs
<1>9. ASSUME NEW eof, Continue(sess.m, eof), call.cmd = "GetVersion" PROVE Ivs' /\ FreshIv
  BY <1>1, <1>2, <1>6, <1>9, NameFacts, ContinueIvs
<1> QED BY <1>1, <1>3, <1>5, <1>6, <1>7, <1>8, <1>9, FailsIvs

\* The PICC answers, or refuses, without encrypting.
LEMMA UnsealedIvs ==
  ASSUME IvInv, UNCHANGED <<sess, call, sealed, n>>, tag'.m.key = tag.m.key,
         tag.m.ctr <= tag'.m.ctr, tag'.m.ctr \in Nat, Proved' => Proved,
         Performed => Performed', wire'.type = "req" => wire.type = "req",
         wire.type = "req" => wire'.iv = NoIv
  PROVE  Ivs' /\ FreshIv
<1> USE DEF IvInv, IndInv, TypeInv, Ivs
<1>1. KeyBound' /\ ProofIvs'
  BY DEF KeyBound, ProofIvs
<1>2. TagIvs'
  BY NumberTypes, IvTypes DEF TagIvs
<1>3. HostIvs'
  BY DEF HostIvs
<1> QED BY <1>1, <1>2, <1>3 DEF FreshIv

LEMMA TagIvsStep ==
  ASSUME IvInv, TagChallenge \/ TagPlain \/ TagOpensChain \/ TagNextFrame \/ TagRefuse
  PROVE  Ivs' /\ FreshIv
<1> USE DEF IvInv, IndInv, TypeInv, Ivs
<1>1. /\ wire.type = "req" /\ UNCHANGED <<sess, call, sealed, n>>
      /\ \E what, echo, mac, data : Answer(what, echo, mac, NoIv, data)
      /\ tag'.m = tag.m \/ tag'.m = Advance(tag.m)
  BY DEF TagChallenge, TagPlain, TagOpensChain, TagNextFrame, TagRefuse, Asked, TypeOK, Tags
<1>2. wire'.type = "ans" /\ wire'.iv = NoIv
  BY <1>1 DEF Answer, TypeOK, Message
<1>3. /\ tag'.m.key = tag.m.key /\ tag.m.ctr <= tag'.m.ctr /\ tag'.m.ctr \in Nat
  BY <1>1, NumberTypes, NoWrap DEF InStepInv, CtrBound
<1>4. ~Proved'
  <2>1. CASE TagChallenge \/ TagOpensChain \/ TagRefuse
    BY <2>1, AnswerFacts DEF TagChallenge, TagOpensChain, TagRefuse, Proved
  <2>2. CASE TagPlain \/ TagNextFrame
    BY <1>1, <2>2, NameFacts DEF TagPlain, TagNextFrame, Asked, Proved, InStepInv, RequestShape
  <2> QED BY <2>1, <2>2
<1>5. ~Performed
  BY <1>1 DEF Performed
<1> QED BY <1>1, <1>2, <1>3, <1>4, <1>5, UnsealedIvs

LEMMA TagProofIvs == ASSUME IvInv, TagProof PROVE Ivs' /\ FreshIv
<1> USE DEF IvInv, IndInv, TypeInv, Ivs
<1> DEFINE m == IF tag.first THEN TagFirstKeys(wire.n) ELSE TagNonFirstKeys(wire.n)
           iv == IF tag.first /\ tag.lrp THEN Iv([m EXCEPT !.enc = 0], "resp") ELSE NoIv
<1>1. /\ wire.type = "req" /\ wire.what = "Part2" /\ tag.st = "chal"
      /\ UNCHANGED <<sess, call, n>> /\ Answer("ok", wire.n, NoMac, iv, TRUE) /\ Note(iv)
      /\ tag' = [tag EXCEPT !.st = "auth", !.m = m]
  BY DEF TagProof, Asked
<1>2. wire.n = n /\ n \in Id /\ call.cmd \in Handshake /\ call.left = 1
  BY <1>1, NameFacts DEF InStepInv, CallShape, RequestShape, TypeOK
<1>3. tag.first = (call.cmd = "First") /\ TagSuite = call.suite
  BY <1>1, <1>2 DEF InStepInv, HandshakeShape
<1>4. m \in Material /\ m.key = n
  <2>1. m \in Material
    BY <1>2, TagKeysType DEF TypeOK
  <2>2. m.key = n
    BY <1>2 DEF TagFirstKeys, TagNonFirstKeys, TypeOK, Tags, Material
  <2> QED BY <2>1, <2>2
<1>5. tag.first /\ tag.lrp => m.suite = "LRP"
  BY DEF TagFirstKeys, TagSuite
<1>6. /\ ~(tag.first /\ tag.lrp) => iv = NoIv
      /\ tag.first /\ tag.lrp => iv.key = n /\ iv.dir = "enc" /\ iv.ctr = 0
  <2> DEFINE z == [m EXCEPT !.enc = 0]
  <2>1. z.key = n /\ z.enc = 0 /\ (tag.first /\ tag.lrp => z.suite = "LRP")
    BY <1>4, <1>5 DEF Material
  <2> HIDE DEF z, m
  <2>2. tag.first /\ tag.lrp => Iv(z, "resp") = [key |-> n, dir |-> "enc", ti |-> 0, ctr |-> 0]
    BY <2>1 DEF Iv
  <2> QED BY <2>2 DEF z
<1> HIDE DEF iv, m
<1>7. tag'.m = m
  BY <1>1 DEF TypeOK, Tags
<1>8. wire'.type = "ans" /\ wire'.iv = iv
  BY <1>1 DEF Answer, TypeOK, Message
<1>9. \A x \in sealed : x.key < n
  BY <1>1 DEF KeyBound
<1>10. \A x \in sealed' : x \in sealed \/ (tag.first /\ tag.lrp /\ x = iv)
  BY <1>1, <1>6 DEF Note
<1>11. KeyBound' /\ TagIvs'
  BY <1>1, <1>4, <1>6, <1>7, <1>8, <1>9, <1>10, NumberTypes, IvTypes DEF KeyBound, TagIvs
<1>12. ProofIvs'
  <2>1. tag.first /\ tag.lrp => call.cmd = "First" /\ call.suite = "LRP"
    BY <1>3 DEF TagSuite
  <2>2. n' = n /\ call' = call /\ n \in Nat
    BY <1>1, NumberTypes
  <2>3. \A x \in sealed' : x.key = n =>
          call.cmd = "First" /\ call.suite = "LRP" /\ x.dir = "enc" /\ x.ctr = 0
    BY <1>6, <1>9, <1>10, <2>1, <2>2, IvTypes
  <2> QED BY <2>2, <2>3 DEF ProofIvs
<1>13. HostIvs'
  <2>1. ~Performed /\ ~Performed'
    BY <1>1, <1>2, NameFacts DEF Performed
  <2>2. CASE call.cmd = "First"
    <3>1. sess.st # "auth"
      BY <1>1, <2>2 DEF InStepInv, CallShape, TypeOK
    <3> QED BY <1>1, <3>1 DEF HostIvs
  <2>3. CASE call.cmd # "First"
    <3>1. sealed' = sealed
      BY <1>1, <1>3, <1>6, <2>3 DEF Note
    <3> QED BY <1>1, <2>1, <3>1 DEF HostIvs
  <2> QED BY <2>2, <2>3
<1>14. FreshIv
  BY <1>1, <1>6, <1>8, <1>9, NumberTypes DEF FreshIv
<1> QED BY <1>11, <1>12, <1>13, <1>14

\* The vector of an answer: by AES one count further on than any before, by LRP
\* where the host's EncCtr is, as the two are in step.
LEMMA TagSecuredIvs == ASSUME IvInv, TagSecured PROVE Ivs' /\ FreshIv
<1> USE DEF IvInv, IndInv, TypeInv, Ivs
<1> DEFINE opened == IF wire.what \in SealedCommand THEN AfterCipher(tag.m) ELSE tag.m
           m  == Advance(opened)
           m2 == IF wire.what \in SealedAnswer THEN AfterCipher(m) ELSE m
           answers == wire.what \in SealedAnswer
           iv == IF answers THEN Iv(m, "resp") ELSE NoIv
           st == IF wire.what \in EndsSession THEN "idle" ELSE tag.st
           b  == tag.lrp \/ wire.what = "EnableLrp"
<1>1. /\ wire.type = "req" /\ wire.what \in Command \ (PlainCommand \union {"GetVersion"})
      /\ TagAuthentic /\ UNCHANGED <<sess, call, n>> /\ Note(iv)
      /\ \E mac : Answer("ok", 0, mac, iv, wire.what \notin SealedCommand \union {"WriteMac"})
      /\ tag' = [tag EXCEPT !.m = m2, !.frames = 0, !.lrp = b, !.st = st]
  BY DEF TagSecured
<1>2. wire.what = call.cmd /\ call.cmd \in Command \ PlainCommand /\ call.cmd \notin Handshake
  BY <1>1, NameFacts DEF InStepInv, RequestShape
<1>3. /\ wire.mac = MacOver(sess.m, "cmd") /\ sess.st = "auth" /\ tag.st = "auth"
      /\ wire.mac = MacOver(tag.m, "cmd")
  BY <1>1, <1>2, NameFacts DEF InStepInv, RequestShape, CallShape, TagAuthentic, TypeOK, Handshake
<1>4. sess.m.key = tag.m.key /\ sess.m.suite = tag.m.suite /\ ~Performed
  <2>1. sess.m.key = tag.m.key /\ ~Performed
    BY <1>1, <1>3 DEF MacOver, Performed
  <2> QED BY <1>3, <2>1 DEF InStepInv, InStep, Live, Gap
<1>5. answers => sess.m.enc = tag.m.enc
  BY <1>1, <1>2, <1>3, NameFacts, NumberTypes DEF InStepInv, InStep, Live, EncInStep, Blocks
<1>6. /\ tag.m \in Material /\ tag.m.ctr < n /\ opened \in Material
      /\ opened.key = tag.m.key /\ opened.suite = tag.m.suite
      /\ opened.ctr = tag.m.ctr /\ (answers => opened.enc = tag.m.enc)
  BY <1>1, NumberTypes, CipherType, AfterCipherFacts, NameFacts DEF InStepInv, CtrBound
<1> HIDE DEF opened
<1>7. /\ m \in Material /\ m.key = tag.m.key /\ m.suite = tag.m.suite
      /\ m.ctr = tag.m.ctr + 1 /\ (answers => m.enc = tag.m.enc)
  BY <1>6, NumberTypes, AdvanceType DEF Advance, Succ, Material
<1> HIDE DEF m
<1>8. m2.key = tag.m.key /\ m2.ctr = tag.m.ctr + 1
  BY <1>7, AfterCipherFacts
<1> HIDE DEF m2
<1>9. /\ ~answers => iv = NoIv
      /\ answers =>
           /\ iv.key = tag.m.key
           /\ \/ iv.dir = "resp" /\ iv.ctr = tag.m.ctr + 1
              \/ sess.m.suite = "LRP" /\ iv.dir = "enc" /\ iv.ctr = sess.m.enc
  BY <1>4, <1>5, <1>7 DEF Iv, Material, Suite
<1> HIDE DEF iv
<1>10. tag'.m = m2
  BY <1>1 DEF TypeOK, Tags
<1>11. wire'.type = "ans" /\ wire'.what = "ok" /\ wire'.iv = iv
  BY <1>1 DEF Answer, TypeOK, Message
<1>12. Performed' /\ ~Proved'
  BY <1>1, <1>2, <1>11 DEF Performed, Proved
<1>13. \A x \in sealed : x.key = tag.m.key =>
         /\ x.dir = "resp" => x.ctr <= tag.m.ctr
         /\ x.dir = "enc" => x.ctr < sess.m.enc
  BY <1>3, <1>4, IvTypes, NumberTypes DEF HostIvs, TagIvs
<1>14. answers => iv \notin sealed
  BY <1>9, <1>13, NumberTypes
<1>15. \A x \in sealed' : x \in sealed \/ (answers /\ x = iv)
  BY <1>1, <1>9 DEF Note
<1>16. KeyBound' /\ ProofIvs'
  BY <1>1, <1>4, <1>8, <1>9, <1>10, <1>11, <1>12, <1>15, NumberTypes, IvTypes
     DEF KeyBound, ProofIvs
<1>17. TagIvs'
  BY <1>8, <1>9, <1>10, <1>13, <1>15, NumberTypes, IvTypes DEF TagIvs
<1>18. HostIvs'
  <2> SUFFICES ASSUME NEW x \in sealed', x.key = sess.m.key
               PROVE  /\ x.dir = "cmd" =>
                          /\ x.ctr <= sess.m.ctr
                          /\ x.ctr = sess.m.ctr => call.phase = "wait" /\ call.cmd \in SealedCommand
                      /\ x.dir = "enc" =>
                          /\ x.ctr <= sess.m.enc
                          /\ x.ctr = sess.m.enc =>
                               call.cmd \in SealedAnswer /\ sess.m.suite = "LRP"
    BY <1>1, <1>12 DEF HostIvs
  <2>1. CASE x \in sealed
    BY <1>3, <1>4, <1>13, <2>1, NumberTypes, IvTypes DEF HostIvs
  <2>2. CASE answers /\ x = iv
    BY <1>2, <1>9, <2>2, NumberTypes
  <2> QED BY <1>15, <2>1, <2>2
<1>19. FreshIv
  BY <1>1, <1>9, <1>11, <1>14 DEF FreshIv
<1> QED BY <1>16, <1>17, <1>18, <1>19

LEMMA IvStep ==
  ASSUME ReaderRepeats = FALSE, IvInv, [Next]_vars PROVE Ivs' /\ (FreshIv \/ UNCHANGED vars)
<1>1. CASE TagPowerCycle
  <2>1. /\ UNCHANGED <<sess, call, wire, sealed, n>> /\ tag'.m = tag.m
    BY <1>1 DEF TagPowerCycle, IvInv, IndInv, TypeInv, TypeOK, Tags
  <2> QED BY <2>1 DEF IvInv, Ivs, KeyBound, ProofIvs, Proved, HostIvs, Performed, TagIvs, FreshIv
<1>2. CASE UNCHANGED vars
  BY <1>2 DEF vars, IvInv, Ivs, KeyBound, ProofIvs, Proved, HostIvs, Performed, TagIvs
<1>3. CASE Receive
  BY <1>3, ErrorIvs, ChallengeIvs, ProofIvsStep, ReceiveIvs DEF Receive
<1>4. CASE TagServes
  BY <1>4, TagIvsStep, TagProofIvs, TagSecuredIvs DEF TagServes
<1>5. CASE Send
  BY <1>5, SendIvs, SendSecuredIvs DEF Send
<1> QED BY <1>1, <1>2, <1>3, <1>4, <1>5, CallerIvs, ErrorIvs DEF Next, RepeatAnswer

\* With a reader that does not repeat answers, neither end ever encrypts two
\* payloads under one vector: not after errors, not in sessions that plain calls
\* have kept alive, and not across re-authentications.
THEOREM FreshCorrect ==
  ASSUME ReaderRepeats = FALSE PROVE Spec => NoIvReuse
<1>1. Init => IvInv
  <2>1. Init => IndInv
    BY TypeInit, InStepInit DEF IndInv
  <2>2. Init => Ivs
    BY ConstantTypes, FreshFacts DEF Init, Ivs, KeyBound, ProofIvs, Proved, HostIvs, TagIvs,
       Keyless
  <2> QED BY <2>1, <2>2 DEF IvInv
<1>2. IvInv /\ [Next]_vars => IvInv'
  BY InStepStep, IvStep DEF IvInv
<1>3. IvInv /\ [Next]_vars =>
        [/\ (n' # n /\ wire'.iv # NoIv) => wire'.iv \notin sealed
         /\ (wire.type = "req" /\ wire'.type = "ans" /\ wire'.iv # NoIv)
              => wire'.iv \notin sealed]_vars
  BY IvStep DEF FreshIv
<1> QED BY <1>1, <1>2, <1>3, PTL DEF Spec, NoIvReuse

-----------------------------------------------------------------------------
(* Verified answers, whatever the reader repeats *)

OwnIndInv == TypeInv /\ OwnInv

LEMMA MactTypes ==
  ASSUME TypeOK
  PROVE  /\ n \in Nat /\ wire.n \in Nat /\ stale.n \in Nat
         /\ sess.m.key \in Nat /\ tag.m.key \in Nat
         /\ wire.mac.key \in Nat /\ wire.mac.ctr \in Nat
         /\ stale.mac.key \in Nat /\ stale.mac.ctr \in Nat
  BY SessMaterial DEF TypeOK, Message, Cover, Material, Tags, Id

\* The MACt that the host is about to accept leaves with the call.
Owned == wire.type = "ans" /\ call.cmd \in Command \ PlainCommand /\ ~InChain

\* The host takes the answer, or hears of none: the answers still around are
\* the old ones, and the session counts the one it has accepted.
LEMMA TakenOwn ==
  ASSUME OwnIndInv, TypeInv', wire'.type = "none", stale' \in {wire, stale, NoMsg},
         UNCHANGED <<tag, n>>,
         sess'.st = "auth" =>
           \/ sess'.m.key = n
           \/ /\ sess.st = "auth" /\ sess'.m.key = sess.m.key
              /\ \/ sess'.m.ctr = sess.m.ctr + 1
                 \/ sess'.m.ctr = sess.m.ctr /\ ~Owned
  PROVE  KeyAge' /\ AnswersSpent' /\ RequestShape' /\ RequestOwn'
<1> USE DEF OwnIndInv, TypeInv, OwnInv
<1>1. KeyAge'
  BY ConstantTypes DEF KeyAge, HasMact
<1>2. ASSUME HasMact(stale'), sess'.st = "auth", stale'.mac.key = sess'.m.key
      PROVE  stale'.mac.ctr <= sess'.m.ctr
  <2>1. stale' \in {wire, stale} /\ stale'.mac.key < n /\ stale'.mac.ctr \in Nat
    BY <1>2, ConstantTypes, MactTypes DEF KeyAge, HasMact
  <2>2. sess.st = "auth" /\ sess'.m.key = sess.m.key
    BY <1>2, <2>1, MactTypes
  <2>3. stale'.mac.ctr <= sess.m.ctr \/ OwnAnswer(stale')
    BY <1>2, <2>1, <2>2 DEF AnswersSpent, HasMact
  <2>4. CASE sess'.m.ctr = sess.m.ctr + 1
    BY <2>1, <2>3, <2>4, NumberTypes DEF OwnAnswer
  <2>5. CASE sess'.m.ctr = sess.m.ctr /\ ~Owned
    BY <2>1, <2>3, <2>5, NumberTypes DEF OwnAnswer, Owned
  <2> QED BY <1>2, <2>1, <2>4, <2>5, MactTypes
<1>3. AnswersSpent'
  BY <1>2 DEF AnswersSpent, HasMact
<1> QED BY <1>1, <1>3 DEF RequestShape, RequestOwn

\* A call that fails: the session is gone, or it was borrowed for plain calls.
LEMMA FailsOwn ==
  ASSUME OwnIndInv, TypeInv', call.phase = "wait", NEW m \in Material, Fails(m),
         call.keep => m = sess.m,
         wire'.type = "none", stale' \in {wire, stale, NoMsg}, UNCHANGED <<tag, n>>
  PROVE  OwnInv'
<1> USE DEF OwnIndInv, TypeInv, OwnInv
<1>1. call' = Idle /\ call'.phase = "none"
  BY ConstantTypes DEF Fails
<1>2. CASE ~call.keep
  <2>1. sess'.st = "none" /\ sess'.m.ctr = 0
    BY <1>2, FreshFacts DEF Fails
  <2>2. CtrBound' /\ ChainOwn'
    BY <1>1, <2>1, NumberTypes DEF CtrBound, ChainOwn
  <2>3. CallRuns'
    BY <1>1
  <2>4. KeyAge' /\ AnswersSpent' /\ RequestShape' /\ RequestOwn'
    BY <2>1, TakenOwn
  <2> QED BY <2>2, <2>3, <2>4
<1>3. CASE call.keep
  <2>1. sess'.st = "auth" /\ sess'.m = sess.m
    BY <1>3, FreshFacts DEF Fails
  <2>2. call.cmd \in PlainCommand /\ call.cmd \notin Handshake /\ sess.st = "auth"
    BY <1>3, NameFacts DEF Handshake
  <2>3. wire.type \in {"req", "ans"} /\ call.cmd # "GetVersion" /\ ~Owned
    BY <2>2, NameFacts DEF TypeOK, Message, Owned
  <2>4. ~(tag.frames > 0)
    BY <2>2, <2>3 DEF ChainOwn
  <2>5. CtrBound' /\ ChainOwn'
    BY <1>1, <2>1, <2>4, NumberTypes DEF CtrBound, ChainOwn
  <2>6. CallRuns'
    BY <1>1
  <2>7. KeyAge' /\ AnswersSpent' /\ RequestShape' /\ RequestOwn'
    BY <2>1, <2>2, <2>3, TakenOwn
  <2> QED BY <2>5, <2>6, <2>7
<1> QED BY <1>2, <1>3

\* A command APDU that succeeds, at the end of a GetVersion chain or inside it.
LEMMA ContinueOwn ==
  ASSUME OwnIndInv, TypeInv', call.phase = "wait", wire.type = "ans",
         call.cmd \in Command,
         NEW m \in Material, NEW eof \in BOOLEAN, Continue(m, eof),
         wire'.type = "none", stale' \in {wire, stale, NoMsg}, UNCHANGED <<tag, n>>,
         m.key = sess.m.key, m.suite = sess.m.suite,
         \/ m.ctr = sess.m.ctr + 1 /\ ~InChain
         \/ m.ctr = sess.m.ctr /\ InChain /\ ~eof
  PROVE  OwnInv'
<1> USE DEF OwnIndInv, TypeInv, OwnInv
<1>1. call.cmd \notin Handshake /\ sess.st = "auth" /\ m.ctr \in Nat /\ m.ctr <= n
  BY NameFacts, NumberTypes DEF Handshake, CtrBound
<1>2. tag.frames > 0 =>
        /\ call.cmd = "GetVersion" /\ tag.frames = call.left - 1
        /\ InChain /\ m.ctr = sess.m.ctr /\ ~eof
  BY NumberTypes DEF ChainOwn, InChain
<1>3. \/ call' = Idle /\ (call.left = 1 \/ eof)
      \/ /\ call'.cmd = call.cmd /\ call'.phase = "send" /\ call'.suite = call.suite
         /\ call'.keep = call.keep /\ call'.left = call.left - 1
         /\ sess' = Authed(m)
  <2>1. CASE call.left = 1 \/ eof
    BY <2>1 DEF Continue
  <2>2. CASE ~(call.left = 1 \/ eof)
    <3>1. call' = [call EXCEPT !.left = @ - 1, !.phase = "send"] /\ sess' = Authed(m)
      BY <2>2 DEF Continue
    <3> QED BY <3>1 DEF TypeOK, Calls
  <2> QED BY <2>1, <2>2
<1>4. \/ sess'.st = "unauth" /\ sess'.m.ctr = 0 /\ call' = Idle
      \/ sess'.st = "auth" /\ sess'.m = m
  BY FreshFacts DEF Continue
<1>5. CtrBound'
  BY <1>1, <1>3, <1>4, NumberTypes, ConstantTypes DEF CtrBound
<1>6. CallRuns'
  BY <1>1, <1>3, <1>4, FreshFacts, ConstantTypes DEF Handshake
<1>7. ChainOwn'
  BY <1>2, <1>3, <1>4, NumberTypes DEF ChainOwn
<1>8. sess'.st = "auth" =>
        /\ sess'.m.key = sess.m.key
        /\ \/ sess'.m.ctr = sess.m.ctr + 1
           \/ sess'.m.ctr = sess.m.ctr /\ ~Owned
  BY <1>4 DEF Owned
<1>9. KeyAge' /\ AnswersSpent' /\ RequestShape' /\ RequestOwn'
  BY <1>1, <1>8, TakenOwn
<1> QED BY <1>5, <1>6, <1>7, <1>9

LEMMA ErrorOwn ==
  ASSUME OwnIndInv, TypeInv', TransportError \/ ReceiveStatusError PROVE OwnInv'
<1>1. /\ call.phase = "wait" /\ Fails(sess.m) /\ wire'.type = "none"
      /\ UNCHANGED <<tag, n>> /\ stale' \in {wire, stale, NoMsg}
  BY ConstantTypes DEF TransportError, ReceiveStatusError, TakeAnswer, Late
<1>2. sess.m \in Material
  BY SessMaterial DEF OwnIndInv, TypeInv
<1> QED BY <1>1, <1>2, FailsOwn

LEMMA ChallengeOwn ==
  ASSUME OwnIndInv, TypeInv', ReceiveChallenge PROVE OwnInv'
<1> USE DEF OwnIndInv, TypeInv, OwnInv
<1>1. /\ call.phase = "wait" /\ wire.type = "ans"
      /\ call.cmd \in Handshake /\ call.left = 2
      /\ wire'.type = "none" /\ UNCHANGED <<tag, n>> /\ stale' \in {wire, stale, NoMsg}
  BY ConstantTypes DEF ReceiveChallenge, Waiting, TakeAnswer, Late
<1>2. CASE ~(wire.echo # 0 /\ wire.suite = call.suite)
  BY <1>1, <1>2, SessMaterial, FailsOwn DEF ReceiveChallenge
<1>3. CASE wire.echo # 0 /\ wire.suite = call.suite
  <2>1. /\ call' = [call EXCEPT !.left = 1, !.phase = "send", !.echo = wire.echo]
        /\ UNCHANGED <<sess, failed>>
    BY <1>3 DEF ReceiveChallenge
  <2>2. /\ call'.cmd = call.cmd /\ call'.left = 1 /\ call'.phase = "send"
        /\ call'.keep = call.keep /\ call'.suite = call.suite
    BY <2>1 DEF TypeOK, Calls
  <2>3. call.cmd # "GetVersion" /\ ~Owned
    BY <1>1, NameFacts DEF Owned
  <2>4. CtrBound' /\ ChainOwn'
    BY <1>1, <2>1, <2>2, <2>3, NumberTypes DEF CtrBound, ChainOwn
  <2>5. CallRuns'
    BY <1>1, <2>1, <2>2
  <2>6. KeyAge' /\ AnswersSpent' /\ RequestShape' /\ RequestOwn'
    BY <1>1, <2>1, <2>3, TakenOwn
  <2> QED BY <2>4, <2>5, <2>6
<1> QED BY <1>2, <1>3

LEMMA ProofOwn ==
  ASSUME OwnIndInv, TypeInv', ReceiveProof PROVE OwnInv'
<1> USE DEF OwnIndInv, TypeInv, OwnInv
<1>1. /\ call.phase = "wait" /\ wire.type = "ans" /\ call.cmd \in Handshake
      /\ wire'.type = "none" /\ UNCHANGED <<tag, n>> /\ stale' \in {wire, stale, NoMsg}
  BY ConstantTypes DEF ReceiveProof, Waiting, TakeAnswer, Late
<1>2. CASE ~(wire.echo = n /\ wire.suite = call.suite)
  BY <1>1, <1>2, SessMaterial, FailsOwn DEF ReceiveProof
<1>3. CASE wire.echo = n /\ wire.suite = call.suite
  <2> DEFINE m == IF call.cmd = "First" THEN FirstKeys(call.suite, n)
                                        ELSE NonFirstKeys(sess.m, n)
  <2>1. sess' = Authed(m) /\ call' = Idle
    BY <1>3 DEF ReceiveProof
  <2>2. call.suite \in Suite /\ n \in Id
    BY DEF TypeOK, Calls
  <2>3. m \in Material /\ m.key = n
    BY <2>2, SessMaterial, KeysType DEF FirstKeys, NonFirstKeys, Material
  <2>4. m.ctr \in {0, sess.m.ctr}
    BY SessMaterial DEF FirstKeys, NonFirstKeys, Material
  <2> HIDE DEF m
  <2>5. sess'.m = m /\ sess'.st = "auth" /\ call'.phase = "none"
    BY <2>1, <2>3, FreshFacts, ConstantTypes
  <2>6. ~(tag.frames > 0)
    BY <1>1, NameFacts DEF ChainOwn
  <2>7. CtrBound' /\ ChainOwn'
    BY <1>1, <2>4, <2>5, <2>6, NumberTypes DEF CtrBound, ChainOwn
  <2>8. CallRuns'
    BY <2>1, <2>5
  <2>9. KeyAge' /\ AnswersSpent' /\ RequestShape' /\ RequestOwn'
    BY <1>1, <2>3, <2>5, TakenOwn
  <2> QED BY <2>7, <2>8, <2>9
<1> QED BY <1>2, <1>3

LEMMA FrameOwn ==
  ASSUME OwnIndInv, TypeInv', ReceiveFrame PROVE OwnInv'
<1> USE DEF OwnIndInv, TypeInv, OwnInv
<1>1. /\ call.phase = "wait" /\ wire.type = "ans" /\ call.cmd = "GetVersion" /\ InChain
      /\ wire'.type = "none" /\ UNCHANGED <<tag, n>> /\ stale' \in {wire, stale, NoMsg}
  BY ConstantTypes DEF ReceiveFrame, Waiting, TakeAnswer, Late, InChain
<1>2. sess.m \in Material /\ FALSE \in BOOLEAN /\ call.cmd \in Command
  BY <1>1, SessMaterial, NameFacts
<1>3. Fails(sess.m) \/ Continue(sess.m, FALSE)
  BY DEF ReceiveFrame
<1> QED BY <1>1, <1>2, <1>3, FailsOwn, ContinueOwn

LEMMA AnswerOwn ==
  ASSUME OwnIndInv, TypeInv', ReceivePlain \/ ReceiveUnsigned \/ ReceiveMact
  PROVE  OwnInv'
<1> USE DEF OwnIndInv, TypeInv, OwnInv
<1>1. /\ call.phase = "wait" /\ wire.type = "ans"
      /\ wire'.type = "none" /\ UNCHANGED <<tag, n>> /\ stale' \in {wire, stale, NoMsg}
  BY ConstantTypes
     DEF ReceivePlain, ReceiveUnsigned, ReceiveMact, Waiting, TakeAnswer, Late
<1>2. call.cmd \in Command /\ ~InChain
  BY <1>1, NameFacts DEF ReceivePlain, ReceiveUnsigned, ReceiveMact,
     PlainCommand, MayLackMact, Handshake, InChain
<1> DEFINE m == Advance(sess.m)
           m2 == IF call.cmd \in SealedAnswer THEN Opening(m) ELSE m
<1>3. m \in Material /\ m.key = sess.m.key /\ m.suite = sess.m.suite
  BY SessMaterial, AdvanceType, NoWrap
<1>4. m.ctr = sess.m.ctr + 1
  BY <1>1, NoWrap DEF CtrBound
<1> HIDE DEF m
<1>5. /\ m2 \in Material /\ m2.key = sess.m.key /\ m2.suite = sess.m.suite
      /\ m2.ctr = sess.m.ctr + 1
  BY <1>3, <1>4, CipherType, AfterCipherFacts DEF Opening
<1>6. Eof \subseteq BOOLEAN
  BY DEF Eof
<1>7. \/ \E eof \in BOOLEAN : Continue(m, eof)
      \/ ReceiveMact /\ (Fails(m) \/ \E eof \in BOOLEAN : Continue(m2, eof))
  BY <1>6 DEF ReceivePlain, ReceiveUnsigned, ReceiveMact, m
<1> HIDE DEF m2
<1>8. ReceiveMact => ~call.keep
  BY <1>1 DEF ReceiveMact
<1>9. CASE \E eof \in BOOLEAN : Continue(m, eof) \/ Continue(m2, eof)
  BY <1>1, <1>2, <1>3, <1>4, <1>5, <1>9, ContinueOwn
<1>10. CASE ReceiveMact /\ Fails(m)
  BY <1>1, <1>3, <1>8, <1>10, FailsOwn
<1> QED BY <1>7, <1>9, <1>10

\* The caller acts between calls, when nothing is on the wire.
LEMMA CallerOwn ==
  ASSUME OwnIndInv, TypeInv', Caller PROVE OwnInv'
<1> USE DEF OwnIndInv, TypeInv, OwnInv
<1>1. call = Idle /\ UNCHANGED <<tag, wire, stale, n>>
  BY DEF Caller, NewSession, AuthenticateFirst, AuthenticateNonFirst, Begin
<1>2. wire.type = "none" /\ call.cmd = "none" /\ call.phase = "none"
  BY <1>1, IdleFacts
<1>3. \/ sess' = FreshSession /\ call' = call
      \/ /\ sess' = sess /\ call'.phase = "send"
         /\ call'.cmd \in Command \union Handshake
         /\ call'.cmd = "First" => sess.st = "unauth"
         /\ call'.cmd # "First" => sess.st = "auth" /\ call'.suite = sess.m.suite
         /\ call'.keep => call'.cmd \in PlainCommand
         /\ call'.cmd \in Handshake => call'.left = 2
  <2>1. CASE NewSession
    BY <2>1 DEF NewSession
  <2>2. CASE (\E suite \in Suite : AuthenticateFirst(suite)) \/ AuthenticateNonFirst
    BY <2>2 DEF AuthenticateFirst, AuthenticateNonFirst, NewCall, Handshake
  <2>3. ASSUME NEW c \in Command, NEW keep \in BOOLEAN, NEW left \in ApduCounts(c),
               Begin(c, left, keep)
        PROVE  /\ sess' = sess /\ sess.st = "auth"
               /\ call'.phase = "send" /\ call'.cmd = c /\ call'.suite = sess.m.suite
               /\ call'.keep => c \in PlainCommand
    BY <2>3 DEF Begin, NewCall
  <2>4. \A c \in Command : c \notin Handshake /\ c # "First"
    BY NameFacts DEF Handshake
  <2> QED BY <2>1, <2>2, <2>3, <2>4 DEF Caller
<1>4. sess'.st = "auth" => sess' = sess
  BY <1>3, FreshFacts
<1>5. sess'.m.ctr <= n
  BY <1>3, FreshFacts, NumberTypes DEF CtrBound
<1>6. CtrBound'
  BY <1>1, <1>2, <1>3, <1>5 DEF CtrBound
<1>7. CallRuns'
  BY <1>1, <1>2, <1>3
<1>8. RequestShape' /\ RequestOwn' /\ KeyAge'
  BY <1>1, <1>2 DEF RequestShape, RequestOwn, KeyAge
<1>9. ChainOwn'
  BY <1>1, <1>2, <1>4 DEF ChainOwn
<1>10. AnswersSpent'
  BY <1>1, <1>2, <1>4 DEF AnswersSpent, OwnAnswer
<1> QED BY <1>6, <1>7, <1>8, <1>9, <1>10

\* Sending makes every answer that is still around an earlier one.
LEMMA PutOwn ==
  ASSUME OwnIndInv, CanSend, UNCHANGED <<tag, stale>>,
         NEW what, NEW echo, NEW mac, NEW iv, Put(Request(what, echo, mac, iv)),
         sess'.st = sess.st, sess'.m.suite = sess.m.suite, sess'.m.key = sess.m.key,
         sess'.m.ctr = sess.m.ctr
  PROVE  CtrBound' /\ CallRuns' /\ KeyAge' /\ ChainOwn' /\ AnswersSpent'
<1> USE DEF OwnIndInv, TypeInv, OwnInv
<1>1. /\ wire.type = "none" /\ wire'.type = "req"
      /\ n' = n + 1 /\ call'.phase = "wait" /\ call.phase = "send"
      /\ call'.cmd = call.cmd /\ call'.left = call.left
      /\ call'.keep = call.keep /\ call'.suite = call.suite
  BY PutFacts
<1>2. CtrBound'
  BY <1>1, NumberTypes DEF CtrBound
<1>3. CallRuns'
  BY <1>1
<1>4. KeyAge'
  BY <1>1, MactTypes DEF KeyAge, HasMact
<1>5. ChainOwn'
  BY <1>1 DEF ChainOwn
<1>6. AnswersSpent'
  BY <1>1 DEF AnswersSpent, HasMact, OwnAnswer
<1> QED BY <1>2, <1>3, <1>4, <1>5, <1>6

LEMMA SendOwn ==
  ASSUME OwnIndInv, TypeInv', Send PROVE OwnInv'
<1> USE DEF OwnIndInv, TypeInv, OwnInv
<1>1. CASE SendHandshake
  <2>1. PICK what \in {call.cmd, "Part2"} :
          /\ what = "Part2" <=> call.left # 2
          /\ Put(Request(what, call.echo, NoMac, NoIv))
    BY <1>1, NameFacts DEF SendHandshake
  <2>2. CanSend /\ call.cmd \in Handshake /\ UNCHANGED <<sess, tag, stale>>
    BY <1>1 DEF SendHandshake
  <2>3. CtrBound' /\ CallRuns' /\ KeyAge' /\ ChainOwn' /\ AnswersSpent'
    BY <2>1, <2>2, PutOwn
  <2>4. call.left \in {1, 2}
    BY <2>2 DEF CanSend
  <2>5. RequestShape' /\ RequestOwn'
    BY <2>1, <2>2, <2>4, PutFacts, NameFacts DEF RequestShape, RequestOwn
  <2> QED BY <2>3, <2>5
<1>2. CASE SendPlain \/ SendMore
  <2>1. /\ CanSend /\ UNCHANGED <<sess, tag, stale>>
        /\ \E what : /\ Put(Request(what, 0, NoMac, NoIv))
                     /\ \/ call.cmd \in PlainCommand /\ what = call.cmd
                        \/ call.cmd = "GetVersion" /\ what = "More"
    BY <1>2 DEF SendPlain, SendMore
  <2>2. PICK what : /\ Put(Request(what, 0, NoMac, NoIv))
                    /\ \/ call.cmd \in PlainCommand /\ what = call.cmd
                       \/ call.cmd = "GetVersion" /\ what = "More"
    BY <2>1
  <2>3. CtrBound' /\ CallRuns' /\ KeyAge' /\ ChainOwn' /\ AnswersSpent'
    BY <2>1, <2>2, PutOwn
  <2>4. RequestShape' /\ RequestOwn'
    BY <2>1, <2>2, PutFacts, NameFacts DEF RequestShape, RequestOwn
  <2> QED BY <2>3, <2>4
<1>3. CASE SendSecured
  <2> DEFINE seals == call.cmd \in SealedCommand
             iv == IF seals THEN Iv(sess.m, "cmd") ELSE NoIv
             m  == IF seals THEN Sealing(sess.m) ELSE sess.m
  <2>1. /\ CanSend /\ call.cmd \in Command \ PlainCommand /\ UNCHANGED <<tag, stale>>
        /\ Put(Request(call.cmd, 0, MacOver(m, "cmd"), iv))
        /\ sess' = Authed(m) /\ (call.cmd = "GetVersion" => call.left = 3)
    BY <1>3 DEF SendSecured
  <2>2. sess.m \in Material /\ m \in Material
    BY SessMaterial, CipherType DEF Sealing
  <2>3. m.suite = sess.m.suite /\ m.key = sess.m.key /\ m.ctr = sess.m.ctr
    BY <2>2, AfterCipherFacts DEF Sealing
  <2> HIDE DEF m, iv
  <2>4. sess'.m = m /\ sess'.st = "auth" /\ sess.st = "auth"
    BY <2>1, <2>2, FreshFacts, NameFacts DEF CanSend, Handshake
  <2>5. CtrBound' /\ CallRuns' /\ KeyAge' /\ ChainOwn' /\ AnswersSpent'
    BY <2>1, <2>3, <2>4, PutOwn
  <2>6. RequestShape' /\ RequestOwn'
    BY <2>1, <2>4, PutFacts, NameFacts DEF RequestShape, RequestOwn
  <2> QED BY <2>5, <2>6
<1> QED BY <1>1, <1>2, <1>3 DEF Send

\* A step of the PICC: a MACt it gives is that of the next CmdCtr, if it is
\* under the keys of the session at all.
LEMMA ServesOwn ==
  ASSUME OwnIndInv, TypeInv', wire.type = "req", wire'.type = "ans", wire'.n = wire.n,
         UNCHANGED <<sess, call, stale, n>>,
         tag'.m.ctr <= n, tag'.m.key <= n,
         \/ wire'.mac = NoMac
         \/ /\ wire'.mac.key < n
            /\ sess.st = "auth" /\ wire'.mac.key = sess.m.key =>
                 /\ wire'.mac.ctr = sess.m.ctr + 1
                 /\ call.cmd \in Command \ PlainCommand /\ ~InChain,
         \/ tag'.frames = 0
         \/ /\ tag'.st = "auth" /\ call.cmd = "GetVersion"
            /\ tag'.frames = call.left - 1 /\ tag'.m.ctr = sess.m.ctr
  PROVE  OwnInv'
<1> USE DEF OwnIndInv, TypeInv, OwnInv
<1>1. call.phase = "wait" /\ wire.n = n /\ InChain' = InChain
  BY DEF TypeOK, RequestOwn, InChain
<1>2. CtrBound' /\ RequestShape' /\ RequestOwn' /\ ChainOwn'
  BY <1>1, NumberTypes DEF CtrBound, RequestShape, RequestOwn, ChainOwn
<1>3. CallRuns'
  OBVIOUS
<1>4. KeyAge'
  BY DEF KeyAge, HasMact
<1>5. AnswersSpent'
  BY <1>1 DEF AnswersSpent, OwnAnswer, HasMact
<1> QED BY <1>2, <1>3, <1>4, <1>5

LEMMA TagHandshakeOwn ==
  ASSUME OwnIndInv, TypeInv', TagChallenge \/ TagProof PROVE OwnInv'
<1> USE DEF OwnIndInv, TypeInv, OwnInv
<1>1. wire.type = "req" /\ UNCHANGED <<sess, call, stale, n>> /\ wire.n = n
  BY DEF TagChallenge, TagProof, Asked, RequestOwn
<1>2. CASE TagChallenge
  <2>1. /\ Answer("af", wire.n, NoMac, NoIv, TRUE)
        /\ tag' = [tag EXCEPT !.st = "chal", !.chal = wire.n, !.frames = 0,
                              !.first = (wire.what = "First")]
    BY <1>2 DEF TagChallenge
  <2>2. wire'.type = "ans" /\ wire'.n = wire.n /\ wire'.mac = NoMac
    BY <2>1, AnswerFacts
  <2>3. tag'.frames = 0 /\ tag'.m = tag.m
    BY <2>1 DEF TypeOK, Tags
  <2>4. tag'.m.ctr <= n /\ tag'.m.key <= n
    BY <2>3 DEF CtrBound, KeyAge
  <2> QED BY <1>1, <2>2, <2>3, <2>4, ServesOwn
<1>3. CASE TagProof
  <2> DEFINE m  == IF tag.first THEN TagFirstKeys(wire.n) ELSE TagNonFirstKeys(wire.n)
             iv == IF tag.first /\ tag.lrp THEN Iv([m EXCEPT !.enc = 0], "resp") ELSE NoIv
  <2>1. /\ tag.st = "chal" /\ tag' = [tag EXCEPT !.st = "auth", !.m = m]
        /\ Answer("ok", wire.n, NoMac, iv, TRUE)
    BY <1>3 DEF TagProof
  <2> HIDE DEF iv
  <2>2. wire'.type = "ans" /\ wire'.n = wire.n /\ wire'.mac = NoMac
    BY <2>1, AnswerFacts
  <2>3. m.key = n /\ m.ctr \in {0, tag.m.ctr}
    BY <1>1, NumberTypes DEF TagFirstKeys, TagNonFirstKeys, Material
  <2> HIDE DEF m
  <2>4. tag'.m = m /\ tag'.frames = tag.frames
    BY <2>1 DEF TypeOK, Tags
  <2>5. tag.frames = 0
    BY <2>1, NumberTypes DEF ChainOwn
  <2>6. tag'.m.ctr <= n /\ tag'.m.key <= n
    BY <2>3, <2>4, NumberTypes DEF CtrBound
  <2> QED BY <1>1, <2>2, <2>4, <2>5, <2>6, ServesOwn
<1> QED BY <1>2, <1>3

LEMMA TagPlainOwn ==
  ASSUME OwnIndInv, TypeInv', TagPlain \/ TagRefuse PROVE OwnInv'
<1> USE DEF OwnIndInv, TypeInv, OwnInv
<1>1. wire.type = "req" /\ UNCHANGED <<sess, call, stale, n>>
  BY DEF TagPlain, TagRefuse
<1>2. \E what, data : Answer(what, 0, NoMac, NoIv, data)
  BY DEF TagPlain, TagRefuse
<1>3. wire'.type = "ans" /\ wire'.n = wire.n /\ wire'.mac = NoMac
  BY <1>2, AnswerFacts
<1>4. tag'.frames = 0 /\ tag'.m \in {tag.m, Advance(tag.m)}
  <2>1. CASE TagPlain
    <3> DEFINE m == IF tag.st = "auth" THEN Advance(tag.m) ELSE tag.m
    <3>1. tag' = [tag EXCEPT !.m = m, !.frames = 0]
      BY <2>1 DEF TagPlain
    <3> HIDE DEF m
    <3>2. tag'.frames = 0 /\ tag'.m = m
      BY <3>1 DEF TypeOK, Tags
    <3> QED BY <3>2 DEF m
  <2>2. CASE TagRefuse
    <3>1. PICK st \in {"idle", IF tag.st = "auth" THEN "auth" ELSE "idle"} :
                 tag' = [tag EXCEPT !.st = st, !.frames = 0]
      BY <2>2 DEF TagRefuse
    <3> QED BY <3>1 DEF TypeOK, Tags
  <2> QED BY <2>1, <2>2
<1>5. tag'.m.ctr <= n /\ tag'.m.key <= n
  BY <1>1, <1>4, NoWrap, NumberTypes DEF CtrBound, KeyAge
<1> QED BY <1>1, <1>3, <1>4, <1>5, ServesOwn

\* The two steps of the PICC that take a MAC of the host know its CmdCtr.
LEMMA TagOpensChainOwn ==
  ASSUME OwnIndInv, TypeInv', TagOpensChain PROVE OwnInv'
<1> USE DEF OwnIndInv, TypeInv, OwnInv
<1>1. /\ wire.type = "req" /\ wire.what = "GetVersion" /\ TagAuthentic
      /\ Answer("af", 0, NoMac, NoIv, TRUE) /\ UNCHANGED <<sess, call, stale, n>>
      /\ tag' = [tag EXCEPT !.frames = 2]
  BY DEF TagOpensChain, Asked
<1>2. wire'.type = "ans" /\ wire'.n = wire.n /\ wire'.mac = NoMac
  BY <1>1, AnswerFacts
<1>3. call.cmd = "GetVersion" /\ call.cmd \in Command /\ call.left = 3
  BY <1>1, NameFacts DEF RequestShape, RequestOwn, TypeOK
<1>4. tag'.st = tag.st /\ tag'.m = tag.m /\ tag'.frames = 2 /\ tag.st = "auth"
  BY <1>1 DEF TypeOK, Tags, TagAuthentic
<1>5. tag.m.ctr = sess.m.ctr
  BY <1>1, <1>3, NameFacts DEF TagAuthentic, RequestShape, MacOver
<1>6. tag'.m.ctr <= n /\ tag'.m.key <= n /\ tag'.frames = call.left - 1
  BY <1>3, <1>4 DEF CtrBound, KeyAge
<1> QED BY <1>1, <1>2, <1>3, <1>4, <1>5, <1>6, ServesOwn

LEMMA TagNextFrameOwn ==
  ASSUME OwnIndInv, TypeInv', TagNextFrame PROVE OwnInv'
<1> USE DEF OwnIndInv, TypeInv, OwnInv
<1> DEFINE last == tag.frames = 1
           m == IF last THEN Advance(tag.m) ELSE tag.m
<1>1. /\ wire.type = "req" /\ wire.what = "More" /\ tag.st = "auth" /\ tag.frames > 0
      /\ UNCHANGED <<sess, call, stale, n>>
      /\ tag' = [tag EXCEPT !.frames = @ - 1, !.m = m]
  BY DEF TagNextFrame, Asked
<1>2. /\ wire'.type = "ans" /\ wire'.n = wire.n
      /\ wire'.mac = IF last THEN MacOver(Advance(tag.m), "resp") ELSE NoMac
  <2>1. CASE last
    BY <2>1, AnswerFacts DEF TagNextFrame
  <2>2. CASE ~last
    BY <2>2, AnswerFacts DEF TagNextFrame
  <2> QED BY <2>1, <2>2
<1>3. call.cmd = "GetVersion" /\ call.cmd \in Command \ PlainCommand
  BY <1>1, NameFacts DEF RequestShape, TypeOK
<1>4. sess.st = "auth" /\ tag.m.ctr = sess.m.ctr /\ tag.frames = call.left
  BY <1>1, <1>3, NameFacts DEF ChainOwn, TypeOK
<1>5. /\ Advance(tag.m).ctr = tag.m.ctr + 1 /\ Advance(tag.m).key = tag.m.key
      /\ tag.m.ctr < n /\ tag.m.key < n
  BY <1>1, NoWrap DEF CtrBound, KeyAge
<1>6. m.key <= n /\ m.ctr <= n /\ (~last => m.ctr = sess.m.ctr)
  BY <1>4, <1>5, NumberTypes, MactTypes
<1>7. wire'.mac = NoMac \/ (/\ wire'.mac.key < n /\ wire'.mac.ctr = sess.m.ctr + 1
                            /\ ~InChain)
  <2>1. CASE last
    BY <1>2, <1>4, <1>5, <2>1 DEF MacOver, InChain
  <2>2. CASE ~last
    BY <1>2, <2>2
  <2> QED BY <2>1, <2>2
<1> HIDE DEF m
<1>8. tag'.st = tag.st /\ tag'.m = m /\ tag'.frames = tag.frames - 1
  BY <1>1 DEF TypeOK, Tags
<1>9. tag'.frames = 0 \/ (tag'.frames = call.left - 1 /\ tag'.m.ctr = sess.m.ctr)
  BY <1>4, <1>6, <1>8, NumberTypes
<1> QED BY <1>1, <1>2, <1>3, <1>6, <1>7, <1>8, <1>9, ServesOwn

LEMMA TagSecuredOwn ==
  ASSUME OwnIndInv, TypeInv', TagSecured PROVE OwnInv'
<1> USE DEF OwnIndInv, TypeInv, OwnInv
<1> DEFINE opened == IF wire.what \in SealedCommand THEN AfterCipher(tag.m) ELSE tag.m
           m  == Advance(opened)
           m2 == IF wire.what \in SealedAnswer THEN AfterCipher(m) ELSE m
           iv == IF wire.what \in SealedAnswer THEN Iv(m, "resp") ELSE NoIv
           st == IF wire.what \in EndsSession THEN "idle" ELSE tag.st
           b  == tag.lrp \/ wire.what = "EnableLrp"
<1>1. /\ wire.type = "req" /\ wire.what \in Command \ (PlainCommand \union {"GetVersion"})
      /\ TagAuthentic /\ UNCHANGED <<sess, call, stale, n>>
      /\ \E mac \in {NoMac, MacOver(m, "resp")} :
           Answer("ok", 0, mac, iv, wire.what \notin SealedCommand \union {"WriteMac"})
      /\ tag' = [tag EXCEPT !.m = m2, !.frames = 0, !.lrp = b, !.st = st]
  BY DEF TagSecured
<1> HIDE DEF iv
<1>2. /\ wire'.type = "ans" /\ wire'.n = wire.n
      /\ wire'.mac \in {NoMac, MacOver(m, "resp")}
  BY <1>1, AnswerFacts
<1>3. wire.what = call.cmd /\ call.cmd \in Command \ PlainCommand /\ ~InChain
  BY <1>1, NameFacts DEF RequestShape, InChain
<1>4. /\ tag.m \in Material /\ tag.m.ctr < n /\ tag.m.key < n /\ opened \in Material
      /\ opened.key = tag.m.key /\ opened.ctr = tag.m.ctr
  BY <1>1, NumberTypes, CipherType, AfterCipherFacts DEF CtrBound, KeyAge
<1> HIDE DEF opened
<1>5. m \in Material /\ m.key = tag.m.key /\ m.ctr = tag.m.ctr + 1
  BY <1>4, NumberTypes, AdvanceType DEF Advance, Succ, Material
<1> HIDE DEF m
<1>6. m2.key = tag.m.key /\ m2.ctr = tag.m.ctr + 1
  BY <1>5, AfterCipherFacts
<1> HIDE DEF m2
<1>7. tag'.m = m2 /\ tag'.frames = 0
  BY <1>1 DEF TypeOK, Tags
<1>8. tag.m.ctr = sess.m.ctr
  BY <1>1, <1>3, NameFacts DEF TagAuthentic, RequestShape, MacOver
<1>9. wire'.mac = NoMac \/ (wire'.mac.key < n /\ wire'.mac.ctr = sess.m.ctr + 1)
  BY <1>2, <1>4, <1>5, <1>8 DEF MacOver
<1>10. tag'.m.ctr <= n /\ tag'.m.key <= n
  BY <1>4, <1>6, <1>7, NumberTypes, MactTypes
<1> QED BY <1>1, <1>2, <1>3, <1>7, <1>9, <1>10, ServesOwn

\* Neither a tag that leaves the field nor a repeated answer gives a new one.
LEMMA IdleOwn ==
  ASSUME OwnIndInv, TypeInv', TagPowerCycle \/ RepeatAnswer \/ UNCHANGED vars
  PROVE  OwnInv'
<1> USE DEF OwnIndInv, TypeInv, OwnInv
<1>1. CASE TagPowerCycle
  <2>1. /\ tag' = [tag EXCEPT !.st = "idle", !.frames = 0]
        /\ UNCHANGED <<sess, call, wire, stale, n>>
    BY <1>1 DEF TagPowerCycle
  <2>2. tag'.m = tag.m /\ tag'.frames = 0
    BY <2>1 DEF TypeOK, Tags
  <2>3. CtrBound' /\ RequestShape' /\ RequestOwn' /\ KeyAge' /\ ChainOwn'
    BY <2>1, <2>2 DEF CtrBound, RequestShape, RequestOwn, KeyAge, ChainOwn
  <2>4. CallRuns'
    BY <2>1
  <2>5. AnswersSpent'
    BY <2>1 DEF AnswersSpent, OwnAnswer, InChain
  <2> QED BY <2>3, <2>4, <2>5
<1>2. CASE RepeatAnswer
  <2>1. /\ wire.type = "ans" /\ stale.type = "ans" /\ wire' = stale /\ stale' = wire
        /\ UNCHANGED <<sess, call, tag, n>>
    BY <1>2 DEF RepeatAnswer
  <2>2. CtrBound' /\ RequestShape' /\ RequestOwn' /\ KeyAge' /\ ChainOwn'
    BY <2>1 DEF CtrBound, RequestShape, RequestOwn, KeyAge, ChainOwn
  <2>3. CallRuns'
    BY <2>1
  <2>4. AnswersSpent'
    BY <2>1 DEF AnswersSpent, OwnAnswer, InChain
  <2> QED BY <2>2, <2>3, <2>4
<1>3. CASE UNCHANGED vars
  <2>1. UNCHANGED <<sess, call, tag, wire, stale, n>>
    BY <1>3 DEF vars
  <2>2. CtrBound' /\ RequestShape' /\ RequestOwn' /\ KeyAge' /\ ChainOwn'
    BY <2>1 DEF CtrBound, RequestShape, RequestOwn, KeyAge, ChainOwn
  <2>3. CallRuns'
    BY <2>1
  <2>4. AnswersSpent'
    BY <2>1 DEF AnswersSpent, OwnAnswer, InChain
  <2> QED BY <2>2, <2>3, <2>4
<1> QED BY <1>1, <1>2, <1>3

LEMMA OwnInit == Init => OwnInv
<1> SUFFICES ASSUME Init PROVE OwnInv
  OBVIOUS
<1>1. /\ call = Idle /\ wire = NoMsg /\ stale = NoMsg /\ sess = FreshSession
      /\ tag.m = Keyless /\ tag.frames = 0 /\ n = 0
  BY DEF Init
<1>2. /\ call.phase = "none" /\ wire.type = "none" /\ stale.type = "none"
      /\ sess.m.ctr = 0 /\ tag.m.ctr = 0 /\ tag.m.key = 0
  BY <1>1, FreshFacts, ConstantTypes DEF Keyless
<1>3. CallBound /\ CtrBound /\ RequestShape /\ RequestOwn /\ KeyAge
  BY <1>1, <1>2 DEF CallBound, CtrBound, RequestShape, RequestOwn, KeyAge, HasMact
<1>4. CallRuns
  BY <1>1, <1>2
<1>5. ChainOwn /\ AnswersSpent
  BY <1>1, <1>2 DEF ChainOwn, AnswersSpent, HasMact
<1> QED BY <1>3, <1>4, <1>5 DEF OwnInv

LEMMA OwnStep ==
  ASSUME OwnIndInv, [Next]_vars PROVE OwnIndInv'
<1>1. TypeInv'
  BY TypeStep DEF OwnIndInv
<1>2. OwnInv'
  <2>1. CASE Receive \/ TransportError
    BY <1>1, <2>1, ErrorOwn, ChallengeOwn, ProofOwn, FrameOwn, AnswerOwn DEF Receive
  <2>2. CASE TagServes
    BY <1>1, <2>2, TagHandshakeOwn, TagPlainOwn, TagOpensChainOwn, TagNextFrameOwn,
       TagSecuredOwn
       DEF TagServes
  <2> QED BY <1>1, <2>1, <2>2, CallerOwn, SendOwn, IdleOwn DEF Next
<1> QED BY <1>1, <1>2 DEF OwnIndInv

\* A MACt that verifies is over the next CmdCtr, which only the own answer has.
LEMMA VerifiedOwn ==
  ASSUME OwnIndInv, [Next]_vars, Confirms PROVE wire.n = n
<1> USE DEF OwnIndInv, TypeInv, OwnInv
<1>1. ReceiveMact /\ sess.st = "auth" /\ HasMact(wire) /\ ~call.keep
  BY ConfirmingStep DEF Confirms, HasMact, ReceiveMact, Waiting
<1>2. call.phase = "wait" /\ sess'.st = "auth"
  BY <1>1 DEF ReceiveMact, Waiting, Confirms
<1>3. ~Fails(Advance(sess.m))
  BY <1>1, <1>2, FreshFacts DEF Fails
<1>4. MactVerifies
  BY <1>1, <1>3 DEF ReceiveMact
<1>5. wire.mac.key = sess.m.key /\ wire.mac.ctr = sess.m.ctr + 1
  BY <1>2, <1>4, NoWrap DEF MactVerifies, MacOver, CtrBound
<1>6. OwnAnswer(wire)
  BY <1>1, <1>5, NumberTypes DEF AnswersSpent
<1> QED BY <1>6 DEF OwnAnswer

\* Whatever earlier answers the reader hands over, a MACt that the host verifies
\* came with the answer to the APDU that it waits for: CmdCtr under fresh keys
\* tells all answers apart, those of GetVersion chains included.
THEOREM OwnCorrect == Spec => ConfirmedAnswerIsOwn
<1>1. Init => OwnIndInv
  BY TypeInit, OwnInit DEF OwnIndInv
<1>2. OwnIndInv /\ [Next]_vars => OwnIndInv'
  BY OwnStep
<1>3. OwnIndInv /\ [Next]_vars => [Confirms => wire.n = n]_vars
  BY VerifiedOwn
<1> QED BY <1>1, <1>2, <1>3, PTL DEF Spec, ConfirmedAnswerIsOwn
=============================================================================
