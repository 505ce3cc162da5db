------------------------- MODULE Provisioning_proofs -------------------------
(***************************************************************************)
(* Machine-checked facts about provision and reset, for any number of      *)
(* issuers and calls.                                                      *)
(***************************************************************************)
EXTENDS Provisioning, TLAPS

USE IssuerAssumption, CallsAssumption DEF IssuerAssumption, CallsAssumption

\* The steps of provision from some point on.
FromKeys        == {"SetKey", "SetMasterKey"}
FromCc          == FromKeys \union {"WriteCc"}
FromSdm         == FromCc \union {"SdmSettings"}
FromNdef        == FromSdm \union {"WriteNdef"}
FromSeal        == FromNdef \union {"TtStatus"}
FromTamper      == FromSeal \union {"TagTamper"}
FromNewKeys     == FromTamper \union {"RandomUid", "NewKeys"}
FromOriginality == FromNewKeys \union {"VerifyOriginality"}
FromVersion     == FromOriginality \union {"FactoryAes", "EnableLrp", "FactoryLrp"}

\* What provision has found out and done on the way to its present step.
ProvisionShape ==
  /\ call.step \in FromVersion \union {"CheckVersion"} => call.proc = "provision"
  /\ call.step \in FromVersion => tag.hw424
  /\ call.step \in FromOriginality \union {"EnableLrp"} => tag.keys[0] = "zero"
  /\ call.step \in FromOriginality => tag.lrp
  /\ call.step \in FromNewKeys => tag.genuine
  /\ call.step \in FromTamper => tag.ruid
  /\ call.step \in FromSeal => (call.tt /\ tag.seal => tag.tt)
  /\ call.step \in FromSdm => tag.ndef = call.by
  /\ call.step \in FromCc => tag.sdm = call.by
  /\ call.step \in FromKeys => tag.cc = "issued"
  /\ call.step = "SetKey" =>
       call.key \in NonMaster /\ \A k \in NonMaster : k < call.key => tag.keys[k] = call.by
  /\ call.step = "SetMasterKey" => \A k \in NonMaster : tag.keys[k] = call.by

\* The steps of reset from some point on.
FromClear  == {"ClearKey", "ClearMasterKey"}
FromZero   == FromClear \union {"ZeroNdef"}
FromFactoryCc == FromZero \union {"FactoryCc", "CcSettings"}
FromReset  == FromFactoryCc \union {"NdefSettings"}

ResetShape ==
  /\ call.step \in FromReset \union {"ResolveUid", "CurrentKeys", "ResetLrp", "ResetAes"} =>
       call.proc = "reset"
  /\ call.step \in FromReset => tag.keys[0] = call.by
  /\ call.step \in FromFactoryCc => tag.sdm = "factory"
  /\ call.step \in FromZero => tag.cc = "factory"
  /\ call.step \in FromClear => tag.ndef = "zero"
  /\ call.step = "ClearKey" =>
       call.key \in NonMaster /\ \A k \in NonMaster : k < call.key => tag.keys[k] = "zero"
  /\ call.step = "ClearMasterKey" => \A k \in NonMaster : tag.keys[k] = "zero"

\* A running call has an issuer, has not told anything yet, and has one or two
\* APDUs to write.
CallShape ==
  call.step # "none" => call.by \in Issuer /\ call.told = "none" /\ call.left \in 1 .. 2

TagInv  == tag \in Tag /\ VerifiedFirst /\ KeysInOrder
CallInv ==
  /\ call \in Call /\ calls \in 0 .. MaxCalls
  /\ CallShape /\ ProvisionShape /\ ResetShape /\ OkMeansDone
ProvInv == TagInv /\ CallInv

USE DEF FromVersion, FromOriginality, FromNewKeys, FromTamper, FromSeal, FromNdef, FromSdm,
    FromCc, FromKeys, FromReset, FromFactoryCc, FromZero, FromClear

CustodyStep == [Custody!Next]_<<tag.keys[0], Status>>

-----------------------------------------------------------------------------
(* Calls *)

LEMMA AtFacts ==
  ASSUME NEW step \in Step, call \in Call
  PROVE  LET c == At(step)
         IN  /\ c \in Call /\ c.step = step /\ c.by = call.by /\ c.told = call.told
             /\ c.proc = call.proc /\ c.tt = call.tt /\ c.left = call.left /\ c.key = call.key
  BY DEF At, Call

LEMMA EndsFacts ==
  ASSUME NEW out \in {"ok", "error"}, call \in Call
  PROVE  LET c == Ends(out)
         IN  /\ c \in Call /\ c.step = "none" /\ c.by = call.by /\ c.told = out
             /\ c.proc = call.proc /\ c.tt = call.tt
<1> DEFINE c1 == [call EXCEPT !.step = "none"]
           c2 == [c1 EXCEPT !.told = out]
<1>1. c1 \in Call /\ c1.step = "none" /\ c1.by = call.by /\ c1.proc = call.proc /\ c1.tt = call.tt
  BY DEF Call, Step
<1> HIDE DEF c1
<1>2. c2 \in Call /\ c2.step = "none" /\ c2.by = call.by /\ c2.proc = call.proc /\ c2.tt = call.tt
      /\ c2.told = out
  BY <1>1 DEF Call
<1> HIDE DEF c2
<1>3. /\ [c2 EXCEPT !.refused = FALSE] \in Call
      /\ \A f \in {"step", "by", "told", "proc", "tt"} : [c2 EXCEPT !.refused = FALSE][f] = c2[f]
  BY <1>2 DEF Call
<1>4. Ends(out) = [c2 EXCEPT !.refused = FALSE]
  BY DEF Ends, c2, c1
<1> QED BY <1>2, <1>3, <1>4

\* A call that has failed, refused or not.
Over == call'.step = "none" /\ call'.told = "error" /\ call' \in Call

LEMMA FailedFacts ==
  ASSUME call \in Call
  PROVE  /\ Failed \in Call /\ Failed.step = "none" /\ Failed.told = "error"
         /\ LET c == [Failed EXCEPT !.refused = TRUE]
            IN  c \in Call /\ c.step = "none" /\ c.told = "error"
<1>1. Failed \in Call /\ Failed.step = "none" /\ Failed.told = "error"
  BY EndsFacts DEF Failed
<1>2. LET c == [Failed EXCEPT !.refused = TRUE]
      IN  c \in Call /\ c.step = "none" /\ c.told = "error"
  BY <1>1 DEF Call
<1> QED BY <1>1, <1>2

LEMMA OverInv == ASSUME CallInv, Over, UNCHANGED calls PROVE CallInv'
  BY DEF CallInv, Over, CallShape, ProvisionShape, ResetShape, OkMeansDone

LEMMA SameTag == ASSUME TagInv, UNCHANGED tag PROVE TagInv' /\ CustodyStep
  BY DEF TagInv, VerifiedFirst, KeysInOrder, Clean, CustodyStep, Status, Equipped

-----------------------------------------------------------------------------
(* The custody of the tag *)

LEMMA StockStep ==
  ASSUME tag.keys[0] = "zero", tag'.keys[0] = "zero", Clean' => Clean PROVE CustodyStep
  BY DEF CustodyStep, Status, Custody!Next, Custody!Prepare

LEMMA OwnedStep ==
  ASSUME tag.keys[0] # "zero", tag'.keys[0] = tag.keys[0],
         Equipped(tag.keys[0])' => Equipped(tag.keys[0])
  PROVE  CustodyStep
  BY DEF CustodyStep, Status, Custody!Next, Custody!Recall

-----------------------------------------------------------------------------
(* What the commands that change the tag make of it *)

LEMMA EnableLrpTag ==
  ASSUME ProvInv, call.step = "EnableLrp", tag' = [tag EXCEPT !.lrp = TRUE]
  PROVE  TagInv' /\ CustodyStep
<1> USE DEF ProvInv, TagInv
<1>1. /\ tag' \in Tag /\ tag'.keys = tag.keys /\ tag'.hw424 = tag.hw424 /\ tag'.genuine = tag.genuine
      /\ tag'.ruid = tag.ruid /\ tag'.tt = tag.tt /\ tag'.ndef = tag.ndef /\ tag'.sdm = tag.sdm
      /\ tag'.cc = tag.cc /\ tag.keys[0] = "zero" /\ tag.hw424
  BY DEF Tag, CallInv, ProvisionShape, FromVersion
<1>2. VerifiedFirst' /\ KeysInOrder' /\ Clean' = Clean
  BY <1>1 DEF VerifiedFirst, KeysInOrder, Clean
<1> QED BY <1>1, <1>2, StockStep

\* The options: what they set matters on a tag in preparation only.
LEMMA OptionTag ==
  ASSUME ProvInv, call.step \in {"RandomUid", "TagTamper"},
         \/ tag' = [tag EXCEPT !.ruid = TRUE]
         \/ tag' = [tag EXCEPT !.tt = TRUE]
  PROVE  TagInv' /\ CustodyStep
<1> USE DEF ProvInv, TagInv
<1>1. /\ tag' \in Tag /\ tag'.keys = tag.keys /\ tag'.hw424 = tag.hw424 /\ tag'.genuine = tag.genuine
      /\ tag'.ndef = tag.ndef /\ tag'.sdm = tag.sdm /\ tag'.cc = tag.cc
  BY DEF Tag
<1>2. tag.keys[0] = "zero" /\ tag.hw424 /\ tag.genuine
  BY DEF CallInv, ProvisionShape
<1>3. VerifiedFirst' /\ KeysInOrder' /\ Clean' = Clean
  BY <1>1, <1>2 DEF VerifiedFirst, KeysInOrder, Clean
<1> QED BY <1>1, <1>2, <1>3, StockStep

\* The files, while provisioning: something of the issuer gets onto the tag.
LEMMA ContentTag ==
  ASSUME ProvInv, call.step \in {"WriteNdef", "SdmSettings", "WriteCc"},
         \/ \E x \in Issuer \union {"mixed"} : tag' = [tag EXCEPT !.ndef = x]
         \/ \E x \in Issuer : tag' = [tag EXCEPT !.sdm = x]
         \/ tag' = [tag EXCEPT !.cc = "issued"]
  PROVE  TagInv' /\ CustodyStep
<1> USE DEF ProvInv, TagInv
<1>1. tag' \in Tag /\ tag'.keys = tag.keys /\ tag'.hw424 = tag.hw424 /\ tag'.genuine = tag.genuine
  BY DEF Tag, Content
<1>2. tag.keys[0] = "zero" /\ tag.hw424 /\ tag.genuine
  BY DEF CallInv, ProvisionShape
<1>3. VerifiedFirst' /\ KeysInOrder'
  BY <1>1, <1>2 DEF VerifiedFirst, KeysInOrder
<1>4. ~Clean'
  BY DEF Tag, Clean
<1> QED BY <1>1, <1>2, <1>3, <1>4, StockStep

\* The files, while resetting: the tag is complete for nobody afterwards.
LEMMA RestoreTag ==
  ASSUME ProvInv, call.step \in FromReset,
         \/ tag' = [tag EXCEPT !.sdm = "factory"]
         \/ tag' = [tag EXCEPT !.cc = "factory"]
         \/ \E x \in {"zero", "mixed"} : tag' = [tag EXCEPT !.ndef = x]
  PROVE  TagInv' /\ CustodyStep
<1> USE DEF ProvInv, TagInv
<1>1. tag' \in Tag /\ tag'.keys = tag.keys /\ tag'.hw424 = tag.hw424 /\ tag'.genuine = tag.genuine
  BY DEF Tag, Content
<1>2. tag.keys[0] \in Issuer /\ tag.keys[0] # "zero"
  BY DEF CallInv, ResetShape, CallShape
<1>3. VerifiedFirst' /\ KeysInOrder'
  BY <1>1, <1>2 DEF VerifiedFirst, KeysInOrder
<1>4. ~Equipped(tag.keys[0])'
  BY <1>2 DEF Tag, Equipped
<1> QED BY <1>1, <1>2, <1>3, <1>4, OwnedStep

\* A key that is changed: nothing else is.
LEMMA KeyFields ==
  ASSUME tag \in Tag, NEW no \in KeyNo, NEW key \in Holder, tag' = WithKey(no, key)
  PROVE  /\ tag' \in Tag /\ tag'.keys[no] = key
         /\ \A k \in KeyNo \ {no} : tag'.keys[k] = tag.keys[k]
         /\ tag'.hw424 = tag.hw424 /\ tag'.genuine = tag.genuine /\ tag'.ruid = tag.ruid
         /\ tag'.tt = tag.tt /\ tag'.ndef = tag.ndef /\ tag'.sdm = tag.sdm /\ tag'.cc = tag.cc
         /\ tag'.lrp = tag.lrp /\ tag'.seal = tag.seal
  BY DEF Tag, WithKey

LEMMA SetKeyTag ==
  ASSUME ProvInv, call.step = "SetKey", tag.keys[call.key] = "zero",
         tag' = WithKey(call.key, call.by)
  PROVE  TagInv' /\ CustodyStep
<1> USE DEF ProvInv, TagInv
<1>1. /\ call.key \in NonMaster /\ \A k \in NonMaster : k < call.key => tag.keys[k] = call.by
      /\ call.by \in Issuer /\ tag.keys[0] = "zero" /\ tag.hw424 /\ tag.genuine
  BY DEF CallInv, CallShape, ProvisionShape
<1>2. call.key \in KeyNo /\ call.key # 0 /\ call.by \in Holder
  BY <1>1 DEF KeyNo, NonMaster, Holder
<1>3. /\ tag' \in Tag /\ tag'.keys[call.key] = call.by
      /\ \A k \in KeyNo \ {call.key} : tag'.keys[k] = tag.keys[k]
      /\ tag'.hw424 = tag.hw424 /\ tag'.genuine = tag.genuine
  BY <1>2, KeyFields
<1>4. tag'.keys[0] = "zero"
  BY <1>1, <1>2, <1>3 DEF KeyNo
<1>5. KeysInOrder'
  <2> SUFFICES ASSUME NEW k \in NonMaster \ {1}, tag'.keys[k] # "zero"
               PROVE  tag'.keys[k] = tag'.keys[k - 1]
    BY <1>4 DEF KeysInOrder
  <2>1. k \in KeyNo /\ k - 1 \in KeyNo /\ k - 1 \in NonMaster /\ k - 1 < k /\ k # k - 1
    BY DEF KeyNo, NonMaster
  <2>2. CASE k = call.key
    BY <1>1, <1>3, <2>1, <2>2
  <2>3. CASE k # call.key
    BY <1>1, <1>3, <2>1, <2>3 DEF KeysInOrder
  <2> QED BY <2>2, <2>3
<1>6. VerifiedFirst' /\ ~Clean'
  BY <1>1, <1>3 DEF VerifiedFirst, Clean
<1> QED BY <1>1, <1>3, <1>4, <1>5, <1>6, StockStep

LEMMA SetMasterKeyTag ==
  ASSUME ProvInv, call.step = "SetMasterKey", tag' = WithKey(0, call.by)
  PROVE  TagInv' /\ CustodyStep /\ Equipped(tag.keys[0])'
<1> USE DEF ProvInv, TagInv
<1>1. /\ \A k \in NonMaster : tag.keys[k] = call.by
      /\ call.by \in Issuer /\ tag.keys[0] = "zero" /\ tag.hw424 /\ tag.genuine
      /\ tag.lrp /\ tag.ruid /\ tag.ndef = call.by /\ tag.sdm = call.by /\ tag.cc = "issued"
  BY DEF CallInv, CallShape, ProvisionShape
<1>2. 0 \in KeyNo /\ 0 \notin NonMaster /\ NonMaster \subseteq KeyNo /\ call.by \in Holder /\ 1 \in NonMaster
  BY <1>1 DEF KeyNo, NonMaster, Holder
<1>3. /\ tag' \in Tag /\ tag'.keys[0] = call.by
      /\ \A k \in NonMaster : tag'.keys[k] = call.by
      /\ tag'.hw424 = tag.hw424 /\ tag'.genuine = tag.genuine /\ tag'.ruid = tag.ruid
      /\ tag'.ndef = tag.ndef /\ tag'.sdm = tag.sdm /\ tag'.cc = tag.cc /\ tag'.lrp = tag.lrp
  BY <1>1, <1>2, KeyFields, ZenonT(60)
<1>4. Equipped(tag.keys[0])' /\ ~Clean
  BY <1>1, <1>2, <1>3 DEF Equipped, Clean
<1>5. VerifiedFirst' /\ KeysInOrder'
  BY <1>1, <1>2, <1>3 DEF VerifiedFirst, KeysInOrder
<1>6. Status = "preparing" /\ Status' = "issued"
  BY <1>1, <1>3, <1>4 DEF Status
<1>7. CustodyStep
  BY <1>1, <1>3, <1>6 DEF CustodyStep, Custody!Next, Custody!Issue
<1> QED BY <1>3, <1>4, <1>5, <1>7

LEMMA ClearKeyTag ==
  ASSUME ProvInv, call.step = "ClearKey", tag.keys[call.key] = call.by,
         tag' = WithKey(call.key, "zero")
  PROVE  TagInv' /\ CustodyStep
<1> USE DEF ProvInv, TagInv
<1>1. /\ call.key \in NonMaster /\ \A k \in NonMaster : k < call.key => tag.keys[k] = "zero"
      /\ call.by \in Issuer /\ tag.keys[0] = call.by /\ call.by # "zero"
  BY DEF CallInv, CallShape, ResetShape
<1>2. call.key \in KeyNo /\ call.key # 0 /\ "zero" \in Holder
  BY <1>1 DEF KeyNo, NonMaster, Holder
<1>3. /\ tag' \in Tag /\ tag'.keys[call.key] = "zero"
      /\ \A k \in KeyNo \ {call.key} : tag'.keys[k] = tag.keys[k]
      /\ tag'.hw424 = tag.hw424 /\ tag'.genuine = tag.genuine
  BY <1>2, KeyFields
<1>4. tag'.keys[0] = call.by
  BY <1>1, <1>2, <1>3 DEF KeyNo
<1>5. KeysInOrder'
  <2>1. ASSUME NEW k \in NonMaster PROVE tag'.keys[k] \in {tag'.keys[0], "zero"}
    BY <1>1, <1>3, <1>4 DEF KeysInOrder, KeyNo, NonMaster
  <2>2. ASSUME NEW k \in NonMaster \ {1}, tag'.keys[k] = "zero" PROVE tag'.keys[k - 1] = "zero"
    <3>1. k \in KeyNo /\ k - 1 \in KeyNo /\ k - 1 \in NonMaster /\ k - 1 < k
      BY DEF KeyNo, NonMaster
    <3>2. CASE k = call.key
      BY <1>1, <1>3, <3>1, <3>2
    <3>3. CASE k # call.key
      BY <1>1, <1>3, <2>2, <3>1, <3>3 DEF KeysInOrder
    <3> QED BY <3>2, <3>3
  <2> QED BY <1>1, <1>4, <2>1, <2>2 DEF KeysInOrder
<1>6. VerifiedFirst' /\ ~Equipped(tag.keys[0])'
  BY <1>1, <1>3, <1>4 DEF VerifiedFirst, Equipped
<1> QED BY <1>1, <1>3, <1>4, <1>5, <1>6, OwnedStep

LEMMA ClearMasterKeyTag ==
  ASSUME ProvInv, call.step = "ClearMasterKey", tag' = WithKey(0, "zero")
  PROVE  TagInv' /\ CustodyStep /\ Status' = "stock"
<1> USE DEF ProvInv, TagInv
<1>1. /\ \A k \in NonMaster : tag.keys[k] = "zero"
      /\ call.by \in Issuer /\ tag.keys[0] = call.by /\ call.by # "zero"
      /\ tag.ndef = "zero" /\ tag.sdm = "factory" /\ tag.cc = "factory"
  BY DEF CallInv, CallShape, ResetShape
<1>2. 0 \in KeyNo /\ 0 \notin NonMaster /\ NonMaster \subseteq KeyNo /\ "zero" \in Holder /\ 1 \in NonMaster
  BY DEF KeyNo, NonMaster, Holder
<1>3. /\ tag' \in Tag /\ tag'.keys[0] = "zero"
      /\ \A k \in NonMaster : tag'.keys[k] = "zero"
      /\ tag'.hw424 = tag.hw424 /\ tag'.genuine = tag.genuine /\ tag'.ruid = tag.ruid
      /\ tag'.ndef = tag.ndef /\ tag'.sdm = tag.sdm /\ tag'.cc = tag.cc /\ tag'.tt = tag.tt
  BY <1>1, <1>2, KeyFields
<1>4. Clean' /\ ~Equipped(call.by)
  BY <1>1, <1>2, <1>3 DEF Equipped, Clean
<1>5. VerifiedFirst' /\ KeysInOrder'
  BY <1>1, <1>2, <1>3 DEF VerifiedFirst, KeysInOrder
<1>6. Status = "returning" /\ Status' = "stock"
  BY <1>1, <1>3, <1>4 DEF Status
<1>7. CustodyStep
  BY <1>1, <1>3, <1>6 DEF CustodyStep, Custody!Next, Custody!Return
<1> QED BY <1>3, <1>5, <1>6, <1>7
-----------------------------------------------------------------------------
(* The steps of provision *)

LEMMA ProvisionInv == ASSUME ProvInv, NEW i \in Issuer, Provision(i) PROVE ProvInv' /\ CustodyStep
<1> USE DEF ProvInv, TagInv
<1>1. PICK tt \in BOOLEAN, left \in 1 .. 2 :
        call' = [NoCall EXCEPT !.proc = "provision", !.by = i, !.tt = tt,
                               !.left = left, !.step = "CheckVersion"]
  BY DEF Provision
<1>2. /\ call' = [proc |-> "provision", by |-> i, step |-> "CheckVersion", tt |-> tt,
                  left |-> left, key |-> 0, told |-> "none", refused |-> FALSE]
  BY <1>1 DEF NoCall
<1>3. call' \in Call
  BY <1>2 DEF Call, Step, KeyNo
<1>4. calls' \in 0 .. MaxCalls /\ UNCHANGED tag
  BY DEF Provision, CanCall, CallInv
<1>5. CallInv'
  BY <1>2, <1>3, <1>4 DEF CallInv, CallShape, ProvisionShape, ResetShape, OkMeansDone
<1> QED BY <1>4, <1>5 DEF VerifiedFirst, KeysInOrder, Clean, CustodyStep, Status, Equipped

LEMMA ResetInv == ASSUME ProvInv, NEW i \in Issuer, Reset(i) PROVE ProvInv' /\ CustodyStep
<1> USE DEF ProvInv, TagInv
<1>1. PICK step \in {"ResolveUid", "CurrentKeys"} :
        call' = [NoCall EXCEPT !.proc = "reset", !.by = i, !.step = step, !.left = 2]
  BY DEF Reset
<1>2. /\ call' = [proc |-> "reset", by |-> i, step |-> step, tt |-> FALSE,
                  left |-> 2, key |-> 0, told |-> "none", refused |-> FALSE]
  BY <1>1 DEF NoCall
<1>3. call' \in Call
  BY <1>2 DEF Call, Step, KeyNo
<1>4. calls' \in 0 .. MaxCalls /\ UNCHANGED tag
  BY DEF Reset, CanCall, CallInv
<1>5. CallInv'
  BY <1>2, <1>3, <1>4 DEF CallInv, CallShape, ProvisionShape, ResetShape, OkMeansDone
<1> QED BY <1>4, <1>5 DEF VerifiedFirst, KeysInOrder, Clean, CustodyStep, Status, Equipped

\* The next step of a running call, when what it asks of the tag holds.
LEMMA NextInv ==
  ASSUME CallInv, call.step # "none", UNCHANGED calls, NEW step \in Step,
         call' = At(step), ProvisionShape', ResetShape'
  PROVE  CallInv'
<1>1. /\ call' \in Call /\ call'.by = call.by /\ call'.told = "none" /\ call'.left = call.left
  BY AtFacts DEF CallInv, CallShape
<1> QED BY <1>1 DEF CallInv, CallShape, OkMeansDone

LEMMA CheckVersionInv == ASSUME ProvInv, CheckVersion PROVE ProvInv' /\ CustodyStep
<1> USE DEF ProvInv, CallInv
<1>1. call.step = "CheckVersion" /\ UNCHANGED <<tag, calls>>
      /\ (Over \/ (tag.hw424 /\ call' = At("FactoryAes")))
  BY FailedFacts DEF CheckVersion, Command, Exchange, TagOpens, Over
<1>2. ASSUME NEW step \in {"FactoryAes"}, call' = At(step), (step = "FactoryAes" => tag.hw424) PROVE CallInv'
  <2>1. /\ step \in Step /\ call'.step = step /\ call'.proc = call.proc /\ call'.by = call.by
        /\ call'.tt = call.tt
    BY <1>2, AtFacts DEF Step
  <2>2. ProvisionShape' /\ ResetShape'
    BY <1>1, <1>2, <2>1 DEF ProvisionShape, ResetShape
  <2> QED BY <1>1, <1>2, <2>1, <2>2, NextInv
<1> QED BY <1>1, <1>2, OverInv, SameTag

LEMMA FactoryAesInv == ASSUME ProvInv, FactoryAes PROVE ProvInv' /\ CustodyStep
<1> USE DEF ProvInv, CallInv
<1>1. call.step = "FactoryAes" /\ UNCHANGED <<tag, calls>>
      /\ (Over \/ (tag.keys[0] = "zero" /\ call' = At("EnableLrp")) \/ call' = At("FactoryLrp"))
  BY FailedFacts DEF FactoryAes, Command, Exchange, TagOpens, Over
<1>2. ASSUME NEW step \in {"EnableLrp", "FactoryLrp"}, call' = At(step), (step = "EnableLrp" => tag.keys[0] = "zero") PROVE CallInv'
  <2>1. /\ step \in Step /\ call'.step = step /\ call'.proc = call.proc /\ call'.by = call.by
        /\ call'.tt = call.tt
    BY <1>2, AtFacts DEF Step
  <2>2. ProvisionShape' /\ ResetShape'
    BY <1>1, <1>2, <2>1 DEF ProvisionShape, ResetShape
  <2> QED BY <1>1, <1>2, <2>1, <2>2, NextInv
<1> QED BY <1>1, <1>2, OverInv, SameTag

LEMMA FactoryLrpInv == ASSUME ProvInv, FactoryLrp PROVE ProvInv' /\ CustodyStep
<1> USE DEF ProvInv, CallInv
<1>1. call.step = "FactoryLrp" /\ UNCHANGED <<tag, calls>>
      /\ (Over \/ (tag.lrp /\ tag.keys[0] = "zero" /\ call' = At("VerifyOriginality")))
  BY FailedFacts DEF FactoryLrp, Command, Exchange, TagOpens, Over
<1>2. ASSUME NEW step \in {"VerifyOriginality"}, call' = At(step), (step = "VerifyOriginality" => tag.lrp /\ tag.keys[0] = "zero") PROVE CallInv'
  <2>1. /\ step \in Step /\ call'.step = step /\ call'.proc = call.proc /\ call'.by = call.by
        /\ call'.tt = call.tt
    BY <1>2, AtFacts DEF Step
  <2>2. ProvisionShape' /\ ResetShape'
    BY <1>1, <1>2, <2>1 DEF ProvisionShape, ResetShape
  <2> QED BY <1>1, <1>2, <2>1, <2>2, NextInv
<1> QED BY <1>1, <1>2, OverInv, SameTag

LEMMA VerifyOriginalityInv == ASSUME ProvInv, VerifyOriginality PROVE ProvInv' /\ CustodyStep
<1> USE DEF ProvInv, CallInv
<1>1. call.step = "VerifyOriginality" /\ UNCHANGED <<tag, calls>>
      /\ (Over \/ (tag.genuine /\ call' = At("NewKeys")))
  BY FailedFacts DEF VerifyOriginality, Command, Exchange, TagOpens, Over
<1>2. ASSUME NEW step \in {"NewKeys"}, call' = At(step), (step = "NewKeys" => tag.genuine) PROVE CallInv'
  <2>1. /\ step \in Step /\ call'.step = step /\ call'.proc = call.proc /\ call'.by = call.by
        /\ call'.tt = call.tt
    BY <1>2, AtFacts DEF Step
  <2>2. ProvisionShape' /\ ResetShape'
    BY <1>1, <1>2, <2>1 DEF ProvisionShape, ResetShape
  <2> QED BY <1>1, <1>2, <2>1, <2>2, NextInv
<1> QED BY <1>1, <1>2, OverInv, SameTag

LEMMA NewKeysInv == ASSUME ProvInv, NewKeys PROVE ProvInv' /\ CustodyStep
<1> USE DEF ProvInv, CallInv
<1>1. call.step = "NewKeys" /\ UNCHANGED <<tag, calls>>
      /\ (Over \/ call' = At("RandomUid"))
  BY FailedFacts DEF NewKeys, Command, Exchange, TagOpens, Over
<1>2. ASSUME NEW step \in {"RandomUid"}, call' = At(step) PROVE CallInv'
  <2>1. /\ step \in Step /\ call'.step = step /\ call'.proc = call.proc /\ call'.by = call.by
        /\ call'.tt = call.tt
    BY <1>2, AtFacts DEF Step
  <2>2. ProvisionShape' /\ ResetShape'
    BY <1>1, <1>2, <2>1 DEF ProvisionShape, ResetShape
  <2> QED BY <1>1, <1>2, <2>1, <2>2, NextInv
<1> QED BY <1>1, <1>2, OverInv, SameTag

LEMMA TtStatusInv == ASSUME ProvInv, TtStatus PROVE ProvInv' /\ CustodyStep
<1> USE DEF ProvInv, CallInv
<1>1. call.step = "TtStatus" /\ UNCHANGED <<tag, calls>>
      /\ (Over \/ call' = At("WriteNdef"))
  BY FailedFacts DEF TtStatus, Command, Exchange, TagOpens, Over
<1>2. ASSUME NEW step \in {"WriteNdef"}, call' = At(step) PROVE CallInv'
  <2>1. /\ step \in Step /\ call'.step = step /\ call'.proc = call.proc /\ call'.by = call.by
        /\ call'.tt = call.tt
    BY <1>2, AtFacts DEF Step
  <2>2. ProvisionShape' /\ ResetShape'
    BY <1>1, <1>2, <2>1 DEF ProvisionShape, ResetShape
  <2> QED BY <1>1, <1>2, <2>1, <2>2, NextInv
<1> QED BY <1>1, <1>2, OverInv, SameTag

LEMMA EnableLrpInv == ASSUME ProvInv, EnableLrp PROVE ProvInv' /\ CustodyStep
<1> USE DEF ProvInv, CallInv
<1> DEFINE after == [tag EXCEPT !.lrp = TRUE]
<1>1. /\ call.step = "EnableLrp" /\ UNCHANGED calls /\ (UNCHANGED tag \/ tag' = after)
      /\ Over \/ (tag' = after /\ ((call' = At("FactoryLrp"))))
  BY FailedFacts DEF EnableLrp, Command, Exchange, Over
<1>2. TagInv' /\ CustodyStep
  BY <1>1, EnableLrpTag, SameTag DEF CallShape
<1>3. ASSUME NEW step \in {"FactoryLrp"}, call' = At(step), tag' = after PROVE CallInv'
  <2>1. /\ step \in Step /\ call'.step = step /\ call'.proc = call.proc /\ call'.by = call.by
        /\ call'.tt = call.tt
    BY <1>3, AtFacts DEF Step
  <2>2. ProvisionShape' /\ ResetShape'
    BY <1>1, <1>3, <2>1 DEF ProvisionShape, ResetShape, TagInv, Tag
  <2> QED BY <1>1, <1>3, <2>1, <2>2, NextInv
<1> QED BY <1>1, <1>2, <1>3, OverInv

LEMMA RandomUidInv == ASSUME ProvInv, RandomUid PROVE ProvInv' /\ CustodyStep
<1> USE DEF ProvInv, CallInv
<1> DEFINE after == [tag EXCEPT !.ruid = TRUE]
<1>1. /\ call.step = "RandomUid" /\ UNCHANGED calls /\ (UNCHANGED tag \/ tag' = after)
      /\ Over \/ (tag' = after /\ ((call' = At("TagTamper")) \/ (~(call.tt /\ tag.seal) /\ call' = At("WriteNdef"))))
  BY FailedFacts DEF RandomUid, Command, Exchange, Over
<1>2. TagInv' /\ CustodyStep
  BY <1>1, OptionTag, SameTag DEF CallShape
<1>3. ASSUME NEW step \in {"TagTamper", "WriteNdef"}, call' = At(step), tag' = after, (step = "WriteNdef" => ~(call.tt /\ tag.seal)) PROVE CallInv'
  <2>1. /\ step \in Step /\ call'.step = step /\ call'.proc = call.proc /\ call'.by = call.by
        /\ call'.tt = call.tt
    BY <1>3, AtFacts DEF Step
  <2>2. ProvisionShape' /\ ResetShape'
    BY <1>1, <1>3, <2>1 DEF ProvisionShape, ResetShape, TagInv, Tag
  <2> QED BY <1>1, <1>3, <2>1, <2>2, NextInv
<1> QED BY <1>1, <1>2, <1>3, OverInv

LEMMA TagTamperInv == ASSUME ProvInv, TagTamper PROVE ProvInv' /\ CustodyStep
<1> USE DEF ProvInv, CallInv
<1> DEFINE after == [tag EXCEPT !.tt = TRUE]
<1>1. /\ call.step = "TagTamper" /\ UNCHANGED calls /\ (UNCHANGED tag \/ tag' = after)
      /\ Over \/ (tag' = after /\ ((call' = At("TtStatus"))))
  BY FailedFacts DEF TagTamper, Command, Exchange, Over
<1>2. TagInv' /\ CustodyStep
  BY <1>1, OptionTag, SameTag DEF CallShape
<1>3. ASSUME NEW step \in {"TtStatus"}, call' = At(step), tag' = after PROVE CallInv'
  <2>1. /\ step \in Step /\ call'.step = step /\ call'.proc = call.proc /\ call'.by = call.by
        /\ call'.tt = call.tt
    BY <1>3, AtFacts DEF Step
  <2>2. ProvisionShape' /\ ResetShape'
    BY <1>1, <1>3, <2>1 DEF ProvisionShape, ResetShape, TagInv, Tag
  <2> QED BY <1>1, <1>3, <2>1, <2>2, NextInv
<1> QED BY <1>1, <1>2, <1>3, OverInv

LEMMA SdmSettingsInv == ASSUME ProvInv, SdmSettings PROVE ProvInv' /\ CustodyStep
<1> USE DEF ProvInv, CallInv
<1> DEFINE after == [tag EXCEPT !.sdm = call.by]
<1>1. /\ call.step = "SdmSettings" /\ UNCHANGED calls /\ (UNCHANGED tag \/ tag' = after)
      /\ Over \/ (tag' = after /\ ((call' = At("WriteCc"))))
  BY FailedFacts DEF SdmSettings, Command, Exchange, Over
<1>2. TagInv' /\ CustodyStep
  BY <1>1, ContentTag, SameTag DEF CallShape
<1>3. ASSUME NEW step \in {"WriteCc"}, call' = At(step), tag' = after PROVE CallInv'
  <2>1. /\ step \in Step /\ call'.step = step /\ call'.proc = call.proc /\ call'.by = call.by
        /\ call'.tt = call.tt
    BY <1>3, AtFacts DEF Step
  <2>2. ProvisionShape' /\ ResetShape'
    BY <1>1, <1>3, <2>1 DEF ProvisionShape, ResetShape, TagInv, Tag
  <2> QED BY <1>1, <1>3, <2>1, <2>2, NextInv
<1> QED BY <1>1, <1>2, <1>3, OverInv

\* A chunk that is not the last leaves the call at this step.
LEMMA WriteNdefInv == ASSUME ProvInv, WriteNdef PROVE ProvInv' /\ CustodyStep
<1> USE DEF ProvInv, CallInv
<1> DEFINE after == [tag EXCEPT !.ndef = IF call.left = 1 THEN call.by ELSE "mixed"]
           more == [call EXCEPT !.left = @ - 1]
           last == At("SdmSettings")
<1>1. /\ call.step = "WriteNdef" /\ UNCHANGED calls /\ (UNCHANGED tag \/ tag' = after)
      /\ \/ Over
         \/ tag' = after /\ call.left = 1 /\ call' = last
         \/ tag' = after /\ call.left # 1 /\ call' = more
      /\ call \in Call /\ call.left \in 1 .. 2 /\ call.by \in Issuer /\ call.told = "none"
  BY FailedFacts DEF WriteNdef, Command, Exchange, Over, CallShape
<1>2. TagInv' /\ CustodyStep
  <2>1. UNCHANGED tag \/ \E x \in Issuer \union {"mixed"} : tag' = [tag EXCEPT !.ndef = x]
    BY <1>1
  <2> QED BY <1>1, <2>1, ContentTag, SameTag
<1>3. CASE tag' = after /\ call.left = 1 /\ call' = last
  <2>1. /\ "SdmSettings" \in Step /\ call'.step = "SdmSettings" /\ call'.proc = call.proc
        /\ call'.by = call.by /\ call'.tt = call.tt
    BY <1>1, <1>3, AtFacts DEF Step
  <2>2. ProvisionShape' /\ ResetShape'
    BY <1>1, <1>3, <2>1 DEF ProvisionShape, ResetShape, TagInv, Tag
  <2> QED BY <1>1, <1>2, <1>3, <2>1, <2>2, NextInv
<1>4. CASE tag' = after /\ call.left # 1 /\ call' = more
  <2>1. /\ call' \in Call /\ call'.left = 1
        /\ call'.step = "WriteNdef" /\ call'.by = call.by /\ call'.proc = call.proc
        /\ call'.tt = call.tt /\ call'.told = "none"
    BY <1>1, <1>4 DEF Call
  <2>2. ProvisionShape' /\ ResetShape' /\ CallShape' /\ OkMeansDone'
    BY <1>1, <1>4, <2>1 DEF ProvisionShape, ResetShape, CallShape, OkMeansDone, TagInv, Tag
  <2> QED BY <1>1, <1>2, <2>1, <2>2
<1> QED BY <1>1, <1>2, <1>3, <1>4, OverInv

LEMMA WriteCcInv == ASSUME ProvInv, WriteCc PROVE ProvInv' /\ CustodyStep
<1> USE DEF ProvInv, CallInv
<1> DEFINE after == [tag EXCEPT !.cc = "issued"]
           first == [At("SetKey") EXCEPT !.key = 1]
<1>1. /\ call.step = "WriteCc" /\ UNCHANGED calls /\ (UNCHANGED tag \/ tag' = after)
      /\ Over \/ (tag' = after /\ call' = first)
  BY FailedFacts DEF WriteCc, Command, Exchange, Over
<1>2. TagInv' /\ CustodyStep
  BY <1>1, ContentTag, SameTag
<1>3. CASE tag' = after /\ call' = first
  <2>1. LET c == At("SetKey")
        IN  /\ c \in Call /\ c.step = "SetKey" /\ c.proc = call.proc
            /\ c.by = call.by /\ c.tt = call.tt /\ c.told = "none" /\ c.left = call.left
    BY <1>1, AtFacts DEF Step, CallShape
  <2>2. /\ call' \in Call /\ call'.step = "SetKey" /\ call'.proc = call.proc /\ call'.key = 1
        /\ call'.by = call.by /\ call'.tt = call.tt /\ call'.told = "none" /\ call'.left = call.left
    BY <1>3, <2>1 DEF Call, KeyNo
  <2>3. ProvisionShape' /\ ResetShape' /\ CallShape' /\ OkMeansDone'
    BY <1>1, <1>3, <2>2 DEF ProvisionShape, ResetShape, CallShape, OkMeansDone, TagInv, Tag,
       NonMaster
  <2> QED BY <1>1, <1>2, <2>2, <2>3
<1> QED BY <1>1, <1>2, <1>3, OverInv

\* The loop over the keys other than the master key.
LEMMA SetKeyInv == ASSUME ProvInv, SetKey PROVE ProvInv' /\ CustodyStep
<1> USE DEF ProvInv, CallInv
<1> DEFINE after == WithKey(call.key, call.by)
           more == [call EXCEPT !.key = @ + 1]
<1>1. /\ call.step = "SetKey" /\ UNCHANGED calls
      /\ UNCHANGED tag \/ (tag.keys[call.key] = "zero" /\ tag' = after)
      /\ \/ Over
         \/ tag.keys[call.key] = "zero" /\ tag' = after /\ call.key = 4 /\ call' = At("SetMasterKey")
         \/ tag.keys[call.key] = "zero" /\ tag' = after /\ call.key # 4 /\ call' = more
      /\ call \in Call /\ call.left \in 1 .. 2 /\ call.by \in Issuer /\ call.told = "none"
  BY FailedFacts DEF SetKey, Exchange, Over, CallShape, LastKey
<1>2. TagInv' /\ CustodyStep
  BY <1>1, SetKeyTag, SameTag
<1>3. /\ call.key \in NonMaster /\ call.key \in KeyNo /\ 0 \in KeyNo /\ call.key # 0
      /\ \A k \in NonMaster : k \in KeyNo /\ (k < call.key => tag.keys[k] = call.by)
      /\ call.by \in Holder
  BY <1>1 DEF ProvisionShape, ResetShape, KeyNo, NonMaster, Holder
<1>4. tag' = after =>
        /\ tag'.keys[0] = tag.keys[0]
        /\ \A k \in NonMaster : k <= call.key => tag'.keys[k] = call.by
        /\ tag'.hw424 = tag.hw424 /\ tag'.genuine = tag.genuine /\ tag'.ruid = tag.ruid
        /\ tag'.tt = tag.tt /\ tag'.ndef = tag.ndef /\ tag'.sdm = tag.sdm /\ tag'.cc = tag.cc
        /\ tag'.lrp = tag.lrp /\ tag'.seal = tag.seal
  <2>1. tag' = after =>
        /\ tag'.keys[call.key] = call.by
        /\ \A k \in KeyNo \ {call.key} : tag'.keys[k] = tag.keys[k]
        /\ tag'.hw424 = tag.hw424 /\ tag'.genuine = tag.genuine /\ tag'.ruid = tag.ruid
        /\ tag'.tt = tag.tt /\ tag'.ndef = tag.ndef /\ tag'.sdm = tag.sdm /\ tag'.cc = tag.cc
        /\ tag'.lrp = tag.lrp /\ tag'.seal = tag.seal
    BY <1>3, KeyFields DEF TagInv
  <2> QED BY <1>3, <2>1 DEF NonMaster
<1>5. CASE tag' = after /\ call.key = 4 /\ call' = At("SetMasterKey")
  <2>1. /\ "SetMasterKey" \in Step /\ call'.step = "SetMasterKey" /\ call'.proc = call.proc
        /\ call'.by = call.by /\ call'.tt = call.tt
    BY <1>1, <1>5, AtFacts DEF Step
  <2>2. ProvisionShape' /\ ResetShape'
    BY <1>1, <1>4, <1>5, <2>1 DEF ProvisionShape, ResetShape, NonMaster
  <2> QED BY <1>1, <1>2, <1>5, <2>1, <2>2, NextInv
<1>6. CASE tag' = after /\ call.key # 4 /\ call' = more
  <2>1. /\ call' \in Call /\ call'.key = call.key + 1 /\ call'.left = call.left
        /\ call'.step = "SetKey" /\ call'.by = call.by /\ call'.proc = call.proc
        /\ call'.tt = call.tt /\ call'.told = "none"
    BY <1>1, <1>3, <1>6 DEF Call, KeyNo, NonMaster
  <2>2. call'.key \in NonMaster /\ \A k \in NonMaster : k < call'.key => k <= call.key
    BY <1>3, <1>6, <2>1 DEF NonMaster
  <2>3. ProvisionShape' /\ ResetShape' /\ CallShape' /\ OkMeansDone'
    BY <1>1, <1>4, <1>6, <2>1, <2>2 DEF ProvisionShape, ResetShape, CallShape, OkMeansDone
  <2> QED BY <1>1, <1>2, <2>1, <2>3
<1> QED BY <1>1, <1>2, <1>5, <1>6, OverInv

LEMMA SetMasterKeyInv == ASSUME ProvInv, SetMasterKey PROVE ProvInv' /\ CustodyStep
<1> USE DEF ProvInv, CallInv
<1> DEFINE after == WithKey(0, call.by)
<1>1. /\ call.step = "SetMasterKey" /\ UNCHANGED calls /\ (UNCHANGED tag \/ tag' = after)
      /\ Over \/ (tag' = after /\ call' = Ends("ok"))
      /\ call \in Call
  BY FailedFacts DEF SetMasterKey, Command, Exchange, Over
<1>2. TagInv' /\ CustodyStep
  BY <1>1, SetMasterKeyTag, SameTag
<1>3. CASE tag' = after /\ call' = Ends("ok")
  <2>1. /\ call' \in Call /\ call'.step = "none" /\ call'.by = call.by /\ call'.proc = call.proc
        /\ call'.tt = call.tt
    BY <1>1, <1>3, EndsFacts
  <2>2. OkMeansDone'
    <3>1. /\ call.proc = "provision" /\ tag.hw424 /\ tag.genuine /\ call.by \in Issuer
          /\ call.tt /\ tag.seal => tag.tt
      BY <1>1 DEF ProvisionShape, CallShape
    <3>2. 0 \in KeyNo /\ call.by \in Holder
      BY <3>1 DEF KeyNo, Holder
    <3>3. /\ tag'.keys[0] = call.by /\ tag'.hw424 = tag.hw424 /\ tag'.genuine = tag.genuine
          /\ tag'.seal = tag.seal /\ tag'.tt = tag.tt
      BY <1>3, <3>2, KeyFields DEF TagInv
    <3>4. Equipped(tag.keys[0])'
      BY <1>1, <1>3, SetMasterKeyTag
    <3>5. Equipped(call.by)'
      BY <2>1, <3>3, <3>4
    <3> QED BY <2>1, <3>1, <3>3, <3>5 DEF OkMeansDone
  <2>3. ProvisionShape' /\ ResetShape' /\ CallShape'
    BY <2>1 DEF ProvisionShape, ResetShape, CallShape
  <2> QED BY <1>1, <1>2, <2>1, <2>2, <2>3
<1> QED BY <1>1, <1>2, <1>3, OverInv

-----------------------------------------------------------------------------
(* The steps of reset *)

LEMMA ResolveUidInv == ASSUME ProvInv, ResolveUid PROVE ProvInv' /\ CustodyStep
<1> USE DEF ProvInv, CallInv
<1>1. call.step = "ResolveUid" /\ UNCHANGED <<tag, calls>>
      /\ (Over \/ call' = At("CurrentKeys"))
  BY FailedFacts DEF ResolveUid, Command, Exchange, TagOpens, Over
<1>2. ASSUME NEW step \in {"CurrentKeys"}, call' = At(step) PROVE CallInv'
  <2>1. /\ step \in Step /\ call'.step = step /\ call'.proc = call.proc /\ call'.by = call.by
        /\ call'.tt = call.tt
    BY <1>2, AtFacts DEF Step
  <2>2. ProvisionShape' /\ ResetShape'
    BY <1>1, <1>2, <2>1 DEF ProvisionShape, ResetShape
  <2> QED BY <1>1, <1>2, <2>1, <2>2, NextInv
<1> QED BY <1>1, <1>2, OverInv, SameTag

LEMMA CurrentKeysInv == ASSUME ProvInv, CurrentKeys PROVE ProvInv' /\ CustodyStep
<1> USE DEF ProvInv, CallInv
<1>1. call.step = "CurrentKeys" /\ UNCHANGED <<tag, calls>>
      /\ (Over \/ call' = At("ResetLrp"))
  BY FailedFacts DEF CurrentKeys, Command, Exchange, TagOpens, Over
<1>2. ASSUME NEW step \in {"ResetLrp"}, call' = At(step) PROVE CallInv'
  <2>1. /\ step \in Step /\ call'.step = step /\ call'.proc = call.proc /\ call'.by = call.by
        /\ call'.tt = call.tt
    BY <1>2, AtFacts DEF Step
  <2>2. ProvisionShape' /\ ResetShape'
    BY <1>1, <1>2, <2>1 DEF ProvisionShape, ResetShape
  <2> QED BY <1>1, <1>2, <2>1, <2>2, NextInv
<1> QED BY <1>1, <1>2, OverInv, SameTag

\* Whatever goes wrong with LRP, AES is tried next, without a word of it.
LEMMA ResetLrpInv == ASSUME ProvInv, ResetLrp PROVE ProvInv' /\ CustodyStep
<1> USE DEF ProvInv, CallInv
<1> DEFINE aes == At("ResetAes")
           refused == [aes EXCEPT !.refused = TRUE]
<1>1. call.step = "ResetLrp" /\ UNCHANGED <<tag, calls>>
      /\ \/ tag.keys[0] = call.by /\ call' = At("NdefSettings")
         \/ call' \in {aes, refused}
  BY DEF ResetLrp, Exchange, TagOpens
<1>2. /\ At("NdefSettings") \in Call /\ At("NdefSettings").step = "NdefSettings"
      /\ At("NdefSettings").by = call.by /\ At("NdefSettings").proc = call.proc
      /\ At("NdefSettings").told = call.told /\ At("NdefSettings").left = call.left
  BY AtFacts DEF Step
<1>3. /\ aes \in Call /\ aes.step = "ResetAes" /\ aes.by = call.by /\ aes.proc = call.proc
      /\ aes.told = call.told /\ aes.left = call.left
  BY AtFacts DEF Step
<1> HIDE DEF aes
<1>4. /\ refused \in Call /\ refused.step = "ResetAes" /\ refused.by = call.by
      /\ refused.proc = call.proc /\ refused.told = call.told
      /\ refused.left = call.left
  BY <1>3 DEF Call
<1> HIDE DEF refused
<1>5. /\ call' \in Call /\ call'.by = call.by /\ call'.proc = call.proc /\ call'.told = call.told
      /\ call'.left = call.left
      /\ \/ call'.step = "ResetAes"
         \/ call'.step = "NdefSettings" /\ tag.keys[0] = call.by
  BY <1>1, <1>2, <1>3, <1>4
<1>6. CallInv'
  BY <1>1, <1>5 DEF CallShape, ProvisionShape, ResetShape, OkMeansDone
<1> QED BY <1>1, <1>6, SameTag

LEMMA ResetAesInv == ASSUME ProvInv, ResetAes PROVE ProvInv' /\ CustodyStep
<1> USE DEF ProvInv, CallInv
<1>1. call.step = "ResetAes" /\ UNCHANGED <<tag, calls>>
      /\ (Over \/ (tag.keys[0] = call.by /\ call' = At("NdefSettings")))
  BY FailedFacts DEF ResetAes, Command, Exchange, TagOpens, Over
<1>2. ASSUME NEW step \in {"NdefSettings"}, call' = At(step), (step = "NdefSettings" => tag.keys[0] = call.by) PROVE CallInv'
  <2>1. /\ step \in Step /\ call'.step = step /\ call'.proc = call.proc /\ call'.by = call.by
        /\ call'.tt = call.tt
    BY <1>2, AtFacts DEF Step
  <2>2. ProvisionShape' /\ ResetShape'
    BY <1>1, <1>2, <2>1 DEF ProvisionShape, ResetShape
  <2> QED BY <1>1, <1>2, <2>1, <2>2, NextInv
<1> QED BY <1>1, <1>2, OverInv, SameTag

LEMMA NdefSettingsInv == ASSUME ProvInv, NdefSettings PROVE ProvInv' /\ CustodyStep
<1> USE DEF ProvInv, CallInv
<1> DEFINE after == [tag EXCEPT !.sdm = "factory"]
<1>1. /\ call.step = "NdefSettings" /\ UNCHANGED calls /\ (UNCHANGED tag \/ tag' = after)
      /\ Over \/ (tag' = after /\ ((call' = At("CcSettings"))))
  BY FailedFacts DEF NdefSettings, Command, Exchange, Over
<1>2. TagInv' /\ CustodyStep
  BY <1>1, RestoreTag, SameTag DEF CallShape
<1>3. ASSUME NEW step \in {"CcSettings"}, call' = At(step), tag' = after PROVE CallInv'
  <2>1. /\ step \in Step /\ call'.step = step /\ call'.proc = call.proc /\ call'.by = call.by
        /\ call'.tt = call.tt
    BY <1>3, AtFacts DEF Step
  <2>2. ProvisionShape' /\ ResetShape'
    BY <1>1, <1>3, <2>1 DEF ProvisionShape, ResetShape, TagInv, Tag
  <2> QED BY <1>1, <1>3, <2>1, <2>2, NextInv
<1> QED BY <1>1, <1>2, <1>3, OverInv

LEMMA CcSettingsInv == ASSUME ProvInv, CcSettings PROVE ProvInv' /\ CustodyStep
<1> USE DEF ProvInv, CallInv
<1> DEFINE after == tag
<1>1. /\ call.step = "CcSettings" /\ UNCHANGED calls /\ (UNCHANGED tag \/ tag' = after)
      /\ Over \/ (tag' = after /\ ((call' = At("FactoryCc"))))
  BY FailedFacts DEF CcSettings, Command, Exchange, Over
<1>2. TagInv' /\ CustodyStep
  BY <1>1, SameTag, SameTag DEF CallShape
<1>3. ASSUME NEW step \in {"FactoryCc"}, call' = At(step), tag' = after PROVE CallInv'
  <2>1. /\ step \in Step /\ call'.step = step /\ call'.proc = call.proc /\ call'.by = call.by
        /\ call'.tt = call.tt
    BY <1>3, AtFacts DEF Step
  <2>2. ProvisionShape' /\ ResetShape'
    BY <1>1, <1>3, <2>1 DEF ProvisionShape, ResetShape, TagInv, Tag
  <2> QED BY <1>1, <1>3, <2>1, <2>2, NextInv
<1> QED BY <1>1, <1>2, <1>3, OverInv

LEMMA FactoryCcInv == ASSUME ProvInv, FactoryCc PROVE ProvInv' /\ CustodyStep
<1> USE DEF ProvInv, CallInv
<1> DEFINE after == [tag EXCEPT !.cc = "factory"]
<1>1. /\ call.step = "FactoryCc" /\ UNCHANGED calls /\ (UNCHANGED tag \/ tag' = after)
      /\ Over \/ (tag' = after /\ ((call' = At("ZeroNdef"))))
  BY FailedFacts DEF FactoryCc, Command, Exchange, Over
<1>2. TagInv' /\ CustodyStep
  BY <1>1, RestoreTag, SameTag DEF CallShape
<1>3. ASSUME NEW step \in {"ZeroNdef"}, call' = At(step), tag' = after PROVE CallInv'
  <2>1. /\ step \in Step /\ call'.step = step /\ call'.proc = call.proc /\ call'.by = call.by
        /\ call'.tt = call.tt
    BY <1>3, AtFacts DEF Step
  <2>2. ProvisionShape' /\ ResetShape'
    BY <1>1, <1>3, <2>1 DEF ProvisionShape, ResetShape, TagInv, Tag
  <2> QED BY <1>1, <1>3, <2>1, <2>2, NextInv
<1> QED BY <1>1, <1>2, <1>3, OverInv

\* A chunk that is not the last leaves the call at this step.
LEMMA ZeroNdefInv == ASSUME ProvInv, ZeroNdef PROVE ProvInv' /\ CustodyStep
<1> USE DEF ProvInv, CallInv
<1> DEFINE after == [tag EXCEPT !.ndef = IF call.left = 1 THEN "zero" ELSE "mixed"]
           more == [call EXCEPT !.left = @ - 1]
           last == [At("ClearKey") EXCEPT !.key = 1]
<1>1. /\ call.step = "ZeroNdef" /\ UNCHANGED calls /\ (UNCHANGED tag \/ tag' = after)
      /\ \/ Over
         \/ tag' = after /\ call.left = 1 /\ call' = last
         \/ tag' = after /\ call.left # 1 /\ call' = more
      /\ call \in Call /\ call.left \in 1 .. 2 /\ call.by \in Issuer /\ call.told = "none"
  BY FailedFacts DEF ZeroNdef, Command, Exchange, Over, CallShape
<1>2. TagInv' /\ CustodyStep
  <2>1. UNCHANGED tag \/ \E x \in {"zero", "mixed"} : tag' = [tag EXCEPT !.ndef = x]
    BY <1>1
  <2> QED BY <1>1, <2>1, RestoreTag, SameTag
<1>3. CASE tag' = after /\ call.left = 1 /\ call' = last
  <2>1. LET c == At("ClearKey")
        IN  /\ c \in Call /\ c.step = "ClearKey" /\ c.proc = call.proc
            /\ c.by = call.by /\ c.tt = call.tt /\ c.told = "none" /\ c.left = call.left
    BY <1>1, AtFacts DEF Step
  <2>2. /\ call' \in Call /\ call'.step = "ClearKey" /\ call'.proc = call.proc /\ call'.key = 1
        /\ call'.by = call.by /\ call'.told = "none" /\ call'.left = call.left
    BY <1>3, <2>1 DEF Call, KeyNo
  <2>3. ProvisionShape' /\ ResetShape' /\ CallShape' /\ OkMeansDone'
    BY <1>1, <1>3, <2>2 DEF ProvisionShape, ResetShape, CallShape, OkMeansDone, TagInv, Tag,
       NonMaster
  <2> QED BY <1>1, <1>2, <2>2, <2>3
<1>4. CASE tag' = after /\ call.left # 1 /\ call' = more
  <2>1. /\ call' \in Call /\ call'.left = 1
        /\ call'.step = "ZeroNdef" /\ call'.by = call.by /\ call'.proc = call.proc
        /\ call'.tt = call.tt /\ call'.told = "none"
    BY <1>1, <1>4 DEF Call
  <2>2. ProvisionShape' /\ ResetShape' /\ CallShape' /\ OkMeansDone'
    BY <1>1, <1>4, <2>1 DEF ProvisionShape, ResetShape, CallShape, OkMeansDone, TagInv, Tag
  <2> QED BY <1>1, <1>2, <2>1, <2>2
<1> QED BY <1>1, <1>2, <1>3, <1>4, OverInv

\* The loop over the keys other than the master key.
LEMMA ClearKeyInv == ASSUME ProvInv, ClearKey PROVE ProvInv' /\ CustodyStep
<1> USE DEF ProvInv, CallInv
<1> DEFINE after == WithKey(call.key, "zero")
           more == [call EXCEPT !.key = @ + 1]
<1>1. /\ call.step = "ClearKey" /\ UNCHANGED calls
      /\ UNCHANGED tag \/ (tag.keys[call.key] = call.by /\ tag' = after)
      /\ \/ Over
         \/ tag.keys[call.key] = call.by /\ tag' = after /\ call.key = 4 /\ call' = At("ClearMasterKey")
         \/ tag.keys[call.key] = call.by /\ tag' = after /\ call.key # 4 /\ call' = more
      /\ call \in Call /\ call.left \in 1 .. 2 /\ call.by \in Issuer /\ call.told = "none"
  BY FailedFacts DEF ClearKey, Exchange, Over, CallShape, LastKey
<1>2. TagInv' /\ CustodyStep
  BY <1>1, ClearKeyTag, SameTag
<1>3. /\ call.key \in NonMaster /\ call.key \in KeyNo /\ 0 \in KeyNo /\ call.key # 0
      /\ \A k \in NonMaster : k \in KeyNo /\ (k < call.key => tag.keys[k] = "zero")
      /\ "zero" \in Holder
  BY <1>1 DEF ProvisionShape, ResetShape, KeyNo, NonMaster, Holder
<1>4. tag' = after =>
        /\ tag'.keys[0] = tag.keys[0]
        /\ \A k \in NonMaster : k <= call.key => tag'.keys[k] = "zero"
        /\ tag'.hw424 = tag.hw424 /\ tag'.genuine = tag.genuine /\ tag'.ruid = tag.ruid
        /\ tag'.tt = tag.tt /\ tag'.ndef = tag.ndef /\ tag'.sdm = tag.sdm /\ tag'.cc = tag.cc
        /\ tag'.lrp = tag.lrp /\ tag'.seal = tag.seal
  <2>1. tag' = after =>
        /\ tag'.keys[call.key] = "zero"
        /\ \A k \in KeyNo \ {call.key} : tag'.keys[k] = tag.keys[k]
        /\ tag'.hw424 = tag.hw424 /\ tag'.genuine = tag.genuine /\ tag'.ruid = tag.ruid
        /\ tag'.tt = tag.tt /\ tag'.ndef = tag.ndef /\ tag'.sdm = tag.sdm /\ tag'.cc = tag.cc
        /\ tag'.lrp = tag.lrp /\ tag'.seal = tag.seal
    BY <1>3, KeyFields DEF TagInv
  <2> QED BY <1>3, <2>1 DEF NonMaster
<1>5. CASE tag' = after /\ call.key = 4 /\ call' = At("ClearMasterKey")
  <2>1. /\ "ClearMasterKey" \in Step /\ call'.step = "ClearMasterKey" /\ call'.proc = call.proc
        /\ call'.by = call.by /\ call'.tt = call.tt
    BY <1>1, <1>5, AtFacts DEF Step
  <2>2. ProvisionShape' /\ ResetShape'
    BY <1>1, <1>4, <1>5, <2>1 DEF ProvisionShape, ResetShape, NonMaster
  <2> QED BY <1>1, <1>2, <1>5, <2>1, <2>2, NextInv
<1>6. CASE tag' = after /\ call.key # 4 /\ call' = more
  <2>1. /\ call' \in Call /\ call'.key = call.key + 1 /\ call'.left = call.left
        /\ call'.step = "ClearKey" /\ call'.by = call.by /\ call'.proc = call.proc
        /\ call'.tt = call.tt /\ call'.told = "none"
    BY <1>1, <1>3, <1>6 DEF Call, KeyNo, NonMaster
  <2>2. call'.key \in NonMaster /\ \A k \in NonMaster : k < call'.key => k <= call.key
    BY <1>3, <1>6, <2>1 DEF NonMaster
  <2>3. ProvisionShape' /\ ResetShape' /\ CallShape' /\ OkMeansDone'
    BY <1>1, <1>4, <1>6, <2>1, <2>2 DEF ProvisionShape, ResetShape, CallShape, OkMeansDone
  <2> QED BY <1>1, <1>2, <2>1, <2>3
<1> QED BY <1>1, <1>2, <1>5, <1>6, OverInv

LEMMA ClearMasterKeyInv == ASSUME ProvInv, ClearMasterKey PROVE ProvInv' /\ CustodyStep
<1> USE DEF ProvInv, CallInv
<1> DEFINE after == WithKey(0, "zero")
<1>1. /\ call.step = "ClearMasterKey" /\ UNCHANGED calls /\ (UNCHANGED tag \/ tag' = after)
      /\ Over \/ (tag' = after /\ call' = Ends("ok"))
      /\ call \in Call
  BY FailedFacts DEF ClearMasterKey, Command, Exchange, Over
<1>2. TagInv' /\ CustodyStep
  BY <1>1, ClearMasterKeyTag, SameTag
<1>3. CASE tag' = after /\ call' = Ends("ok")
  <2>1. /\ call' \in Call /\ call'.step = "none" /\ call'.by = call.by /\ call'.proc = call.proc
        /\ call'.tt = call.tt
    BY <1>1, <1>3, EndsFacts
  <2>2. OkMeansDone'
    <3>1. call.proc = "reset"
      BY <1>1 DEF ResetShape
    <3>2. Status' = "stock"
      BY <1>1, <1>3, ClearMasterKeyTag
    <3> QED BY <2>1, <3>1, <3>2 DEF OkMeansDone
  <2>3. ProvisionShape' /\ ResetShape' /\ CallShape'
    BY <2>1 DEF ProvisionShape, ResetShape, CallShape
  <2> QED BY <1>1, <1>2, <2>1, <2>2, <2>3
<1> QED BY <1>1, <1>2, <1>3, OverInv

-----------------------------------------------------------------------------
(* Every step, and the theorems *)

\* Breaking the seal touches nothing that the invariant speaks of.
LEMMA OpenSealInv == ASSUME ProvInv, OpenSeal PROVE ProvInv' /\ CustodyStep
<1> USE DEF ProvInv, TagInv
<1>1. /\ tag' \in Tag /\ tag'.keys = tag.keys /\ tag'.hw424 = tag.hw424
      /\ tag'.genuine = tag.genuine /\ tag'.seal = tag.seal /\ tag'.ruid = tag.ruid
      /\ tag'.tt = tag.tt /\ tag'.ndef = tag.ndef /\ tag'.sdm = tag.sdm /\ tag'.cc = tag.cc
      /\ tag'.lrp = tag.lrp /\ UNCHANGED <<call, calls>>
  BY DEF OpenSeal, Tag
<1>2. VerifiedFirst' /\ KeysInOrder' /\ Status' = Status
  BY <1>1 DEF VerifiedFirst, KeysInOrder, Clean, Equipped, Status
<1>3. CallInv'
  BY <1>1, <1>2 DEF CallInv, CallShape, ProvisionShape, ResetShape, OkMeansDone, Equipped
<1> QED BY <1>1, <1>2, <1>3 DEF CustodyStep

LEMMA InitInv == Init => ProvInv /\ Custody!Init
<1> SUFFICES ASSUME NEW hw424 \in BOOLEAN, NEW genuine \in BOOLEAN, NEW seal \in BOOLEAN,
                    tag = FactoryTag(hw424, genuine, seal), call = NoCall, calls = 0
             PROVE  ProvInv /\ Custody!Init
  BY DEF Init
<1>1. tag \in Tag /\ tag.keys[0] = "zero" /\ Clean /\ ~tag.ruid /\ ~tag.tt
      /\ ~tag.lrp /\ \A k \in NonMaster : tag.keys[k] = "zero"
  BY DEF FactoryTag, Tag, Holder, Content, Clean, KeyNo, NonMaster
<1>2. TagInv /\ Status = "stock"
  BY <1>1 DEF TagInv, VerifiedFirst, KeysInOrder, Status
<1>3. call \in Call /\ call.step = "none" /\ call.told = "none"
  BY DEF NoCall, Call, Step, KeyNo
<1>4. CallInv
  BY <1>3 DEF CallInv, CallShape, ProvisionShape, ResetShape, OkMeansDone
<1> QED BY <1>1, <1>2, <1>4 DEF ProvInv, Custody!Init

LEMMA StutterInv == ASSUME ProvInv, UNCHANGED vars PROVE ProvInv' /\ CustodyStep
<1>1. TagInv' /\ CustodyStep
  BY SameTag DEF ProvInv, vars
<1>2. CallInv'
  BY DEF ProvInv, vars, CallInv, CallShape, ProvisionShape, ResetShape, OkMeansDone, Status,
     Equipped, Clean
<1> QED BY <1>1, <1>2 DEF ProvInv

LEMMA ProvStep == ASSUME ProvInv, [Next]_vars PROVE ProvInv' /\ CustodyStep
<1>1. CASE \E i \in Issuer : Provision(i) \/ Reset(i)
  BY <1>1, ProvisionInv, ResetInv
<1>2. CASE ProvisionStep
  BY <1>2, CheckVersionInv, FactoryAesInv, EnableLrpInv, FactoryLrpInv, VerifyOriginalityInv,
     NewKeysInv, RandomUidInv, TagTamperInv, TtStatusInv, WriteNdefInv, SdmSettingsInv,
     WriteCcInv, SetKeyInv, SetMasterKeyInv DEF ProvisionStep
<1>3. CASE ResetStep
  BY <1>3, ResolveUidInv, CurrentKeysInv, ResetLrpInv, ResetAesInv, NdefSettingsInv,
     CcSettingsInv, FactoryCcInv, ZeroNdefInv, ClearKeyInv, ClearMasterKeyInv DEF ResetStep
<1>4. CASE OpenSeal
  BY <1>4, OpenSealInv
<1>5. CASE UNCHANGED vars
  BY <1>5, StutterInv
<1> QED BY <1>1, <1>2, <1>3, <1>4, <1>5 DEF Next

LEMMA ProvAlways == Spec => []ProvInv
  BY InitInv, ProvStep, PTL DEF Spec

\* The tag and the call keep their types, whoever calls `provision` and `reset`.
THEOREM TypeCorrect == Spec => []TypeOK
<1>1. ProvInv => TypeOK
  BY DEF ProvInv, TagInv, CallInv, TypeOK
<1> QED BY <1>1, ProvAlways, PTL

\* A success that `provision` or `reset` reports is true of the tag.
THEOREM OkMeansDoneCorrect == Spec => []OkMeansDone
<1>1. ProvInv => OkMeansDone
  BY DEF ProvInv, CallInv
<1> QED BY <1>1, ProvAlways, PTL

\* A chip of another type is left in its mode and without anything else of a
\* call; one whose signature does not verify may get LRP mode, and nothing else.
THEOREM VerifiedFirstCorrect == Spec => []VerifiedFirst
<1>1. ProvInv => VerifiedFirst
  BY DEF ProvInv, TagInv
<1> QED BY <1>1, ProvAlways, PTL

\* Wherever `provision` and `reset` stop, the keys on the tag are in an order
\* from which their holder can tell how far the call got.
THEOREM KeysInOrderCorrect == Spec => []KeysInOrder
<1>1. ProvInv => KeysInOrder
  BY DEF ProvInv, TagInv
<1> QED BY <1>1, ProvAlways, PTL

\* provision and reset implement TagCustody: their initial states are initial
\* states of it, and every step is one of its steps or leaves owner and status.
THEOREM CustodyCorrect == Spec => CustodyKept
<1>1. ProvInv /\ [Next]_vars => [Custody!Next]_<<tag.keys[0], Status>>
  BY ProvStep DEF CustodyStep
<1> QED BY <1>1, InitInv, ProvAlways, PTL DEF Spec, CustodyKept, Custody!Spec, Custody!cvars
=============================================================================
