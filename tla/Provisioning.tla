---------------------------- MODULE Provisioning ----------------------------
(***************************************************************************)
(* `provision` and `reset` of the high-level API, on one tag that outlives *)
(* the calls.  Several issuers, each with keys of its own, call them one   *)
(* after another; any exchange with the tag may fail before or after the   *)
(* tag has acted, and then the call returns an error and leaves the tag    *)
(* where it was.                                                           *)
(*                                                                         *)
(* One action stands for one step of a call that changes the tag, or for a *)
(* run of steps that only read it.  The tag is external: its record holds  *)
(* what survives between calls.                                            *)
(***************************************************************************)
EXTENDS Naturals

CONSTANTS
  Issuer,     \* the holders of distinct sets of application keys
  MaxCalls    \* bound: calls of `provision` and `reset` in one behaviour

ASSUME IssuerAssumption ==
  Issuer \intersect {"zero", "factory", "mixed"} = {}
ASSUME CallsAssumption == MaxCalls \in Nat

VARIABLES
  tag,      \* external: the chip, its keys, configuration and files
  call,     \* the call that is running or, at step "none", the last one
  calls     \* calls made so far

vars == <<tag, call, calls>>

KeyNo     == 0 .. 4
NonMaster == 1 .. 4

-----------------------------------------------------------------------------
(* The tag and the call *)

\* A tag as delivered.  `hw424` and `genuine` say what GetVersion and the
\* originality signature will tell, `seal` whether it has a tamper loop.
FactoryTag(hw424, genuine, seal) ==
  [hw424 |-> hw424, genuine |-> genuine, seal |-> seal, open |-> FALSE,
   lrp |-> FALSE, ruid |-> FALSE, tt |-> FALSE,
   keys |-> [k \in KeyNo |-> "zero"],
   ndef |-> "factory", sdm |-> "factory", cc |-> "factory"]

NoCall == [proc |-> "none", by |-> "none", step |-> "none", tt |-> FALSE,
           left |-> 0, key |-> 0, told |-> "none", refused |-> FALSE]

At(step)  == [call EXCEPT !.step = step, !.refused = FALSE]
Ends(out) == [call EXCEPT !.step = "none", !.told = out, !.refused = FALSE]
Failed    == Ends("error")

\* One exchange with the tag, which answers with success iff `accepts` and
\* is then in state `after`.  The four outcomes: answered; acted upon but
\* the answer is lost; never delivered; refused.
Exchange(accepts, after, next, onError) ==
  /\ \/ /\ accepts
        /\ tag' = after
        /\ call' \in {next, onError}
     \/ /\ UNCHANGED tag
        /\ call' = onError
     \/ /\ ~accepts
        /\ UNCHANGED tag
        /\ call' = [onError EXCEPT !.refused = TRUE]
  /\ UNCHANGED calls

\* An exchange that the tag always accepts and a failure of which ends the
\* call, as `?` does.
Command(after, next) == Exchange(TRUE, after, next, Failed)

\* Whether a handshake with `key` in the given mode succeeds.
TagOpens(lrp, no, key) == tag.lrp = lrp /\ tag.keys[no] = key

WithKey(no, key) == [tag EXCEPT !.keys[no] = key]

-----------------------------------------------------------------------------
(* provision *)

\* The bound on the calls, and one call at a time: `&mut` transport.
CanCall == call.step = "none" /\ calls < MaxCalls

\* The SDM plan is made first and decides whether the template mirrors the
\* tamper status and how many APDUs the NDEF file takes (1 or 2).
Provision(i) ==
  /\ CanCall
  /\ \E tt \in BOOLEAN, left \in 1 .. 2 :
       call' = [NoCall EXCEPT !.proc = "provision", !.by = i, !.tt = tt,
                              !.left = left, !.step = "CheckVersion"]
  /\ calls' = calls + 1
  /\ UNCHANGED tag

CheckVersion ==
  /\ call.step = "CheckVersion"
  /\ Command(tag, IF tag.hw424 THEN At("FactoryAes") ELSE Failed)

\* AES with the zero key; whatever goes wrong, LRP is tried next.
FactoryAes ==
  /\ call.step = "FactoryAes"
  /\ \/ /\ TagOpens(FALSE, 0, "zero")
        /\ call' \in {At("EnableLrp"), At("FactoryLrp")}
     \/ call' = At("FactoryLrp")
  /\ UNCHANGED <<tag, calls>>

EnableLrp ==
  /\ call.step = "EnableLrp"
  /\ Command([tag EXCEPT !.lrp = TRUE], At("FactoryLrp"))

\* Deviation: the tag is configured before its originality is known.
FactoryLrpUnverified ==
  /\ call.step = "FactoryLrp"
  /\ Exchange(TagOpens(TRUE, 0, "zero"), tag, At("NewKeys"), Failed)

FactoryLrp ==
  /\ call.step = "FactoryLrp"
  /\ Exchange(TagOpens(TRUE, 0, "zero"), tag, At("VerifyOriginality"), Failed)

\* GetCardUID and Read_Sig, with the check of the signature.
VerifyOriginality ==
  /\ call.step = "VerifyOriginality"
  /\ Command(tag, IF tag.genuine THEN At("NewKeys") ELSE Failed)

\* The caller's key function, which may fail.
NewKeys ==
  /\ call.step = "NewKeys"
  /\ call' \in {At("RandomUid"), Failed}
  /\ UNCHANGED <<tag, calls>>

\* SetConfiguration sends one APDU per option: random UID first ...
RandomUid ==
  /\ call.step = "RandomUid"
  /\ Command([tag EXCEPT !.ruid = TRUE],
             IF call.tt /\ tag.seal THEN At("TagTamper") ELSE At("WriteNdef"))

\* ... then tag tamper, followed by a look at the seal.
TagTamper ==
  /\ call.step = "TagTamper"
  /\ Command([tag EXCEPT !.tt = TRUE], At("TtStatus"))

TtStatus ==
  /\ call.step = "TtStatus"
  /\ Command(tag, IF tag.open THEN Failed ELSE At("WriteNdef"))

\* `write_file`: reads the settings, then writes in chunks of 248 bytes.
WriteNdef ==
  /\ call.step = "WriteNdef"
  /\ Command([tag EXCEPT !.ndef = IF call.left = 1 THEN call.by ELSE "mixed"],
             IF call.left = 1 THEN At("SdmSettings")
                              ELSE [call EXCEPT !.left = @ - 1])

\* Deviation: a failing exchange is skipped instead of ending the call.
SdmSettingsUnchecked ==
  /\ call.step = "SdmSettings"
  /\ Exchange(TRUE, [tag EXCEPT !.sdm = call.by], At("WriteCc"), At("WriteCc"))

SdmSettings ==
  /\ call.step = "SdmSettings"
  /\ Command([tag EXCEPT !.sdm = call.by], At("WriteCc"))

\* Deviation: the master key first.
WriteCcMasterFirst ==
  /\ call.step = "WriteCc"
  /\ Command([tag EXCEPT !.cc = "issued"], At("SetMasterKey"))

WriteCc ==
  /\ call.step = "WriteCc"
  /\ Command([tag EXCEPT !.cc = "issued"], [At("SetKey") EXCEPT !.key = 1])

\* Deviation: the loop over the keys stops before the last ...
LastKeyShort == 3

\* ... or runs beyond it.
LastKeyBeyond == 5

LastKey == 4

\* ChangeKey masks the new key with the old one, which the host takes to be
\* zero: the tag finds the CRC wrong unless it is.
SetKey ==
  /\ call.step = "SetKey"
  /\ Exchange(tag.keys[call.key] = "zero", WithKey(call.key, call.by),
              IF call.key = LastKey THEN At("SetMasterKey")
                              ELSE [call EXCEPT !.key = @ + 1],
              Failed)

SetMasterKey ==
  /\ call.step = "SetMasterKey"
  /\ Command(WithKey(0, call.by), Ends("ok"))

-----------------------------------------------------------------------------
(* reset *)

\* The caller may know the UID; if not, the tag is asked for it with Key 1.
Reset(i) ==
  /\ CanCall
  /\ \E step \in {"ResolveUid", "CurrentKeys"} :
       call' = [NoCall EXCEPT !.proc = "reset", !.by = i, !.step = step,
                              !.left = 2]
  /\ calls' = calls + 1
  /\ UNCHANGED tag

ResolveUid ==
  /\ call.step = "ResolveUid"
  /\ Exchange(TagOpens(TRUE, 1, call.by), tag, At("CurrentKeys"), Failed)

CurrentKeys ==
  /\ call.step = "CurrentKeys"
  /\ call' \in {At("ResetLrp"), Failed}
  /\ UNCHANGED <<tag, calls>>

ResetLrp ==
  /\ call.step = "ResetLrp"
  /\ Exchange(TagOpens(TRUE, 0, call.by), tag, At("NdefSettings"),
              At("ResetAes"))

ResetAes ==
  /\ call.step = "ResetAes"
  /\ Exchange(TagOpens(FALSE, 0, call.by), tag, At("NdefSettings"), Failed)

NdefSettings ==
  /\ call.step = "NdefSettings"
  /\ Command([tag EXCEPT !.sdm = "factory"], At("CcSettings"))

\* Written unconditionally, although `provision` never changes them.
CcSettings ==
  /\ call.step = "CcSettings"
  /\ Command(tag, At("FactoryCc"))

FactoryCc ==
  /\ call.step = "FactoryCc"
  /\ Command([tag EXCEPT !.cc = "factory"], At("ZeroNdef"))

\* 256 zero bytes take two APDUs.
ZeroNdef ==
  /\ call.step = "ZeroNdef"
  /\ Command([tag EXCEPT !.ndef = IF call.left = 1 THEN "zero" ELSE "mixed"],
             IF call.left = 1 THEN [At("ClearKey") EXCEPT !.key = 1]
                              ELSE [call EXCEPT !.left = @ - 1])

ClearKey ==
  /\ call.step = "ClearKey"
  /\ Exchange(tag.keys[call.key] = call.by, WithKey(call.key, "zero"),
              IF call.key = LastKey THEN At("ClearMasterKey")
                              ELSE [call EXCEPT !.key = @ + 1],
              Failed)

ClearMasterKey ==
  /\ call.step = "ClearMasterKey"
  /\ Command(WithKey(0, "zero"), Ends("ok"))

-----------------------------------------------------------------------------

\* Somebody breaks the seal, at any moment.
OpenSeal ==
  /\ tag.seal /\ ~tag.open
  /\ tag' = [tag EXCEPT !.open = TRUE]
  /\ UNCHANGED <<call, calls>>

Init ==
  /\ \E hw424, genuine, seal \in BOOLEAN :
       tag = FactoryTag(hw424, genuine, seal)
  /\ call = NoCall
  /\ calls = 0

ProvisionStep ==
  \/ CheckVersion \/ FactoryAes \/ EnableLrp \/ FactoryLrp
  \/ VerifyOriginality \/ NewKeys \/ RandomUid \/ TagTamper \/ TtStatus
  \/ WriteNdef \/ SdmSettings \/ WriteCc \/ SetKey \/ SetMasterKey

ResetStep ==
  \/ ResolveUid \/ CurrentKeys \/ ResetLrp \/ ResetAes \/ NdefSettings
  \/ CcSettings \/ FactoryCc \/ ZeroNdef \/ ClearKey \/ ClearMasterKey

Next ==
  \/ \E i \in Issuer : Provision(i) \/ Reset(i)
  \/ ProvisionStep
  \/ ResetStep
  \/ OpenSeal

Spec == Init /\ [][Next]_vars

-----------------------------------------------------------------------------
(* Properties *)

Holder  == Issuer \union {"zero"}
Content == Issuer \union {"factory", "mixed", "zero"}
Step ==
  {"none", "CheckVersion", "FactoryAes", "EnableLrp", "FactoryLrp",
   "VerifyOriginality", "NewKeys", "RandomUid", "TagTamper", "TtStatus",
   "WriteNdef", "SdmSettings", "WriteCc", "SetKey", "SetMasterKey",
   "ResolveUid", "CurrentKeys", "ResetLrp", "ResetAes", "NdefSettings",
   "CcSettings", "FactoryCc", "ZeroNdef", "ClearKey", "ClearMasterKey"}

Tag ==
  [hw424: BOOLEAN, genuine: BOOLEAN, seal: BOOLEAN, open: BOOLEAN,
   lrp: BOOLEAN, ruid: BOOLEAN, tt: BOOLEAN, keys: [KeyNo -> Holder],
   ndef: Content, sdm: Issuer \union {"factory"}, cc: {"factory", "issued"}]

Call ==
  [proc: {"none", "provision", "reset"}, by: Issuer \union {"none"},
   step: Step, tt: BOOLEAN, left: 0 .. 2, key: KeyNo,
   told: {"none", "ok", "error"}, refused: BOOLEAN]

\* The state of the tag and of the call that runs on it have their types.
TypeOK ==
  /\ tag \in Tag
  /\ call \in Call
  /\ calls \in 0 .. MaxCalls

\* The tag serves issuer i in every respect but, possibly, Key 0.
Equipped(i) ==
  /\ \A k \in NonMaster : tag.keys[k] = i
  /\ tag.ndef = i /\ tag.sdm = i /\ tag.cc = "issued"
  /\ tag.lrp /\ tag.ruid

\* Nothing is left of any issuer but, possibly, Key 0.
Clean ==
  /\ \A k \in NonMaster : tag.keys[k] = "zero"
  /\ tag.ndef \in {"factory", "zero"}
  /\ tag.sdm = "factory" /\ tag.cc = "factory"

Status ==
  IF tag.keys[0] = "zero" THEN IF Clean THEN "stock" ELSE "preparing"
  ELSE IF Equipped(tag.keys[0]) THEN "issued" ELSE "returning"

Custody == INSTANCE TagCustody WITH owner <- tag.keys[0], status <- Status

\* Whatever fails and whoever calls, a tag changes hands only as TagCustody
\* says: Key 0 is set last on a tag complete for that issuer, and zeroed last
\* on a tag that holds nothing of the issuer any more.
CustodyKept == Custody!Spec

\* What the caller is told is true of the tag: `provision` reports success
\* only for a genuine tag that is complete for the caller, its seal watched
\* if the template asks for it; `reset` only for a tag back in stock.
OkMeansDone ==
  call.told = "ok" =>
    IF call.proc = "provision"
      THEN /\ tag.keys[0] = call.by /\ Equipped(call.by)
           /\ tag.hw424 /\ tag.genuine
           /\ (call.tt /\ tag.seal) => tag.tt
      ELSE Status = "stock"

\* A chip of another type is left as it was delivered, its mode included; one
\* whose originality signature does not verify never gets random UID, tag
\* tamper, or any key or content of an issuer.  (It may have LRP mode,
\* which can never be undone either: provision enables it between the two checks.)
VerifiedFirst ==
  /\ tag.hw424 \/ ~tag.lrp
  /\ \/ tag.hw424 /\ tag.genuine
     \/ tag.keys[0] = "zero" /\ Clean /\ ~tag.ruid /\ ~tag.tt

\* Keys are never left in a pattern from which the holder of one set of keys
\* could not tell where to go on: without a master key, the keys set so far
\* are the first ones and belong to one issuer; with one, the zeroed keys are
\* the first ones and all others belong to the master's owner.
KeysInOrder ==
  IF tag.keys[0] = "zero"
    THEN \A k \in NonMaster \ {1} :
           tag.keys[k] # "zero" => tag.keys[k] = tag.keys[k - 1]
    ELSE /\ \A k \in NonMaster : tag.keys[k] \in {tag.keys[0], "zero"}
         /\ \A k \in NonMaster \ {1} :
              tag.keys[k] = "zero" => tag.keys[k - 1] = "zero"

\* reset.rs: "Calling this function again with the same keys is safe: all
\* completed steps are idempotent (... a key that already equals zero can be
\* changed to zero again)": the tag does not refuse that change.
RetryAccepted ==
  [][ClearKey /\ tag.keys[call.key] = "zero" => ~call'.refused]_vars
=============================================================================
