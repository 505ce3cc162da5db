---------------------------- MODULE Personalisation ----------------------------
(***************************************************************************)
(* What makes a file readable and writable: its settings on the tag, the   *)
(* calls that change them, the mode that reads and writes choose by them,  *)
(* and the capability container that tells other readers about them.       *)
(* `configure_ndef` and `reset` change several of these one after another, *)
(* and any exchange may fail, before or after the tag has acted.           *)
(*                                                                         *)
(* The tag is external: it keeps the bytes it was sent.                    *)
(***************************************************************************)
EXTENDS AccessRights, CapabilityContainer

CONSTANTS
  Template,     \* the SDM settings that `configure_ndef` is given
  SomeKeys,     \* the keys that a caller authenticates with
  SomeAccess,   \* the access conditions that it puts into a right ...
  SomeSdm,      \* ... and the SDM settings that it gives to the NDEF file
  MaxEdits      \* bound: changes of settings by the caller

ASSUME TemplateAssumption == Template \in SdmFields /\ Expressible(Template)
ASSUME SampleAssumption ==
  /\ SomeKeys \subseteq Keys /\ SomeAccess \subseteq Access
  /\ SomeSdm \subseteq {s \in SdmFields : Expressible(s)}
ASSUME EditsAssumption == MaxEdits \in Nat

VARIABLES
  tag,    \* external: settings of each file and the content of the container
  call,   \* the call that is running or, with an outcome, the last one
  edits   \* changes by the caller so far

persVars == <<tag, call, edits>>

-----------------------------------------------------------------------------

\* External: the settings of a tag as delivered, the proprietary file perhaps
\* with an option bit that the library does not know.
FactoryBytes(option) ==
  [cc |-> <<0, 0, 224>>, ndef |-> <<0, 224, 238>>, prop |-> <<option, 48, 35>>]

NoCall ==
  [op |-> "none", step |-> 0, key |-> "key0", file |-> "ndef", view |-> {}, out |-> "ok"]

InitPersonalisation ==
  /\ \E option \in {3, 7} : tag = [settings |-> FactoryBytes(option), cc |-> ToBytes(Default)]
  /\ call = NoCall
  /\ edits = 0

CanCall == call.out # "running"
Ends(out) == call' = [NoCall EXCEPT !.op = call.op, !.out = out]
Proceeds  == call' = [call EXCEPT !.step = @ + 1]

\* One exchange: done and answered, done but the answer is lost, lost or
\* refused.  Without an answer of success the call has failed.
Exchange(accepts, after, next) ==
  \/ accepts /\ tag' = after /\ next
  \/ accepts /\ tag' = after /\ Ends("lost")
  \/ UNCHANGED tag /\ Ends("lost")
  \/ ~accepts /\ UNCHANGED tag /\ Ends("refused")

\* External: what the tag has for a file; it goes by the rights it was sent.
OnTag(f) == Decoded(tag.settings[f])
SettingsOf(f) == CHOOSE s \in OnTag(f) : TRUE

MayChange(f) == SettingsOf(f).rights["change"] \in {call.key, "free"}
WithSettings(f, bytes) == [tag EXCEPT !.settings[f] = bytes]

-----------------------------------------------------------------------------
(* get_file_settings, into_update, one change, change_file_settings *)

GetSettings(k, f) ==
  /\ CanCall /\ edits < MaxEdits
  /\ call' = [NoCall EXCEPT !.op = "edit", !.key = k, !.file = f,
                            !.view = OnTag(f), !.out = "running"]
  /\ edits' = edits + 1
  /\ UNCHANGED tag

\* The changes a caller makes to the settings it has read: the mode, a right,
\* `with_sdm` or `without_sdm`.
Changes(f, s) ==
  {[s EXCEPT !.mode = m] : m \in CommMode}
    \union {[s EXCEPT !.rights[r] = a] : r \in Slot, a \in SomeAccess}
    \union {[s EXCEPT !.sdm = {}]}
    \union (IF f = "ndef" THEN {[s EXCEPT !.sdm = {x}] : x \in SomeSdm} ELSE {})

Undecoded == call.view = {} /\ Ends("undecoded") /\ UNCHANGED tag

Modify ==
  /\ call.op = "edit" /\ call.out = "running" /\ call.step = 0
  /\ \/ Undecoded
     \/ \E s \in call.view : \E c \in Changes(call.file, s) :
          call' = [call EXCEPT !.view = {c}, !.step = 1] /\ UNCHANGED tag
  /\ UNCHANGED edits

ChangeFileSettings ==
  /\ call.op = "edit" /\ call.out = "running" /\ call.step = 1
  /\ \E s \in call.view :
       Exchange(MayChange(call.file), WithSettings(call.file, Encoded(s)), Ends("ok"))
  /\ UNCHANGED edits

-----------------------------------------------------------------------------
(* read_file, write_file *)

\* The first exchange reads the settings, the second is the access itself;
\* accesses of more than one APDU are in FileAccess.
BeginTransfer(op, k, f) ==
  /\ CanCall
  /\ call' = [NoCall EXCEPT !.op = op, !.key = k, !.file = f, !.view = OnTag(f),
                            !.out = "running"]
  /\ UNCHANGED <<tag, edits>>

Transfer ==
  /\ call.op \in {"read", "write"} /\ call.out = "running"
  /\ \/ Undecoded
     \/ \E s \in call.view :
          Exchange(Accepts(SettingsOf(call.file), call.op, ModeFor(s, call.op, call.key), call.key),
                   tag, Ends("ok"))
  /\ UNCHANGED edits

-----------------------------------------------------------------------------
(* configure_ndef, and the files in reset *)

BeginUpdate(op) ==
  /\ CanCall
  /\ call' = [NoCall EXCEPT !.op = op, !.out = "running"]
  /\ UNCHANGED <<tag, edits>>

Step(op, n) == call.op = op /\ call.step = n /\ call.out = "running" /\ UNCHANGED edits

\* Whether the tag accepts a write in the given mode with Key 0.
Writable(f, mode) == Accepts(SettingsOf(f), "write", mode, "key0")

ConfigureNdef == BeginUpdate("configure")

WriteNdef ==
  /\ Step("configure", 0)
  /\ Exchange(Writable("ndef", ModeFor(SettingsOf("ndef"), "write", "key0")), tag, Proceeds)

SdmUpdate ==
  /\ Step("configure", 1)
  /\ Exchange(MayChange("ndef"), WithSettings("ndef", Encoded(Provisioned(Template))), Proceeds)

WriteCc ==
  /\ Step("configure", 2)
  /\ Exchange(Writable("cc", "plain"),
              [tag EXCEPT !.cc = ToBytes(WithWriteAccess(Default, "ndef", <<"key", 0>>))],
              Ends("ok"))

ResetFiles == BeginUpdate("reset")

\* The settings of the NDEF file, then of the container.
RestoreSettings ==
  \E n \in 0 .. 1 :
    LET f == <<"ndef", "cc">>[n + 1]
    IN  Step("reset", n) /\ Exchange(MayChange(f), WithSettings(f, Encoded(Factory[f])), Proceeds)

RestoreCc ==
  /\ Step("reset", 2)
  /\ Exchange(Writable("cc", "plain"), [tag EXCEPT !.cc = ToBytes(Default)], Proceeds)

ClearNdef ==
  /\ Step("reset", 3)
  /\ Exchange(Writable("ndef", "plain"), tag, Ends("ok"))

-----------------------------------------------------------------------------

PersonalisationNext ==
  \/ \E k \in SomeKeys, f \in File : GetSettings(k, f)
  \/ \E op \in {"read", "write"}, k \in SomeKeys, f \in File : BeginTransfer(op, k, f)
  \/ Modify \/ ChangeFileSettings \/ Transfer
  \/ ConfigureNdef \/ WriteNdef \/ SdmUpdate \/ WriteCc
  \/ ResetFiles \/ RestoreSettings \/ RestoreCc \/ ClearNdef

-----------------------------------------------------------------------------
(* Properties *)

\* A change of one setting (get_file_settings, into_update, the change,
\* change_file_settings) leaves the tag with settings that the library reads
\* back as the update it has sent, so that further changes start from them:
\* every right in its place, and an SDM part that decodes.
EditReadsBack ==
  [][call.op = "edit" =>
       \A f \in File : tag'.settings[f] # tag.settings[f] =>
         f = call.file /\ OnTag(f)' = call.view]_persVars

\* `read_file` and `write_file` are refused only where the rights of the file
\* grant the access neither to the session's key nor to everybody: the mode
\* they choose is never the reason.
RefusedForRightsOnly ==
  [][call.op \in {"read", "write"} /\ call'.op = call.op /\ call'.out = "refused" =>
       ~Grants(SettingsOf(call.file), call.op, call.key)]_persVars

\* When `configure_ndef` or `reset` have gone through, the capability container
\* says of the NDEF file what its settings say: open iff free, and a key only
\* where that key opens it.  What a caller or an interrupted call has left
\* behind before makes no difference.
Honest(condition, rights, op) ==
  /\ condition[1] = "open" <=> "free" \in Conditions(rights, op)
  /\ condition[1] = "key" =>
       \E k \in Conditions(rights, op) \intersect Keys : KeyByte[k] = condition[2]
  /\ condition[1] # "raw"

ContainerHonest ==
  call.op \in {"configure", "reset"} /\ call.out = "ok" =>
    /\ Parses(tag.cc)
    /\ \E k \in Found(FromBytes(tag.cc), "ndef") :
         LET entry == FromBytes(tag.cc).files[k] rights == SettingsOf("ndef").rights
         IN  Honest(entry.read, rights, "read") /\ Honest(entry.write, rights, "write")
=============================================================================
