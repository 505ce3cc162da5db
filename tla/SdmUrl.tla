------------------------------- MODULE SdmUrl -------------------------------
(***************************************************************************)
(* `sdm_url_config`: from a URL template with placeholders and markers to  *)
(* the NDEF file and the SDM settings.  The template is read token by      *)
(* token, one step of the parser's loop each; what the tokens look like,   *)
(* escapes and the text between them, is left out.                         *)
(***************************************************************************)
EXTENDS SdmSettings

CONSTANTS
  UriAt,      \* where the URL starts in the file: 7 in the code
  FileLen     \* size of the NDEF file: 256 in the code

ASSUME FileAssumption == UriAt \in Nat /\ FileLen \in Nat /\ UriAt + FileLen <= MaxOffset

VARIABLES
  mode,       \* the cryptographic suite the settings are made for
  plan        \* the parser: position in the file and what it has seen so far

pvars == <<mode, plan>>

Empty == [st |-> "parsing", pos |-> UriAt, at |-> << >>, content |-> {},
          macStart |-> -1, encEnd |-> -1]

\* The values of a {picc...} placeholder.
PiccContent == (SUBSET Identity) \ {{}}

-----------------------------------------------------------------------------

Parsing  == plan.st = "parsing"
InEnc    == "enc" \in DOMAIN plan.at /\ plan.encEnd = -1
Seen(m)  == m \in DOMAIN plan.at
PlanErr  == plan' = [Empty EXCEPT !.st = "error"]
Here(m)  == [k \in DOMAIN plan.at \union {m} |-> IF k = m THEN plan.pos ELSE plan.at[k]]

\* Deviation: the buffer may overflow.
FitsAlways(w) == TRUE

\* The buffer for the URL is as large as the file.
Fits(w) == plan.pos - UriAt + w <= FileLen

Fill(m) == CASE m = "uid" -> UidLen [] m = "ctr" -> CtrLen [] m = "tt" -> TtLen
             [] m = "mac" -> MacLen [] m = "picc" -> PiccLen[mode]

\* A character of the URL, or of the text that only sizes the [...] range.
Text ==
  /\ Parsing
  /\ IF Fits(1) THEN plan' = [plan EXCEPT !.pos = @ + 1] ELSE PlanErr
  /\ UNCHANGED mode

\* A placeholder: each at most once, and only {tt} inside [...].
Placeholder(m, content) ==
  /\ Parsing
  /\ m # "picc" => content = {}
  /\ IF Seen(m) \/ (InEnc /\ m # "tt") \/ ~Fits(Fill(m))
       THEN PlanErr
       ELSE plan' = [plan EXCEPT !.at = Here(m), !.pos = @ + Fill(m),
                                 !.content = @ \union content]
  /\ UNCHANGED mode

\* `[[`: the MAC window starts here.
MacStart ==
  /\ Parsing
  /\ IF InEnc \/ plan.macStart # -1
       THEN PlanErr ELSE plan' = [plan EXCEPT !.macStart = plan.pos]
  /\ UNCHANGED mode

\* `[`: encrypted file data from here ...
OpenEnc ==
  /\ Parsing
  /\ IF Seen("enc") THEN PlanErr ELSE plan' = [plan EXCEPT !.at = Here("enc")]
  /\ UNCHANGED mode

\* ... to the closing `]`.
CloseEnc ==
  /\ Parsing
  /\ IF InEnc THEN plan' = [plan EXCEPT !.encEnd = plan.pos] ELSE PlanErr
  /\ UNCHANGED mode

\* An unknown placeholder, or one that is not closed.
Malformed ==
  /\ Parsing
  /\ PlanErr
  /\ UNCHANGED mode

-----------------------------------------------------------------------------

\* The settings that the parser has collected by the end of the template.
Planned ==
  [at |-> plan.at, content |-> plan.content,
   input |-> IF plan.macStart = -1 THEN UriAt ELSE plan.macStart,
   encLen |-> IF Seen("enc") THEN plan.encEnd - plan.at["enc"] ELSE 0,
   limit |-> NoLimit]

\* The parser's own checks at the end of the template.
Complete ==
  /\ ~InEnc
  /\ Seen("mac")
  /\ Seen("picc") => ~Seen("uid") /\ ~Seen("ctr")
  /\ \E m \in {"picc", "uid", "ctr", "tt"} : Seen(m)
  /\ Seen("enc") => /\ Planned.encLen > 0 /\ Planned.encLen % EncUnit = 0
                    /\ Includes(Planned) = Identity
  /\ Planned.input <= plan.at["mac"]

\* The end of the template: the file must fit, and the settings be valid.
EndOfTemplate ==
  /\ Parsing
  /\ IF Complete /\ plan.pos <= FileLen /\ TryNew(Planned, mode)
       THEN plan' = [plan EXCEPT !.st = "done"] ELSE PlanErr
  /\ UNCHANGED mode

PlanInit == mode \in Mode /\ plan = Empty

PlanStep ==
  \/ Text \/ MacStart \/ OpenEnc \/ CloseEnc \/ Malformed \/ EndOfTemplate
  \/ \E m \in {"uid", "ctr", "tt", "mac"} : Placeholder(m, {})
  \/ \E content \in PiccContent : Placeholder("picc", content)
=============================================================================
