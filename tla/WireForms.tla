------------------------------- MODULE WireForms -------------------------------
(***************************************************************************)
(* The parts of the library below the sessions, side by side: settings and *)
(* capability container, configuration, cipher suites, the chain of frames *)
(* of GetVersion, and the forms that data takes on the wire.  A behaviour  *)
(* exercises one part.                                                     *)
(***************************************************************************)
EXTENDS Personalisation, TagConfiguration, CipherSuite, VersionChain,
        KeyDiversification, NdefUri, Answers

CONSTANTS
  Parts,                    \* the parts that the behaviours exercise
  Containers,               \* bytes of capability containers, sound or not
  Urls, OldUrls,            \* URLs to write, and those written before
  Uids, KeyNumbers, SystemIds   \* what keys are diversified by

ASSUME PartsAssumption == Parts \subseteq {"settings", "configuration", "suite", "version", "forms"}
ASSUME InputsAssumption ==
  /\ Containers \subseteq Seq(0 .. 255) /\ Urls \union OldUrls \subseteq Seq(STRING)
  /\ Uids \union SystemIds \subseteq Seq(0 .. 255) /\ KeyNumbers \subseteq 0 .. 255

VARIABLES part, input

vars == <<part, input, persVars, confVars, suiteVars, chainVars>>

NoInput == [kind |-> "none"]

Words == {row[1] : row \in Table["iso"] \union Table["desfire"]}
           \union {36865, 37121, 27649, 27903}

DiversificationInputs == {InputOf(uid, k, id) : uid \in Uids, k \in KeyNumbers, id \in SystemIds}

\* An input of any of the forms; from then on nothing happens.
Choose ==
  /\ part = "forms" /\ input = NoInput
  /\ \/ \E b \in Containers : input' = [kind |-> "container", bytes |-> b]
     \/ \E u \in {v \in Urls : Fits(v)}, old \in OldUrls, alloc \in BOOLEAN :
          input' = [kind |-> "url", url |-> u, alloc |-> alloc,
                    file |-> WrittenOver(Planned(old), Planned(u))]
     \/ \E a, b \in DiversificationInputs : input' = [kind |-> "keys", a |-> a, b |-> b]
     \/ \E f \in Framing, w \in Words : input' = [kind |-> "status", framing |-> f, word |-> w]
  /\ UNCHANGED <<part, persVars, confVars, suiteVars, chainVars>>

Init ==
  /\ part \in Parts /\ input = NoInput
  /\ InitPersonalisation /\ InitConfiguration /\ InitSuite /\ InitChain

Next ==
  \/ part = "settings" /\ PersonalisationNext /\ UNCHANGED <<part, input, confVars, suiteVars, chainVars>>
  \/ part = "configuration" /\ ConfigurationNext /\ UNCHANGED <<part, input, persVars, suiteVars, chainVars>>
  \/ part = "suite" /\ SuiteNext /\ UNCHANGED <<part, input, persVars, confVars, chainVars>>
  \/ part = "version" /\ ChainNext /\ UNCHANGED <<part, input, persVars, confVars, suiteVars>>
  \/ Choose

Spec == Init /\ [][Next]_vars

-----------------------------------------------------------------------------
(* Properties of the forms; those of the other parts are in their modules *)

\* A capability container that parses is written back byte for byte, but for
\* what follows its entries: conditions of any value, in any number of entries,
\* whatever its length field says.
ContainerRoundTrip ==
  input.kind = "container" /\ Parses(input.bytes) =>
    ToBytes(FromBytes(input.bytes)) = SubSeq(input.bytes, 1, 7 + 8 * Count(input.bytes))

\* A URL written over another one, longer or shorter, is read back as it was:
\* any URL where the build has `alloc`, and one of at most MaxString bytes
\* where it has not.
UrlReadsBack ==
  input.kind = "url" /\ (input.alloc \/ Len(input.url) <= MaxString) =>
    ParseNdefUri(input.file, input.alloc) = <<"ok", input.url>>

\* Different UIDs, key numbers or system identifiers make different keys,
\* whatever bytes and length the system identifier has.
KeysDistinct ==
  input.kind = "keys" /\ input.a # input.b /\ Accepted(input.a) /\ Accepted(input.b) =>
    DiversifyAes128(input.a) # DiversifyAes128(input.b)

\* The two tests for success that commands use, `ok()` and a comparison of
\* `status()`, agree, and no word of one framing passes for success or for
\* another error in the other.
StatusFaithful ==
  input.kind = "status" =>
    /\ Ok(input.framing, input.word)
         <=> Status(input.framing, input.word) \in {"OperationOk", "NormalProcessing"}
    /\ \A f \in Framing \ {input.framing} :
         Status(input.framing, input.word) # "Unknown" => Status(f, input.word) = "Unknown"

\* doc, sdm_url.rs:396: prefixes with a shared root are checked longest first.
LongestMatch ==
  input.kind = "url" =>
    \A c \in Matching(input.url) : Len(NdefUriPrefixes[c]) <= Len(Prefix(DetectUriPrefix(input.url)))
=============================================================================
