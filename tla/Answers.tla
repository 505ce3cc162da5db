-------------------------------- MODULE Answers --------------------------------
(***************************************************************************)
(* What the library makes of status words, in the two framings of ISO 7816 *)
(* and of the tag's own commands.                                          *)
(***************************************************************************)
EXTENDS Naturals

Framing == {"iso", "desfire"}

\* The status words of each framing and their names.
Table ==
  [desfire |->
     {<<37120, "OperationOk">>, <<37148, "IllegalCommandCode">>, <<37150, "IntegrityError">>,
      <<37184, "NoSuchKey">>, <<37246, "LengthError">>, <<37277, "PermissionDenied">>,
      <<37278, "ParameterError">>, <<37293, "AuthenticationDelay">>,
      <<37294, "AuthenticationError">>, <<37295, "AdditionalFrame">>, <<37310, "BoundaryError">>,
      <<37322, "CommandAborted">>, <<37358, "MemoryError">>, <<37360, "FileNotFound">>},
   iso |->
     {<<26368, "WrongLength">>, <<27010, "SecurityStatusNotSatisfied">>,
      <<27013, "ConditionsOfUseNotSatisfied">>,
      <<27264, "IncorrectParametersInTheCommandDataField">>,
      <<27266, "FileOrApplicationNotFound">>, <<27270, "IncorrectParametersP1P2">>,
      <<27271, "LcInconsistentWithParametersP1P2">>, <<27648, "WrongLeField">>,
      <<27904, "InstructionCodeNotSupportedOrInvalid">>, <<28160, "ClassNotSupported">>,
      <<36864, "NormalProcessing">>}]

\* 6Cxx says in its low byte how much there is to read.
WrongLe == 27649 .. 27903

Status(framing, word) ==
  IF framing = "iso" /\ word \in WrongLe THEN "WrongLeFieldExpected"
  ELSE IF \E row \in Table[framing] : row[1] = word
         THEN (CHOOSE row \in Table[framing] : row[1] = word)[2]
  ELSE "Unknown"

\* Deviation: either success word will do.
OkInAnyFraming(framing, word) == word \in {36864, 37120}

Ok(framing, word) == word = [iso |-> 36864, desfire |-> 37120][framing]
=============================================================================
