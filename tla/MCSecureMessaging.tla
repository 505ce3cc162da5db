------------------------- MODULE MCSecureMessaging -------------------------
(***************************************************************************)
(* Instances of SecureMessaging for TLC.  One command stands for each       *)
(* profile of secure-messaging framing the session uses.                    *)
(***************************************************************************)
EXTENDS SecureMessaging

\* MAC chain; MAC; sealed answer; sealed command; no MACt; plain.
MCCommand == {"GetVersion", "ReadMac", "GetCardUid", "ChangeKey",
              "SetConfiguration", "EnableLrp", "ChangeMasterKey", "ReadPlain",
              "WritePlain"}
=============================================================================
