--------------------------- MODULE MCProvisioning ---------------------------
(***************************************************************************)
(* Instances of Provisioning for TLC: two issuers, and up to four calls     *)
(* (the last meets a tag that three, of either issuer, have left behind).   *)
(***************************************************************************)
EXTENDS Provisioning

MCIssuer == {"alice", "bob"}
=============================================================================
