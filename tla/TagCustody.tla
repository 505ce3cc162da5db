----------------------------- MODULE TagCustody -----------------------------
(***************************************************************************)
(* What `provision` and `reset` promise about one tag, whatever happens on *)
(* the way: a tag is handed to an issuer only when it is complete for that *)
(* issuer, and comes back to stock only when nothing of the issuer is left *)
(* on it.  Interrupted work shows as "preparing" or "returning", never as  *)
(* a tag in circulation that is only half set up.                          *)
(***************************************************************************)
CONSTANT Issuer      \* the holders of distinct sets of application keys

VARIABLES
  owner,    \* whose master key (Key 0) the tag holds, "zero" if nobody's
  status    \* how far the rest of the tag agrees with that

cvars == <<owner, status>>

Init == owner = "zero" /\ status = "stock"

Prepare ==
  /\ status = "stock"
  /\ status' = "preparing"
  /\ UNCHANGED owner

Issue(i) ==
  /\ status = "preparing"
  /\ owner' = i
  /\ status' = "issued"

Recall ==
  /\ status = "issued"
  /\ status' = "returning"
  /\ UNCHANGED owner

Return ==
  /\ status = "returning"
  /\ owner' = "zero"
  /\ status' = "stock"

Next == Prepare \/ (\E i \in Issuer : Issue(i)) \/ Recall \/ Return

Spec == Init /\ [][Next]_cvars
=============================================================================
