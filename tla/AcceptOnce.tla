----------------------------- MODULE AcceptOnce -----------------------------
(***************************************************************************)
(* What the replay check of a verification service promises: the readouts  *)
(* of a tag are accepted at most once each and in the order in which the   *)
(* tag made them, and the stored read counter never falls.                 *)
(***************************************************************************)
EXTENDS Naturals

CONSTANTS
  Uid,      \* the tags
  Ctr       \* values of a read counter

VARIABLES
  high,     \* the highest counter stored for each tag
  told      \* the readouts <<uid, counter>> whose acceptance was reported

Init ==
  /\ high = [u \in Uid |-> 0]
  /\ told = {}

\* A readout is accepted: it is newer than anything stored before.
Accept(u, c) ==
  /\ c > high[u]
  /\ high' = [high EXCEPT ![u] = c]
  /\ told' = told \union {<<u, c>>}

\* The counter is stored but the caller is told of an error: the readout is
\* used up all the same.
Burn(u, c) ==
  /\ c > high[u]
  /\ high' = [high EXCEPT ![u] = c]
  /\ UNCHANGED told

Next == \E u \in Uid, c \in Ctr : Accept(u, c) \/ Burn(u, c)

Spec == Init /\ [][Next]_<<high, told>>
=============================================================================
