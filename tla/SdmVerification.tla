--------------------------- MODULE SdmVerification ---------------------------
(***************************************************************************)
(* `ApplicationVerifier::verify` as a service runs it: tags produce SDM    *)
(* readouts with a growing read counter, the readouts arrive in any order, *)
(* any number of times and possibly damaged, and each arrival is one call  *)
(* of `verify` by some worker.  A call awaits the counter store twice, to  *)
(* get the stored counter and to set the new one; each may fail, with or   *)
(* without having had its effect, and the call may be dropped there.       *)
(*                                                                         *)
(* The UID and the counter that a readout carries stand for what the       *)
(* verifier decrypts from it; `mac` says whether the SDMMAC, computed with *)
(* the key derived for that UID and counter, matches.  The settings of some *)
(* tags mirror no counter: their readouts are verified without the store,  *)
(* any number of times.                                                    *)
(***************************************************************************)
EXTENDS Integers

CONSTANTS
  Uid,        \* the tags
  Silent,     \* those whose SDM settings mirror no counter
  Worker,     \* the tasks that may run `verify`
  MaxCtr,     \* bound: taps of one tag (2^24 - 1 in the tag)
  MaxCalls,   \* bound: calls of `verify` in one behaviour
  Exclusive   \* whether the store is lent (`&mut S`) to one call at a time

ASSUME BoundAssumption == MaxCtr \in Nat /\ MaxCalls \in Nat
ASSUME ExclusiveAssumption == Exclusive \in BOOLEAN
ASSUME NoUidAssumption == "none" \notin Uid
ASSUME SilentAssumption == Silent \subseteq Uid

VARIABLES
  tapped,   \* external: the read counter of each tag
  store,    \* the counter that the ReadCounterStorage holds for each tag
  worker,   \* what each worker is doing
  told,     \* the readouts <<uid, counter>> reported as verified, those
            \* without a counter left out (history)
  reached,  \* the readouts that passed the replay check (history)
  calls     \* calls made so far

vars == <<tapped, store, worker, told, reached, calls>>

Ctr == 0 .. MaxCtr

Ready == [at |-> "ready", uid |-> "none", ctr |-> 0, out |-> "none"]

-----------------------------------------------------------------------------
(* Readouts *)

NoCtr == -1   \* the readout carries no counter

Readout(u, c) ==
  [prefix |-> TRUE, uid |-> u, ctr |-> IF u \in Silent THEN NoCtr ELSE c, mac |-> TRUE]

\* Everything a tag has mirrored so far: its counter is 1 at the first tap.
Arrived == UNION {{Readout(u, c) : c \in 1 .. tapped[u]} : u \in Uid}

\* What a readout may have become on the way: the prefix is another one, the
\* UID is missing, or the counter, or what else is under the MAC, changed.
OtherPrefix(r) == [r EXCEPT !.prefix = FALSE]
WithoutUid(r)  == [r EXCEPT !.uid = "none"]
Altered(r, c)  == [r EXCEPT !.mac = FALSE, !.ctr = c]
Damaged ==
  {OtherPrefix(r) : r \in Arrived} \union {WithoutUid(r) : r \in Arrived}
    \union {Altered(r, c) : r \in Arrived, c \in Ctr \union {NoCtr}}

-----------------------------------------------------------------------------
(* The steps of `verify` *)

Goes(w, rec) == worker' = [worker EXCEPT ![w] = rec]
Returns(w, out) == Goes(w, [Ready EXCEPT !.out = out])

\* External: the tag counts the tap and mirrors the new value.
Tap(u) ==
  /\ tapped[u] < MaxCtr
  /\ tapped' = [tapped EXCEPT ![u] = @ + 1]
  /\ UNCHANGED <<store, worker, told, reached, calls>>

CanStart(w) ==
  /\ worker[w].at = "ready"
  /\ calls < MaxCalls
  /\ Exclusive => \A v \in Worker : worker[v].at = "ready"

\* Deviation: the MAC is not checked before the counter is used.
CheckedWithoutMac(r) ==
  IF ~r.prefix THEN "PrefixMismatch"
  ELSE IF r.uid = "none" THEN "NoUid"
  ELSE "ok"

\* Deviation: a readout without a UID gets through.
CheckedWithoutUid(r) ==
  IF ~r.prefix THEN "PrefixMismatch"
  ELSE IF ~r.mac THEN "MacMismatch"
  ELSE "ok"

\* The checks before the first await, in the order of the code.
Checked(r) ==
  IF ~r.prefix THEN "PrefixMismatch"
  ELSE IF r.uid = "none" THEN "NoUid"
  ELSE IF ~r.mac THEN "MacMismatch"
  ELSE "ok"

\* Without a counter the readout is reported as verified at once.
Verify(w, r) ==
  /\ CanStart(w)
  /\ calls' = calls + 1
  /\ \/ (Checked(r) # "ok" \/ r.ctr = NoCtr) /\ Returns(w, Checked(r))
     \/ /\ Checked(r) = "ok" /\ r.ctr # NoCtr
        /\ Goes(w, [Ready EXCEPT !.at = "get", !.uid = r.uid, !.ctr = r.ctr])
  /\ UNCHANGED <<tapped, store, told, reached>>

\* Deviation: a counter equal to the stored one passes.
BelowStored(w) == worker[w].ctr < store[worker[w].uid]

TooLow(w) == worker[w].ctr <= store[worker[w].uid]

\* `get` completes; the comparison follows at once.
Get(w) ==
  /\ worker[w].at = "get"
  /\ IF TooLow(w)
       THEN /\ Goes(w, [worker[w] EXCEPT !.at = "ready",
                                         !.out = "ReadCounterTooLow"])
            /\ UNCHANGED reached
       ELSE /\ Goes(w, [worker[w] EXCEPT !.at = "set"])
            /\ reached' = reached \union {<<worker[w].uid, worker[w].ctr>>}
  /\ UNCHANGED <<tapped, store, told, calls>>

\* Deviation: one counter serves every tag, as with the `u32` store.
StoredForAll(w) == [u \in Uid |-> worker[w].ctr]

\* The store after it has done what `set` asks for.
Stored(w) == [store EXCEPT ![worker[w].uid] = worker[w].ctr]

\* `set` completes and the readout is reported as verified.
Set(w) ==
  /\ worker[w].at = "set"
  /\ store' = Stored(w)
  /\ told' = told \union {<<worker[w].uid, worker[w].ctr>>}
  /\ Goes(w, [worker[w] EXCEPT !.at = "ready", !.out = "ok"])
  /\ UNCHANGED <<tapped, reached, calls>>

\* `get` or `set` fails, or the call is dropped while it waits for them; a
\* `set` may have had its effect by then.
StoreError(w) ==
  /\ worker[w].at \in {"get", "set"}
  /\ \/ UNCHANGED store
     \/ /\ worker[w].at = "set"
        /\ store' = Stored(w)
  /\ Returns(w, "StoreError")
  /\ UNCHANGED <<tapped, told, reached, calls>>

Init ==
  /\ tapped = [u \in Uid |-> 0]
  /\ store = [u \in Uid |-> 0]
  /\ worker = [w \in Worker |-> Ready]
  /\ told = {}
  /\ reached = {}
  /\ calls = 0

Next ==
  \/ \E u \in Uid : Tap(u)
  \/ \E w \in Worker :
       \/ \E r \in Arrived \union Damaged : Verify(w, r)
       \/ Get(w) \/ Set(w) \/ StoreError(w)

Spec == Init /\ [][Next]_vars

-----------------------------------------------------------------------------
(* Properties *)

Outcome == {"none", "ok", "PrefixMismatch", "NoUid", "MacMismatch",
            "ReadCounterTooLow", "StoreError"}

\* Counters, workers and the two histories have their types.
TypeOK ==
  /\ tapped \in [Uid -> Ctr]
  /\ store \in [Uid -> Ctr]
  /\ worker \in [Worker -> [at: {"ready", "get", "set"},
                            uid: Uid \union {"none"}, ctr: Ctr, out: Outcome]]
  /\ \A w \in Worker : worker[w].at # "ready" => worker[w].uid \in Uid
  /\ told \subseteq Uid \X Ctr
  /\ reached \subseteq Uid \X Ctr
  /\ calls \in 0 .. MaxCalls

Replay == INSTANCE AcceptOnce WITH high <- store

\* While one call at a time holds the store, the service accepts every
\* readout that carries a counter at most once, in the order of the taps, and
\* the stored counter never falls, whatever fails in between.
AcceptsOnce == Replay!Spec

\* No damaged readout can lock a tag out: the stored counter never runs ahead
\* of the tag, whose next tap is therefore newer than everything stored.
StoreNotAhead == \A u \in Uid : store[u] <= tapped[u]

\* A readout is turned down as a replay only if that tag has had a readout at
\* least as new that passed the replay check before.
RejectionJustified ==
  \A w \in Worker :
    worker[w].out = "ReadCounterTooLow" =>
      \E c \in Ctr : c >= worker[w].ctr /\ <<worker[w].uid, c>> \in reached

\* verification.rs: "The new counter must be strictly greater than the stored
\* one; otherwise ReadCounterTooLow is returned": a counter that is reported as
\* verified is newer than everything stored for that tag until then.
StrictlyGreater ==
  [][\A w \in Worker :
       Set(w) => worker[w].ctr > store[worker[w].uid]]_vars
=============================================================================
