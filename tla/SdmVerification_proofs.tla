------------------------ MODULE SdmVerification_proofs ------------------------
(***************************************************************************)
(* Machine-checked facts about the verification service, for any number of *)
(* tags, workers, taps and calls.                                          *)
(***************************************************************************)
EXTENDS SdmVerification, TLAPS

USE BoundAssumption, ExclusiveAssumption, NoUidAssumption
    DEF BoundAssumption, ExclusiveAssumption, NoUidAssumption

WorkerRecord == [at: {"ready", "get", "set"}, uid: Uid \union {"none"}, ctr: Ctr, out: Outcome]

\* What a call carries between its awaits comes from a tap of that tag, and
\* what it is about to store has passed the replay check.
CallsSound ==
  \A w \in Worker :
    worker[w].at # "ready" =>
      /\ 0 < worker[w].ctr /\ worker[w].ctr <= tapped[worker[w].uid]
      /\ worker[w].at = "set" => <<worker[w].uid, worker[w].ctr>> \in reached

\* The store holds nothing that has not passed the replay check.
StoreReached == \A u \in Uid : store[u] # 0 => <<u, store[u]>> \in reached

\* With an exclusive store: one call at a time, and what a call has compared is
\* still what the store holds.
OneCall ==
  Exclusive =>
    /\ \A v, w \in Worker : worker[v].at # "ready" /\ worker[w].at # "ready" => v = w
    /\ \A w \in Worker : worker[w].at = "set" => store[worker[w].uid] < worker[w].ctr

ServiceInv ==
  TypeOK /\ CallsSound /\ StoreReached /\ OneCall /\ StoreNotAhead /\ RejectionJustified

-----------------------------------------------------------------------------
(* Records *)

\* A worker that waits, or has returned, after a call of this UID and counter.
LEMMA RecordAt ==
  ASSUME NEW r \in WorkerRecord, NEW at \in {"ready", "get", "set"}
  PROVE  LET t == [r EXCEPT !.at = at]
         IN  t \in WorkerRecord /\ t.at = at /\ t.uid = r.uid /\ t.ctr = r.ctr /\ t.out = r.out
  BY DEF WorkerRecord

LEMMA RecordOut ==
  ASSUME NEW r \in WorkerRecord, NEW out \in Outcome
  PROVE  LET t == [r EXCEPT !.out = out]
         IN  t \in WorkerRecord /\ t.at = r.at /\ t.out = out
  BY DEF WorkerRecord

LEMMA Rejects ==
  ASSUME NEW r \in WorkerRecord
  PROVE  LET t == [r EXCEPT !.at = "ready", !.out = "ReadCounterTooLow"]
         IN  t \in WorkerRecord /\ t.at = "ready" /\ t.uid = r.uid /\ t.ctr = r.ctr
  BY DEF WorkerRecord, Outcome

LEMMA Succeeds ==
  ASSUME NEW r \in WorkerRecord
  PROVE  LET t == [r EXCEPT !.at = "ready", !.out = "ok"]
         IN  t \in WorkerRecord /\ t.at = "ready" /\ t.out = "ok"
  BY DEF WorkerRecord, Outcome

LEMMA ReadyType == Ready \in WorkerRecord /\ Ready.at = "ready" /\ Ready.out = "none"
  BY DEF Ready, WorkerRecord, Outcome, Ctr

\* A call whose readout has passed the checks.
Started(u, c) == [Ready EXCEPT !.at = "get", !.uid = u, !.ctr = c]

LEMMA Starts ==
  ASSUME NEW u \in Uid, NEW c \in Ctr
  PROVE  /\ Started(u, c) \in WorkerRecord /\ Started(u, c).at = "get"
         /\ Started(u, c).uid = u /\ Started(u, c).ctr = c /\ Started(u, c).out = "none"
  BY DEF Started, Ready, WorkerRecord, Outcome, Ctr

\* A readout that passes the checks is one that its tag has mirrored.
LEMMA CheckedIsGenuine ==
  ASSUME TypeOK, NEW r \in Arrived \union Damaged, Checked(r) = "ok", r.ctr # NoCtr
  PROVE  r.uid \in Uid /\ r.ctr \in Ctr /\ 0 < r.ctr /\ r.ctr <= tapped[r.uid]
<1>1. r.prefix /\ r.uid # "none" /\ r.mac
  BY DEF Checked
<1>2. ASSUME NEW a \in Arrived
      PROVE  /\ a \in [prefix: BOOLEAN, uid: Uid \union {"none"}, ctr: Int, mac: BOOLEAN]
             /\ a.uid \in Uid
             /\ a.ctr = NoCtr \/ a.ctr \in 1 .. tapped[a.uid]
  <2>1. PICK u \in Uid : \E c \in 1 .. tapped[u] : a = Readout(u, c)
    BY DEF Arrived
  <2>2. PICK c \in 1 .. tapped[u] : a = Readout(u, c)
    BY <2>1
  <2> DEFINE m == IF u \in Silent THEN NoCtr ELSE c
  <2>3. m \in Int /\ (m = NoCtr \/ m = c)
    BY DEF NoCtr
  <2>4. a = [prefix |-> TRUE, uid |-> u, ctr |-> m, mac |-> TRUE]
    BY <2>2 DEF Readout
  <2> HIDE DEF m
  <2> QED BY <2>3, <2>4
<1>3. \A a \in Arrived : OtherPrefix(a).prefix = FALSE /\ WithoutUid(a).uid = "none"
  BY <1>2 DEF OtherPrefix, WithoutUid
<1>4. \A a \in Arrived : \A c \in Ctr \union {NoCtr} : Altered(a, c).mac = FALSE
  BY <1>2 DEF Altered
<1>5. r \in Arrived
  BY <1>1, <1>3, <1>4 DEF Damaged
<1>6. r.uid \in Uid /\ r.ctr \in 1 .. tapped[r.uid]
  BY <1>2, <1>5
<1>7. tapped[r.uid] \in Ctr
  BY <1>6 DEF TypeOK
<1> QED BY <1>6, <1>7 DEF Ctr

LEMMA CheckedOutcome == ASSUME NEW r PROVE Checked(r) \in Outcome /\ Checked(r) # "ReadCounterTooLow"
  BY DEF Checked, Outcome
-----------------------------------------------------------------------------
(* The invariant *)

LEMMA ServiceInit == Init => ServiceInv
<1> SUFFICES ASSUME Init PROVE ServiceInv
  OBVIOUS
<1>1. TypeOK
  BY ReadyType DEF Init, TypeOK, WorkerRecord, Ctr
<1>2. \A w \in Worker : worker[w].at = "ready" /\ worker[w].out = "none"
  BY ReadyType DEF Init
<1> QED BY <1>1, <1>2 DEF Init, ServiceInv, CallsSound, StoreReached, OneCall, StoreNotAhead,
     RejectionJustified

\* One worker's record changes: what is to be shown of it alone.
LEMMA WorkerStep ==
  ASSUME ServiceInv, NEW w \in Worker, NEW r \in WorkerRecord, Goes(w, r)
  PROVE  /\ worker' \in [Worker -> WorkerRecord]
         /\ worker'[w] = r
         /\ \A v \in Worker \ {w} : worker'[v] = worker[v]
  BY DEF ServiceInv, TypeOK, WorkerRecord, Goes

LEMMA TapStep == ASSUME ServiceInv, NEW u \in Uid, Tap(u) PROVE ServiceInv'
<1> USE DEF ServiceInv
<1>1. /\ tapped' \in [Uid -> Ctr]
      /\ \A v \in Uid : tapped[v] <= tapped'[v]
  BY DEF Tap, TypeOK, Ctr
<1>2. UNCHANGED <<store, worker, told, reached, calls>>
  BY DEF Tap
<1>3. TypeOK'
  BY <1>1, <1>2 DEF TypeOK
<1>4. \A w \in Worker : worker[w].at # "ready" => worker[w].uid \in Uid /\ worker[w].ctr \in Nat
  BY DEF TypeOK, Ctr
<1>5. CallsSound'
  BY <1>1, <1>2, <1>4 DEF CallsSound, TypeOK, Ctr
<1>6. StoreNotAhead'
  BY <1>1, <1>2 DEF StoreNotAhead, TypeOK, Ctr
<1> QED BY <1>2, <1>3, <1>5, <1>6 DEF StoreReached, OneCall, RejectionJustified

LEMMA VerifyStep ==
  ASSUME ServiceInv, NEW w \in Worker, NEW r \in Arrived \union Damaged, Verify(w, r)
  PROVE  ServiceInv'
<1> USE DEF ServiceInv
<1>1. /\ CanStart(w) /\ calls' = calls + 1 /\ UNCHANGED <<tapped, store, told, reached>>
  BY DEF Verify
<1>2. calls' \in 0 .. MaxCalls
  BY <1>1 DEF CanStart, TypeOK
<1>3. PICK t \in WorkerRecord :
        /\ Goes(w, t) /\ t.out # "ReadCounterTooLow" /\ t.at \in {"ready", "get"}
        /\ t.at = "get" => t.uid \in Uid /\ 0 < t.ctr /\ t.ctr <= tapped[t.uid]
  <2>1. CASE Checked(r) = "ok" /\ r.ctr # NoCtr
    <3> DEFINE t == Started(r.uid, r.ctr)
    <3>1. Goes(w, t)
      BY <2>1 DEF Verify, Started
    <3>2. r.uid \in Uid /\ r.ctr \in Ctr /\ 0 < r.ctr /\ r.ctr <= tapped[r.uid]
      BY <2>1, CheckedIsGenuine
    <3>3. t \in WorkerRecord /\ t.at = "get" /\ t.uid = r.uid /\ t.ctr = r.ctr /\ t.out = "none"
      BY <3>2, Starts
    <3> HIDE DEF t
    <3> QED BY <3>1, <3>2, <3>3
  <2>2. CASE Checked(r) # "ok" \/ r.ctr = NoCtr
    <3> DEFINE t == [Ready EXCEPT !.out = Checked(r)]
    <3>1. t \in WorkerRecord /\ t.at = "ready" /\ t.out = Checked(r)
      <4>1. Checked(r) \in Outcome
        BY CheckedOutcome
      <4> QED BY <4>1, ReadyType, RecordOut
    <3>2. Goes(w, t)
      BY <2>2 DEF Verify, Returns
    <3> HIDE DEF t
    <3> QED BY <3>1, <3>2, CheckedOutcome
  <2> QED BY <2>1, <2>2
<1>4. worker' \in [Worker -> WorkerRecord] /\ worker'[w] = t
      /\ \A v \in Worker \ {w} : worker'[v] = worker[v]
  BY <1>3, WorkerStep
<1>5. \A v \in Worker : worker'[v].at # "ready" =>
         worker'[v].uid \in Uid /\ (v = w \/ worker[v].at = worker'[v].at)
  BY <1>3, <1>4 DEF TypeOK
<1>6. TypeOK'
  BY <1>1, <1>2, <1>4, <1>5 DEF TypeOK, WorkerRecord
<1>7. CallsSound'
  BY <1>1, <1>3, <1>4 DEF CallsSound
<1>8. OneCall'
  BY <1>1, <1>3, <1>4 DEF OneCall, CanStart
<1>9. RejectionJustified'
  BY <1>1, <1>3, <1>4 DEF RejectionJustified
<1> QED BY <1>1, <1>6, <1>7, <1>8, <1>9 DEF StoreReached, StoreNotAhead

LEMMA GetStep == ASSUME ServiceInv, NEW w \in Worker, Get(w) PROVE ServiceInv'
<1> USE DEF ServiceInv
<1>1. /\ worker[w].at = "get" /\ UNCHANGED <<tapped, store, told, calls>>
      /\ worker[w] \in WorkerRecord /\ worker[w].uid \in Uid /\ worker[w].ctr \in Ctr
      /\ worker[w].ctr > 0 /\ worker[w].ctr <= tapped[worker[w].uid]
  BY DEF Get, TypeOK, CallsSound, WorkerRecord
<1>2. CASE TooLow(w)
  <2> DEFINE t == [worker[w] EXCEPT !.at = "ready", !.out = "ReadCounterTooLow"]
  <2>1. Goes(w, t) /\ UNCHANGED reached
    BY <1>2 DEF Get
  <2>2. t \in WorkerRecord /\ t.at = "ready" /\ t.uid = worker[w].uid /\ t.ctr = worker[w].ctr
    BY <1>1, Rejects
  <2> HIDE DEF t
  <2>3. worker' \in [Worker -> WorkerRecord] /\ worker'[w] = t
        /\ \A v \in Worker \ {w} : worker'[v] = worker[v]
    BY <2>1, <2>2, WorkerStep
  <2>4. TypeOK'
    BY <1>1, <2>1, <2>2, <2>3 DEF TypeOK, WorkerRecord
  <2>5. CallsSound' /\ OneCall'
    BY <1>1, <2>1, <2>2, <2>3 DEF CallsSound, OneCall
  <2>6. \E c \in Ctr : c >= worker'[w].ctr /\ <<worker'[w].uid, c>> \in reached'
    BY <1>1, <1>2, <2>1, <2>2, <2>3 DEF TooLow, StoreReached, TypeOK, Ctr
  <2>7. RejectionJustified'
    BY <2>1, <2>3, <2>6 DEF RejectionJustified
  <2> QED BY <1>1, <2>1, <2>4, <2>5, <2>7 DEF StoreReached, StoreNotAhead
<1>3. CASE ~TooLow(w)
  <2> DEFINE t == [worker[w] EXCEPT !.at = "set"]
  <2>1. Goes(w, t) /\ reached' = reached \union {<<worker[w].uid, worker[w].ctr>>}
    BY <1>3 DEF Get
  <2>2. /\ t \in WorkerRecord /\ t.at = "set" /\ t.uid = worker[w].uid /\ t.ctr = worker[w].ctr
        /\ t.out = worker[w].out
    BY <1>1, RecordAt
  <2> HIDE DEF t
  <2>3. worker' \in [Worker -> WorkerRecord] /\ worker'[w] = t
        /\ \A v \in Worker \ {w} : worker'[v] = worker[v]
    BY <2>1, <2>2, WorkerStep
  <2>4. TypeOK'
    BY <1>1, <2>1, <2>2, <2>3 DEF TypeOK, WorkerRecord
  <2>5. CallsSound'
    BY <1>1, <2>1, <2>2, <2>3 DEF CallsSound
  <2>6. OneCall'
    BY <1>1, <1>3, <2>1, <2>2, <2>3 DEF OneCall, TooLow, TypeOK, Ctr
  <2>7. RejectionJustified'
    BY <1>1, <2>1, <2>2, <2>3 DEF RejectionJustified
  <2>8. StoreReached'
    BY <1>1, <2>1 DEF StoreReached
  <2> QED BY <1>1, <2>4, <2>5, <2>6, <2>7, <2>8 DEF StoreNotAhead
<1> QED BY <1>2, <1>3

\* The store takes the counter of a call that is about to set it.
LEMMA StoredStep ==
  ASSUME ServiceInv, NEW w \in Worker, worker[w].at = "set", store' = Stored(w),
         UNCHANGED <<tapped, reached>>
  PROVE  store' \in [Uid -> Ctr] /\ StoreReached' /\ StoreNotAhead'
<1> USE DEF ServiceInv
<1>1. /\ worker[w].uid \in Uid /\ worker[w].ctr \in Ctr
      /\ worker[w].ctr <= tapped[worker[w].uid]
      /\ <<worker[w].uid, worker[w].ctr>> \in reached
  BY DEF TypeOK, CallsSound
<1>2. store' \in [Uid -> Ctr] /\ store'[worker[w].uid] = worker[w].ctr
      /\ \A u \in Uid \ {worker[w].uid} : store'[u] = store[u]
  BY <1>1 DEF Stored, TypeOK
<1> QED BY <1>1, <1>2 DEF StoreReached, StoreNotAhead

LEMMA SetStep == ASSUME ServiceInv, NEW w \in Worker, Set(w) PROVE ServiceInv'
<1> USE DEF ServiceInv
<1> DEFINE t == [worker[w] EXCEPT !.at = "ready", !.out = "ok"]
<1>1. /\ worker[w].at = "set" /\ store' = Stored(w) /\ UNCHANGED <<tapped, reached, calls>>
      /\ told' = told \union {<<worker[w].uid, worker[w].ctr>>} /\ Goes(w, t)
      /\ worker[w] \in WorkerRecord /\ worker[w].uid \in Uid /\ worker[w].ctr \in Ctr
  BY DEF Set, TypeOK, WorkerRecord
<1>2. t \in WorkerRecord /\ t.at = "ready" /\ t.out = "ok"
  BY <1>1, Succeeds
<1> HIDE DEF t
<1>3. worker' \in [Worker -> WorkerRecord] /\ worker'[w] = t
      /\ \A v \in Worker \ {w} : worker'[v] = worker[v]
  BY <1>1, <1>2, WorkerStep
<1>4. store' \in [Uid -> Ctr] /\ StoreReached' /\ StoreNotAhead'
  BY <1>1, StoredStep
<1>5. TypeOK'
  BY <1>1, <1>2, <1>3, <1>4 DEF TypeOK, WorkerRecord
<1>6. CallsSound'
  BY <1>1, <1>2, <1>3 DEF CallsSound
<1>7. OneCall'
  BY <1>1, <1>2, <1>3 DEF OneCall
<1>8. RejectionJustified'
  BY <1>1, <1>2, <1>3 DEF RejectionJustified
<1> QED BY <1>4, <1>5, <1>6, <1>7, <1>8

LEMMA StoreErrorStep == ASSUME ServiceInv, NEW w \in Worker, StoreError(w) PROVE ServiceInv'
<1> USE DEF ServiceInv
<1> DEFINE t == [Ready EXCEPT !.out = "StoreError"]
<1>1. /\ worker[w].at \in {"get", "set"} /\ Goes(w, t)
      /\ UNCHANGED <<tapped, told, reached, calls>>
      /\ UNCHANGED store \/ (worker[w].at = "set" /\ store' = Stored(w))
  BY DEF StoreError, Returns
<1>2. t \in WorkerRecord /\ t.at = "ready" /\ t.out = "StoreError"
  <2>1. "StoreError" \in Outcome
    BY DEF Outcome
  <2> QED BY <2>1, ReadyType, RecordOut
<1> HIDE DEF t
<1>3. worker' \in [Worker -> WorkerRecord] /\ worker'[w] = t
      /\ \A v \in Worker \ {w} : worker'[v] = worker[v]
  BY <1>1, <1>2, WorkerStep
<1>4. store' \in [Uid -> Ctr] /\ StoreReached' /\ StoreNotAhead'
  <2>1. CASE UNCHANGED store
    BY <1>1, <2>1 DEF StoreReached, StoreNotAhead, TypeOK
  <2>2. CASE worker[w].at = "set" /\ store' = Stored(w)
    BY <1>1, <2>2, StoredStep
  <2> QED BY <1>1, <2>1, <2>2
<1>5. TypeOK'
  BY <1>1, <1>2, <1>3, <1>4 DEF TypeOK, WorkerRecord
<1>6. CallsSound'
  BY <1>1, <1>2, <1>3 DEF CallsSound
<1>7. OneCall'
  BY <1>1, <1>2, <1>3 DEF OneCall
<1>8. RejectionJustified'
  BY <1>1, <1>2, <1>3 DEF RejectionJustified
<1> QED BY <1>4, <1>5, <1>6, <1>7, <1>8

LEMMA ServiceStep == ServiceInv /\ [Next]_vars => ServiceInv'
<1> SUFFICES ASSUME ServiceInv, [Next]_vars PROVE ServiceInv'
  OBVIOUS
<1>1. CASE UNCHANGED vars
  BY <1>1 DEF vars, ServiceInv, TypeOK, CallsSound, StoreReached, OneCall, StoreNotAhead,
     RejectionJustified
<1>2. CASE Next
  BY <1>2, TapStep, VerifyStep, GetStep, SetStep, StoreErrorStep DEF Next
<1> QED BY <1>1, <1>2

-----------------------------------------------------------------------------
(* Results *)

\* Every reachable state is well typed.
THEOREM TypeCorrect == Spec => []TypeOK
<1>1. ServiceInv => TypeOK
  BY DEF ServiceInv
<1> QED BY <1>1, ServiceInit, ServiceStep, PTL DEF Spec

\* No readout, damaged or not, drives the stored counter of a tag beyond the
\* tag's own, however many calls overlap and whichever store operations fail.
THEOREM NotAheadCorrect == Spec => []StoreNotAhead
<1>1. ServiceInv => StoreNotAhead
  BY DEF ServiceInv
<1> QED BY <1>1, ServiceInit, ServiceStep, PTL DEF Spec

\* A readout is turned down as a replay only if one at least as new of that
\* tag has passed the replay check before, with a shared store, too.
THEOREM JustifiedCorrect == Spec => []RejectionJustified
<1>1. ServiceInv => RejectionJustified
  BY DEF ServiceInv
<1> QED BY <1>1, ServiceInit, ServiceStep, PTL DEF Spec

\* A step of the service is one of the abstract replay check or leaves it alone.
LEMMA AcceptsStep ==
  ASSUME Exclusive, ServiceInv, [Next]_vars PROVE [Replay!Next]_<<store, told>>
<1> USE DEF ServiceInv
<1>1. ASSUME NEW w \in Worker, worker[w].at = "set"
      PROVE  worker[w].uid \in Uid /\ worker[w].ctr \in Ctr /\ worker[w].ctr > store[worker[w].uid]
  BY <1>1 DEF TypeOK, OneCall, Ctr
<1>2. ASSUME NEW w \in Worker, Set(w) PROVE Replay!Next
  BY <1>1, <1>2 DEF Set, Stored, Replay!Next, Replay!Accept
<1>3. ASSUME NEW w \in Worker, StoreError(w) PROVE Replay!Next \/ UNCHANGED <<store, told>>
  BY <1>1, <1>3 DEF StoreError, Stored, Replay!Next, Replay!Burn
<1>4. ASSUME NEW w \in Worker, Get(w) PROVE UNCHANGED <<store, told>>
  BY <1>4 DEF Get
<1>5. ASSUME NEW w \in Worker, NEW r, Verify(w, r) PROVE UNCHANGED <<store, told>>
  BY <1>5 DEF Verify
<1>6. ASSUME NEW u \in Uid, Tap(u) PROVE UNCHANGED <<store, told>>
  BY <1>6 DEF Tap
<1> QED BY <1>2, <1>3, <1>4, <1>5, <1>6 DEF Next, vars

\* With the store lent to one call at a time, the service implements the
\* abstract replay check: readouts are accepted once each and in order.
THEOREM AcceptsOnceCorrect == ASSUME Exclusive = TRUE PROVE Spec => AcceptsOnce
<1>1. Init => Replay!Init
  BY DEF Init, Replay!Init
<1>2. ServiceInv /\ [Next]_vars => [Replay!Next]_<<store, told>>
  BY AcceptsStep
<1> QED BY <1>1, <1>2, ServiceInit, ServiceStep, PTL DEF Spec, AcceptsOnce, Replay!Spec
=============================================================================
