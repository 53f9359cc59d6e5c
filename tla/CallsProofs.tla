---------------------------- MODULE CallsProofs ----------------------------
(***************************************************************************)
(* What the caller's side of every backend preserves, whatever its storage *)
(* is: the typing of the locals of a call, the ownership of the entries    *)
(* that have been stored, and what subscribers have seen of them.  The     *)
(* proofs of a backend cite one lemma per kind of step; steps are the      *)
(* backend's own values of pc, and S the keys of the entries it has stored. *)
(***************************************************************************)
EXTENDS Calls, EntryTableProofs

(***************************************************************************)
(* NoKey is not the key of an entry.                                       *)
(***************************************************************************)
LEMMA NoKeyIsNoKey == NoKey \notin Keys
  BY ConstantsDistinct DEF NoKey, Keys

-----------------------------------------------------------------------------
(***************************************************************************)
(* Typing by where a goroutine is: a Record that has been accepted has a   *)
(* valid event until it has stored it, one that publishes has the key of   *)
(* what it stored, only a Record is suspended under another one, and a     *)
(* read has its request and the entries acknowledged before it began.      *)
(***************************************************************************)
CallSteps == {"idle", "begin", "publish", "handler", "return", "resolve", "fetch"}

Typed(steps) ==
  /\ CallsTypeOK(steps)
  /\ \A t \in Callers :
       /\ pc[t] \in steps \cup {"begin"} => event[t] \in Events
       /\ Publishing(t) => rec[t] \in Keys
       /\ pc[t] \in {"idle", "resolve", "fetch"} => outer[t] = NoKey

ReadsTyped ==
  \A t \in Callers :
    pc[t] \in {"resolve", "fetch"} =>
      /\ read[t] \in [req : ReadRequests, known : SUBSET acked, to : Nat]
      /\ read[t].req.chain \in Chains
      /\ pc[t] = "resolve" => NeedsTail(read[t].req)

(***************************************************************************)
(* Ownership of the stored keys S.  A key is acknowledged, or in progress  *)
(* at one level of one goroutine, or neither, never two of these.          *)
(***************************************************************************)
Owned(S) ==
  /\ S \subseteq Keys
  /\ acked \subseteq S
  /\ \A t \in Callers, k \in Keys : InProgress(t, k) => k \in S /\ k \notin acked
  /\ \A t \in Callers : Publishing(t) => rec[t] # outer[t]
  /\ \A t, u \in Callers, k \in Keys : InProgress(t, k) /\ InProgress(u, k) => t = u

(***************************************************************************)
(* What subscribers have seen: stored entries, each at most once, and not  *)
(* yet the entry of a Record that is about to publish.                     *)
(***************************************************************************)
Delivered(S) ==
  /\ \A i \in DOMAIN bus : bus[i] \in S
  /\ \A i, j \in DOMAIN bus : bus[i] = bus[j] => i = j
  /\ \A t \in Callers, i \in DOMAIN bus : pc[t] = "publish" => bus[i] # rec[t]

CallsInv(steps, S) == Typed(steps) /\ ReadsTyped /\ Owned(S) /\ Delivered(S)

\* Nobody outside the storage knows the key k.
Unseen(k) ==
  /\ k \notin acked
  /\ \A t \in Callers : ~InProgress(t, k)
  /\ \A i \in DOMAIN bus : bus[i] # k

\* A step tells nobody of a key that nobody knew.
KeepsSecrets == \A k \in Keys : Unseen(k) => Unseen(k)'

\* No Record ends without having acknowledged what it stored.
DropsNothing ==
  \A t \in Callers, k \in Keys : InProgress(t, k) => k \in acked' \/ InProgress(t, k)'

\* The results of reads stay, or give way to the next call.
NoReadReturns ==
  \A t \in Callers : ret'[t] = ret[t] \/ ret'[t].req.op \in {"none", "Record"}

(***************************************************************************)
(* The keys that are not stored are known to nobody.                       *)
(***************************************************************************)
LEMMA NotStoredUnseen ==
  ASSUME NEW steps, NEW S, CallsInv(steps, S), NEW k \in Keys \ S
  PROVE  Unseen(k)
  BY DEF CallsInv, Owned, Delivered, Unseen

\* Before the first call nothing is stored, owned or delivered.
LEMMA CallsInitInv ==
  ASSUME NEW steps, steps \cap CallSteps = {}, CallsInit
  PROVE  CallsInv(steps, {})
<1>1. Typed(steps)
  <2>1. calls \in 0..MaxCalls
    BY CallsConstants DEF CallsInit
  <2>2. bus \in Seq(Keys)
    BY DEF CallsInit
  <2> QED
    BY <2>1, <2>2 DEF CallsInit, Typed, CallsTypeOK, CallSteps, Publishing
<1>2. ReadsTyped
  BY DEF CallsInit, ReadsTyped
<1>3. Owned({})
  BY NoKeyIsNoKey DEF CallsInit, Owned, InProgress, Publishing
<1>4. Delivered({})
  BY DEF CallsInit, Delivered
<1> QED
  BY <1>1, <1>2, <1>3, <1>4 DEF CallsInv

-----------------------------------------------------------------------------
(***************************************************************************)
(* The four things the beginning of a call can do (Record, RecordChange, a *)
(* subscriber's Record, and the read methods): be refused and change       *)
(* nothing shared, go on to the storage with a valid event, do so under    *)
(* the Record whose entry is being published, or go on to read.  Only the  *)
(* first is possible once the log is closed.                               *)
(***************************************************************************)
ReadBegins(t, req) ==
  /\ pc[t] = "idle" /\ req.chain \in Chains
  /\ pc' = [pc EXCEPT ![t] = IF NeedsTail(req) THEN "resolve" ELSE "fetch"]
  /\ read' = [read EXCEPT ![t] = [req |-> req, known |-> acked, to |-> UpperBound(req)]]
  /\ ret' = [ret EXCEPT ![t] = NoResult]
  /\ UNCHANGED <<event, rec, outer, closed, bus, acked>>

CallBegins(t) ==
  \/ \E err : "ErrBackendUnavailable" \notin err /\ Refuse(t, err)
  \/ \E c \in Chains, z \in Contents :
        ~closed /\ pc[t] = "idle" /\ Accept(t, c, z, NoKey)
  \/ \E c \in Chains, z \in Contents :
        ~closed /\ pc[t] = "handler" /\ outer[t] = NoKey /\ Accept(t, c, z, rec[t])
  \/ \E req \in ReadRequests : ~closed /\ ReadBegins(t, req)

\* What Validate accepts names a chain and has a content.
LEMMA ValidateAccepts ==
  ASSUME NEW c \in Chains \cup {NoChain}, NEW z, Validate(c, z) = {},
         z \in Contents \cup {BadEvent}
  PROVE  c \in Chains /\ z \in Contents
<1>1. c # NoChain
  BY DEF Validate
<1>2. z # BadEvent
  BY <1>1 DEF Validate
<1> QED
  BY <1>1, <1>2

\* A Record is refused, or accepted with a valid event.
LEMMA RecordEntryCases ==
  ASSUME NEW t \in Callers, NEW c \in Chains \cup {NoChain}, NEW saved,
         NEW z \in Contents \cup {BadEvent}, NEW stored \in BOOLEAN,
         RecordEntry(t, c, z, saved, stored)
  PROVE  \/ \E err : "ErrBackendUnavailable" \notin err /\ Refuse(t, err)
         \/ ~closed /\ c \in Chains /\ z \in Contents /\ Accept(t, c, z, saved)
<1>1. PICK err \in Outcomes(c, z, stored) :
        IF err = {} THEN Accept(t, c, z, saved) ELSE Refuse(t, err)
  BY DEF RecordEntry
<1>2. CASE err = {}
  <2>1. Refusal(c, z) = {}
    BY <1>1, <1>2 DEF Outcomes
  <2>2. ~closed /\ Validate(c, z) = {}
    BY <2>1 DEF Refusal
  <2> QED
    BY <1>1, <1>2, <2>2, ValidateAccepts
<1>3. CASE err # {}
  <2>1. "ErrBackendUnavailable" \notin Refusal(c, z)
    BY DEF Refusal, Validate
  <2>2. "ErrBackendUnavailable" \notin err
    BY <1>1, <2>1 DEF Outcomes
  <2> QED
    BY <1>1, <1>3, <2>2
<1> QED
  BY <1>2, <1>3

\* Every way to begin a call is one of the four of CallBegins.
LEMMA CallCases ==
  ASSUME NEW t \in Callers, NEW stored \in BOOLEAN, Call(t, stored)
  PROVE  CallBegins(t) /\ BeginCall
<1>1. ASSUME NEW c \in Chains \cup {NoChain}, NEW z \in Contents \cup {BadEvent},
             Record(t, c, z, stored)
      PROVE  CallBegins(t) /\ BeginCall
  BY <1>1, RecordEntryCases DEF Record, CallBegins
<1>2. ASSUME NEW c \in Chains \cup {NoChain}, NEW z \in Contents \cup {BadEvent},
             SubscriberRecord(t, c, z, stored)
      PROVE  CallBegins(t) /\ BeginCall
  BY <1>2, RecordEntryCases DEF SubscriberRecord, CallBegins
<1>3. ASSUME NEW c \in Chains \cup {NoChain},
             NEW z \in Contents \cup {BadEvent, BadSnapshot},
             RecordChange(t, c, z, stored)
      PROVE  CallBegins(t) /\ BeginCall
  <2>1. CASE BuildChangeEvent(z) = {}
    <3>1. z \in Contents \cup {BadEvent}
      BY <2>1 DEF BuildChangeEvent
    <3> QED
      BY <1>3, <2>1, <3>1, RecordEntryCases DEF RecordChange, CallBegins
  <2>2. CASE BuildChangeEvent(z) # {}
    <3>1. "ErrBackendUnavailable" \notin BuildChangeEvent(z)
      BY DEF BuildChangeEvent
    <3> QED
      BY <1>3, <2>2, <3>1 DEF RecordChange, CallBegins
  <2> QED
    BY <2>1, <2>2
<1>4. ASSUME NEW req \in ReadRequests, ReadEntry(t, req)
      PROVE  CallBegins(t) /\ BeginCall
  <2>1. CASE ReadRefusal(req) = {}
    <3>1. ~closed /\ req.chain # NoChain
      BY <2>1 DEF ReadRefusal
    <3>2. req.chain \in Chains
      BY <3>1 DEF ReadRequests
    <3> QED
      BY <1>4, <2>1, <3>1, <3>2 DEF ReadEntry, ReadBegins, CallBegins
  <2>2. CASE ReadRefusal(req) # {}
    <3>1. "ErrBackendUnavailable" \notin ReadRefusal(req)
      BY DEF ReadRefusal
    <3> QED
      BY <1>4, <2>2, <3>1 DEF ReadEntry, CallBegins
  <2> QED
    BY <2>1, <2>2
<1> QED
  BY <1>1, <1>2, <1>3, <1>4 DEF Call

-----------------------------------------------------------------------------
(***************************************************************************)
(* A step of t that takes no new key: whatever is in progress at t after   *)
(* the step was in progress before it and is not acknowledged by it; what  *)
(* is acknowledged or delivered was in progress at t.                      *)
(***************************************************************************)
OwnStep(t) ==
  /\ \A u \in Callers \ {t} : pc'[u] = pc[u] /\ rec'[u] = rec[u] /\ outer'[u] = outer[u]
  /\ \A k \in Keys : InProgress(t, k)' => InProgress(t, k) /\ k \notin acked'
  /\ acked \subseteq acked'
  /\ \A k \in acked' \ acked : k \in Keys /\ InProgress(t, k)
  /\ Publishing(t)' => rec'[t] # outer'[t]
  /\ pc'[t] # "publish"
  /\ bus' = bus \/ (pc[t] = "publish" /\ bus' = Append(bus, rec[t]))

\* Such a step keeps ownership and what was delivered.
LEMMA OwnStepKeeps ==
  ASSUME NEW steps, NEW S, CallsInv(steps, S), NEW t \in Callers, OwnStep(t)
  PROVE  Owned(S)' /\ Delivered(S)' /\ KeepsSecrets
<1>1. \A u \in Callers, k \in Keys : InProgress(u, k)' => InProgress(u, k)
  BY DEF OwnStep, InProgress, Publishing
<1>2. \A u \in Callers : Publishing(u)' => rec'[u] # outer'[u]
  BY DEF OwnStep, CallsInv, Owned, Publishing
<1>3. \A u \in Callers, k \in Keys : InProgress(u, k)' => k \in S /\ k \notin acked'
  <2> SUFFICES ASSUME NEW u \in Callers, NEW k \in Keys, InProgress(u, k)'
               PROVE  k \in S /\ k \notin acked'
    OBVIOUS
  <2>1. k \in S /\ k \notin acked
    BY <1>1 DEF CallsInv, Owned
  <2>2. CASE u = t
    BY <2>1, <2>2 DEF OwnStep
  <2>3. CASE u # t
    <3>1. InProgress(u, k)
      BY <1>1
    <3>2. ~InProgress(t, k)
      BY <2>3, <3>1 DEF CallsInv, Owned
    <3> QED
      BY <2>1, <3>2 DEF OwnStep
  <2> QED
    BY <2>2, <2>3
<1>4. acked' \subseteq S
  BY DEF OwnStep, CallsInv, Owned
<1>5. Owned(S)'
  <2>1. \A u, v \in Callers, k \in Keys : InProgress(u, k)' /\ InProgress(v, k)' => u = v
    BY <1>1 DEF CallsInv, Owned
  <2> QED
    BY <1>2, <1>3, <1>4, <2>1 DEF Owned, CallsInv
<1>6. ASSUME bus' = bus
      PROVE  /\ Delivered(S)'
             /\ \A k \in Keys : Unseen(k) => \A i \in DOMAIN bus' : bus'[i] # k
  BY <1>6 DEF CallsInv, Delivered, OwnStep, Unseen
<1>7. ASSUME pc[t] = "publish", bus' = Append(bus, rec[t])
      PROVE  /\ Delivered(S)'
             /\ \A k \in Keys : Unseen(k) => \A i \in DOMAIN bus' : bus'[i] # k
  <2>1. rec[t] \in Keys /\ InProgress(t, rec[t]) /\ rec[t] \in S
    BY <1>7 DEF CallsInv, Typed, Owned, InProgress, Publishing
  <2>2. bus \in Seq(Keys)
    BY DEF CallsInv, Typed, CallsTypeOK
  <2> DEFINE new == Len(bus) + 1
  <2>3. /\ DOMAIN bus' = DOMAIN bus \cup {new}
        /\ bus'[new] = rec[t]
        /\ \A i \in DOMAIN bus : bus'[i] = bus[i]
    BY <1>7, <2>1, <2>2, AppendFacts
  <2> HIDE DEF new
  <2>4. \A i \in DOMAIN bus : bus[i] # rec[t]
    BY <1>7 DEF CallsInv, Delivered
  <2>5. ASSUME NEW u \in Callers, pc'[u] = "publish"
        PROVE  rec'[u] = rec[u] /\ pc[u] = "publish" /\ rec[u] # rec[t]
    <3>1. u # t /\ pc[u] = "publish" /\ rec'[u] = rec[u]
      BY <2>5 DEF OwnStep
    <3>2. rec[u] \in Keys /\ InProgress(u, rec[u])
      BY <3>1 DEF CallsInv, Typed, InProgress, Publishing
    <3> QED
      BY <2>1, <3>1, <3>2 DEF CallsInv, Owned
  <2>6. Delivered(S)'
    BY <2>1, <2>3, <2>4, <2>5 DEF CallsInv, Delivered
  <2>7. \A k \in Keys : Unseen(k) => \A i \in DOMAIN bus' : bus'[i] # k
    BY <2>1, <2>3 DEF Unseen
  <2> QED
    BY <2>6, <2>7
<1>8. Delivered(S)' /\ \A k \in Keys : Unseen(k) => \A i \in DOMAIN bus' : bus'[i] # k
  BY <1>6, <1>7 DEF OwnStep
<1>9. ASSUME NEW k \in Keys, Unseen(k)
      PROVE  Unseen(k)'
  <2>1. k \notin acked'
    BY <1>9 DEF Unseen, OwnStep
  <2>2. \A u \in Callers : ~InProgress(u, k)'
    BY <1>1, <1>9 DEF Unseen
  <2> QED
    BY <1>8, <1>9, <2>1, <2>2 DEF Unseen
<1> QED
  BY <1>5, <1>8, <1>9 DEF KeepsSecrets

-----------------------------------------------------------------------------
(***************************************************************************)
(* One lemma per kind of step of a call.                                   *)
(***************************************************************************)

(***************************************************************************)
(* Steps that calls take no part in: of the storage, which may grow from S *)
(* to T, and of the constructor and Close.                                 *)
(***************************************************************************)
LEMMA StillKeeps ==
  ASSUME NEW steps, NEW S, CallsInv(steps, S), NEW T, S \subseteq T, T \subseteq Keys,
         UNCHANGED <<pc, event, rec, outer, read, bus, acked, calls>>,
         closed' \in BOOLEAN, DOMAIN ret' = Callers
  PROVE  CallsInv(steps, T)' /\ KeepsSecrets
<1>1. Typed(steps)' /\ ReadsTyped'
  BY DEF CallsInv, Typed, CallsTypeOK, ReadsTyped, Publishing
<1>2. Owned(T)' /\ Delivered(T)'
  BY DEF CallsInv, Owned, Delivered, InProgress, Publishing
<1>3. KeepsSecrets
  BY DEF KeepsSecrets, Unseen, InProgress, Publishing
<1> QED
  BY <1>1, <1>2, <1>3 DEF CallsInv

(***************************************************************************)
(* The beginning of a call.                                                *)
(***************************************************************************)
LEMMA BeginKeeps ==
  ASSUME NEW steps, NEW S, CallsInv(steps, S), steps \cap CallSteps = {},
         NEW t \in Callers, CallBegins(t), BeginCall
  PROVE  CallsInv(steps, S)' /\ KeepsSecrets /\ NoReadReturns /\ DropsNothing
<1> USE DEF CallsInv
<1>0. calls' \in 0..MaxCalls
  BY CallsConstants DEF BeginCall, Typed, CallsTypeOK
<1>1. ASSUME NEW err, Refuse(t, err)
      PROVE  CallsInv(steps, S)' /\ KeepsSecrets /\ NoReadReturns /\ DropsNothing
  <2>1. Typed(steps)' /\ ReadsTyped'
    BY <1>0, <1>1 DEF Refuse, Typed, CallsTypeOK, ReadsTyped, Publishing
  <2>2. Owned(S)' /\ Delivered(S)' /\ KeepsSecrets /\ DropsNothing
    BY <1>1 DEF Refuse, Owned, Delivered, KeepsSecrets, DropsNothing, Unseen, InProgress,
       Publishing
  <2>3. NoReadReturns
    BY <1>1 DEF Refuse, NoReadReturns, Typed, CallsTypeOK, Result
  <2> QED
    BY <2>1, <2>2, <2>3
<1>2. ASSUME NEW c \in Chains, NEW z \in Contents, NEW saved \in Keys \cup {NoKey},
             Accept(t, c, z, saved), saved = NoKey \/ InProgress(t, saved),
             \A k \in Keys : InProgress(t, k) => k = saved
      PROVE  CallsInv(steps, S)' /\ KeepsSecrets /\ NoReadReturns /\ DropsNothing
  <2>1. [chain |-> c, content |-> z] \in Events
    BY DEF Events
  <2>2. Typed(steps)' /\ ReadsTyped'
    BY <1>0, <1>2, <2>1 DEF Accept, Typed, CallsTypeOK, ReadsTyped, Publishing
  <2>3. pc'[t] = "begin" /\ outer'[t] = saved
    BY <1>2 DEF Accept, Typed, CallsTypeOK
  <2>4. ASSUME NEW k \in Keys, InProgress(t, k)'
        PROVE  InProgress(t, k) /\ k \notin acked'
    <3>1. k = saved /\ k # NoKey
      BY <2>3, <2>4, NoKeyIsNoKey DEF InProgress, Publishing
    <3> QED
      BY <1>2, <3>1 DEF Accept, Owned
  <2>5. OwnStep(t)
    BY <1>2, <2>3, <2>4 DEF Accept, OwnStep, Publishing, Typed, CallsTypeOK
  <2>6. NoReadReturns
    BY <1>2 DEF Accept, NoReadReturns, NoResult, Result, Typed, CallsTypeOK
  <2>7. DropsNothing
    BY <1>2, <2>3, <2>5 DEF DropsNothing, OwnStep, InProgress, Publishing
  <2> QED
    BY <2>2, <2>5, <2>6, <2>7, OwnStepKeeps
<1>3. ASSUME NEW req \in ReadRequests, ReadBegins(t, req)
      PROVE  CallsInv(steps, S)' /\ KeepsSecrets /\ NoReadReturns /\ DropsNothing
  <2>1. /\ pc'[t] \in {"resolve", "fetch"}
        /\ pc'[t] = "resolve" => NeedsTail(req)
    BY <1>3 DEF ReadBegins, Typed, CallsTypeOK
  <2>2. UpperBound(req) \in Nat
    BY CallsConstants DEF UpperBound, ReadRequests
  <2>3. Typed(steps)'
    BY <1>0, <1>3, <2>1 DEF ReadBegins, Typed, CallsTypeOK, Publishing, CallSteps
  <2>4. ReadsTyped'
    <3> SUFFICES ASSUME NEW u \in Callers, pc'[u] \in {"resolve", "fetch"}
                 PROVE  /\ read'[u] \in [req : ReadRequests, known : SUBSET acked', to : Nat]
                        /\ read'[u].req.chain \in Chains
                        /\ pc'[u] = "resolve" => NeedsTail(read'[u].req)
      BY DEF ReadsTyped, NeedsTail, UpperBound
    <3>1. CASE u = t
      <4>1. read'[t] = [req |-> req, known |-> acked, to |-> UpperBound(req)]
        BY <1>3 DEF ReadBegins, Typed, CallsTypeOK
      <4> QED
        BY <1>3, <2>1, <2>2, <3>1, <4>1 DEF ReadBegins, NeedsTail, UpperBound
    <3>2. CASE u # t
      <4>1. read'[u] = read[u] /\ pc'[u] = pc[u] /\ acked' = acked
        BY <1>3, <3>2 DEF ReadBegins, Typed, CallsTypeOK
      <4> QED
        BY <4>1 DEF ReadsTyped
    <3> QED
      BY <3>1, <3>2
  <2>5. OwnStep(t)
    BY <1>3, <2>1 DEF ReadBegins, OwnStep, Owned, InProgress, Publishing, Typed, CallsTypeOK
  <2>6. NoReadReturns
    BY <1>3 DEF ReadBegins, NoReadReturns, NoResult, Result, Typed, CallsTypeOK
  <2>7. DropsNothing
    BY <1>3, <2>1 DEF ReadBegins, DropsNothing, InProgress, Publishing, Typed, CallsTypeOK
  <2> QED
    BY <2>3, <2>4, <2>5, <2>6, <2>7, OwnStepKeeps
<1>4. ASSUME pc[t] = "handler", outer[t] = NoKey
      PROVE  /\ rec[t] \in Keys \cup {NoKey} /\ InProgress(t, rec[t])
             /\ \A k \in Keys : InProgress(t, k) => k = rec[t]
  BY <1>4, NoKeyIsNoKey DEF Typed, InProgress, Publishing
<1>5. ASSUME pc[t] = "idle"
      PROVE  \A k \in Keys : ~InProgress(t, k)
  BY <1>5, NoKeyIsNoKey DEF Typed, InProgress, Publishing
<1> QED
  BY <1>1, <1>2, <1>3, <1>4, <1>5 DEF CallBegins

(***************************************************************************)
(* A step of an accepted Record that has not stored its entry yet.         *)
(***************************************************************************)
LEMMA TxKeeps ==
  ASSUME NEW steps, NEW S, CallsInv(steps, S), steps \cap CallSteps = {},
         NEW t \in Callers, NEW q \in steps \cup {"begin"}, NEW k \in Keys \cup {NoKey},
         pc[t] \in steps \cup {"begin"}, Goto(t, q),
         rec' = rec \/ rec' = [rec EXCEPT ![t] = k]
  PROVE  CallsInv(steps, S)' /\ KeepsSecrets /\ NoReadReturns /\ DropsNothing
<1> USE DEF CallsInv
<1>1. Typed(steps)' /\ ReadsTyped'
  BY DEF Goto, Typed, CallsTypeOK, ReadsTyped, Publishing, CallSteps
<1>2. pc'[t] = q /\ q \notin {"publish", "handler", "return"}
  BY DEF Goto, Typed, CallsTypeOK, CallSteps
<1>3. OwnStep(t)
  BY <1>2 DEF Goto, OwnStep, Owned, InProgress, Publishing, Typed, CallsTypeOK
<1>4. NoReadReturns
  BY DEF Goto, NoReadReturns
<1>5. DropsNothing
  BY DEF Goto, DropsNothing, InProgress, Publishing, Typed, CallsTypeOK, CallSteps
<1> QED
  BY <1>1, <1>3, <1>4, <1>5, OwnStepKeeps

(***************************************************************************)
(* A Record learns that its entry, whose key nobody has seen, is stored.   *)
(***************************************************************************)
KeepsOtherSecrets(k) == \A j \in Keys \ {k} : Unseen(j) => Unseen(j)'

Takes(t, k) ==
  \A u \in Callers, j \in Keys :
    InProgress(u, j)' <=> InProgress(u, j) \/ (u = t /\ j = k)

\* Such a step keeps the invariant for the keys T, which k is one of.
LEMMA StoredKeeps ==
  ASSUME NEW steps, NEW S, CallsInv(steps, S), steps \cap CallSteps = {},
         NEW T, S \subseteq T, T \subseteq Keys, NEW t \in Callers, NEW k \in T, Unseen(k),
         pc[t] \in steps \cup {"begin"}, Goto(t, "publish"), rec' = [rec EXCEPT ![t] = k]
  PROVE  /\ CallsInv(steps, T)' /\ NoReadReturns
         /\ KeepsOtherSecrets(k) /\ Takes(t, k)
<1> USE DEF CallsInv
<1>1. Typed(steps)' /\ ReadsTyped'
  BY DEF Goto, Typed, CallsTypeOK, ReadsTyped, Publishing, CallSteps
<1>2. /\ pc'[t] = "publish" /\ rec'[t] = k /\ k # NoKey
      /\ pc[t] \notin {"publish", "handler", "return"}
      /\ \A u \in Callers \ {t} : pc'[u] = pc[u] /\ rec'[u] = rec[u]
      /\ outer' = outer /\ acked' = acked /\ bus' = bus /\ ret' = ret
  BY NoKeyIsNoKey DEF Goto, Typed, CallsTypeOK, CallSteps
<1>3. Takes(t, k)
  BY <1>2 DEF Takes, InProgress, Publishing
<1>4. Owned(T)'
  <2>1. \A u \in Callers : Publishing(u)' => rec'[u] # outer'[u]
    BY <1>2 DEF Owned, Publishing, Unseen, InProgress
  <2>2. acked' \subseteq T
    BY <1>2 DEF Owned
  <2>3. \A u \in Callers, j \in Keys : InProgress(u, j)' => j \in T /\ j \notin acked'
    BY <1>2, <1>3 DEF Owned, Unseen, Takes
  <2>4. \A u, v \in Callers, j \in Keys : InProgress(u, j)' /\ InProgress(v, j)' => u = v
    BY <1>3 DEF Owned, Unseen, Takes
  <2> QED
    BY <2>1, <2>2, <2>3, <2>4 DEF Owned
<1>5. Delivered(T)'
  BY <1>2 DEF Delivered, Unseen
<1>6. KeepsOtherSecrets(k)
  BY <1>2, <1>3 DEF Unseen, Takes, KeepsOtherSecrets
<1>7. NoReadReturns
  BY <1>2 DEF NoReadReturns
<1> QED
  BY <1>1, <1>3, <1>4, <1>5, <1>6, <1>7

(***************************************************************************)
(* PublishRecorded.                                                        *)
(***************************************************************************)
LEMMA PublishKeeps ==
  ASSUME NEW steps, NEW S, CallsInv(steps, S), steps \cap CallSteps = {},
         NEW t \in Callers, PublishRecorded(t)
  PROVE  CallsInv(steps, S)' /\ KeepsSecrets /\ NoReadReturns /\ DropsNothing
<1> USE DEF CallsInv
<1>1. rec[t] \in Keys /\ bus \in Seq(Keys)
  BY DEF PublishRecorded, Typed, CallsTypeOK, Publishing
<1>2. bus' \in Seq(Keys)
  BY <1>1, AppendFacts DEF PublishRecorded
<1>3. /\ pc[t] = "publish"
      /\ pc' = [pc EXCEPT ![t] = "handler"] \/ pc' = [pc EXCEPT ![t] = "return"]
      /\ bus' = bus \/ bus' = Append(bus, rec[t])
      /\ UNCHANGED <<event, rec, outer, read, ret, closed, acked, calls>>
  BY DEF PublishRecorded
<1>4. Typed(steps)' /\ ReadsTyped'
  BY <1>1, <1>2, <1>3 DEF Typed, CallsTypeOK, ReadsTyped, Publishing, CallSteps
<1>5. OwnStep(t)
  BY <1>3 DEF OwnStep, Owned, InProgress, Publishing, Typed, CallsTypeOK
<1>6. NoReadReturns
  BY <1>3 DEF NoReadReturns
<1>7. DropsNothing
  BY <1>3 DEF DropsNothing, InProgress, Publishing, Typed, CallsTypeOK
<1> QED
  BY <1>4, <1>5, <1>6, <1>7, OwnStepKeeps

(***************************************************************************)
(* Back to the subscriber that called Record, or to the outermost caller:  *)
(* a suspended Record still has the entry that it is publishing.           *)
(***************************************************************************)
LEMMA ResumeKeeps ==
  ASSUME NEW steps, NEW S, CallsInv(steps, S), steps \cap CallSteps = {},
         NEW t \in Callers, Resume(t), DOMAIN ret' = Callers,
         \/ acked' = acked
         \/ Publishing(t) /\ acked' = acked \cup {rec[t]},
         UNCHANGED <<read, closed, bus, calls>>
  PROVE  /\ CallsInv(steps, S)' /\ KeepsSecrets
         /\ ~Publishing(t) \/ acked' = acked \cup {rec[t]} => DropsNothing
<1> USE DEF CallsInv
<1>1. acked' \subseteq Keys /\ acked \subseteq acked'
  BY DEF Typed, CallsTypeOK
<1>2. /\ pc'[t] = IF outer[t] = NoKey THEN "idle" ELSE "handler"
      /\ rec'[t] = outer[t] /\ outer'[t] = NoKey
      /\ \A u \in Callers \ {t} :
           /\ pc'[u] = pc[u] /\ rec'[u] = rec[u] /\ outer'[u] = outer[u]
           /\ event'[u] = event[u]
  BY DEF Resume, Typed, CallsTypeOK
<1>3. Typed(steps)'
  <2>1. CallsTypeOK(steps)'
    BY <1>1 DEF Resume, Typed, CallsTypeOK
  <2>2. ASSUME NEW u \in Callers
        PROVE  /\ pc'[u] \in steps \cup {"begin"} => event'[u] \in Events
               /\ Publishing(u)' => rec'[u] \in Keys
               /\ pc'[u] \in {"idle", "resolve", "fetch"} => outer'[u] = NoKey
    <3>1. CASE u = t
      BY <1>2, <3>1 DEF Typed, CallsTypeOK, Publishing, CallSteps
    <3>2. CASE u # t
      BY <1>2, <3>2 DEF Typed, Publishing
    <3> QED
      BY <3>1, <3>2
  <2> QED
    BY <2>1, <2>2 DEF Typed
<1>4. ReadsTyped'
  BY <1>1, <1>2 DEF ReadsTyped
<1>5. OwnStep(t)
  <2>1. ASSUME NEW k \in Keys, InProgress(t, k)'
        PROVE  InProgress(t, k) /\ k \notin acked'
    <3>1. outer[t] = k
      BY <1>2, <2>1, NoKeyIsNoKey DEF InProgress, Publishing
    <3>2. InProgress(t, k) /\ k \notin acked
      BY <3>1 DEF InProgress, Owned
    <3> QED
      BY <3>1, <3>2 DEF Owned
  <2>2. \A k \in acked' \ acked : k \in Keys /\ InProgress(t, k)
    BY DEF InProgress, Typed
  <2>3. Publishing(t)' => rec'[t] # outer'[t]
    BY <1>2 DEF Publishing
  <2> QED
    BY <1>1, <1>2, <2>1, <2>2, <2>3 DEF OwnStep
<1>6. ASSUME ~Publishing(t) \/ acked' = acked \cup {rec[t]}
      PROVE  DropsNothing
  <2> SUFFICES ASSUME NEW u \in Callers, NEW k \in Keys, InProgress(u, k)
               PROVE  k \in acked' \/ InProgress(u, k)'
    BY DEF DropsNothing
  <2>1. CASE u = t
    BY <1>2, <1>6, <2>1, NoKeyIsNoKey DEF InProgress, Publishing
  <2>2. CASE u # t
    BY <1>2, <2>2 DEF InProgress, Publishing
  <2> QED
    BY <2>1, <2>2
<1> QED
  BY <1>3, <1>4, <1>5, <1>6, OwnStepKeeps

\* A Record that fails has stored nothing: no key is dropped.
LEMMA FailsKeeps ==
  ASSUME NEW steps, NEW S, CallsInv(steps, S), steps \cap CallSteps = {},
         NEW t \in Callers, NEW err, RecordFails(t, err)
  PROVE  /\ CallsInv(steps, S)' /\ KeepsSecrets /\ NoReadReturns
         /\ ~Publishing(t) => DropsNothing
<1>1. DOMAIN ret' = Callers /\ NoReadReturns
  BY DEF RecordFails, CallsInv, Typed, CallsTypeOK, NoReadReturns, Result
<1> QED
  BY <1>1, ResumeKeeps DEF RecordFails

\* A Record that returns hands its key from the call to acked.
LEMMA ReturnKeeps ==
  ASSUME NEW steps, NEW S, CallsInv(steps, S), steps \cap CallSteps = {},
         NEW t \in Callers, RecordReturn(t)
  PROVE  CallsInv(steps, S)' /\ KeepsSecrets /\ NoReadReturns /\ DropsNothing
<1>1. DOMAIN ret' = Callers /\ NoReadReturns
  BY DEF RecordReturn, CallsInv, Typed, CallsTypeOK, NoReadReturns, Result
<1> QED
  BY <1>1, ResumeKeeps DEF RecordReturn, Publishing

\* A process that dies drops keys, and acknowledges none.
LEMMA CrashKeeps ==
  ASSUME NEW steps, NEW S, CallsInv(steps, S), steps \cap CallSteps = {},
         NEW t \in Callers, Crash(t)
  PROVE  CallsInv(steps, S)' /\ KeepsSecrets /\ NoReadReturns
<1> USE DEF CallsInv
<1>1. Typed(steps)' /\ ReadsTyped'
  BY DEF Crash, Typed, CallsTypeOK, ReadsTyped, Publishing, CallSteps
<1>2. OwnStep(t)
  BY NoKeyIsNoKey DEF Crash, OwnStep, InProgress, Publishing, Typed, CallsTypeOK
<1>3. NoReadReturns
  BY DEF Crash, NoReadReturns
<1> QED
  BY <1>1, <1>2, <1>3, OwnStepKeeps

(***************************************************************************)
(* A read returns, or a Verify goes on to fetch up to the tail it found.   *)
(***************************************************************************)
LEMMA ReadReturnKeeps ==
  ASSUME NEW steps, NEW S, CallsInv(steps, S), steps \cap CallSteps = {},
         NEW t \in Callers, pc[t] \in {"resolve", "fetch"}, NEW err, NEW val,
         ReadReturn(t, err, val)
  PROVE  /\ CallsInv(steps, S)' /\ KeepsSecrets /\ DropsNothing
         /\ ret'[t] = Result(read[t].req, read[t].known, err, val)
         /\ \A u \in Callers \ {t} : ret'[u] = ret[u]
<1> USE DEF CallsInv
<1>1. Typed(steps)'
  BY DEF ReadReturn, Typed, CallsTypeOK, Publishing, CallSteps
<1>2. ReadsTyped'
  BY DEF ReadReturn, ReadsTyped, Typed, CallsTypeOK
<1>3. OwnStep(t)
  BY DEF ReadReturn, OwnStep, Owned, InProgress, Publishing, Typed, CallsTypeOK
<1>4. /\ ret'[t] = Result(read[t].req, read[t].known, err, val)
      /\ \A u \in Callers \ {t} : ret'[u] = ret[u]
  BY DEF ReadReturn, Typed, CallsTypeOK
<1>5. DropsNothing
  BY DEF ReadReturn, DropsNothing, InProgress, Publishing, Typed, CallsTypeOK
<1> QED
  BY <1>1, <1>2, <1>3, <1>4, <1>5, OwnStepKeeps

\* A Verify that has found its upper bound goes on to fetch.
LEMMA ResolvedKeeps ==
  ASSUME NEW steps, NEW S, CallsInv(steps, S), steps \cap CallSteps = {},
         NEW t \in Callers, pc[t] = "resolve", NEW last \in Nat,
         read' = [read EXCEPT ![t].to = last],
         pc' = [pc EXCEPT ![t] = "fetch"],
         UNCHANGED <<event, rec, outer, ret, closed, bus, acked, calls>>
  PROVE  CallsInv(steps, S)' /\ KeepsSecrets /\ NoReadReturns
<1> USE DEF CallsInv
<1>1. Typed(steps)'
  BY DEF Typed, CallsTypeOK, Publishing, CallSteps
<1>2. ReadsTyped'
  <2> SUFFICES ASSUME NEW u \in Callers, pc'[u] \in {"resolve", "fetch"}
               PROVE  /\ read'[u] \in [req : ReadRequests, known : SUBSET acked', to : Nat]
                      /\ read'[u].req.chain \in Chains
                      /\ pc'[u] = "resolve" => NeedsTail(read'[u].req)
    BY DEF ReadsTyped, NeedsTail, UpperBound
  <2>1. CASE u = t
    <3>1. pc'[t] = "fetch" /\ read'[t] = [read[t] EXCEPT !.to = last]
      BY DEF Typed, CallsTypeOK
    <3>2. /\ read[t] \in [req : ReadRequests, known : SUBSET acked, to : Nat]
          /\ read[t].req.chain \in Chains
      BY DEF ReadsTyped
    <3> QED
      BY <2>1, <3>1, <3>2
  <2>2. CASE u # t
    BY <2>2 DEF ReadsTyped, Typed, CallsTypeOK
  <2> QED
    BY <2>1, <2>2
<1>3. OwnStep(t)
  BY DEF OwnStep, Owned, InProgress, Publishing, Typed, CallsTypeOK
<1>4. NoReadReturns
  BY DEF NoReadReturns
<1> QED
  BY <1>1, <1>2, <1>3, <1>4, OwnStepKeeps

-----------------------------------------------------------------------------
(***************************************************************************)
(* The answers of the read methods.                                        *)
(***************************************************************************)

KeysOf(es) == { Key(e) : e \in es }

\* The key of an entry is a key.
LEMMA KeyOfEntry == \A e \in Entry : Key(e) \in Keys
  BY DEF Key, Keys, Entry

(***************************************************************************)
(* The keys of two entries that differ, differ.                            *)
(***************************************************************************)
LEMMA KeysDiffer ==
  ASSUME NEW es \in SUBSET Entry, \A c \in Chains : Ledger(es, c),
         NEW e \in es, NEW f \in es, Key(e) = Key(f)
  PROVE  e = f
<1>1. e.chain = f.chain /\ e.id = f.id /\ e.chain \in Chains
  BY DEF Key, Entry
<1>2. ChainIntact(es, e.chain)
  BY <1>1 DEF Ledger
<1> QED
  BY <1>1, <1>2 DEF ChainIntact, OfChain

(***************************************************************************)
(* The entries a read has to see are among the entries es that it reads.   *)
(***************************************************************************)
LEMMA KnownAreStored ==
  ASSUME NEW es \in SUBSET Entry, NEW known \in SUBSET KeysOf(es), NEW c,
         NEW k \in known, k.chain = c
  PROVE  \E e \in OfChain(es, c) : Key(e) = k
<1>1. PICK e \in es : Key(e) = k
  BY DEF KeysOf
<1>2. e.chain = c
  BY <1>1 DEF Key
<1> QED
  BY <1>1, <1>2 DEF OfChain

(***************************************************************************)
(* The tail that was looked up is the tail of es.                          *)
(***************************************************************************)
LEMMA TailAnswers ==
  ASSUME NEW es \in SUBSET Entry, NEW req, Ledger(es, req.chain),
         NEW known \in SUBSET KeysOf(es), NEW last, last = LastEntry(es, req.chain).id
  PROVE  /\ req.op = "LatestEntryID" =>
              Sees(Result(req, known, IF last = 0 THEN {"ErrEntryNotFound"} ELSE {}, last))
         /\ req.op = "Verify" /\ last = 0 => Sees(Result(req, known, {}, EmptyResult))
<1>1. last \in Nat /\ Fills(es, req.chain, last)
  <2>1. LastEntry(es, req.chain) \in [id : Nat, hash : Hash]
    BY LastOfLedger
  <2> QED
    BY <2>1, LastOfLedger
<1>2. ASSUME NEW k \in known, k.chain = req.chain
      PROVE  last # 0 /\ k.id <= last
  <2>1. PICK e \in OfChain(es, req.chain) : Key(e) = k
    BY <1>2, KnownAreStored
  <2>2. e.id \in 1..last /\ k.id = e.id
    BY <1>1, <2>1 DEF Fills, Key
  <2> QED
    BY <1>1, <2>2
<1>3. ASSUME req.op = "LatestEntryID", NEW err,
             err = IF last = 0 THEN {"ErrEntryNotFound"} ELSE {}
      PROVE  Sees(Result(req, known, err, last))
  BY <1>2, <1>3 DEF Sees, Result
<1>4. ASSUME req.op = "Verify", last = 0
      PROVE  Sees(Result(req, known, {}, EmptyResult))
  BY <1>2, <1>4 DEF Sees, Result
<1> QED
  BY <1>3, <1>4

\* The answer for a chain without entries is a valid one.
LEMMA EmptyIsValid == EmptyResult.valid = TRUE
  BY DEF EmptyResult, ValidResult

(***************************************************************************)
(* What Sees asks of a Query.                                              *)
(***************************************************************************)
LEMMA SeesQuery ==
  ASSUME NEW r, r.req.op = "Query",
         \A i, j \in DOMAIN r.val : i < j => r.val[i].id < r.val[j].id,
         \A k \in r.known :
           k.chain = r.req.chain /\ k.content \in r.req.filter.match =>
             \/ \E i \in DOMAIN r.val : Key(r.val[i]) = k
             \/ /\ r.req.filter.limit > 0 /\ Len(r.val) = r.req.filter.limit
                /\ \A i \in DOMAIN r.val : r.val[i].id < k.id
  PROVE  Sees(r)
  BY DEF Sees

(***************************************************************************)
(* A list of the matches in es that is cut at the Limit of a Query only.   *)
(***************************************************************************)
LEMMA QuerySees ==
  ASSUME NEW es \in SUBSET Entry, NEW req, req.op = "Query", NEW known \in SUBSET KeysOf(es),
         NEW out, ListsMatches(es, req.chain, req.filter.match, req.filter.limit, out),
         NEW r, r = Result(req, known, {}, out)
  PROVE  Sees(r)
<1>1. r.req = req /\ r.known = known /\ r.val = out
  BY DEF Result
<1>2. ASSUME NEW k \in known, k.chain = req.chain, k.content \in req.filter.match
      PROVE  \/ \E i \in DOMAIN out : Key(out[i]) = k
             \/ /\ req.filter.limit > 0 /\ Len(out) = req.filter.limit
                /\ \A i \in DOMAIN out : out[i].id < k.id
  <2>1. PICK e \in OfChain(es, req.chain) : Key(e) = k
    BY <1>2, KnownAreStored
  <2>2. e.content = k.content /\ e.id = k.id
    BY <2>1 DEF Key
  <2> QED
    BY <1>2, <2>1, <2>2 DEF ListsMatches
<1>3. /\ r.req.op = "Query"
      /\ \A i, j \in DOMAIN r.val : i < j => r.val[i].id < r.val[j].id
      /\ \A k \in r.known :
           k.chain = r.req.chain /\ k.content \in r.req.filter.match =>
             \/ \E i \in DOMAIN r.val : Key(r.val[i]) = k
             \/ /\ r.req.filter.limit > 0 /\ Len(r.val) = r.req.filter.limit
                /\ \A i \in DOMAIN r.val : r.val[i].id < k.id
  BY <1>1, <1>2 DEF ListsMatches
<1> QED
  BY <1>3, SeesQuery
=============================================================================
