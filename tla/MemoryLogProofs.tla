-------------------------- MODULE MemoryLogProofs --------------------------
(***************************************************************************)
(* Proofs about MemoryLog for any number of callers, chains and contents   *)
(* and any bound on the number of calls.  One inductive invariant carries  *)
(* all of them: CallsInv of CallsProofs for the caller's side, Exclusion   *)
(* for the mutex, StorageInv for the slice and the tails, and NoneLost for *)
(* what joins the two.                                                     *)
(***************************************************************************)
EXTENDS MemoryLog, CallsProofs

-----------------------------------------------------------------------------
(***************************************************************************)
(* The inductive invariant.  Exclusion says who is inside the critical     *)
(* section of Record, and that the tail such a Record has read is still    *)
(* the tail: this is what the mutex buys.  StorageInv restates             *)
(* ChainsIntact over indexes of the slice, with the link between any two   *)
(* consecutive entries instead of the existence of a predecessor.          *)
(***************************************************************************)
MemorySteps == {"readTail", "append"}

StoredKeys == { Key(e) : e \in Stored }

StorageTyped ==
  /\ mu \in Callers \cup {NoOne}
  /\ entries \in Seq(Entry)
  /\ chains \in [Chains -> Tails]
  /\ tail \in [Callers -> Tails]

Exclusion ==
  \A t \in Callers :
    /\ pc[t] \in {"readTail", "append"} => mu = t
    /\ pc[t] = "append" => tail[t] = chains[event[t].chain]

RowsOK ==
  \A i \in DOMAIN entries :
    LET e == entries[i]
    IN  /\ e.hash = Recompute(e)
        /\ 1 <= e.id /\ e.id <= chains[e.chain].lastID
        /\ e.id = chains[e.chain].lastID => e.hash = chains[e.chain].lastHash
        /\ e.id = 1 => e.prevHash = GenesisPrevHash

Linked ==
  \A i, j \in DOMAIN entries :
    entries[i].chain = entries[j].chain /\ entries[j].id = entries[i].id + 1
      => entries[j].prevHash = entries[i].hash

NoGaps ==
  \A c \in Chains : \A n \in 1..chains[c].lastID :
    \E i \in DOMAIN entries : entries[i].chain = c /\ entries[i].id = n

EmptyTails ==
  \A c \in Chains : chains[c].lastID = 0 => chains[c].lastHash = GenesisPrevHash

StorageInv == RowsOK /\ SliceOrdered /\ Linked /\ NoGaps /\ EmptyTails

\* A stored key is acknowledged or in progress somewhere.
NoneLost == \A k \in StoredKeys : k \in acked \/ \E t \in Callers : InProgress(t, k)

Inv ==
  /\ CallsInv(MemorySteps, StoredKeys)
  /\ StorageTyped /\ Exclusion /\ StorageInv /\ NoneLost

(***************************************************************************)
(* StorageInv implies ChainsIntact.                                        *)
(***************************************************************************)
LEMMA StorageInvImplies == StorageTyped /\ StorageInv => ChainsIntact
<1> SUFFICES ASSUME StorageTyped, StorageInv PROVE ChainsIntact
  OBVIOUS
<1> USE DEF StorageInv
<1>1. \A i \in DOMAIN entries : entries[i] \in Entry /\ i \in Nat
  BY DEF StorageTyped
<1>2. \A i \in DOMAIN entries : entries[i].chain \in Chains /\ entries[i].id \in Nat
  BY <1>1 DEF Entry
<1>3. \A c \in Chains : chains[c].lastID \in Nat
  BY DEF StorageTyped, Tails
<1>4. ASSUME NEW c \in Chains PROVE ChainIntact(Stored, c)
  <2>1. ASSUME NEW e \in OfChain(Stored, c), NEW f \in OfChain(Stored, c), e.id = f.id
        PROVE  e = f
    <3>1. PICK i \in DOMAIN entries : e = entries[i]
      BY DEF OfChain, Stored
    <3>2. PICK j \in DOMAIN entries : f = entries[j]
      BY DEF OfChain, Stored
    <3>3. ~(i < j) /\ ~(j < i)
      BY <1>2, <2>1, <3>1, <3>2 DEF SliceOrdered, OfChain
    <3> QED
      BY <1>1, <3>1, <3>2, <3>3
  <2>2. ASSUME NEW e \in OfChain(Stored, c)
        PROVE  /\ e.id >= 1
               /\ e.hash = Recompute(e)
               /\ e.id = 1 => e.prevHash = GenesisPrevHash
               /\ e.id > 1 => \E f \in OfChain(Stored, c) :
                                 f.id = e.id - 1 /\ e.prevHash = f.hash
    <3>1. PICK i \in DOMAIN entries : e = entries[i] /\ e.chain = c
      BY DEF OfChain, Stored
    <3>2. e.id \in Nat /\ e.id >= 1 /\ e.id <= chains[c].lastID /\ e.hash = Recompute(e)
          /\ (e.id = 1 => e.prevHash = GenesisPrevHash)
      BY <1>2, <1>3, <3>1 DEF RowsOK
    <3>3. ASSUME e.id > 1
          PROVE  \E f \in OfChain(Stored, c) : f.id = e.id - 1 /\ e.prevHash = f.hash
      <4>1. e.id - 1 \in 1..chains[c].lastID
        BY <1>3, <3>2, <3>3
      <4>2. PICK j \in DOMAIN entries : entries[j].chain = c /\ entries[j].id = e.id - 1
        BY <4>1 DEF NoGaps
      <4>3. e.prevHash = entries[j].hash
        BY <3>1, <3>2, <4>2 DEF Linked
      <4>4. entries[j] \in OfChain(Stored, c)
        BY <4>2 DEF OfChain, Stored
      <4> QED
        BY <4>2, <4>3, <4>4
    <3> QED
      BY <3>2, <3>3
  <2> QED
    BY <2>1, <2>2 DEF ChainIntact
<1>5. TailsAgree
  <2> SUFFICES ASSUME NEW c \in Chains
               PROVE  /\ \A n \in 1..chains[c].lastID :
                            \E e \in OfChain(Stored, c) : e.id = n
                      /\ \A e \in OfChain(Stored, c) :
                            /\ e.id <= chains[c].lastID
                            /\ e.id = chains[c].lastID => e.hash = chains[c].lastHash
                      /\ chains[c].lastID = 0 => chains[c].lastHash = GenesisPrevHash
    BY DEF TailsAgree
  <2>1. ASSUME NEW n \in 1..chains[c].lastID
        PROVE  \E e \in OfChain(Stored, c) : e.id = n
    BY DEF NoGaps, OfChain, Stored
  <2>2. ASSUME NEW e \in OfChain(Stored, c)
        PROVE  /\ e.id <= chains[c].lastID
               /\ e.id = chains[c].lastID => e.hash = chains[c].lastHash
    BY DEF RowsOK, OfChain, Stored
  <2> QED
    BY <2>1, <2>2 DEF EmptyTails
<1> QED
  BY <1>4, <1>5 DEF ChainsIntact

(***************************************************************************)
(* A step that writes neither the slice nor the tails keeps StorageInv.    *)
(***************************************************************************)
LEMMA StorageUnchanged == StorageInv /\ UNCHANGED <<entries, chains>> => StorageInv'
  BY DEF StorageInv, RowsOK, SliceOrdered, Linked, NoGaps, EmptyTails

(***************************************************************************)
(* An entry appended after the current tail of its chain keeps every part  *)
(* of StorageInv: its EntryID is above all those of its chain, and its     *)
(* PrevHash is the Hash of the one entry that carries the tail's EntryID.  *)
(***************************************************************************)
LEMMA AppendKeepsStorage ==
  ASSUME StorageTyped, StorageInv,
         NEW c \in Chains, NEW z \in Contents, NEW e, NEW n \in Nat,
         n = chains[c].lastID + 1,
         e = NewEntry(c, n, z, chains[c].lastHash),
         entries' = Append(entries, e),
         chains' = [chains EXCEPT ![c] = [lastID |-> n, lastHash |-> e.hash]]
  PROVE  StorageInv'
<1> USE DEF StorageInv
<1>1. chains[c].lastID \in Nat /\ chains[c].lastHash \in Hash
  BY DEF StorageTyped, Tails
<1>2. /\ e \in Entry /\ e.chain = c /\ e.id = n /\ e.content = z
      /\ e.prevHash = chains[c].lastHash /\ e.hash = Recompute(e)
  BY <1>1, NewEntryType DEF NewEntry, Recompute
<1> DEFINE new == Len(entries) + 1
<1>3. /\ DOMAIN entries' = DOMAIN entries \cup {new}
      /\ entries'[new] = e
      /\ \A i \in DOMAIN entries : entries'[i] = entries[i] /\ i \in Nat /\ i < new
      /\ new \in Nat
  BY <1>2, AppendFacts DEF StorageTyped
<1> HIDE DEF new
<1>4. /\ \A d \in Chains : d # c => chains'[d] = chains[d]
      /\ chains'[c].lastID = n /\ chains'[c].lastHash = e.hash
  BY DEF StorageTyped
<1>5. \A i \in DOMAIN entries : entries[i].chain \in Chains /\ entries[i].id \in Nat
  <2>1. \A i \in DOMAIN entries : entries[i] \in Entry
    BY DEF StorageTyped
  <2> QED
    BY <2>1 DEF Entry
<1>6. \A d \in Chains : chains[d].lastID \in Nat
  BY DEF StorageTyped, Tails
<1>7. \A i \in DOMAIN entries : entries[i].chain = c => entries[i].id < n
  BY <1>1, <1>5 DEF RowsOK
<1>8. RowsOK'
  <2> SUFFICES ASSUME NEW i \in DOMAIN entries'
               PROVE  LET f == entries'[i]
                      IN  /\ f.hash = Recompute(f)
                          /\ 1 <= f.id /\ f.id <= chains'[f.chain].lastID
                          /\ f.id = chains'[f.chain].lastID
                               => f.hash = chains'[f.chain].lastHash
                          /\ f.id = 1 => f.prevHash = GenesisPrevHash
    BY DEF RowsOK, Recompute, ComputeHash, GenesisPrevHash
  <2>1. CASE i = new
    BY <1>1, <1>2, <1>3, <1>4, <2>1 DEF EmptyTails
  <2>2. CASE i \in DOMAIN entries /\ entries[i].chain = c
    BY <1>1, <1>3, <1>4, <1>5, <1>7, <2>2 DEF RowsOK
  <2>3. CASE i \in DOMAIN entries /\ entries[i].chain # c
    BY <1>3, <1>4, <1>5, <2>3 DEF RowsOK
  <2> QED
    BY <1>3, <2>1, <2>2, <2>3
<1>9. SliceOrdered'
  BY <1>2, <1>3, <1>5, <1>7 DEF SliceOrdered
<1>10. Linked'
  <2> SUFFICES ASSUME NEW i \in DOMAIN entries', NEW j \in DOMAIN entries',
                      entries'[i].chain = entries'[j].chain,
                      entries'[j].id = entries'[i].id + 1
               PROVE  entries'[j].prevHash = entries'[i].hash
    BY DEF Linked
  <2>1. CASE i = new
    <3>1. j # new
      BY <1>2, <1>3, <2>1
    <3>2. j \in DOMAIN entries /\ entries[j].chain = c /\ entries[j].id = n + 1
      BY <1>2, <1>3, <2>1, <3>1
    <3> QED
      BY <1>5, <1>7, <3>2
  <2>2. CASE i \in DOMAIN entries /\ j = new
    <3>1. entries[i].chain = c /\ entries[i].id = chains[c].lastID
      BY <1>1, <1>2, <1>3, <1>5, <2>2
    <3> QED
      BY <1>2, <1>3, <2>2, <3>1 DEF RowsOK
  <2>3. CASE i \in DOMAIN entries /\ j \in DOMAIN entries
    BY <1>3, <2>3 DEF Linked
  <2> QED
    BY <1>3, <2>1, <2>2, <2>3
<1>11. NoGaps'
  <2> SUFFICES ASSUME NEW d \in Chains, NEW m \in 1..chains'[d].lastID
               PROVE  \E i \in DOMAIN entries' : entries'[i].chain = d /\ entries'[i].id = m
    BY DEF NoGaps
  <2>1. CASE d = c /\ m = n
    BY <1>2, <1>3, <2>1
  <2>2. CASE ~(d = c /\ m = n)
    <3>1. m \in 1..chains[d].lastID
      BY <1>1, <1>4, <1>6, <2>2
    <3>2. PICK i \in DOMAIN entries : entries[i].chain = d /\ entries[i].id = m
      BY <3>1 DEF NoGaps
    <3> QED
      BY <1>3, <3>2
  <2> QED
    BY <2>1, <2>2
<1>12. EmptyTails'
  BY <1>1, <1>4 DEF EmptyTails, GenesisPrevHash
<1> QED
  BY <1>8, <1>9, <1>10, <1>11, <1>12

-----------------------------------------------------------------------------
\* The steps of MemoryLog are its own.
LEMMA MemoryStepNames == MemorySteps \cap CallSteps = {}
  BY DEF MemorySteps, CallSteps

\* The invariant holds initially.
LEMMA InitInv == Init => Inv
<1> SUFFICES ASSUME Init PROVE Inv
  OBVIOUS
<1>1. StorageTyped
  <2>1. << >> \in Hash /\ << >> \in Seq(Entry)
    BY DEF Hash
  <2>2. NilTail \in Tails
    BY <2>1 DEF NilTail, Tails, GenesisPrevHash
  <2> QED
    BY <2>1, <2>2 DEF Init, StorageTyped
<1>2. DOMAIN entries = {}
  BY DEF Init
<1>3. \A c \in Chains : chains[c].lastID = 0 /\ chains[c].lastHash = GenesisPrevHash
  BY DEF Init, NilTail
<1>4. Exclusion /\ StorageInv
  BY <1>2, <1>3 DEF Init, CallsInit, Exclusion, StorageInv, RowsOK, SliceOrdered,
     Linked, NoGaps, EmptyTails
<1>5. StoredKeys = {}
  BY <1>2 DEF StoredKeys, Stored
<1>6. CallsInv(MemorySteps, {})
  BY CallsInitInv, MemoryStepNames DEF Init
<1> QED
  BY <1>1, <1>4, <1>5, <1>6 DEF Inv, NoneLost

(***************************************************************************)
(* Storage does not change when the slice does not; RecordAppend adds one  *)
(* key, which nobody has seen.                                             *)
(***************************************************************************)
LEMMA StoredKeysUnchanged == UNCHANGED entries => StoredKeys' = StoredKeys
  BY DEF StoredKeys, Stored

\* An append stores one new key.
LEMMA AppendedKey ==
  ASSUME StorageTyped, StorageInv, NEW e \in Entry,
         e.id = chains[e.chain].lastID + 1, entries' = Append(entries, e)
  PROVE  /\ StoredKeys' = StoredKeys \cup {Key(e)}
         /\ Key(e) \in Keys \ StoredKeys
         /\ StoredKeys \subseteq Keys
<1>1. /\ DOMAIN entries' = DOMAIN entries \cup {Len(entries) + 1}
      /\ entries'[Len(entries) + 1] = e
      /\ \A i \in DOMAIN entries : entries'[i] = entries[i]
  BY AppendFacts DEF StorageTyped
<1>2. StoredKeys' = StoredKeys \cup {Key(e)}
  BY <1>1 DEF StoredKeys, Stored
<1>3. \A i \in DOMAIN entries : entries[i] \in Entry
  BY DEF StorageTyped
<1>4. \A f \in Entry : Key(f) \in Keys /\ Key(f).id = f.id /\ Key(f).chain = f.chain
  BY DEF Key, Keys, Entry
<1>5. ASSUME NEW i \in DOMAIN entries PROVE Key(entries[i]) # Key(e)
  <2>1. /\ entries[i].id \in Nat /\ entries[i].chain \in Chains
        /\ entries[i].id <= chains[entries[i].chain].lastID
    BY <1>3 DEF StorageInv, RowsOK, Entry
  <2>2. chains[entries[i].chain].lastID \in Nat
    BY <2>1 DEF StorageTyped, Tails
  <2>3. ~(entries[i].id = e.id /\ entries[i].chain = e.chain)
    BY <2>1, <2>2
  <2> QED
    BY <1>3, <1>4, <2>3
<1> QED
  BY <1>2, <1>3, <1>4, <1>5 DEF StoredKeys, Stored

(***************************************************************************)
(* A goroutine that leaves the critical section, or never was inside.      *)
(***************************************************************************)
LEMMA LeaveKeepsExclusion ==
  ASSUME Exclusion, NEW t \in Callers, pc'[t] \notin MemorySteps,
         \A u \in Callers \ {t} : pc'[u] = pc[u] /\ event'[u] = event[u],
         mu' = mu \/ mu = t, UNCHANGED <<tail, chains>>
  PROVE  Exclusion'
  BY DEF Exclusion, MemorySteps

\* The steps of a read either return or only work on the copy of a Verify.
LEMMA ReadSteps ==
  ASSUME NEW t \in Callers, ReadLocked(t) \/ verifyMemoryChain(t)
  PROVE  /\ pc[t] \in {"resolve", "fetch"}
         /\ UNCHANGED storage
         /\ UNCHANGED callVars \/ \E err, val : ReadReturn(t, err, val)
<1>1. CASE ReadLocked(t)
  BY <1>1 DEF ReadLocked
<1>2. CASE verifyMemoryChain(t)
  <2>1. ASSUME NEW z, CheckHash(t, copied[t].rows[copied[t].next], z)
        PROVE  UNCHANGED callVars \/ \E err, val : ReadReturn(t, err, val)
    BY <2>1 DEF CheckHash, VerifyReturns
  <2> QED
    BY <1>2, <2>1 DEF verifyMemoryChain, VerifyReturns
<1> QED
  BY <1>1, <1>2

\* Every step keeps the invariant.
LEMMA NextInv == Inv /\ [Next]_vars => Inv'
<1> SUFFICES ASSUME Inv, [Next]_vars PROVE Inv'
  OBVIOUS
<1> USE MemoryStepNames DEF Inv
<1>0. PICK S : S = StoredKeys
  OBVIOUS
<1>a. CallsInv(MemorySteps, S)
  BY <1>0
\* The two facts every step that leaves the slice alone comes down to.
<1>b. ASSUME UNCHANGED <<entries, chains>>, CallsInv(MemorySteps, S)'
      PROVE  CallsInv(MemorySteps, StoredKeys)' /\ StorageInv'
  <2>1. S = StoredKeys'
    BY <1>0, <1>b, StoredKeysUnchanged
  <2>2. CallsInv(MemorySteps, StoredKeys)'
    BY <1>b, <2>1 DEF CallsInv, Owned, Delivered
  <2> QED
    BY <1>b, <2>2, StorageUnchanged
<1>c. ASSUME UNCHANGED entries, DropsNothing, acked \subseteq acked'
      PROVE  NoneLost'
  <2>1. StoredKeys' = StoredKeys /\ StoredKeys \subseteq Keys
    BY <1>c, StoredKeysUnchanged DEF CallsInv, Owned
  <2> QED
    BY <1>c, <2>1 DEF NoneLost, DropsNothing
<1>d. Typed(MemorySteps) /\ CallsTypeOK(MemorySteps)
  BY DEF CallsInv, Typed
<1>1. CASE UNCHANGED <<callVars, storage>>
  <2>1. CallsInv(MemorySteps, S)'
    BY <1>1, <1>a, <1>d, StillKeeps DEF callVars, CallsTypeOK, CallsInv, Owned
  <2> QED
    BY <1>1, <1>b, <2>1, StoredKeysUnchanged
    DEF callVars, storage, Exclusion, StorageTyped, NoneLost, InProgress, Publishing
<1>2. CASE Close
  <2>1. CallsInv(MemorySteps, S)'
    BY <1>2, <1>a, <1>d, StillKeeps DEF Close, CallsTypeOK, CallsInv, Owned
  <2> QED
    BY <1>2, <1>b, <2>1, StoredKeysUnchanged
    DEF Close, storage, Exclusion, StorageTyped, NoneLost, InProgress, Publishing
<1>3. ASSUME NEW t \in Callers, Begin(t)
      PROVE  Inv'
  <2>1. CallBegins(t) /\ BeginCall /\ UNCHANGED storage
    BY <1>3, CallCases DEF Begin
  <2>2. CallsInv(MemorySteps, S)' /\ DropsNothing
    BY <1>a, <2>1, BeginKeeps
  <2>3. acked' = acked
    BY <2>1 DEF CallBegins, Refuse, Accept, ReadBegins
  <2>4. Exclusion'
    <3>1. ASSUME NEW err, Refuse(t, err) PROVE Exclusion'
      BY <2>1, <3>1 DEF Refuse, Exclusion, storage
    <3>2. ASSUME NEW c, NEW z, NEW saved, Accept(t, c, z, saved) PROVE Exclusion'
      BY <1>d, <2>1, <3>2, LeaveKeepsExclusion
      DEF Accept, CallsTypeOK, storage, MemorySteps
    <3>3. ASSUME NEW req, ReadBegins(t, req) PROVE Exclusion'
      BY <1>d, <2>1, <3>3, LeaveKeepsExclusion
      DEF ReadBegins, CallsTypeOK, storage, MemorySteps
    <3> QED
      BY <2>1, <3>1, <3>2, <3>3 DEF CallBegins
  <2> QED
    BY <1>b, <1>c, <2>1, <2>2, <2>3, <2>4 DEF storage, StorageTyped
<1>4. ASSUME NEW t \in Callers, RecordLock(t)
      PROVE  Inv'
  <2>1. CallsInv(MemorySteps, S)' /\ DropsNothing
    BY <1>4, <1>a, TxKeeps DEF RecordLock, MemorySteps
  <2>2. \A u \in Callers : pc[u] \notin {"readTail", "append"}
    BY <1>4, MemoryConstants DEF RecordLock, Exclusion
  <2>3. Exclusion'
    BY <1>4, <1>d, <2>2 DEF RecordLock, Goto, Exclusion, CallsTypeOK
  <2> QED
    BY <1>4, <1>b, <1>c, <2>1, <2>3 DEF RecordLock, Goto, StorageTyped
<1>5. ASSUME NEW t \in Callers, RecordReadTail(t)
      PROVE  Inv'
  <2>1. CallsInv(MemorySteps, S)' /\ DropsNothing
    BY <1>5, <1>a, TxKeeps DEF RecordReadTail, MemorySteps
  <2>2. chains[event[t].chain] \in Tails
    BY <1>5, <1>d DEF RecordReadTail, StorageTyped, Typed, Events, MemorySteps
  <2>3. Exclusion' /\ StorageTyped'
    BY <1>5, <1>d, <2>2 DEF RecordReadTail, Goto, Exclusion, CallsTypeOK, StorageTyped
  <2> QED
    BY <1>5, <1>b, <1>c, <2>1, <2>3 DEF RecordReadTail, Goto
<1>6. ASSUME NEW t \in Callers, RecordAppend(t)
      PROVE  Inv'
  <2> DEFINE c == event[t].chain
             z == event[t].content
             n == tail[t].lastID + 1
             e == NewEntry(c, n, z, tail[t].lastHash)
  <2>1. c \in Chains /\ z \in Contents /\ tail[t] = chains[c] /\ mu = t
    BY <1>6, <1>d DEF RecordAppend, Exclusion, Typed, Events, MemorySteps
  <2>2. tail[t].lastID \in Nat /\ n \in Nat /\ tail[t].lastHash \in Hash
    BY DEF StorageTyped, Tails
  <2>3. /\ e \in Entry /\ e.hash \in Hash
        /\ e.chain = c /\ e.id = n
    BY <2>1, <2>2, NewEntryType DEF NewEntry
  <2>4. /\ pc[t] = "append"
        /\ entries' = Append(entries, e)
        /\ chains' = [chains EXCEPT ![c] = [lastID |-> n, lastHash |-> e.hash]]
        /\ mu' = NoOne /\ tail' = tail
        /\ rec' = [rec EXCEPT ![t] = Key(e)]
        /\ Goto(t, "publish")
    BY <1>6 DEF RecordAppend
  <2>5. StorageInv'
    BY <2>1, <2>2, <2>4, AppendKeepsStorage
  <2>6. /\ StoredKeys' = StoredKeys \cup {Key(e)}
        /\ Key(e) \in Keys \ StoredKeys
        /\ StoredKeys \subseteq Keys
    BY <2>1, <2>3, <2>4, AppendedKey
  <2>7. PICK T : T = StoredKeys'
    OBVIOUS
  <2>8. Unseen(Key(e))
    BY <1>a, <1>0, <2>6, NotStoredUnseen
  <2> HIDE DEF c, z, n, e
  <2>9. CallsInv(MemorySteps, T)' /\ Takes(t, Key(e))
    <3>1. PICK k : k = Key(e)
      OBVIOUS
    <3>2. /\ S \subseteq T /\ T \subseteq Keys /\ k \in T /\ Unseen(k)
          /\ Goto(t, "publish") /\ rec' = [rec EXCEPT ![t] = k]
      BY <1>0, <2>4, <2>6, <2>7, <2>8, <3>1
    <3>3. pc[t] \in MemorySteps \cup {"begin"}
      BY <2>4 DEF MemorySteps
    <3> QED
      BY <1>a, <3>1, <3>2, <3>3, StoredKeeps
  <2>10. CallsInv(MemorySteps, StoredKeys)'
    BY <2>7, <2>9 DEF CallsInv, Owned, Delivered
  <2>11. StorageTyped'
    <3>1. entries' \in Seq(Entry)
      BY <2>3, <2>4, AppendFacts DEF StorageTyped
    <3>2. [lastID |-> n, lastHash |-> e.hash] \in Tails
      BY <2>2, <2>3 DEF Tails, n
    <3> QED
      BY <2>4, <3>1, <3>2 DEF StorageTyped
  <2>12. Exclusion'
    BY <1>d, <2>1, <2>4 DEF Goto, Exclusion, CallsTypeOK
  <2>13. NoneLost'
    BY <2>4, <2>6, <2>9 DEF NoneLost, Goto, Takes
  <2> QED
    BY <2>5, <2>10, <2>11, <2>12, <2>13
<1>7. ASSUME NEW t \in Callers, RecordHashError(t)
      PROVE  Inv'
  <2>1. mu = t /\ ~Publishing(t)
    BY <1>7 DEF RecordHashError, Exclusion, Publishing
  <2>2. CallsInv(MemorySteps, S)' /\ DropsNothing
    BY <1>7, <1>a, <2>1, FailsKeeps DEF RecordHashError
  <2>3. Exclusion'
    BY <1>7, <1>d, <2>1, LeaveKeepsExclusion
    DEF RecordHashError, RecordFails, Resume, CallsTypeOK, MemorySteps
  <2> QED
    BY <1>7, <1>b, <1>c, <2>2, <2>3 DEF RecordHashError, RecordFails, StorageTyped
<1>8. ASSUME NEW t \in Callers, PublishRecorded(t), UNCHANGED storage
      PROVE  Inv'
  <2>1. CallsInv(MemorySteps, S)' /\ DropsNothing
    BY <1>8, <1>a, PublishKeeps
  <2>2. /\ pc'[t] \in {"handler", "return"}
        /\ \A u \in Callers \ {t} : pc'[u] = pc[u] /\ event'[u] = event[u]
        /\ acked' = acked
    BY <1>8, <1>d DEF PublishRecorded, CallsTypeOK
  <2>3. Exclusion'
    BY <1>8, <2>2, LeaveKeepsExclusion DEF storage, MemorySteps
  <2> QED
    BY <1>8, <1>b, <1>c, <2>1, <2>2, <2>3 DEF storage, StorageTyped
<1>9. ASSUME NEW t \in Callers, RecordReturn(t), UNCHANGED storage
      PROVE  Inv'
  <2>1. CallsInv(MemorySteps, S)' /\ DropsNothing
    BY <1>9, <1>a, ReturnKeeps
  <2>2. Exclusion'
    BY <1>9, <1>d, LeaveKeepsExclusion
    DEF RecordReturn, Resume, CallsTypeOK, MemorySteps, storage
  <2> QED
    BY <1>9, <1>b, <1>c, <2>1, <2>2 DEF RecordReturn, storage, StorageTyped
<1>10. ASSUME NEW t \in Callers, pc[t] \in {"resolve", "fetch"}, UNCHANGED storage,
              \E err, val : ReadReturn(t, err, val)
       PROVE  Inv'
  <2>1. /\ pc[t] \in {"resolve", "fetch"} /\ UNCHANGED storage
        /\ \E err, val : ReadReturn(t, err, val)
    BY <1>10
  <2>2. CallsInv(MemorySteps, S)' /\ DropsNothing
    BY <1>a, <2>1, ReadReturnKeeps
  <2>3. Exclusion'
    BY <1>d, <2>1, LeaveKeepsExclusion DEF ReadReturn, CallsTypeOK, MemorySteps, storage
  <2> QED
    BY <1>b, <1>c, <2>1, <2>2, <2>3 DEF ReadReturn, storage, StorageTyped
<1>11. ASSUME NEW t \in Callers, ReadLocked(t) \/ verifyMemoryChain(t)
       PROVE  Inv'
  BY <1>1, <1>10, <1>11, ReadSteps
<1>12. CASE UNCHANGED vars \/ \E e \in Stored : PayloadChanges(e)
  BY <1>1, <1>12 DEF vars, PayloadChanges
<1> QED
  BY <1>2, <1>3, <1>4, <1>5, <1>6, <1>7, <1>8, <1>9, <1>11, <1>12
  DEF Next, Step, RecordStep, Finish

(***************************************************************************)
(* Every behaviour satisfies the inductive invariant.                      *)
(***************************************************************************)
LEMMA InvAlways == Spec => []Inv
  BY InitInv, NextInv, PTL DEF Spec

-----------------------------------------------------------------------------
(***************************************************************************)
(* For any number of goroutines recording on any number of chains, every   *)
(* chain of the memory backend is an intact hash chain at all times.       *)
(***************************************************************************)
THEOREM ChainsAlwaysIntact == Spec => []ChainsIntact
<1>1. Inv => ChainsIntact
  BY StorageInvImplies DEF Inv
<1> QED
  BY <1>1, InvAlways, PTL

(***************************************************************************)
(* Every stored entry has been acknowledged to one caller or belongs to    *)
(* exactly one Record still in progress: none is lost, none is returned    *)
(* twice, whatever subscribers record while they are being notified.       *)
(***************************************************************************)
THEOREM EntriesAlwaysOwned == Spec => []EveryEntryOwned
<1>1. Inv => EveryEntryOwned
  <2> SUFFICES ASSUME Inv, NEW e \in Stored
               PROVE  IF Key(e) \in acked
                        THEN \A t \in Callers : ~InProgress(t, Key(e))
                        ELSE \E t \in Callers :
                               /\ InProgress(t, Key(e))
                               /\ ~(Publishing(t) /\ rec[t] = outer[t])
                               /\ \A u \in Callers \ {t} : ~InProgress(u, Key(e))
    BY DEF EveryEntryOwned
  <2>1. Key(e) \in StoredKeys /\ Key(e) \in Keys /\ Owned(StoredKeys)
    BY DEF StoredKeys, Inv, CallsInv, Owned
  <2>2. CASE Key(e) \in acked
    BY <2>1, <2>2 DEF Owned
  <2>3. CASE Key(e) \notin acked
    <3>1. PICK t \in Callers : InProgress(t, Key(e))
      BY <2>1, <2>3 DEF Inv, NoneLost
    <3>2. ~(Publishing(t) /\ rec[t] = outer[t])
      BY <2>1 DEF Owned
    <3>3. \A u \in Callers \ {t} : ~InProgress(u, Key(e))
      BY <2>1, <3>1 DEF Owned
    <3> QED
      BY <2>3, <3>1, <3>2, <3>3
  <2> QED
    BY <2>2, <2>3
<1> QED
  BY <1>1, InvAlways, PTL

(***************************************************************************)
(* No subscriber ever sees an entry twice or one that is not stored.       *)
(***************************************************************************)
THEOREM AlwaysPublishedOnce == Spec => []PublishedOnce
<1>1. Inv => PublishedOnce
  BY DEF Inv, CallsInv, Delivered, StoredKeys, PublishedOnce, DeliveredOnce
<1> QED
  BY <1>1, InvAlways, PTL

(***************************************************************************)
(* Once the log is closed and no call is in flight, no step records or     *)
(* publishes anything: every call is then refused before it reaches the    *)
(* mutex.                                                                  *)
(***************************************************************************)
THEOREM ClosedStaysQuiescent == Spec => QuiescentAfterClose
<1>1. ASSUME [Next]_vars
      PROVE  [closed /\ (\A t \in Callers : pc[t] = "idle")
                => UNCHANGED <<storage, bus, pc>>]_vars
  <2> SUFFICES ASSUME Next, closed, \A t \in Callers : pc[t] = "idle"
               PROVE  UNCHANGED <<storage, bus, pc>>
    BY <1>1
  <2>1. CASE Close \/ \E e \in Stored : PayloadChanges(e)
    BY <2>1 DEF Close, PayloadChanges, callVars
  <2>2. ASSUME NEW t \in Callers, Begin(t)
        PROVE  UNCHANGED <<storage, bus, pc>>
    <3>1. CallBegins(t) /\ UNCHANGED storage
      BY <2>2, CallCases DEF Begin
    <3>2. \E err : Refuse(t, err)
      BY <3>1 DEF CallBegins
    <3> QED
      BY <3>1, <3>2 DEF Refuse
  <2>3. ASSUME NEW t \in Callers, Step(t)
        PROVE  FALSE
    BY <2>3 DEF Step, RecordStep, RecordLock, RecordReadTail, RecordAppend, RecordHashError,
       Finish, PublishRecorded, RecordReturn, ReadLocked, verifyMemoryChain
  <2> QED
    BY <2>1, <2>2, <2>3 DEF Next
<1> QED
  BY <1>1, PTL DEF Spec, QuiescentAfterClose

-----------------------------------------------------------------------------
(***************************************************************************)
(* Refinement of AuditLog.  RecordAppend is Commit, the publication to a   *)
(* bus is Publish, the return of a Record is Ack, and every other step is  *)
(* a stutter.                                                              *)
(***************************************************************************)
Published == { bus[i] : i \in DOMAIN bus }

TailIDs == [c \in Chains |-> chains[c].lastID]

\* Initial states map to initial states of AuditLog.
LEMMA AbstractInit == Init => Abstract!Init
<1> SUFFICES ASSUME Init PROVE Abstract!Init
  OBVIOUS
<1>1. DOMAIN entries = {} /\ DOMAIN bus = {}
  BY DEF Init, CallsInit
<1>2. \A c \in Chains : chains[c].lastID = 0
  BY DEF Init, NilTail
<1> QED
  BY <1>1, <1>2 DEF Abstract!Init, Stored, Init, CallsInit

\* Every step maps to a step of AuditLog or to a stutter.
LEMMA AbstractStep == Inv /\ [Next]_vars => [Abstract!Next]_(Abstract!vars)
<1> SUFFICES ASSUME Inv, [Next]_vars
             PROVE  Abstract!Next \/ UNCHANGED <<StoredKeys, TailIDs, Published, acked>>
  BY DEF Abstract!vars, StoredKeys, TailIDs, Published
<1>d. CallsTypeOK(MemorySteps) /\ Typed(MemorySteps)
  BY DEF Inv, CallsInv, Typed
\* A step that changes none of the four variables of AuditLog.
<1>s. ASSUME UNCHANGED <<entries, chains, bus, acked>>
      PROVE  UNCHANGED <<StoredKeys, TailIDs, Published, acked>>
  BY <1>s DEF StoredKeys, Stored, TailIDs, Published
<1>1. CASE UNCHANGED vars \/ \E e \in Stored : PayloadChanges(e)
  BY <1>1, <1>s DEF vars, PayloadChanges, callVars, storage
<1>2. CASE Close
  BY <1>2, <1>s DEF Close, storage
<1>3. ASSUME NEW t \in Callers, Begin(t)
      PROVE  UNCHANGED <<StoredKeys, TailIDs, Published, acked>>
  <2>1. CallBegins(t) /\ UNCHANGED storage
    BY <1>3, CallCases DEF Begin
  <2>2. UNCHANGED <<bus, acked>>
    BY <2>1 DEF CallBegins, Refuse, Accept, ReadBegins
  <2> QED
    BY <1>s, <2>1, <2>2 DEF storage
<1>4. ASSUME NEW t \in Callers, RecordLock(t) \/ RecordReadTail(t) \/ RecordHashError(t)
      PROVE  UNCHANGED <<StoredKeys, TailIDs, Published, acked>>
  BY <1>4, <1>s DEF RecordLock, RecordReadTail, RecordHashError, RecordFails, Goto
<1>5. ASSUME NEW t \in Callers, ReadLocked(t) \/ verifyMemoryChain(t)
      PROVE  UNCHANGED <<StoredKeys, TailIDs, Published, acked>>
  BY <1>5, <1>s, ReadSteps DEF ReadReturn, callVars, storage
<1>6. ASSUME NEW t \in Callers, RecordAppend(t)
      PROVE  Abstract!Next
  <2> DEFINE c == event[t].chain
             z == event[t].content
             n == tail[t].lastID + 1
             e == NewEntry(c, n, z, tail[t].lastHash)
  <2>1. c \in Chains /\ z \in Contents /\ tail[t] = chains[c]
    BY <1>6, <1>d DEF RecordAppend, Inv, Exclusion, Typed, Events, MemorySteps
  <2>2. tail[t].lastID \in Nat /\ n \in Nat /\ tail[t].lastHash \in Hash
    BY DEF Inv, StorageTyped, Tails
  <2>3. /\ e \in Entry /\ e.chain = c /\ e.id = n
        /\ Key(e) = [chain |-> c, id |-> n, content |-> z]
    BY <2>1, <2>2, NewEntryType DEF NewEntry, Key
  <2>4. /\ entries' = Append(entries, e)
        /\ chains' = [chains EXCEPT ![c] = [lastID |-> n, lastHash |-> e.hash]]
        /\ UNCHANGED <<bus, acked>>
    BY <1>6 DEF RecordAppend, Goto
  <2>5. StoredKeys' = StoredKeys \cup {Key(e)}
    BY <2>1, <2>3, <2>4, AppendedKey DEF Inv
  <2>6. TailIDs' = [TailIDs EXCEPT ![c] = @ + 1]
    BY <2>1, <2>4 DEF TailIDs, Inv, StorageTyped
  <2>7. n = TailIDs[c] + 1
    BY <2>1 DEF TailIDs
  <2>8. Published' = Published
    BY <2>4 DEF Published
  <2> HIDE DEF c, z, n, e
  <2>9. PICK d \in Chains, y \in Contents : d = c /\ y = z
    BY <2>1
  <2>10. Abstract!Commit(d, y)
    BY <2>3, <2>4, <2>5, <2>6, <2>7, <2>8, <2>9
    DEF Abstract!Commit, StoredKeys, TailIDs, Published
  <2> QED
    BY <2>10 DEF Abstract!Next
<1>7. ASSUME NEW t \in Callers, PublishRecorded(t), UNCHANGED storage
      PROVE  Abstract!Next \/ UNCHANGED <<StoredKeys, TailIDs, Published, acked>>
  <2>1. CASE bus' = bus
    BY <1>7, <1>s, <2>1 DEF PublishRecorded, storage
  <2>2. CASE bus' = Append(bus, rec[t])
    <3>1. /\ rec[t] \in Keys /\ InProgress(t, rec[t])
          /\ rec[t] \in StoredKeys /\ rec[t] \notin acked /\ rec[t] \notin Published
      BY <1>7, <1>d DEF PublishRecorded, Typed, InProgress, Publishing, Inv, CallsInv, Owned,
         Delivered, Published
    <3>2. Published' = Published \cup {rec[t]}
      <4>1. bus \in Seq(Keys)
        BY <1>d DEF CallsTypeOK
      <4> QED
        BY <2>2, <3>1, <4>1, AppendFacts DEF Published
    <3>3. UNCHANGED <<StoredKeys, TailIDs, acked>>
      BY <1>7 DEF PublishRecorded, storage, StoredKeys, Stored, TailIDs
    <3>4. PICK k \in StoredKeys : k = rec[t]
      BY <3>1
    <3>5. Abstract!Publish(k)
      BY <3>1, <3>2, <3>3, <3>4 DEF Abstract!Publish, StoredKeys, TailIDs, Published
    <3> QED
      BY <3>5 DEF Abstract!Next, StoredKeys
  <2> QED
    BY <1>7, <2>1, <2>2 DEF PublishRecorded
<1>8. ASSUME NEW t \in Callers, RecordReturn(t), UNCHANGED storage
      PROVE  Abstract!Next
  <2>1. rec[t] \in Keys /\ InProgress(t, rec[t]) /\ rec[t] \in StoredKeys /\ rec[t] \notin acked
    BY <1>8, <1>d DEF RecordReturn, Typed, InProgress, Publishing, Inv, CallsInv, Owned
  <2>2. UNCHANGED <<StoredKeys, TailIDs, Published>> /\ acked' = acked \cup {rec[t]}
    BY <1>8 DEF RecordReturn, storage, StoredKeys, Stored, TailIDs, Published
  <2>3. PICK k \in StoredKeys : k = rec[t]
    BY <2>1
  <2>4. Abstract!Ack(k)
    BY <2>1, <2>2, <2>3 DEF Abstract!Ack, StoredKeys, TailIDs, Published
  <2> QED
    BY <2>4 DEF Abstract!Next, StoredKeys
<1> QED
  BY <1>1, <1>2, <1>3, <1>4, <1>5, <1>6, <1>7, <1>8 DEF Next, Step, RecordStep, Finish

(***************************************************************************)
(* The memory backend implements AuditLog: each Record commits one entry   *)
(* at the next position of its chain, publishes it at most once and before *)
(* it acknowledges it, at most once.                                       *)
(***************************************************************************)
THEOREM MemoryLogImplements == Spec => ImplementsAuditLog
  BY AbstractInit, AbstractStep, InvAlways, PTL DEF Spec, ImplementsAuditLog, Abstract!Spec

-----------------------------------------------------------------------------
(***************************************************************************)
(* The answers of the read methods.                                        *)
(***************************************************************************)

(***************************************************************************)
(* A scan of the slice lists what it keeps of one chain in the order of    *)
(* its EntryIDs, because the slice has that order.                         *)
(***************************************************************************)
LEMMA ScanLists ==
  ASSUME StorageTyped, SliceOrdered, NEW c, NEW es \in SUBSET OfChain(Stored, c)
  PROVE  Lists(Scan(es), es)
<1>1. PICK I : I = { i \in DOMAIN entries : entries[i] \in es }
  OBVIOUS
<1>2. PICK n : n = Cardinality(I)
  OBVIOUS
<1>3. DOMAIN entries = 1..Len(entries) /\ Len(entries) \in Nat
  BY DEF StorageTyped
<1>4. IsFiniteSet(I) /\ I \in SUBSET Nat
  <2>1. PICK m \in Nat : m = Len(entries)
    BY <1>3
  <2>2. PICK D : D = 1..m
    OBVIOUS
  <2>3. IsFiniteSet(D)
    BY <2>1, <2>2, FS_Interval
  <2>4. I \in SUBSET D
    BY <1>1, <1>3, <2>1, <2>2
  <2>5. IsFiniteSet(I)
    BY <2>3, <2>4, FS_Subset
  <2>6. I \in SUBSET Nat
    BY <2>1, <2>2, <2>4
  <2> QED
    BY <2>5, <2>6
<1>5. PICK key : key = [i \in I |-> i]
  OBVIOUS
<1>6. PICK rank : rank = Rank(I, key)
  OBVIOUS
<1>7. key \in [I -> Nat] /\ \A i, j \in I : key[i] = key[j] => i = j
  BY <1>4, <1>5
<1>8. /\ n \in Nat
      /\ \A i \in I : rank[i] \in 1..n
      /\ \A i, j \in I : rank[i] < rank[j] => key[i] < key[j]
      /\ \A i, j \in I : rank[i] = rank[j] => i = j
      /\ \A k \in 1..n : \E i \in I : rank[i] = k
  <2>1. key \in [I -> Nat]
    BY <1>7
  <2>2. IsFiniteSet(I)
    BY <1>4
  <2>3. \A i, j \in I : key[i] = key[j] => i = j
    BY <1>7
  <2>4. /\ Cardinality(I) \in Nat
        /\ \A i \in I : rank[i] \in 1..Cardinality(I)
        /\ \A i, j \in I : rank[i] < rank[j] => key[i] < key[j]
        /\ \A i, j \in I : rank[i] = rank[j] => i = j
        /\ \A k \in 1..Cardinality(I) : \E i \in I : rank[i] = k
    BY <1>6, <2>1, <2>2, <2>3, RankFacts
  <2> QED
    BY <1>2, <2>4
<1> DEFINE Upto(i) == { j \in I : j <= i }
           pos(k)  == CHOOSE i \in I : Cardinality(Upto(i)) = k
           nth     == [k \in 1..n |-> entries[pos(k)]]
<1>9. ASSUME NEW i \in I PROVE rank[i] = Cardinality(Upto(i)) /\ key[i] = i
  <2>1. { j \in I : key[j] <= key[i] } = Upto(i)
    BY <1>5
  <2> QED
    BY <1>5, <1>6, <2>1 DEF Rank
<1>10. ASSUME NEW k \in 1..n
       PROVE  pos(k) \in I /\ rank[pos(k)] = k
  <2>1. \E i \in I : Cardinality(Upto(i)) = k
    BY <1>8, <1>9
  <2>2. pos(k) \in I /\ Cardinality(Upto(pos(k))) = k
    BY <2>1
  <2> QED
    BY <1>9, <2>2
<1>11. Scan(es) = SubSeq(nth, 1, n)
  BY <1>1, <1>2 DEF Scan
<1> HIDE DEF Upto, pos
<1>12. \A k \in 1..n : nth[k] = entries[pos(k)]
  OBVIOUS
<1> HIDE DEF nth
<1>13. PICK rs : rs = Scan(es)
  OBVIOUS
<1>14. \A k \in 1..n : nth[k] \in es /\ nth[k] \in Entry
  <2>1. es \subseteq Entry
    BY DEF OfChain, Stored, StorageTyped
  <2> QED
    BY <1>1, <1>10, <1>12, <2>1
<1>15. rs \in Seq(Entry) /\ Len(rs) = n /\ \A k \in 1..n : rs[k] = nth[k]
  <2>1. /\ SubSeq(nth, 1, n) \in Seq(Entry)
        /\ Len(SubSeq(nth, 1, n)) = IF 1 <= n THEN n - 1 + 1 ELSE 0
        /\ \A i \in 1..(n - 1 + 1) : SubSeq(nth, 1, n)[i] = nth[1 + i - 1]
    BY <1>8, <1>14, SubSeqProperties
  <2> QED
    BY <1>8, <1>11, <1>13, <2>1
<1>16. DOMAIN rs = 1..n
  BY <1>15
<1>17. \A k \in DOMAIN rs : rs[k] \in es
  BY <1>14, <1>15, <1>16
<1>18. ASSUME NEW k \in DOMAIN rs, NEW m \in DOMAIN rs, k < m
       PROVE  rs[k].id < rs[m].id
  <2>1. pos(k) \in I /\ pos(m) \in I /\ rank[pos(k)] = k /\ rank[pos(m)] = m
    BY <1>10, <1>16
  <2>2. pos(k) < pos(m)
    BY <1>8, <1>9, <1>18, <2>1
  <2>3. rs[k] = entries[pos(k)] /\ rs[m] = entries[pos(m)]
    BY <1>12, <1>15, <1>16
  <2>4. rs[k].chain = c /\ rs[m].chain = c
    BY <1>17 DEF OfChain
  <2>5. pos(k) \in DOMAIN entries /\ pos(m) \in DOMAIN entries
    BY <1>1, <2>1
  <2> QED
    BY <2>2, <2>3, <2>4, <2>5 DEF SliceOrdered
<1>19. ASSUME NEW e \in es PROVE \E k \in DOMAIN rs : rs[k] = e
  <2>1. PICK i \in I : entries[i] = e
    BY <1>1 DEF OfChain, Stored
  <2>2. rank[i] \in 1..n
    BY <1>8
  <2>3. pos(rank[i]) = i
    BY <1>8, <1>10, <2>2
  <2> QED
    BY <1>12, <1>15, <1>16, <2>1, <2>2, <2>3
<1>20. Lists(rs, es)
  BY <1>15, <1>17, <1>18, <1>19 DEF Lists
<1> QED
  BY <1>13, <1>20

(***************************************************************************)
(* memoryChainTail is what GetLastEntry would return.                      *)
(***************************************************************************)
LEMMA SliceIsLedger ==
  ASSUME StorageTyped, StorageInv, NEW S, S = Stored, NEW c \in Chains
  PROVE  /\ S \in SUBSET Entry /\ Ledger(S, c)
         /\ latestEntryID(c) = LastEntry(S, c).id /\ latestEntryID(c) \in Nat
<1>1. S \in SUBSET Entry
  BY DEF Stored, StorageTyped
<1>2. PICK m : m = chains[c].lastID
  OBVIOUS
<1>3. m \in Nat
  BY <1>2 DEF StorageTyped, Tails
<1>4. ChainIntact(S, c)
  BY StorageInvImplies DEF ChainsIntact
<1>5. Fills(S, c, m)
  <2>1. \A e \in OfChain(S, c) : e.id \in Nat /\ e.id >= 1
    BY <1>1, <1>4 DEF ChainIntact, OfChain, Entry
  <2>2. /\ \A i \in 1..m : \E e \in OfChain(S, c) : e.id = i
        /\ \A e \in OfChain(S, c) : e.id <= m
    BY <1>2, StorageInvImplies DEF ChainsIntact, TailsAgree
  <2> QED
    BY <1>3, <2>1, <2>2 DEF Fills
<1>6. Ledger(S, c)
  BY <1>3, <1>4, <1>5 DEF Ledger
<1>7. PICK n : n = LastEntry(S, c).id
  OBVIOUS
<1>8. n \in Nat /\ Fills(S, c, n)
  <2>1. LastEntry(S, c) \in [id : Nat, hash : Hash]
    BY <1>1, <1>6, LastOfLedger
  <2> QED
    BY <1>1, <1>6, <1>7, <2>1, LastOfLedger
<1>9. m = n
  <2>1. ASSUME m < n PROVE FALSE
    <3>1. PICK e \in OfChain(S, c) : e.id = n
      BY <1>3, <1>8, <2>1 DEF Fills
    <3> QED
      BY <1>3, <1>5, <1>8, <2>1, <3>1 DEF Fills
  <2>2. ASSUME n < m PROVE FALSE
    <3>1. PICK e \in OfChain(S, c) : e.id = m
      BY <1>3, <1>5, <1>8, <2>2 DEF Fills
    <3> QED
      BY <1>3, <1>8, <2>2, <3>1 DEF Fills
  <2> QED
    BY <1>3, <1>8, <2>1, <2>2
<1> QED
  BY <1>1, <1>2, <1>3, <1>6, <1>7, <1>9 DEF latestEntryID

(***************************************************************************)
(* The copy of a Verify: rows of its chain, each with the hash of its own  *)
(* fields, and from the first entry on linked to one another.              *)
(***************************************************************************)
Copied(rows, req) ==
  /\ req.op = "Verify"
  /\ \A i \in DOMAIN rows : rows[i].chain = req.chain /\ Recompute(rows[i]) = rows[i].hash
  /\ req.range[1] <= 1 => \A i \in DOMAIN rows : LinkOK(rows, i)

\* This is what Verify copies inside the mutex.
LEMMA CopyIsIntact ==
  ASSUME StorageTyped, StorageInv, NEW req \in ReadRequests, req.chain \in Chains,
         req.op = "Verify", NEW rs, rs = InRange(req.chain, VerifyFrom(req), VerifyTo(req))
  PROVE  rs \in Seq(Entry) /\ Copied(rs, req)
<1>1. req.range[1] \in Nat /\ req.range[2] \in Nat
  BY CallsConstants DEF ReadRequests
<1>2. PICK S, c, lo, to : S = Stored /\ c = req.chain /\ lo = VerifyFrom(req) /\ to = VerifyTo(req)
  OBVIOUS
<1>3. c \in Chains
  BY <1>2
<1>4. /\ S \in SUBSET Entry /\ Ledger(S, c)
      /\ latestEntryID(c) = LastEntry(S, c).id /\ latestEntryID(c) \in Nat
  BY <1>2, <1>3, SliceIsLedger
<1>5. PICK es : es = { e \in OfChain(S, c) : lo <= e.id /\ e.id <= to }
  OBVIOUS
<1>6. es \in SUBSET OfChain(Stored, c) /\ rs = Scan(es)
  BY <1>2, <1>5 DEF InRange
<1>7. Lists(rs, es)
  BY <1>6, ScanLists DEF StorageInv
<1>8. \A e \in es : e.chain = c /\ Recompute(e) = e.hash
  BY <1>4, <1>5 DEF Ledger, ChainIntact, OfChain
<1>9. ASSUME req.range[1] <= 1 PROVE \A i \in DOMAIN rs : LinkOK(rs, i)
  <2>1. lo = 1 /\ to \in Nat
    BY <1>1, <1>2, <1>4, <1>9 DEF VerifyFrom, VerifyTo
  <2>2. Lists(rs, { e \in OfChain(S, c) : 1 <= e.id /\ e.id <= to })
    BY <1>5, <1>7, <2>1
  <2>3. verifyChain(rs).valid = TRUE
    BY <1>4, <2>1, <2>2, ScanIntactChain
  <2>4. BrokenRows(rs) = {}
    BY <2>3 DEF verifyChain
  <2> QED
    BY <2>4 DEF BrokenRows
<1> QED
  BY <1>2, <1>7, <1>8, <1>9 DEF Lists, Copied

(***************************************************************************)
(* Between the mutex and its return a Verify holds such a copy, whatever   *)
(* is recorded, changed or closed meanwhile.                               *)
(***************************************************************************)
CopyTyped ==
  /\ copied \in [Callers -> [rows : Seq(Entry), next : Nat]]
  /\ altered \subseteq Stored

Checking(t) ==
  /\ pc[t] \in {"resolve", "fetch"}
  /\ copied[t].next >= 1
  /\ Copied(copied[t].rows, read[t].req)

CopiesInv == CopyTyped /\ \A t \in Callers : copied[t] # NoCopy => Checking(t)

\* Nothing that is stored is ever removed.
LEMMA StoredGrows ==
  ASSUME Inv, [Next]_vars
  PROVE  Stored \subseteq Stored'
<1>1. ASSUME UNCHANGED entries PROVE Stored \subseteq Stored'
  BY <1>1 DEF Stored
<1>2. ASSUME NEW t \in Callers, RecordAppend(t) PROVE Stored \subseteq Stored'
  <2>1. PICK e : entries' = Append(entries, e)
    BY <1>2 DEF RecordAppend
  <2>2. entries \in Seq(Entry)
    BY DEF Inv, StorageTyped
  <2>3. \A i \in DOMAIN entries : i \in DOMAIN entries' /\ entries'[i] = entries[i]
    BY <2>1, <2>2
  <2> QED
    BY <2>3 DEF Stored
<1>3. ASSUME NEW t \in Callers,
             \/ RecordLock(t) \/ RecordReadTail(t) \/ RecordHashError(t) \/ Finish(t)
      PROVE  UNCHANGED entries
  BY <1>3 DEF RecordLock, RecordReadTail, RecordHashError, Finish, storage
<1>4. ASSUME NEW t \in Callers, ReadLocked(t) \/ verifyMemoryChain(t)
      PROVE  UNCHANGED entries
  BY <1>4, ReadSteps DEF storage
<1> QED
  BY <1>1, <1>2, <1>3, <1>4 DEF Next, Step, RecordStep, Begin, Close, PayloadChanges, vars, storage

\* No other read than that of t goes on or returns.
OthersRest(t) == \A u \in Callers \ {t} : pc'[u] = pc[u] /\ read'[u] = read[u]

\* What t may hold as its copy after a step.
GoodCopy(t, v) ==
  v # NoCopy => /\ pc'[t] \in {"resolve", "fetch"} /\ v.next >= 1
                /\ Copied(v.rows, read'[t].req)

\* A step that leaves what every Verify has copied.
LEMMA OthersKeepCopies ==
  ASSUME Inv, CopiesInv, [Next]_vars, NEW t \in Callers, UNCHANGED <<copied, altered>>,
         copied[t] = NoCopy, OthersRest(t)
  PROVE  CopiesInv'
  BY StoredGrows DEF CopiesInv, CopyTyped, Checking, OthersRest

\* The copy of t is made, checked further, or dropped.
LEMMA OwnCopyChanges ==
  ASSUME Inv, CopiesInv, [Next]_vars, NEW t \in Callers, altered' = altered,
         NEW v \in [rows : Seq(Entry), next : Nat], copied' = [copied EXCEPT ![t] = v],
         GoodCopy(t, v), OthersRest(t)
  PROVE  CopiesInv'
<1>1. CopyTyped'
  BY StoredGrows DEF CopiesInv, CopyTyped
<1>2. ASSUME NEW u \in Callers, copied'[u] # NoCopy PROVE Checking(u)'
  <2>1. CASE u = t
    BY <1>2, <2>1 DEF CopiesInv, CopyTyped, Checking, GoodCopy
  <2>2. CASE u # t
    BY <1>2, <2>2 DEF CopiesInv, CopyTyped, Checking, OthersRest
  <2> QED
    BY <2>1, <2>2
<1> QED
  BY <1>1, <1>2 DEF CopiesInv

\* Every step keeps it.
LEMMA CopiesNext ==
  ASSUME Inv, CopiesInv, [Next]_vars
  PROVE  CopiesInv'
<1>d. CallsTypeOK(MemorySteps) /\ DOMAIN pc = Callers /\ DOMAIN read = Callers
  BY DEF Inv, CallsInv, Typed, CallsTypeOK
<1>t. NoCopy \in [rows : Seq(Entry), next : Nat]
  BY DEF NoCopy
<1>1. CASE UNCHANGED vars
  BY <1>1, StoredGrows DEF vars, callVars, CopiesInv, CopyTyped, Checking
<1>2. CASE Close /\ UNCHANGED altered
  BY <1>2, StoredGrows DEF Close, CopiesInv, CopyTyped, Checking
<1>3. ASSUME NEW e \in Stored, PayloadChanges(e) PROVE CopiesInv'
  BY <1>3, StoredGrows DEF PayloadChanges, callVars, CopiesInv, CopyTyped, Checking
<1>4. ASSUME NEW t \in Callers, UNCHANGED <<copied, altered>>,
             pc[t] \notin {"resolve", "fetch"}, OthersRest(t)
      PROVE  CopiesInv'
  <2>1. copied[t] = NoCopy
    BY <1>4 DEF CopiesInv, Checking
  <2> QED
    BY <1>4, <2>1, OthersKeepCopies
<1>5. ASSUME NEW t \in Callers, Begin(t) PROVE CopiesInv'
  <2>1. CallBegins(t) /\ UNCHANGED <<copied, altered>>
    BY <1>5, CallCases DEF Begin
  <2>2. ASSUME NEW err, Refuse(t, err) PROVE CopiesInv'
    BY <2>1, <2>2, StoredGrows DEF Refuse, CopiesInv, CopyTyped, Checking
  <2>3. ASSUME NEW c, NEW z, NEW saved, pc[t] \in {"idle", "handler"}, Accept(t, c, z, saved)
        PROVE  CopiesInv'
    BY <1>d, <1>4, <2>1, <2>3 DEF Accept, OthersRest
  <2>4. ASSUME NEW req, ReadBegins(t, req) PROVE CopiesInv'
    BY <1>d, <1>4, <2>1, <2>4 DEF ReadBegins, OthersRest
  <2> QED
    BY <2>1, <2>2, <2>3, <2>4 DEF CallBegins
<1>6. ASSUME NEW t \in Callers, RecordStep(t), UNCHANGED <<copied, altered>>
      PROVE  CopiesInv'
  <2>1. CASE RecordLock(t) \/ RecordReadTail(t) \/ RecordAppend(t)
    BY <1>d, <1>4, <1>6, <2>1 DEF RecordLock, RecordReadTail, RecordAppend, Goto, OthersRest
  <2>2. CASE RecordHashError(t)
    BY <1>d, <1>4, <1>6, <2>2 DEF RecordHashError, RecordFails, Resume, OthersRest
  <2>3. CASE Finish(t)
    BY <1>d, <1>4, <1>6, <2>3 DEF Finish, PublishRecorded, RecordReturn, Resume, OthersRest
  <2> QED
    BY <1>6, <2>1, <2>2, <2>3 DEF RecordStep
<1>7. ASSUME NEW t \in Callers, ReadLocked(t), UNCHANGED altered PROVE CopiesInv'
  <2>1. CASE VerifyCopies(read[t].req)
    <3>1. PICK req, rs : req = read[t].req
                         /\ rs = InRange(req.chain, VerifyFrom(req), VerifyTo(req))
      OBVIOUS
    <3>2. PICK v : v = [rows |-> rs, next |-> 1]
      OBVIOUS
    <3>3. req \in ReadRequests /\ req.chain \in Chains /\ req.op = "Verify"
      BY <1>7, <2>1, <3>1 DEF ReadLocked, VerifyCopies, Inv, CallsInv, ReadsTyped
    <3>4. rs \in Seq(Entry) /\ Copied(rs, req)
      BY <3>1, <3>3, CopyIsIntact DEF Inv
    <3>5. v \in [rows : Seq(Entry), next : Nat] /\ v.rows = rs /\ v.next = 1
      BY <3>2, <3>4
    <3>6. /\ pc[t] \in {"resolve", "fetch"} /\ copied' = [copied EXCEPT ![t] = v]
          /\ UNCHANGED callVars
      BY <1>7, <2>1, <3>1, <3>2 DEF ReadLocked
    <3>7. pc' = pc /\ read' = read
      BY <3>6 DEF callVars
    <3>8. GoodCopy(t, v) /\ OthersRest(t)
      BY <3>1, <3>4, <3>5, <3>6, <3>7 DEF GoodCopy, OthersRest
    <3> QED
      BY <1>7, <3>5, <3>6, <3>8, OwnCopyChanges
  <2>2. CASE ~VerifyCopies(read[t].req)
    BY <1>d, <1>7, <2>2, OthersKeepCopies DEF ReadLocked, ReadReturn, OthersRest
  <2> QED
    BY <2>1, <2>2
<1>8. ASSUME NEW t \in Callers, verifyMemoryChain(t), UNCHANGED altered PROVE CopiesInv'
  <2>1. Checking(t)
    BY <1>8 DEF verifyMemoryChain, CopiesInv
  <2>2. ASSUME NEW err, NEW val, VerifyReturns(t, err, val) PROVE CopiesInv'
    BY <1>d, <1>t, <1>8, <2>2, OwnCopyChanges
    DEF VerifyReturns, ReadReturn, OthersRest, GoodCopy
  <2>3. ASSUME copied' = [copied EXCEPT ![t].next = @ + 1], UNCHANGED callVars
        PROVE  CopiesInv'
    <3>1. PICK w : w = copied[t]
      OBVIOUS
    <3>2. w \in [rows : Seq(Entry), next : Nat]
      BY <3>1 DEF CopiesInv, CopyTyped
    <3>3. PICK v : v = [w EXCEPT !.next = w.next + 1]
      OBVIOUS
    <3>4. /\ v \in [rows : Seq(Entry), next : Nat]
          /\ v.rows = w.rows /\ v.next = w.next + 1
      BY <3>2, <3>3
    <3>5. copied' = [copied EXCEPT ![t] = v]
      BY <2>3, <3>1, <3>3
    <3>6. v.next >= 1
      BY <3>2, <3>4
    <3>7. pc' = pc /\ read' = read
      BY <2>3 DEF callVars
    <3>8. GoodCopy(t, v) /\ OthersRest(t)
      BY <2>1, <3>1, <3>4, <3>6, <3>7 DEF Checking, GoodCopy, OthersRest
    <3> QED
      BY <1>8, <3>4, <3>5, <3>8, OwnCopyChanges
  <2> QED
    BY <1>8, <2>2, <2>3 DEF verifyMemoryChain, CheckHash
<1> QED
  BY <1>1, <1>2, <1>3, <1>5, <1>6, <1>7, <1>8 DEF Next, Step

\* In every behaviour the copies are intact.
LEMMA CopiesAlways == Spec => []CopiesInv
<1>1. Init => CopiesInv
  BY DEF Init, CopiesInv, CopyTyped, NoCopy
<1>2. Inv /\ CopiesInv /\ [Next]_vars => CopiesInv'
  BY CopiesNext
<1> QED
  BY <1>1, <1>2, InvAlways, PTL DEF Spec

(***************************************************************************)
(* Every reachable state of the memory backend is well typed.              *)
(***************************************************************************)
THEOREM TypeCorrect == Spec => []TypeOK
<1>1. Inv /\ CopiesInv => TypeOK
  BY DEF Inv, CallsInv, Typed, StorageTyped, CopiesInv, CopyTyped, TypeOK, MemorySteps
<1> QED
  BY <1>1, InvAlways, CopiesAlways, PTL

-----------------------------------------------------------------------------
(***************************************************************************)
(* The answers of the other reads, and of a Verify of an empty chain.      *)
(***************************************************************************)
LEMMA EmptyAnswers ==
  ASSUME StorageTyped, StorageInv, NEW S, S = Stored,
         NEW req \in ReadRequests, req.chain \in Chains, req.op = "Verify",
         ~VerifyCopies(req), NEW known \in SUBSET KeysOf(S)
  PROVE  Sees(Result(req, known, {}, EmptyResult))
<1>1. req.range[2] \in Nat
  BY CallsConstants DEF ReadRequests
<1>2. S \in SUBSET Entry /\ Ledger(S, req.chain)
      /\ latestEntryID(req.chain) = LastEntry(S, req.chain).id
  BY SliceIsLedger
<1>3. PICK last : last = LastEntry(S, req.chain).id /\ last = 0
  BY <1>1, <1>2 DEF VerifyCopies, VerifyTo
<1> QED
  BY <1>2, <1>3, TailAnswers

\* Query lists what it has to see, up to its Limit.
LEMMA QueryAnswers ==
  ASSUME StorageTyped, StorageInv, NEW S, S = Stored,
         NEW req \in ReadRequests, req.chain \in Chains, req.op = "Query",
         NEW known \in SUBSET KeysOf(S), NEW r, r = Result(req, known, {}, QueryAnswer(req))
  PROVE  Sees(r)
<1>1. PICK limit \in Int : limit = req.filter.limit
  BY CallsConstants DEF ReadRequests
<1>2. S \in SUBSET Entry
  BY SliceIsLedger
<1>3. PICK es : es = { e \in OfChain(S, req.chain) : e.content \in req.filter.match }
  OBVIOUS
<1>4. PICK rs : rs = Matches(req)
  OBVIOUS
<1>5. Lists(rs, es)
  <2>1. es \in SUBSET OfChain(Stored, req.chain) /\ rs = Scan(es)
    BY <1>3, <1>4 DEF Matches
  <2> QED
    BY <2>1, ScanLists DEF StorageInv
<1>6. PICK out : out = QueryAnswer(req)
  OBVIOUS
<1>7. rs \in Seq(Entry) /\ Len(rs) \in Nat
  BY <1>5 DEF Lists
<1>8. out = IF limit > 0 /\ Len(rs) >= limit THEN SubSeq(rs, 1, limit) ELSE rs
  BY <1>1, <1>4, <1>6 DEF QueryAnswer
<1>9. Limited(rs, limit, out)
  BY <1>7, <1>8 DEF Limited
<1>10. /\ \A i, j \in DOMAIN out : i < j => out[i].id < out[j].id
       /\ \A e \in es : \/ \E i \in DOMAIN out : out[i] = e
                        \/ /\ limit > 0 /\ Len(out) = limit
                           /\ \A i \in DOMAIN out : out[i].id < e.id
  BY <1>5, <1>9, LimitedList
<1>11. ListsMatches(S, req.chain, req.filter.match, req.filter.limit, out)
  BY <1>1, <1>3, <1>10 DEF ListsMatches
<1>12. r = Result(req, known, {}, out)
  BY <1>6
<1> QED
  BY <1>2, <1>11, <1>12, QuerySees

\* GetEntry finds the entry it has to see.
LEMMA GetEntryAnswers ==
  ASSUME StorageTyped, StorageInv, NEW S, S = Stored,
         NEW req \in ReadRequests, req.chain \in Chains, req.op = "GetEntry",
         NEW known \in SUBSET KeysOf(S), NEW rs, rs = GetEntryAnswer(req)
  PROVE  /\ rs = << >> => Sees(Result(req, known, {"ErrEntryNotFound"}, 0))
         /\ rs # << >> => Sees(Result(req, known, {}, rs[1]))
<1>1. PICK es : es = { e \in OfChain(S, req.chain) : e.id = req.id }
  OBVIOUS
<1>2. Lists(rs, es)
  <2>1. es \in SUBSET OfChain(Stored, req.chain) /\ rs = Scan(es)
    BY <1>1 DEF GetEntryAnswer
  <2> QED
    BY <2>1, ScanLists DEF StorageInv
<1>3. S \in SUBSET Entry /\ Ledger(S, req.chain)
  BY SliceIsLedger
<1>4. ASSUME NEW k \in known, k.chain = req.chain, k.id = req.id
      PROVE  \E e \in es : Key(e) = k
  <2>1. PICK e \in OfChain(S, req.chain) : Key(e) = k
    BY <1>3, <1>4, KnownAreStored
  <2>2. e.id = req.id
    BY <1>4, <2>1 DEF Key
  <2> QED
    BY <1>1, <2>1, <2>2
<1>5. \A e, f \in es : e = f
  BY <1>1, <1>3 DEF Ledger, ChainIntact
<1>6. ASSUME rs = << >> PROVE Sees(Result(req, known, {"ErrEntryNotFound"}, 0))
  <2>1. es = {}
    BY <1>2, <1>6 DEF Lists
  <2> QED
    BY <1>4, <2>1 DEF Sees, Result
<1>7. ASSUME rs # << >> PROVE Sees(Result(req, known, {}, rs[1]))
  <2>1. PICK e : e = rs[1] /\ e \in es
    <3>1. rs \in Seq(Entry)
      BY <1>2 DEF Lists
    <3>2. 1 \in DOMAIN rs
      BY <1>7, <3>1, EmptySeq
    <3> QED
      BY <1>2, <3>2 DEF Lists
  <2>2. Sees(Result(req, known, {}, e))
    BY <1>4, <1>5, <2>1 DEF Sees, Result
  <2> QED
    BY <2>1, <2>2
<1> QED
  BY <1>6, <1>7

\* LatestEntryID is at or past every entry it has to see.
LEMMA LatestAnswers ==
  ASSUME StorageTyped, StorageInv, NEW S, S = Stored,
         NEW req \in ReadRequests, req.chain \in Chains, req.op = "LatestEntryID",
         NEW known \in SUBSET KeysOf(S), NEW last, last = latestEntryID(req.chain)
  PROVE  Sees(Result(req, known, IF last = 0 THEN {"ErrEntryNotFound"} ELSE {}, last))
<1>1. S \in SUBSET Entry /\ Ledger(S, req.chain) /\ last = LastEntry(S, req.chain).id
  BY SliceIsLedger
<1> QED
  BY <1>1, TailAnswers

(***************************************************************************)
(* What AlarmsOnlyOnChange and ReadsSeeAcked say of one result.            *)
(***************************************************************************)
AlarmOnChange(r) ==
  r.req.op = "Verify" /\ r.req.range[1] <= 1 =>
    /\ r.err # {} => \E e \in altered : e.chain = r.req.chain
    /\ r.err = {} /\ ~r.val.valid =>
         \E e \in altered : e.chain = r.req.chain /\ e.id = r.val.brokenAt

SeenOrUnavailable(r) ==
  r.req.op \notin {"none", "Record"} /\ "ErrBackendUnavailable" \notin r.err => Sees(r)

Accepted(r) == AlarmOnChange(r) /\ SeenOrUnavailable(r)

AnswersInv == \A t \in Callers : Accepted(ret[t])

\* A step after which only t has a new answer.
AnswersOnly(t, req, known, err, val) ==
  /\ ret'[t] = Result(req, known, err, val)
  /\ \A u \in Callers \ {t} : ret'[u] = ret[u]

\* The answer of a read that returns, with the request it was given.
LEMMA ReadReturns ==
  ASSUME Inv, NEW t \in Callers, pc[t] \in {"resolve", "fetch"}, NEW err, NEW val,
         ReadReturn(t, err, val), NEW req, req = read[t].req, NEW known, known = read[t].known,
         NEW S, S = Stored
  PROVE  /\ req \in ReadRequests /\ req.chain \in Chains /\ known \in SUBSET KeysOf(S)
         /\ AnswersOnly(t, req, known, err, val)
<1>1. KeysOf(S) = StoredKeys
  BY DEF KeysOf, StoredKeys
<1>2. CallsInv(MemorySteps, KeysOf(S))
  BY <1>1 DEF Inv
<1>3. req \in ReadRequests /\ req.chain \in Chains /\ known \in SUBSET KeysOf(S)
  BY <1>2 DEF CallsInv, ReadsTyped, Owned
<1>4. /\ ret'[t] = Result(read[t].req, read[t].known, err, val)
      /\ \A u \in Callers \ {t} : ret'[u] = ret[u]
  BY <1>2, MemoryStepNames, ReadReturnKeeps
<1> QED
  BY <1>3, <1>4 DEF AnswersOnly

\* A result that is accepted stays so, and so does what a step leaves.
LEMMA AcceptedStays ==
  ASSUME AnswersInv, altered \subseteq altered', NEW t \in Callers, ret'[t] = ret[t]
  PROVE  Accepted(ret[t])'
<1>1. Accepted(ret[t])
  BY DEF AnswersInv
<1> QED
  BY <1>1 DEF Accepted, AlarmOnChange, SeenOrUnavailable, Sees

\* A step that gives one answer, which is accepted.
LEMMA OneAnswer ==
  ASSUME AnswersInv, altered' = altered, NEW t \in Callers,
         NEW req, NEW known, NEW err, NEW val, AnswersOnly(t, req, known, err, val),
         Accepted(Result(req, known, err, val))
  PROVE  AnswersInv'
<1>1. Accepted(ret[t])'
  BY DEF AnswersOnly, Accepted, AlarmOnChange, SeenOrUnavailable, Sees
<1>2. \A u \in Callers \ {t} : Accepted(ret[u])'
  BY AcceptedStays DEF AnswersOnly
<1> QED
  BY <1>1, <1>2 DEF AnswersInv

(***************************************************************************)
(* The critical section of a read, whatever the method.                    *)
(***************************************************************************)
LEMMA ReadLockedAnswers ==
  ASSUME Inv, AnswersInv, NEW t \in Callers, ReadLocked(t), altered' = altered
  PROVE  AnswersInv'
<1>1. CASE VerifyCopies(read[t].req)
  <2>1. ret' = ret
    BY <1>1 DEF ReadLocked, callVars
  <2> QED
    BY <2>1, AcceptedStays DEF AnswersInv
<1>2. CASE ~VerifyCopies(read[t].req)
  <2>1. PICK S, req, known : S = Stored /\ req = read[t].req /\ known = read[t].known
    OBVIOUS
  <2>2. PICK err, val : err = Answer(req).err /\ val = Answer(req).val
    OBVIOUS
  <2>3. pc[t] \in {"resolve", "fetch"} /\ ReadReturn(t, err, val) /\ ~VerifyCopies(req)
    BY <1>2, <2>1, <2>2 DEF ReadLocked
  <2>4. /\ req \in ReadRequests /\ req.chain \in Chains /\ known \in SUBSET KeysOf(S)
        /\ AnswersOnly(t, req, known, err, val)
    BY <2>1, <2>3, ReadReturns
  <2>5. PICK r : r = Result(req, known, err, val)
    OBVIOUS
  <2>6. r.req = req /\ r.err = err /\ r.val = val
    BY <2>5 DEF Result
  <2>7. StorageTyped /\ StorageInv
    BY DEF Inv
  <2>8. CASE req.op = "Verify"
    <3>1. err = {} /\ val = EmptyResult
      BY <2>2, <2>8 DEF Answer
    <3>2. Sees(r)
      BY <2>1, <2>3, <2>4, <2>5, <2>7, <2>8, <3>1, EmptyAnswers
    <3>3. AlarmOnChange(r)
      BY <2>6, <3>1, EmptyIsValid DEF AlarmOnChange
    <3> QED
      BY <2>4, <2>5, <3>2, <3>3, OneAnswer DEF Accepted, SeenOrUnavailable
  <2>9. ASSUME req.op # "Verify", Sees(r) PROVE AnswersInv'
    <3>1. Accepted(r)
      BY <2>6, <2>9 DEF Accepted, AlarmOnChange, SeenOrUnavailable
    <3> QED
      BY <2>4, <2>5, <3>1, OneAnswer
  <2>10. CASE req.op = "Query"
    <3>1. err = {} /\ val = QueryAnswer(req)
      BY <2>2, <2>10 DEF Answer
    <3>2. Sees(r)
      BY <2>1, <2>4, <2>5, <2>7, <2>10, <3>1, QueryAnswers
    <3> QED
      BY <2>9, <2>10, <3>2
  <2>11. CASE req.op = "GetEntry"
    <3>1. PICK rs : rs = GetEntryAnswer(req)
      OBVIOUS
    <3>2. \/ rs = << >> /\ err = {"ErrEntryNotFound"} /\ val = 0
          \/ rs # << >> /\ err = {} /\ val = rs[1]
      BY <2>2, <2>11, <3>1 DEF Answer
    <3>3. Sees(r)
      BY <2>1, <2>4, <2>5, <2>7, <2>11, <3>1, <3>2, GetEntryAnswers
    <3> QED
      BY <2>9, <2>11, <3>3
  <2>12. CASE req.op = "LatestEntryID"
    <3>1. PICK last : last = latestEntryID(req.chain)
      OBVIOUS
    <3>2. err = (IF last = 0 THEN {"ErrEntryNotFound"} ELSE {}) /\ val = last
      BY <2>2, <2>12, <3>1 DEF Answer
    <3>3. Sees(r)
      BY <2>1, <2>4, <2>5, <2>7, <2>12, <3>1, <3>2, LatestAnswers
    <3> QED
      BY <2>9, <2>12, <3>3
  <2> QED
    BY <2>4, <2>8, <2>10, <2>11, <2>12 DEF ReadRequests
<1> QED
  BY <1>1, <1>2

(***************************************************************************)
(* A round of verifyMemoryChain: a row of the copy links to the one before *)
(* it, so only a Payload that reads otherwise can stop the scan.           *)
(***************************************************************************)
LEMMA VerifyAnswers ==
  ASSUME Inv, CopiesInv, AnswersInv, NEW t \in Callers, verifyMemoryChain(t), altered' = altered
  PROVE  AnswersInv'
<1>1. PICK S, req, known, rows, i : /\ S = Stored /\ req = read[t].req /\ known = read[t].known
                                    /\ rows = copied[t].rows /\ i = copied[t].next
  OBVIOUS
<1>2. PICK e : e = rows[i]
  OBVIOUS
<1>3. pc[t] \in {"resolve", "fetch"} /\ copied[t] # NoCopy
  BY DEF verifyMemoryChain
<1>4. /\ rows \in Seq(Entry) /\ i \in Nat /\ i >= 1 /\ Copied(rows, req)
  BY <1>1, <1>3 DEF CopiesInv, CopyTyped, Checking
<1>5. ASSUME UNCHANGED callVars PROVE AnswersInv'
  <2>1. ret' = ret
    BY <1>5 DEF callVars
  <2> QED
    BY <2>1, AcceptedStays DEF AnswersInv
<1>6. ASSUME NEW err, NEW val, VerifyReturns(t, err, val), val.empty = FALSE,
             AlarmOnChange(Result(req, known, err, val))
      PROVE  AnswersInv'
  <2>1. ReadReturn(t, err, val)
    BY <1>6 DEF VerifyReturns
  <2>2. AnswersOnly(t, req, known, err, val)
    BY <1>1, <1>3, <2>1, ReadReturns
  <2>3. SeenOrUnavailable(Result(req, known, err, val))
    BY <1>4, <1>6 DEF SeenOrUnavailable, Copied, Sees, Result
  <2> QED
    BY <1>6, <2>2, <2>3, OneAnswer DEF Accepted
<1>7. CASE i > Len(rows) /\ VerifyReturns(t, {}, ValidResult)
  BY <1>6, <1>7 DEF AlarmOnChange, Result, ValidResult
<1>8. ASSUME i <= Len(rows)
      PROVE  /\ i \in DOMAIN rows /\ e \in Entry /\ e.chain = req.chain /\ Recompute(e) = e.hash
             /\ req.range[1] <= 1 => LinkOK(rows, i)
  <2>1. i \in DOMAIN rows
    BY <1>4, <1>8
  <2> QED
    BY <1>2, <1>4, <2>1 DEF Copied
<1>9. CASE /\ i <= Len(rows) /\ ~LinkOK(rows, i)
           /\ VerifyReturns(t, {}, Broken(e, ExpectPrev(rows, i), e.prevHash))
  <2>1. ~(req.range[1] <= 1)
    BY <1>8, <1>9
  <2> QED
    BY <1>6, <1>9, <2>1 DEF AlarmOnChange, Result, Broken
<1>10. ASSUME i <= Len(rows), NEW z \in PayloadReads(e), CheckHash(t, e, z) PROVE AnswersInv'
  <2>1. CASE e \in altered
    <3>1. e.chain = req.chain
      BY <1>8, <1>10
    <3>2. CASE VerifyReturns(t, {"marshal"}, [ValidResult EXCEPT !.valid = FALSE])
      <4>1. PICK err, val : err = {"marshal"} /\ val = [ValidResult EXCEPT !.valid = FALSE]
        OBVIOUS
      <4>2. VerifyReturns(t, err, val) /\ val.empty = FALSE
        BY <3>2, <4>1 DEF ValidResult
      <4>3. AlarmOnChange(Result(req, known, err, val))
        BY <2>1, <3>1, <4>1 DEF AlarmOnChange, Result
      <4> QED
        BY <1>6, <4>2, <4>3
    <3>3. ASSUME NEW h, VerifyReturns(t, {}, Broken(e, h, e.hash)) PROVE AnswersInv'
      BY <1>6, <2>1, <3>1, <3>3 DEF AlarmOnChange, Result, Broken
    <3> QED
      BY <1>5, <1>10, <3>2, <3>3 DEF CheckHash
  <2>2. CASE e \notin altered
    <3>1. z = e.content
      BY <1>10, <2>2 DEF PayloadReads
    <3>2. z # BadEvent
      BY <1>8, <1>10, <3>1, ConstantsDistinct DEF Entry
    <3>3. ComputeHash(e.chain, e.id, z, e.prevHash) = e.hash
      BY <1>8, <1>10, <3>1 DEF Recompute
    <3> QED
      BY <1>5, <1>10, <3>2, <3>3 DEF CheckHash
  <2> QED
    BY <2>1, <2>2
<1> QED
  BY <1>1, <1>2, <1>7, <1>9, <1>10 DEF verifyMemoryChain

\* The steps of a read that has begun; nothing else leaves an answer.
ReadStep(t) == (ReadLocked(t) \/ verifyMemoryChain(t)) /\ UNCHANGED altered

\* Every other step leaves the answers of reads.
LEMMA QuietSteps ==
  ASSUME Inv, [Next]_vars, \A t \in Callers : ~ReadStep(t)
  PROVE  NoReadReturns /\ altered \subseteq altered'
<1>1. PICK S : S = StoredKeys
  OBVIOUS
<1>2. CallsInv(MemorySteps, S) /\ MemorySteps \cap CallSteps = {}
  BY <1>1, MemoryStepNames DEF Inv
<1>3. ASSUME UNCHANGED ret PROVE NoReadReturns
  BY <1>3 DEF NoReadReturns
<1>4. ASSUME UNCHANGED vars \/ Close \/ \E e \in Stored : PayloadChanges(e)
      PROVE  NoReadReturns
  BY <1>3, <1>4 DEF vars, callVars, Close, PayloadChanges
<1>5. ASSUME NEW t \in Callers, Begin(t) PROVE NoReadReturns
  <2>1. CallBegins(t) /\ BeginCall
    BY <1>5, CallCases DEF Begin
  <2> QED
    BY <1>2, <2>1, BeginKeeps
<1>6. ASSUME NEW t \in Callers, RecordLock(t) \/ RecordReadTail(t) \/ RecordAppend(t)
      PROVE  NoReadReturns
  BY <1>3, <1>6 DEF RecordLock, RecordReadTail, RecordAppend, Goto
<1>7. ASSUME NEW t \in Callers, RecordHashError(t) PROVE NoReadReturns
  BY <1>2, <1>7, FailsKeeps DEF RecordHashError
<1>8. ASSUME NEW t \in Callers, Finish(t) PROVE NoReadReturns
  BY <1>2, <1>8, PublishKeeps, ReturnKeeps DEF Finish
<1>9. NoReadReturns
  BY <1>4, <1>5, <1>6, <1>7, <1>8 DEF Next, Step, RecordStep, ReadStep
<1>10. altered \subseteq altered'
  BY DEF Next, Step, Begin, PayloadChanges, vars
<1> QED
  BY <1>9, <1>10

\* The last answer of every goroutine is accepted, at all times.
LEMMA AnswersAlways == Spec => []AnswersInv
<1>1. Init => AnswersInv
  BY DEF Init, CallsInit, AnswersInv, Accepted, AlarmOnChange, SeenOrUnavailable, NoResult, Result
<1>2. ASSUME Inv, CopiesInv, AnswersInv, [Next]_vars PROVE AnswersInv'
  <2>1. ASSUME NEW t \in Callers, ReadStep(t) PROVE AnswersInv'
    BY <1>2, <2>1, ReadLockedAnswers, VerifyAnswers DEF ReadStep
  <2>2. CASE \A t \in Callers : ~ReadStep(t)
    <3>1. NoReadReturns /\ altered \subseteq altered'
      BY <1>2, <2>2, QuietSteps
    <3>2. ASSUME NEW t \in Callers, ret'[t].req.op \in {"none", "Record"}
          PROVE  Accepted(ret[t])'
      BY <3>2 DEF Accepted, AlarmOnChange, SeenOrUnavailable
    <3> QED
      BY <1>2, <3>1, <3>2, AcceptedStays DEF NoReadReturns, AnswersInv
  <2> QED
    BY <2>1, <2>2
<1> QED
  BY <1>1, <1>2, InvAlways, CopiesAlways, PTL DEF Spec

(***************************************************************************)
(* A Verify that starts at the first entry raises an alarm only about an   *)
(* entry whose Payload was changed after Record had hashed it.             *)
(***************************************************************************)
THEOREM AlarmsAlwaysOnChange == Spec => []AlarmsOnlyOnChange
<1>1. AnswersInv => AlarmsOnlyOnChange
  BY DEF AnswersInv, Accepted, AlarmOnChange, AlarmsOnlyOnChange
<1> QED
  BY <1>1, AnswersAlways, PTL

(***************************************************************************)
(* A read that began after Record had returned an EntryID sees that entry. *)
(***************************************************************************)
THEOREM ReadsAlwaysSeeAcked == Spec => []ReadsSeeAcked
<1>1. AnswersInv => ReadsSeeAcked
  BY DEF AnswersInv, Accepted, SeenOrUnavailable, ReadsSeeAcked
<1> QED
  BY <1>1, AnswersAlways, PTL
=============================================================================
