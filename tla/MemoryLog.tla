----------------------------- MODULE MemoryLog -----------------------------
(***************************************************************************)
(* The in-memory backend, memoryAuditLog of memory.go.  A step is what a   *)
(* call does between two points at which another goroutine can run: the    *)
(* closed flag is read before the mutex is taken, the mutex is held from   *)
(* the reading of the tail to the append, and the entry is published after *)
(* the mutex has been released, inside the call to Record.                 *)
(*                                                                         *)
(* An entry keeps the Payload that its caller passed in, not a copy of it  *)
(* (memory.go:126), so a caller that changes it after Record has returned  *)
(* changes what the log holds.  Verify hashes whatever is there when it    *)
(* comes to the entry, outside the mutex.                                  *)
(***************************************************************************)
EXTENDS Calls

CONSTANTS
  NoOne,     \* the owner of a free mutex
  Rewritten  \* a Payload that marshals, but to nothing that was ever hashed

ASSUME MemoryConstants ==
  /\ NoOne \notin Callers
  /\ Rewritten \notin Contents \cup {BadEvent}

VARIABLES
  mu,        \* owner of a.mu
  entries,   \* a.entries: the entries of all chains, in the order appended
  chains,    \* a.chains: memoryChainTail of every chain
  tail,      \* prevHash and nextID, the locals of each Record
  copied,    \* the entries each Verify has copied, and the next one to check
  altered    \* entries whose Payload has been changed since it was hashed

storage == <<mu, entries, chains, tail>>
vars    == <<callVars, storage, copied, altered>>

-----------------------------------------------------------------------------
NilTail == [lastID |-> 0, lastHash |-> GenesisPrevHash]

Tails == [lastID : Nat, lastHash : Hash]

\* Verify has yet to take the mutex, or returned.
NoCopy == [rows |-> << >>, next |-> 0]

Stored == { entries[i] : i \in DOMAIN entries }

TypeOK ==
  /\ CallsTypeOK({"readTail", "append"})
  /\ mu \in Callers \cup {NoOne}
  /\ entries \in Seq(Entry)
  /\ chains \in [Chains -> Tails]
  /\ tail \in [Callers -> Tails]
  /\ copied \in [Callers -> [rows : Seq(Entry), next : Nat]]
  /\ altered \subseteq Stored

Init ==
  /\ CallsInit
  /\ mu = NoOne
  /\ entries = << >>
  /\ chains = [c \in Chains |-> NilTail]
  /\ tail = [t \in Callers |-> NilTail]
  /\ copied = [t \in Callers |-> NoCopy]
  /\ altered = {}

-----------------------------------------------------------------------------
RecordLockUnguarded(t) ==
  /\ pc[t] = "begin"
  /\ mu' = t
  /\ Goto(t, "readTail")
  /\ UNCHANGED <<rec, entries, chains, tail>>

RecordLock(t) ==
  /\ pc[t] = "begin"
  /\ mu = NoOne
  /\ mu' = t
  /\ Goto(t, "readTail")
  /\ UNCHANGED <<rec, entries, chains, tail>>

RecordReadTail(t) ==
  /\ pc[t] = "readTail"
  /\ tail' = [tail EXCEPT ![t] = chains[event[t].chain]]
  /\ Goto(t, "append")
  /\ UNCHANGED <<rec, mu, entries, chains>>

\* ComputeHash, the append, the new tail and the release of the mutex.
RecordAppend(t) ==
  LET c  == event[t].chain
      id == tail[t].lastID + 1
      e  == NewEntry(c, id, event[t].content, tail[t].lastHash)
  IN  /\ pc[t] = "append"
      /\ entries' = Append(entries, e)
      /\ chains' = [chains EXCEPT ![c] = [lastID |-> id, lastHash |-> e.hash]]
      /\ mu' = NoOne
      /\ rec' = [rec EXCEPT ![t] = Key(e)]
      /\ Goto(t, "publish")
      /\ UNCHANGED tail

RecordHashErrorKeepsLock(t) ==
  /\ pc[t] = "append"
  /\ event[t].content \in Unstable
  /\ RecordFails(t, {"marshal"})
  /\ UNCHANGED storage

RecordHashErrorAcks(t) ==
  /\ pc[t] = "append"
  /\ event[t].content \in Unstable
  /\ mu' = NoOne
  /\ acked' = acked \cup {[chain |-> event[t].chain, id |-> tail[t].lastID + 1,
                            content |-> event[t].content]}
  /\ Resume(t)
  /\ UNCHANGED <<read, ret, closed, bus, calls, entries, chains, tail>>

\* ComputeHash fails: the payload marshaled in Validate and no longer does.
RecordHashError(t) ==
  /\ pc[t] = "append"
  /\ event[t].content \in Unstable
  /\ mu' = NoOne
  /\ RecordFails(t, {"marshal"})
  /\ UNCHANGED <<entries, chains, tail>>

-----------------------------------------------------------------------------
(***************************************************************************)
(* The read methods: one critical section copies what the answer needs.    *)
(* For all but Verify that is the answer.                                  *)
(***************************************************************************)
latestEntryID(c) == chains[c].lastID

(***************************************************************************)
(* A scan of the slice that keeps the entries es, in the order they have   *)
(* in it: the one at position i is the k-th when k of them are at or       *)
(* before i.                                                               *)
(***************************************************************************)
Scan(es) ==
  LET I   == { i \in DOMAIN entries : entries[i] \in es }
      nth == [k \in 1..Cardinality(I) |->
                entries[CHOOSE i \in I : Cardinality({ j \in I : j <= i }) = k]]
  IN  SubSeq(nth, 1, Cardinality(I))

InRangeAllChains(c, from, to) == Scan({ e \in Stored : from <= e.id /\ e.id <= to })

InRange(c, from, to) ==
  Scan({ e \in OfChain(Stored, c) : from <= e.id /\ e.id <= to })

\* from below 1 means 1; to = 0 means the tail, which is 0 when there is none.
VerifyFrom(req) == IF req.range[1] < 1 THEN 1 ELSE req.range[1]

VerifyTo(req) == IF req.range[2] = 0 THEN latestEntryID(req.chain) ELSE req.range[2]

Matches(req) == Scan({ e \in OfChain(Stored, req.chain) : e.content \in req.filter.match })

QueryAnswerZeroLimit(req) ==
  LET out == Matches(req)
  IN  SubSeq(out, 1, IF Len(out) >= req.filter.limit THEN req.filter.limit ELSE Len(out))

\* The scan stops once Limit entries matched; a Limit of 0 never stops it.
QueryAnswer(req) ==
  LET out == Matches(req)
      n   == req.filter.limit
  IN  IF n > 0 /\ Len(out) >= n THEN SubSeq(out, 1, n) ELSE out

GetEntryAnswer(req) == Scan({ e \in OfChain(Stored, req.chain) : e.id = req.id })

\* The error and the value that the critical section of a read produces.
Answer(req) ==
  CASE req.op = "Verify" -> [err |-> {}, val |-> EmptyResult]
    [] req.op = "Query" -> [err |-> {}, val |-> QueryAnswer(req)]
    [] req.op = "GetEntry" ->
         IF GetEntryAnswer(req) = << >> THEN [err |-> {"ErrEntryNotFound"}, val |-> 0]
         ELSE [err |-> {}, val |-> GetEntryAnswer(req)[1]]
    [] req.op = "LatestEntryID" ->
         IF latestEntryID(req.chain) = 0 THEN [err |-> {"ErrEntryNotFound"}, val |-> 0]
         ELSE [err |-> {}, val |-> latestEntryID(req.chain)]

VerifyCopies(req) == req.op = "Verify" /\ VerifyTo(req) # 0

ReadLocked(t) ==
  LET req == read[t].req
  IN  /\ pc[t] \in {"resolve", "fetch"}
      /\ copied[t] = NoCopy
      /\ mu = NoOne
      /\ IF VerifyCopies(req)
           THEN /\ copied' = [copied EXCEPT ![t] =
                     [rows |-> InRange(req.chain, VerifyFrom(req), VerifyTo(req)), next |-> 1]]
                /\ UNCHANGED callVars
           ELSE ReadReturn(t, Answer(req).err, Answer(req).val) /\ UNCHANGED copied
      /\ UNCHANGED storage

(***************************************************************************)
(* One round of the loop of verifyMemoryChain, outside the mutex.  What a  *)
(* changed Payload reads as is up to whoever changes it: as it was hashed, *)
(* as something else, or as nothing that marshals.                         *)
(***************************************************************************)
PayloadReads(e) == {e.content} \cup IF e \in altered THEN {Rewritten, BadEvent} ELSE {}

VerifyReturns(t, err, val) ==
  /\ ReadReturn(t, err, val)
  /\ copied' = [copied EXCEPT ![t] = NoCopy]

Broken(e, expected, actual) ==
  [valid |-> FALSE, empty |-> FALSE, brokenAt |-> e.id, expected |-> expected, actual |-> actual]

CheckHash(t, e, z) ==
  LET recomputed == ComputeHash(e.chain, e.id, z, e.prevHash)
  IN  IF z = BadEvent
        THEN VerifyReturns(t, {"marshal"}, [ValidResult EXCEPT !.valid = FALSE])
      ELSE IF recomputed # e.hash
        THEN VerifyReturns(t, {}, Broken(e, recomputed, e.hash))
      ELSE /\ copied' = [copied EXCEPT ![t].next = @ + 1]
           /\ UNCHANGED callVars

verifyMemoryChain(t) ==
  LET rows == copied[t].rows
      i    == copied[t].next
      e    == rows[i]
  IN  /\ pc[t] \in {"resolve", "fetch"}
      /\ copied[t] # NoCopy
      /\ \/ i > Len(rows) /\ VerifyReturns(t, {}, ValidResult)
         \/ /\ i <= Len(rows) /\ ~LinkOK(rows, i)
            /\ VerifyReturns(t, {}, Broken(e, ExpectPrev(rows, i), e.prevHash))
         \/ /\ i <= Len(rows) /\ LinkOK(rows, i)
            /\ \E z \in PayloadReads(e) : CheckHash(t, e, z)
      /\ UNCHANGED storage

\* closeOnce makes every Close after the first a no-op.
Close ==
  /\ "Close" \in Ops
  /\ closed' = TRUE
  /\ UNCHANGED <<pc, event, rec, outer, read, ret, bus, acked, calls, storage, copied>>

\* The caller of an earlier Record writes to the map or slice it passed in.
PayloadChanges(e) ==
  /\ e.content \in Unstable
  /\ Key(e) \in acked /\ e \notin altered
  /\ altered' = altered \cup {e}
  /\ UNCHANGED <<callVars, storage, copied>>

-----------------------------------------------------------------------------
\* What a call does on its way out, outside the mutex.
Finish(t) == (PublishRecorded(t) \/ RecordReturn(t)) /\ UNCHANGED storage

Begin(t) == Call(t, FALSE) /\ UNCHANGED <<storage, copied, altered>>

RecordStep(t) ==
  \/ RecordLock(t) \/ RecordReadTail(t) \/ RecordAppend(t) \/ RecordHashError(t)
  \/ Finish(t)

Step(t) ==
  /\ \/ RecordStep(t) /\ UNCHANGED copied
     \/ ReadLocked(t) \/ verifyMemoryChain(t)
  /\ UNCHANGED altered

Next ==
  \/ Close /\ UNCHANGED altered
  \/ \E e \in Stored : PayloadChanges(e)
  \/ \E t \in Callers : Begin(t) \/ Step(t)

Spec == Init /\ [][Next]_vars

(***************************************************************************)
(* A goroutine inside a call is scheduled again and again, and the mutex   *)
(* is granted to a goroutine that waits for it.  Nobody has to call.       *)
(***************************************************************************)
FairSpec == Spec /\ \A t \in Callers : WF_vars(Step(t))

-----------------------------------------------------------------------------
(***************************************************************************)
(* Properties                                                              *)
(***************************************************************************)

(***************************************************************************)
(* Whatever the interleaving of Records (memory.go:107-129), every chain   *)
(* is an intact hash chain, the slice holds its entries in the order of    *)
(* their EntryIDs (the order Verify and Query rely on), and                *)
(* memoryChainTail is the EntryID and Hash of its last entry.              *)
(***************************************************************************)
SliceOrdered ==
  \A i, j \in DOMAIN entries :
    i < j /\ entries[i].chain = entries[j].chain => entries[i].id < entries[j].id

TailsAgree ==
  \A c \in Chains :
    /\ \A n \in 1..chains[c].lastID : \E e \in OfChain(Stored, c) : e.id = n
    /\ \A e \in OfChain(Stored, c) :
          /\ e.id <= chains[c].lastID
          /\ e.id = chains[c].lastID => e.hash = chains[c].lastHash
    /\ chains[c].lastID = 0 => chains[c].lastHash = GenesisPrevHash

ChainsIntact ==
  /\ \A c \in Chains : ChainIntact(Stored, c)
  /\ SliceOrdered
  /\ TailsAgree

(***************************************************************************)
(* Every stored entry has been acknowledged to one caller or belongs to    *)
(* exactly one Record still in progress, be it at the top of its goroutine *)
(* or suspended under a subscriber's Record: no EntryID is lost, returned  *)
(* for another entry or returned twice (memory.go:122-132).                *)
(***************************************************************************)
EveryEntryOwned ==
  \A e \in Stored :
    IF Key(e) \in acked
      THEN \A t \in Callers : ~InProgress(t, Key(e))
      ELSE \E t \in Callers :
             /\ InProgress(t, Key(e))
             /\ ~(Publishing(t) /\ rec[t] = outer[t])
             /\ \A u \in Callers \ {t} : ~InProgress(u, Key(e))

(***************************************************************************)
(* PublishRecorded is called once per durable entry (events.go:17-24): no  *)
(* subscriber sees an entry twice or one that is not stored.               *)
(***************************************************************************)
PublishedOnce == DeliveredOnce(Stored)

(***************************************************************************)
(* Nobody tampers with the log, so a Verify that starts at the first entry *)
(* raises no alarm of its own, whatever Records it races with: one that    *)
(* finds the chain broken names an entry of it whose Payload was changed   *)
(* under it (memory.go:126, 199-230), and one that fails to hash has met   *)
(* such an entry too (memory.go:209-212).                                  *)
(***************************************************************************)
AlarmsOnlyOnChange ==
  \A t \in Callers :
    ret[t].req.op = "Verify" /\ ret[t].req.range[1] <= 1 =>
      /\ ret[t].err # {} => \E e \in altered : e.chain = ret[t].req.chain
      /\ ret[t].err = {} /\ ~ret[t].val.valid =>
           \E e \in altered : e.chain = ret[t].req.chain /\ e.id = ret[t].val.brokenAt

(***************************************************************************)
(* audit.go:82-90 and README.md offer Verify for any inclusive sub-range   *)
(* [from, to]; an untampered sub-range should then be reported as valid.   *)
(***************************************************************************)
VerifySubrangeValid ==
  \A t \in Callers : ret[t].req.op = "Verify" /\ ret[t].err = {} => ret[t].val.valid

(***************************************************************************)
(* Once the log is closed and the calls in flight are over, nothing is     *)
(* recorded or published any more, by callers or by subscribers            *)
(* (memory.go:97-99, 312-317).                                             *)
(***************************************************************************)
QuiescentAfterClose ==
  [][closed /\ (\A t \in Callers : pc[t] = "idle")
       => UNCHANGED <<storage, bus, pc>>]_vars

(***************************************************************************)
(* The backend implements the interface: each Record commits one entry at  *)
(* the next position of its chain, publishes it at most once and before it *)
(* acknowledges it.                                                        *)
(***************************************************************************)
Abstract == INSTANCE AuditLog WITH
  log       <- { Key(e) : e \in Stored },
  tail      <- [c \in Chains |-> chains[c].lastID],
  published <- { bus[i] : i \in DOMAIN bus },
  acked     <- acked

ImplementsAuditLog == Abstract!Spec
=============================================================================
