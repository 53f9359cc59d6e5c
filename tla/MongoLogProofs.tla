--------------------------- MODULE MongoLogProofs ---------------------------
(***************************************************************************)
(* Proofs about the MongoDB backend, for any number of callers, chains and *)
(* calls, with faults or without, and whether or not chain-state documents *)
(* are lost behind the program.                                            *)
(***************************************************************************)
EXTENDS MongoLog, DurableCallsProofs

MongoSteps == {"tx"}

DocKeys == { Key(e) : e \in docs }

-----------------------------------------------------------------------------
(***************************************************************************)
(* The inductive invariant.                                                *)
(***************************************************************************)

SessionType(D) ==
  [phase : Phases, chain : Chains \cup {NoChain}, snap : SUBSET D,
   tail : [id : Nat, hash : Hash], row : Entry \cup {NoRow}, call : Nat]

\* The phases in which a transaction has read a tail, and has inserted.
HasRead == {"read", "inserted", "commit"}

HasRow == {"inserted", "commit"}

(***************************************************************************)
(* One session against the documents D: its snapshot is a prefix of every  *)
(* chain, the tail it has read is or was the tail of its chain (or there   *)
(* was no chain-state document), and the document it has inserted sits on  *)
(* that tail at a position that is free.                                   *)
(***************************************************************************)
SessionOK(s, D) ==
  /\ \A c \in Chains : Ledger(s.snap, c)
  /\ s.phase \in HasRead => s.chain \in Chains /\ OldTail(D, s.chain, s.tail)
  /\ s.phase \in HasRow =>
       /\ s.row \in Entry
       /\ s.row = NewEntry(s.chain, s.tail.id + 1, s.row.content, s.tail.hash)
       /\ \A f \in D : ~Duplicate(s.row, f)
  /\ s.phase = "committed" => s.row \in D

\* Two sessions: what they have inserted and what they have committed.
Apart(s, z) ==
  /\ s.phase \in HasRow /\ z.phase \in HasRow => ~Duplicate(s.row, z.row)
  /\ s.phase = "committed" /\ z.phase = "committed" => s.row # z.row

\* The two collections agree in a snapshot too.
Snapshot(s) ==
  s.phase = "read" /\ s.chain \notin lost => s.tail = LastEntry(s.snap, s.chain)

(***************************************************************************)
(* The chain-state documents: each names an entry of its chain or nothing, *)
(* and the last entry unless the document was lost.                        *)
(***************************************************************************)
StateInv ==
  /\ lost \subseteq Chains
  /\ tails \in [Chains -> [id : Nat, hash : Hash]]
  /\ \A c \in Chains : OldTail(docs, c, tails[c])
  /\ \A c \in Chains \ lost : tails[c] = LastEntry(docs, c)

TableInv ==
  /\ env \in Environments
  /\ docs \subseteq Entry
  /\ \A c \in Chains : Ledger(docs, c)
  /\ sess \in [Sessions -> SessionType(docs)]
  /\ \A n \in Sessions : SessionOK(sess[n], docs) /\ Snapshot(sess[n])
  /\ \A n \in Sessions : \A m \in Sessions \ {n} : Apart(sess[n], sess[m])
  /\ \A e \in docs : \E n \in Sessions : sess[n].phase = "committed" /\ sess[n].row = e

(***************************************************************************)
(* Goroutines and sessions: one session per attempt; what recorded is      *)
(* assigned is the document of that attempt, and the document of a commit  *)
(* that its caller has not heard of is known to nobody.                    *)
(***************************************************************************)
Attached ==
  /\ conn \in [Callers -> Sessions \cup {0}]
  /\ \A t \in Callers : pc[t] = "tx" <=> conn[t] # 0
  /\ \A t \in Callers : conn[t] # 0 => sess[conn[t]].phase # "none"
  /\ \A t, u \in Callers : conn[t] # 0 /\ conn[t] = conn[u] => t = u

Assigned ==
  \A t \in Callers :
    pc[t] = "tx" /\ sess[conn[t]].phase \in {"commit", "committed"} =>
      rec[t] = Key(sess[conn[t]].row)

Secret ==
  \A t \in Callers :
    pc[t] = "tx" /\ sess[conn[t]].phase = "committed" => Unseen(Key(sess[conn[t]].row))

\* Every session in use, and every Record about to start one, has its call.
Used == { n \in Sessions : sess[n].phase # "none" }

Waiting == { t \in Callers : pc[t] = "begin" }

Budget == Within(Used, Waiting, calls)

(***************************************************************************)
(* A call has one transaction at a time: every attempt carries the number  *)
(* of the session it runs in, and no two of them the same.                 *)
(***************************************************************************)
OnePerCall ==
  /\ opened \in Nat
  /\ \A n \in Sessions : sess[n].phase # "none" => sess[n].call \in 1..opened
  /\ \A n, m \in Sessions :
       n # m /\ sess[n].phase # "none" /\ sess[m].phase # "none" => sess[n].call # sess[m].call

(***************************************************************************)
(* The constructor, the client and Close.                                  *)
(***************************************************************************)
HandleInv ==
  /\ life \in Lives
  /\ client \in {"none", "connected", "disconnected"}
  /\ life = "new" => client = "none"
  /\ life \notin {"new", "failed", "done"} => client = "connected"
  /\ life = "failed" => client # "connected"
  /\ life = "done" => client = "disconnected"

(***************************************************************************)
(* A healthy deployment: the callback meets no error that is not           *)
(* transient, and no call fails before the client is disconnected.         *)
(***************************************************************************)
HealthyInv ==
  Healthy =>
    /\ \A n \in Sessions : sess[n].phase # "failed"
    /\ client # "disconnected" => \A t \in Callers : "ErrBackendUnavailable" \notin ret[t].err

Inv ==
  /\ CallsInv(MongoSteps, DocKeys)
  /\ TableInv /\ StateInv /\ Attached /\ Assigned /\ Secret /\ Budget /\ OnePerCall /\ HandleInv
  /\ HealthyInv

-----------------------------------------------------------------------------
(***************************************************************************)
(* The collections: one lemma per way a session can change.                *)
(***************************************************************************)

(***************************************************************************)
(* Session n becomes s, which is in order by itself and next to the other  *)
(* sessions; nothing is committed.                                         *)
(***************************************************************************)
LEMMA SetSession ==
  ASSUME TableInv, UNCHANGED <<env, docs, lost>>, NEW n \in Sessions,
         NEW s \in SessionType(docs), sess' = [sess EXCEPT ![n] = s],
         sess[n].phase # "committed", SessionOK(s, docs), Snapshot(s),
         \A m \in Sessions \ {n} : Apart(s, sess[m])
  PROVE  TableInv'
<1>1. sess' \in [Sessions -> SessionType(docs')]
  BY DEF TableInv
<1>2. sess'[n] = s /\ \A m \in Sessions \ {n} : sess'[m] = sess[m]
  BY DEF TableInv
<1>3. \A m \in Sessions : SessionOK(sess'[m], docs')
  BY <1>2 DEF TableInv
<1>4. \A m \in Sessions : Snapshot(sess[m])'
  BY <1>2 DEF TableInv, Snapshot
<1>5. \A m \in Sessions : \A k \in Sessions \ {m} : Apart(sess'[m], sess'[k])
  BY <1>2 DEF TableInv, Apart, Duplicate
<1>6. \A e \in docs' : \E m \in Sessions : sess'[m].phase = "committed" /\ sess'[m].row = e
  <2> SUFFICES ASSUME NEW e \in docs
               PROVE  \E m \in Sessions : sess'[m].phase = "committed" /\ sess'[m].row = e
    OBVIOUS
  <2>1. PICK m \in Sessions : sess[m].phase = "committed" /\ sess[m].row = e
    BY DEF TableInv
  <2>2. m # n
    BY <2>1
  <2> QED
    BY <1>2, <2>1, <2>2
<1> QED
  BY <1>1, <1>3, <1>4, <1>5, <1>6 DEF TableInv

\* A session that is not in use has the type of a session.
LEMMA NoSessionType ==
  /\ \A D : NoSession \in SessionType(D)
  /\ NoSession.phase = "none" /\ NoSession.snap = {}
<1>1. NoTail \in [id : Nat, hash : Hash]
  BY DEF NoTail, GenesisPrevHash, Hash
<1> QED
  BY <1>1 DEF SessionType, NoSession, Phases

(***************************************************************************)
(* A transaction is aborted or its callback fails, and a session ends.     *)
(***************************************************************************)
LEMMA StopSession ==
  ASSUME TableInv, UNCHANGED <<env, docs, lost>>, NEW n \in Sessions, sess[n].phase # "committed",
         NEW p \in {"aborted", "failed"}, sess' = [sess EXCEPT ![n] = [sess[n] EXCEPT !.phase = p]]
  PROVE  TableInv'
<1>1. PICK s : s = [sess[n] EXCEPT !.phase = p]
  OBVIOUS
<1>2. sess[n] \in SessionType(docs) /\ SessionOK(sess[n], docs)
  BY DEF TableInv
<1>3. s \in SessionType(docs) /\ s.phase = p /\ s.snap = sess[n].snap
  BY <1>1, <1>2 DEF SessionType, Phases
<1>4. SessionOK(s, docs) /\ Snapshot(s)
  BY <1>2, <1>3 DEF SessionOK, Snapshot, HasRead, HasRow
<1>5. \A m \in Sessions \ {n} : Apart(s, sess[m])
  BY <1>3 DEF Apart, HasRow
<1> QED
  BY <1>1, <1>3, <1>4, <1>5, SetSession

\* A session that ends without a commit can be used again.
LEMMA DropSession ==
  ASSUME TableInv, UNCHANGED <<env, docs, lost>>, NEW n \in Sessions, sess[n].phase # "committed",
         sess' = [sess EXCEPT ![n] = NoSession]
  PROVE  TableInv'
<1>1. PICK s : s = NoSession
  OBVIOUS
<1>2. s \in SessionType(docs) /\ s.phase = "none" /\ s.snap = {}
  BY <1>1, NoSessionType
<1>3. SessionOK(s, docs) /\ Snapshot(s)
  BY <1>2, EmptyLedger DEF SessionOK, Snapshot, HasRead, HasRow
<1>4. \A m \in Sessions \ {n} : Apart(s, sess[m])
  BY <1>2 DEF Apart, HasRow
<1> QED
  BY <1>1, <1>2, <1>3, <1>4, SetSession

(***************************************************************************)
(* An attempt begins with the chain-state document of its snapshot.        *)
(***************************************************************************)
LEMMA FindSession ==
  ASSUME TableInv, StateInv, UNCHANGED <<env, docs, lost>>, NEW n \in Sessions,
         sess[n].phase # "committed", NEW t \in Callers, event[t].chain \in Chains,
         NEW k \in Nat, sess' = [sess EXCEPT ![n] = Attempt(t, k)]
  PROVE  TableInv'
<1>0. PICK c \in Chains : c = event[t].chain
  OBVIOUS
<1>1. PICK s : s = [phase |-> "read", chain |-> c, snap |-> docs, tail |-> tails[c], row |-> NoRow,
                    call |-> k]
  OBVIOUS
<1>2. s \in SessionType(docs) /\ s = Attempt(t, k)
  BY <1>0, <1>1 DEF SessionType, Phases, StateInv, Attempt
<1>3. SessionOK(s, docs) /\ Snapshot(s)
  BY <1>1 DEF SessionOK, Snapshot, HasRow, HasRead, TableInv, StateInv
<1>4. \A m \in Sessions \ {n} : Apart(s, sess[m])
  BY <1>1 DEF Apart, HasRow
<1> QED
  BY <1>1, <1>2, <1>3, <1>4, SetSession

(***************************************************************************)
(* InsertOne at a position that is free in the collection and that no      *)
(* other transaction has taken.                                            *)
(***************************************************************************)
LEMMA InsertSession ==
  ASSUME TableInv, UNCHANGED <<env, docs, lost>>, NEW n \in Sessions, sess[n].phase = "read",
         NEW z \in Contents, NEW e,
         e = NewEntry(sess[n].chain, sess[n].tail.id + 1, z, sess[n].tail.hash),
         \A m \in Sessions \ {n} : sess[m].phase \in HasRow => ~Duplicate(e, sess[m].row),
         \A f \in docs : ~Duplicate(e, f),
         sess' = [sess EXCEPT ![n] = [sess[n] EXCEPT !.phase = "inserted", !.row = e]]
  PROVE  TableInv'
<1>1. PICK s : s = [sess[n] EXCEPT !.phase = "inserted", !.row = e]
  OBVIOUS
<1>2. /\ sess[n] \in SessionType(docs) /\ SessionOK(sess[n], docs)
      /\ sess[n].chain \in Chains
  BY DEF TableInv, SessionOK, HasRead
<1>3. sess[n].tail.id + 1 \in Nat /\ sess[n].tail.hash \in Hash
  BY <1>2 DEF SessionType
<1>4. e \in Entry /\ e.content = z
  BY <1>2, <1>3, NewEntryType DEF NewEntry
<1>5. /\ s \in SessionType(docs) /\ s.phase = "inserted" /\ s.chain = sess[n].chain
      /\ s.snap = sess[n].snap /\ s.tail = sess[n].tail /\ s.row = e
  BY <1>1, <1>2, <1>4 DEF SessionType, Phases
<1>6. SessionOK(s, docs) /\ Snapshot(s)
  BY <1>2, <1>4, <1>5 DEF SessionOK, Snapshot, HasRead, HasRow
<1>7. \A m \in Sessions \ {n} : Apart(s, sess[m])
  BY <1>5 DEF Apart
<1> QED
  BY <1>1, <1>5, <1>6, <1>7, SetSession

(***************************************************************************)
(* ReplaceOne succeeds and the commit is sent.                             *)
(***************************************************************************)
LEMMA CommitSession ==
  ASSUME TableInv, UNCHANGED <<env, docs, lost>>, NEW n \in Sessions, sess[n].phase = "inserted",
         sess' = [sess EXCEPT ![n] = [sess[n] EXCEPT !.phase = "commit"]]
  PROVE  TableInv'
<1>1. PICK s : s = [sess[n] EXCEPT !.phase = "commit"]
  OBVIOUS
<1>2. sess[n] \in SessionType(docs) /\ SessionOK(sess[n], docs)
  BY DEF TableInv
<1>3. /\ s \in SessionType(docs) /\ s.phase = "commit" /\ s.chain = sess[n].chain
      /\ s.snap = sess[n].snap /\ s.tail = sess[n].tail /\ s.row = sess[n].row
  BY <1>1, <1>2 DEF SessionType, Phases
<1>4. SessionOK(s, docs) /\ Snapshot(s)
  BY <1>2, <1>3 DEF SessionOK, Snapshot, HasRead, HasRow
<1>5. \A m \in Sessions \ {n} : Apart(s, sess[m])
  BY <1>3 DEF TableInv, Apart, HasRow
<1> QED
  BY <1>1, <1>3, <1>4, <1>5, SetSession

(***************************************************************************)
(* A commit is applied.  The position of its document is free, so the tail *)
(* it sits on is the tail of the chain, whatever the chain-state document  *)
(* says by now.                                                            *)
(***************************************************************************)
LEMMA ApplySession ==
  ASSUME TableInv, StateInv, NEW n \in Sessions, CommitApplied(n)
  PROVE  /\ TableInv' /\ StateInv'
         /\ sess[n].row \in Entry /\ sess[n].row \notin docs
         /\ sess[n].row.chain \in Chains
         /\ sess[n].row.id = LastEntry(docs, sess[n].row.chain).id + 1
         /\ Key(sess[n].row) \notin DocKeys
         /\ \A c \in Chains : LastEntry(docs', c).id =
              IF c = sess[n].row.chain THEN LastEntry(docs, c).id + 1 ELSE LastEntry(docs, c).id
<1>1. PICK e : e = sess[n].row
  OBVIOUS
<1>2. PICK c : c = sess[n].chain
  OBVIOUS
<1>3. PICK D : D = docs \cup {e}
  OBVIOUS
<1>4. PICK s : s = [sess[n] EXCEPT !.phase = "committed", !.snap = {}, !.tail = NoTail]
  OBVIOUS
<1>5. /\ sess' = [sess EXCEPT ![n] = s] /\ docs' = D /\ env' = env /\ lost' = lost
      /\ tails' = [tails EXCEPT ![c] = [id |-> e.id, hash |-> e.hash]]
      /\ sess[n].phase = "commit"
  BY <1>1, <1>2, <1>3, <1>4 DEF CommitApplied, handle, TableInv
<1>6. /\ sess[n] \in SessionType(docs) /\ c \in Chains /\ e \in Entry
      /\ OldTail(docs, c, sess[n].tail)
      /\ e = NewEntry(c, sess[n].tail.id + 1, e.content, sess[n].tail.hash)
      /\ \A f \in docs : ~Duplicate(e, f)
  BY <1>1, <1>2, <1>5 DEF TableInv, SessionOK, HasRead, HasRow
<1>7. e.chain = c /\ e.id = sess[n].tail.id + 1 /\ e.content \in Contents
  BY <1>6 DEF NewEntry, Entry
<1>8. docs \in SUBSET Entry /\ \A d \in Chains : Ledger(docs, d)
  BY DEF TableInv
<1>9. sess[n].tail = LastEntry(docs, c)
  <2>1. \A f \in OfChain(docs, c) : f.id # sess[n].tail.id + 1
    BY <1>6, <1>7 DEF Duplicate, OfChain
  <2> QED
    BY <1>6, <1>8, <2>1, FreshMeansCurrent
<1>10. Ledger(D, c) /\ LastEntry(D, c) = [id |-> e.id, hash |-> e.hash]
  BY <1>3, <1>6, <1>7, <1>8, <1>9, AppendKeepsLedger
<1>11. \A d \in Chains \ {c} : Ledger(D, d) /\ LastEntry(D, d) = LastEntry(docs, d)
  BY <1>3, <1>7, <1>8, OtherChain
<1>12. D \subseteq Entry /\ \A d \in Chains : Ledger(D, d)
  BY <1>3, <1>6, <1>8, <1>10, <1>11
<1>13. e \notin docs
  BY <1>6 DEF Duplicate
<1>14. s \in SessionType(D) /\ s.phase = "committed" /\ s.row = e /\ s.snap = {}
  <2>1. NoTail \in [id : Nat, hash : Hash]
    BY DEF NoTail, GenesisPrevHash, Hash
  <2> QED
    BY <1>1, <1>4, <1>6, <2>1 DEF SessionType, Phases
<1>15. /\ sess'[n] = s
       /\ \A m \in Sessions \ {n} : sess'[m] = sess[m] /\ sess[m] \in SessionType(docs)
  BY <1>5 DEF TableInv
<1>16. sess' \in [Sessions -> SessionType(D)]
  <2>1. SessionType(docs) \subseteq SessionType(D)
    BY <1>3 DEF SessionType
  <2> QED
    BY <1>5, <1>14, <2>1 DEF TableInv
<1>17. SessionOK(s, D) /\ Snapshot(s)
  BY <1>3, <1>14, EmptyLedger DEF SessionOK, Snapshot, HasRead, HasRow
<1>18. ASSUME NEW m \in Sessions \ {n}
       PROVE  SessionOK(sess[m], D) /\ Snapshot(sess[m]) /\ Apart(s, sess[m]) /\ Apart(sess[m], s)
  <2>1. PICK z : z = sess[m]
    OBVIOUS
  <2>2. SessionOK(z, docs) /\ Snapshot(z) /\ Apart(z, sess[n])
    BY <2>1 DEF TableInv
  <2>3. z.phase \in HasRow => ~Duplicate(z.row, e)
    BY <1>1, <1>5, <2>2 DEF Apart, HasRow
  <2>4. z.phase \in HasRead => OldTail(D, z.chain, z.tail)
    BY <1>3, <2>2, OldTailGrows DEF SessionOK
  <2>5. SessionOK(z, D)
    BY <1>3, <2>2, <2>3, <2>4 DEF SessionOK
  <2>6. z.phase = "committed" => z.row # e
    BY <1>13, <2>2 DEF SessionOK
  <2>7. Apart(s, z) /\ Apart(z, s)
    BY <1>14, <2>6 DEF Apart, HasRow
  <2> QED
    BY <2>1, <2>2, <2>5, <2>7
<1>19. \A m \in Sessions : SessionOK(sess'[m], docs') /\ Snapshot(sess[m])'
  BY <1>5, <1>15, <1>17, <1>18 DEF Snapshot
<1>20. \A m \in Sessions : \A k \in Sessions \ {m} : Apart(sess'[m], sess'[k])
  <2> SUFFICES ASSUME NEW m \in Sessions, NEW k \in Sessions \ {m}
               PROVE  Apart(sess'[m], sess'[k])
    OBVIOUS
  <2>1. CASE m = n
    BY <1>15, <1>18, <2>1
  <2>2. CASE k = n
    BY <1>15, <1>18, <2>2
  <2>3. CASE m # n /\ k # n
    BY <1>15, <2>3 DEF TableInv
  <2> QED
    BY <2>1, <2>2, <2>3
<1>21. \A f \in D : \E m \in Sessions : sess'[m].phase = "committed" /\ sess'[m].row = f
  <2>1. ASSUME NEW f \in docs
        PROVE  \E m \in Sessions : sess'[m].phase = "committed" /\ sess'[m].row = f
    <3>1. PICK m \in Sessions : sess[m].phase = "committed" /\ sess[m].row = f
      BY DEF TableInv
    <3> QED
      BY <1>5, <1>15, <3>1
  <2> QED
    BY <1>3, <1>14, <1>15, <2>1
<1>22. TableInv'
  BY <1>5, <1>12, <1>16, <1>19, <1>20, <1>21 DEF TableInv
<1>23. StateInv'
  <2>1. tails' \in [Chains -> [id : Nat, hash : Hash]]
    BY <1>5, <1>6 DEF StateInv, Entry
  <2>2. tails'[c] = LastEntry(D, c) /\ \A d \in Chains \ {c} : tails'[d] = tails[d]
    BY <1>5, <1>6, <1>10 DEF StateInv
  <2>3. OldTail(D, c, tails'[c])
    BY <1>3, <1>7, <1>10, <2>2 DEF OldTail, OfChain
  <2>4. \A d \in Chains \ {c} : OldTail(D, d, tails'[d])
    BY <1>3, <2>2, OldTailGrows DEF StateInv
  <2> QED
    BY <1>5, <1>11, <2>1, <2>2, <2>3, <2>4 DEF StateInv
<1>24. Key(e) \notin DocKeys
  BY <1>6 DEF DocKeys, Key, Duplicate
<1>25. \A d \in Chains : LastEntry(docs', d).id =
         IF d = c THEN LastEntry(docs, d).id + 1 ELSE LastEntry(docs, d).id
  BY <1>5, <1>7, <1>9, <1>10, <1>11
<1> QED
  BY <1>1, <1>6, <1>7, <1>9, <1>13, <1>22, <1>23, <1>24, <1>25

-----------------------------------------------------------------------------
(***************************************************************************)
(* The inductive invariant: first what most steps have in common.          *)
(***************************************************************************)

\* The steps of MongoLog are its own.
LEMMA MongoStepNames == MongoSteps \cap CallSteps = {}
  BY DEF MongoSteps, CallSteps

\* The invariant holds initially.
LEMMA InitInv == Init => Inv
<1> SUFFICES ASSUME Init PROVE Inv
  OBVIOUS
<1>1. DocKeys = {}
  BY DEF Init, DocKeys
<1>2. CallsInv(MongoSteps, DocKeys)
  BY <1>1, CallsInitInv, MongoStepNames DEF Init
<1>3. /\ sess = [n \in Sessions |-> NoSession] /\ \A n \in Sessions : sess[n].phase = "none"
      /\ \A n \in Sessions : sess[n].snap = {}
  BY NoSessionType DEF Init
<1>4. TableInv
  <2>1. sess \in [Sessions -> SessionType(docs)]
    BY <1>3, NoSessionType
  <2>2. \A n \in Sessions : SessionOK(sess[n], docs) /\ Snapshot(sess[n])
    BY <1>3, EmptyLedger DEF SessionOK, Snapshot, HasRead, HasRow
  <2>3. \A n \in Sessions : \A m \in Sessions \ {n} : Apart(sess[n], sess[m])
    BY <1>3 DEF Apart, HasRow
  <2>4. docs = {} /\ env \in Environments /\ \A c \in Chains : Ledger(docs, c)
    BY EmptyLedger DEF Init
  <2> QED
    BY <2>1, <2>2, <2>3, <2>4 DEF TableInv
<1>5. StateInv
  <2>1. NoTail \in [id : Nat, hash : Hash]
    BY DEF NoTail, GenesisPrevHash, Hash
  <2>2. \A c \in Chains : tails[c] = NoTail /\ LastEntry(docs, c) = NoTail
    BY EmptyLedger DEF Init
  <2> QED
    BY <2>1, <2>2 DEF Init, StateInv, OldTail
<1>6. Attached /\ Assigned /\ Secret
  BY <1>3 DEF Init, CallsInit, Attached, Assigned, Secret
<1>7. Budget
  <2>1. Used = {} /\ Waiting = {}
    BY <1>3 DEF Used, Waiting, Init, CallsInit
  <2>2. IsFiniteSet({}) /\ Cardinality({}) = 0 /\ calls = 0
    BY FS_EmptySet DEF Init, CallsInit
  <2> QED
    BY <2>1, <2>2 DEF Budget, Within
<1>8. HandleInv /\ OnePerCall
  BY <1>3 DEF Init, HandleInv, OnePerCall, Lives
<1>9. HealthyInv
  BY <1>3 DEF Init, CallsInit, HealthyInv, NoResult, Result
<1> QED
  BY <1>2, <1>4, <1>5, <1>6, <1>7, <1>8, <1>9 DEF Inv

(***************************************************************************)
(* No commit becomes known to its caller or gets a caller.                 *)
(***************************************************************************)
LEMMA SecretsKept ==
  ASSUME Inv, KeepsSecrets,
         \A u \in Callers :
           pc'[u] = "tx" /\ sess'[conn'[u]].phase = "committed" =>
             /\ pc[u] = "tx" /\ sess[conn[u]].phase = "committed"
             /\ sess'[conn'[u]].row = sess[conn[u]].row
  PROVE  Secret'
<1> SUFFICES ASSUME NEW u \in Callers, pc'[u] = "tx", sess'[conn'[u]].phase = "committed"
             PROVE  Unseen(Key(sess[conn[u]].row))'
  BY DEF Secret
<1>1. PICK k : k = Key(sess[conn[u]].row)
  OBVIOUS
<1>2. pc[u] = "tx" /\ sess[conn[u]].phase = "committed" /\ conn[u] \in Sessions
  BY DEF Inv, Attached
<1>3. k \in Keys /\ Unseen(k)
  BY <1>1, <1>2, KeyOfEntry DEF Inv, Secret, TableInv, SessionOK
<1>4. Unseen(k)' /\ k = Key(sess'[conn'[u]].row)
  BY <1>1, <1>3 DEF KeepsSecrets
<1> QED
  BY <1>4 DEF Unseen, InProgress, Publishing

\* No call begins and no session starts.
LEMMA BudgetKept ==
  ASSUME Inv, Used' \subseteq Used, Waiting' \subseteq Waiting, calls' = calls
  PROVE  Budget'
<1>1. calls \in Nat
  BY CallsConstants DEF Inv, CallsInv, Typed, CallsTypeOK
<1>2. PICK A, B, A2, B2 : A = Used /\ B = Waiting /\ A2 = Used' /\ B2 = Waiting'
  OBVIOUS
<1>3. Within(A2, B2, calls)
  BY <1>1, <1>2, WithinShrinks DEF Inv, Budget
<1> QED
  BY <1>2, <1>3 DEF Budget

\* An attempt of the same call, or none.
KeepsCall(s, z) == z.phase = "none" \/ (s.phase # "none" /\ z.call = s.call)

\* No call begins its first attempt.
LEMMA OnePerCallKept ==
  ASSUME Inv, opened' = opened, \A m \in Sessions : KeepsCall(sess[m], sess'[m])
  PROVE  OnePerCall'
  BY DEF Inv, OnePerCall, KeepsCall

-----------------------------------------------------------------------------
(***************************************************************************)
(* One lemma per kind of step.                                             *)
(***************************************************************************)

(***************************************************************************)
(* A step that calls and sessions take no part in: of the constructor, of  *)
(* Close, or the loss of a chain-state document.                           *)
(***************************************************************************)
LEMMA HandleStep ==
  ASSUME Inv, UNCHANGED <<pc, event, rec, outer, read, bus, acked, calls, env, opened, docs, sess, conn>>,
         closed' \in BOOLEAN, DOMAIN ret' = Callers, HandleInv', StateInv', lost \subseteq lost',
         Healthy /\ client' # "disconnected" =>
           \A t \in Callers : "ErrBackendUnavailable" \notin ret'[t].err
  PROVE  Inv'
<1>1. PICK S : S = DocKeys
  OBVIOUS
<1>2. CallsInv(MongoSteps, S)' /\ KeepsSecrets
  BY <1>1, StillKeeps DEF Inv, CallsInv, Owned
<1>3. CallsInv(MongoSteps, DocKeys)'
  BY <1>1, <1>2 DEF CallsInv, Owned, Delivered, DocKeys
<1>4. TableInv'
  BY DEF Inv, TableInv, Snapshot
<1>5. Attached' /\ Assigned'
  BY DEF Inv, Attached, Assigned
<1>6. Secret'
  BY <1>2, SecretsKept
<1>7. Budget'
  BY BudgetKept DEF Used, Waiting
<1>8. HealthyInv' /\ OnePerCall'
  BY DEF Inv, HealthyInv, Healthy, OnePerCall
<1> QED
  BY <1>3, <1>4, <1>5, <1>6, <1>7, <1>8 DEF Inv

(***************************************************************************)
(* A step of a call outside its transaction.                               *)
(***************************************************************************)
LEMMA CallStep ==
  ASSUME Inv, NEW t \in Callers, NEW S, S = DocKeys,
         CallsInv(MongoSteps, S)', KeepsSecrets, UNCHANGED <<handle, server, conn>>,
         pc[t] # "tx", pc'[t] # "tx",
         \A u \in Callers \ {t} : pc'[u] = pc[u] /\ rec'[u] = rec[u],
         \/ pc'[t] # "begin" /\ calls' = calls
         \/ calls' = calls + 1,
         Healthy /\ client # "disconnected" =>
           \A u \in Callers : ret'[u] = ret[u] \/ "ErrBackendUnavailable" \notin ret'[u].err
  PROVE  Inv'
<1>1. CallsInv(MongoSteps, DocKeys)'
  BY DEF CallsInv, Owned, Delivered, DocKeys, server
<1>2. TableInv' /\ StateInv'
  BY DEF Inv, TableInv, StateInv, Snapshot, server, handle
<1>3. Attached' /\ Assigned'
  BY DEF Inv, Attached, Assigned, server
<1>4. Secret'
  BY SecretsKept DEF server
<1>5. Budget'
  <2>1. calls \in Nat /\ Used' = Used
    BY CallsConstants DEF Inv, CallsInv, Typed, CallsTypeOK, Used, server
  <2>2. CASE pc'[t] # "begin" /\ calls' = calls
    <3>1. Waiting' \subseteq Waiting
      BY <2>2 DEF Waiting
    <3> QED
      BY <2>1, <2>2, <3>1, BudgetKept
  <2>3. CASE calls' = calls + 1
    <3>1. Waiting' \subseteq Waiting \cup {t}
      BY DEF Waiting
    <3>2. PICK A, B, B2, k : A = Used /\ B = Waiting /\ B2 = Waiting' /\ k = calls
      OBVIOUS
    <3>3. Within(A, B2, k + 1)
      BY <2>1, <3>1, <3>2, WithinBegins DEF Inv, Budget
    <3> QED
      BY <2>1, <2>3, <3>2, <3>3 DEF Budget
  <2> QED
    BY <2>2, <2>3
<1>6. HandleInv' /\ OnePerCall'
  BY DEF Inv, HandleInv, OnePerCall, handle, server
<1>7. HealthyInv'
  BY DEF Inv, HealthyInv, Healthy, handle, server
<1> QED
  BY <1>1, <1>2, <1>3, <1>4, <1>5, <1>6, <1>7 DEF Inv

(***************************************************************************)
(* A step of a transaction short of its commit, which no caller notices.   *)
(***************************************************************************)
LEMMA SessionStep ==
  ASSUME Inv, NEW n \in Sessions, Quiet, TableInv',
         \A m \in Sessions \ {n} : sess'[m] = sess[m],
         sess[n].phase # "none", sess'[n].phase \notin {"commit", "committed"},
         sess'[n].phase # "none" \/ Orphan(n),
         sess'[n].phase = "none" \/ sess'[n].call = sess[n].call,
         Healthy => sess'[n].phase # "failed"
  PROVE  Inv'
<1>1. PICK S : S = DocKeys
  OBVIOUS
<1>2. CallsInv(MongoSteps, S)' /\ KeepsSecrets
  BY <1>1, StillKeeps DEF Inv, CallsInv, Owned, Typed, CallsTypeOK, Quiet, callVars
<1>3. CallsInv(MongoSteps, DocKeys)'
  BY <1>1, <1>2 DEF CallsInv, Owned, Delivered, DocKeys, Quiet
<1>4. StateInv'
  BY DEF Inv, StateInv, Quiet
<1>5. Attached'
  BY DEF Inv, Attached, Quiet, callVars, Orphan
<1>6. \A u \in Callers :
        pc'[u] = "tx" /\ sess'[conn'[u]].phase \in {"commit", "committed"} =>
          /\ pc[u] = "tx" /\ conn'[u] = conn[u] /\ sess'[conn[u]] = sess[conn[u]] /\ rec'[u] = rec[u]
  BY DEF Inv, Attached, Quiet, callVars
<1>7. Assigned'
  BY <1>6 DEF Inv, Assigned
<1>8. Secret'
  BY <1>2, <1>6, SecretsKept
<1>9. Budget'
  BY BudgetKept DEF Used, Waiting, Quiet, callVars
<1>10. HandleInv' /\ OnePerCall'
  <2>1. opened' = opened /\ HandleInv'
    BY DEF Inv, HandleInv, Quiet, handle
  <2>2. \A m \in Sessions : KeepsCall(sess[m], sess'[m])
    BY DEF KeepsCall
  <2> QED
    BY <2>1, <2>2, OnePerCallKept
<1>11. HealthyInv'
  BY DEF Inv, HealthyInv, Healthy, Quiet, handle, callVars
<1> QED
  BY <1>3, <1>4, <1>5, <1>7, <1>8, <1>9, <1>10, <1>11 DEF Inv

(***************************************************************************)
(* ReplaceOne and the assignment to recorded.                              *)
(***************************************************************************)
LEMMA ReplaceStep ==
  ASSUME Inv, NEW t \in Callers, ReplaceOne(t)
  PROVE  Inv'
<1>1. PICK n : n = conn[t]
  OBVIOUS
<1>2. PICK k : k = Key(sess[n].row)
  OBVIOUS
<1>3. PICK ok \in BOOLEAN : ok = ~TailConflict(n)
  OBVIOUS
<1>4. /\ pc[t] = "tx" /\ sess[n].phase = "inserted" /\ Goto(t, "tx")
      /\ UNCHANGED <<handle, docs, tails, lost, conn>>
      /\ sess' = [sess EXCEPT ![n].phase = IF ok THEN "commit" ELSE "aborted"]
      /\ rec' = [rec EXCEPT ![t] = IF ok THEN k ELSE @]
  BY <1>1, <1>2, <1>3 DEF ReplaceOne, Statement, InTx
<1>5. n \in Sessions /\ n # 0 /\ sess[n] \in SessionType(docs) /\ sess[n].row \in Entry
  BY <1>1, <1>4, CallsConstants DEF Inv, Attached, TableInv, SessionOK, HasRow, Sessions
<1>6. k \in Keys
  BY <1>2, <1>5, KeyOfEntry
<1>7. rec \in [Callers -> Keys \cup {NoKey}] /\ DOMAIN pc = Callers
  BY DEF Inv, CallsInv, Typed, CallsTypeOK
<1>8. PICK S : S = DocKeys
  OBVIOUS
<1>9. CallsInv(MongoSteps, S)' /\ KeepsSecrets
  <2>1. "tx" \in MongoSteps \cup {"begin"} /\ pc[t] \in MongoSteps \cup {"begin"}
    BY <1>4 DEF MongoSteps
  <2>2. rec' = rec \/ rec' = [rec EXCEPT ![t] = k]
    BY <1>4, <1>7
  <2> QED
    BY <1>4, <1>6, <1>8, <2>1, <2>2, TxKeeps, MongoStepNames DEF Inv
<1>10. CallsInv(MongoSteps, DocKeys)'
  BY <1>4, <1>8, <1>9 DEF CallsInv, Owned, Delivered, DocKeys
<1>11. \/ ok /\ sess' = [sess EXCEPT ![n] = [sess[n] EXCEPT !.phase = "commit"]]
       \/ ~ok /\ sess' = [sess EXCEPT ![n] = [sess[n] EXCEPT !.phase = "aborted"]]
  BY <1>4, <1>5 DEF Inv, TableInv
<1>12. TableInv'
  <2>1. TableInv /\ UNCHANGED <<env, docs, lost>>
    BY <1>4 DEF Inv, handle
  <2> QED
    BY <1>4, <1>5, <1>11, <2>1, CommitSession, StopSession
<1>13. StateInv'
  BY <1>4 DEF Inv, StateInv
<1>14. pc' = pc /\ conn' = conn
  BY <1>4 DEF Goto, Inv, CallsInv, Typed, CallsTypeOK
<1>15. /\ sess'[n].phase = IF ok THEN "commit" ELSE "aborted"
       /\ sess'[n].row = sess[n].row /\ sess'[n].call = sess[n].call
       /\ \A m \in Sessions \ {n} : sess'[m] = sess[m]
  BY <1>5, <1>11 DEF Inv, TableInv, SessionType
<1>16. ok => rec'[t] = k
  BY <1>4, <1>7
<1>17. \A u \in Callers \ {t} : rec'[u] = rec[u] /\ (pc[u] = "tx" => conn[u] \in Sessions \ {n})
  BY <1>1, <1>4, <1>5 DEF Inv, Attached
<1>18. Attached'
  BY <1>5, <1>14, <1>15 DEF Inv, Attached
<1>19. Assigned'
  <2> SUFFICES ASSUME NEW u \in Callers, pc[u] = "tx", sess'[conn[u]].phase \in {"commit", "committed"}
               PROVE  rec'[u] = Key(sess'[conn[u]].row)
    BY <1>14 DEF Assigned
  <2>1. CASE u = t
    BY <1>1, <1>2, <1>15, <1>16, <2>1
  <2>2. CASE u # t
    BY <1>15, <1>17, <2>2 DEF Inv, Assigned
  <2> QED
    BY <2>1, <2>2
<1>20. Secret'
  <2>1. \A u \in Callers :
          pc'[u] = "tx" /\ sess'[conn'[u]].phase = "committed" =>
            pc[u] = "tx" /\ sess'[conn'[u]] = sess[conn[u]]
    BY <1>1, <1>14, <1>15, <1>17
  <2> QED
    BY <1>9, <2>1, SecretsKept
<1>21. Budget'
  <2>1. Used' \subseteq Used /\ Waiting' = Waiting /\ calls' = calls
    BY <1>4, <1>14, <1>15 DEF Used, Waiting, Goto
  <2> QED
    BY <2>1, BudgetKept
<1>22. HandleInv' /\ OnePerCall'
  <2>1. opened' = opened /\ HandleInv'
    BY <1>4 DEF Inv, HandleInv, handle
  <2>2. \A m \in Sessions : KeepsCall(sess[m], sess'[m])
    BY <1>4, <1>15 DEF KeepsCall
  <2> QED
    BY <2>1, <2>2, OnePerCallKept
<1>23. HealthyInv'
  BY <1>4, <1>15 DEF Inv, HealthyInv, Healthy, handle, Goto
<1> QED
  BY <1>10, <1>12, <1>13, <1>18, <1>19, <1>20, <1>21, <1>22, <1>23 DEF Inv

(***************************************************************************)
(* WithTransaction returns an error; the session ends, unless it may still *)
(* have a commit to apply.                                                 *)
(***************************************************************************)
LEMMA LeaveStep ==
  ASSUME Inv, NEW t \in Callers, pc[t] = "tx",
         RecordFails(t, {"ErrBackendUnavailable"}),
         conn' = [conn EXCEPT ![t] = 0], UNCHANGED <<handle, docs, tails, lost>>,
         Healthy => client = "disconnected",
         \/ sess' = sess
         \/ sess[conn[t]].phase # "committed" /\ sess' = [sess EXCEPT ![conn[t]] = NoSession]
  PROVE  Inv'
<1>1. PICK S : S = DocKeys
  OBVIOUS
<1>2. CallsInv(MongoSteps, S)' /\ KeepsSecrets
  BY <1>1, FailsKeeps, MongoStepNames DEF Inv
<1>3. CallsInv(MongoSteps, DocKeys)'
  BY <1>1, <1>2 DEF CallsInv, Owned, Delivered, DocKeys
<1>4. PICK n : n = conn[t]
  OBVIOUS
<1>5. /\ n \in Sessions /\ n # 0
      /\ \A u \in Callers \ {t} : conn[u] # n
      /\ conn'[t] = 0 /\ \A u \in Callers \ {t} : conn'[u] = conn[u]
  BY <1>4 DEF Inv, Attached
<1>6. /\ pc'[t] \notin {"tx", "begin"} /\ calls' = calls
      /\ \A u \in Callers \ {t} : pc'[u] = pc[u] /\ rec'[u] = rec[u]
  BY DEF RecordFails, Resume, Inv, CallsInv, Typed, CallsTypeOK
<1>7. TableInv'
  <2>1. CASE sess' = sess
    BY <2>1 DEF Inv, TableInv, Snapshot, handle
  <2>2. CASE sess[n].phase # "committed" /\ sess' = [sess EXCEPT ![n] = NoSession]
    BY <1>5, <2>2, DropSession DEF Inv, handle
  <2> QED
    BY <1>4, <2>1, <2>2
<1>8. \A m \in Sessions : sess'[m] = sess[m] \/ (m = n /\ sess'[m].phase = "none")
  BY <1>4, <1>5, NoSessionType DEF Inv, TableInv
<1>9. StateInv' /\ HandleInv'
  BY DEF Inv, StateInv, HandleInv, handle
<1>10. Attached'
  <2>1. conn' \in [Callers -> Sessions \cup {0}]
    BY DEF Inv, Attached
  <2> QED
    BY <1>5, <1>6, <1>8, <2>1 DEF Inv, Attached
<1>11. ASSUME NEW u \in Callers, pc'[u] = "tx"
       PROVE  /\ pc[u] = "tx" /\ conn'[u] = conn[u] /\ rec'[u] = rec[u]
              /\ sess'[conn[u]] = sess[conn[u]]
  <2>1. u # t /\ pc[u] = "tx" /\ conn[u] \in Sessions \ {n}
    BY <1>5, <1>6, <1>11 DEF Inv, Attached
  <2> QED
    BY <1>5, <1>6, <1>8, <2>1
<1>12. Assigned'
  BY <1>11 DEF Inv, Assigned
<1>13. Secret'
  BY <1>2, <1>11, SecretsKept
<1>14. Budget'
  <2>1. Used' \subseteq Used /\ Waiting' \subseteq Waiting
    BY <1>6, <1>8 DEF Used, Waiting
  <2> QED
    BY <1>6, <2>1, BudgetKept
<1>15. HealthyInv' /\ OnePerCall'
  <2>1. opened' = opened /\ HealthyInv'
    BY <1>8 DEF Inv, HealthyInv, Healthy, handle
  <2>2. \A m \in Sessions : KeepsCall(sess[m], sess'[m])
    BY <1>8 DEF KeepsCall
  <2> QED
    BY <2>1, <2>2, OnePerCallKept
<1> QED
  BY <1>3, <1>7, <1>9, <1>10, <1>12, <1>13, <1>14, <1>15 DEF Inv

(***************************************************************************)
(* WithTransaction starts again: another attempt of the same call, in the  *)
(* place of the one that was aborted.                                      *)
(***************************************************************************)
LEMMA RetryStep ==
  ASSUME Inv, NEW t \in Callers, Retry(t)
  PROVE  Inv'
<1>1. PICK n : n = conn[t]
  OBVIOUS
<1>2. /\ pc[t] = "tx" /\ sess[n].phase = "aborted" /\ Quiet /\ n \in Sessions
      /\ event[t].chain \in Chains
  BY <1>1 DEF Retry, Statement, InTx, Inv, Attached, CallsInv, Typed, MongoSteps, Events
<1>3. PICK k \in Nat : k = sess[n].call
  BY <1>2 DEF Inv, TableInv, SessionType
<1>4. PICK s : s = Attempt(t, k)
  OBVIOUS
<1>5. sess' = [sess EXCEPT ![n] = s] /\ sess' = [sess EXCEPT ![n] = Attempt(t, k)]
  BY <1>1, <1>2, <1>3, <1>4 DEF Retry, Inv, TableInv
<1>6. TableInv'
  BY <1>2, <1>5, FindSession DEF Inv, Quiet, handle
<1>7. /\ sess'[n].phase = "read" /\ sess'[n].call = sess[n].call
      /\ \A m \in Sessions \ {n} : sess'[m] = sess[m]
  BY <1>2, <1>3, <1>4, <1>5 DEF Inv, TableInv, Attempt
<1> QED
  BY <1>2, <1>6, <1>7, SessionStep

(***************************************************************************)
(* StartSession and FindOne: there is a session left for the transaction.  *)
(***************************************************************************)
LEMMA FindStep ==
  ASSUME Inv, NEW t \in Callers, FindTail(t)
  PROVE  Inv'
<1>1. PICK n : n = FreeSession
  OBVIOUS
<1>2. calls \in Nat /\ MaxCalls \in Nat /\ calls <= MaxCalls
  BY CallsConstants DEF Inv, CallsInv, Typed, CallsTypeOK
<1>3. n \in Sessions /\ sess[n].phase = "none"
  <2>1. t \in Waiting
    BY DEF FindTail, Waiting
  <2>2. \E m \in 1..MaxCalls : m \notin Used
    BY <1>2, <2>1, WithinFree DEF Inv, Budget
  <2>3. \E m \in Sessions : sess[m].phase = "none"
    BY <2>2 DEF Used, Sessions
  <2> QED
    BY <1>1, <2>3 DEF FreeSession
<1>4. n # 0 /\ n \in Nat
  BY <1>2, <1>3 DEF Sessions
<1>5. opened \in Nat
  BY DEF Inv, OnePerCall
<1>6. event[t].chain \in Chains /\ opened + 1 \in Nat
  BY <1>5 DEF Inv, CallsInv, Typed, FindTail, Events
<1>7. /\ conn' = [conn EXCEPT ![t] = n]
      /\ sess' = [sess EXCEPT ![n] = Attempt(t, opened + 1)] /\ opened' = opened + 1
      /\ pc[t] = "begin" /\ Goto(t, "tx")
      /\ UNCHANGED <<rec, env, life, client, docs, tails, lost>>
  BY <1>1 DEF FindTail
<1>8. /\ sess'[n].phase = "read" /\ sess'[n].call = opened + 1
      /\ \A m \in Sessions \ {n} : sess'[m] = sess[m]
  BY <1>3, <1>7 DEF Inv, TableInv, Attempt
<1>9. PICK S : S = DocKeys
  OBVIOUS
<1>10. CallsInv(MongoSteps, S)' /\ KeepsSecrets
  <2>1. "tx" \in MongoSteps \cup {"begin"} /\ pc[t] \in MongoSteps \cup {"begin"}
    BY <1>7 DEF MongoSteps
  <2> QED
    BY <1>7, <1>9, <2>1, TxKeeps, MongoStepNames DEF Inv
<1>11. CallsInv(MongoSteps, DocKeys)'
  BY <1>7, <1>9, <1>10 DEF CallsInv, Owned, Delivered, DocKeys
<1>12. TableInv'
  <2>1. PICK k \in Nat : k = opened + 1
    BY <1>6
  <2>2. sess' = [sess EXCEPT ![n] = Attempt(t, k)] /\ UNCHANGED <<env, docs, lost>>
    BY <1>7, <2>1
  <2> QED
    BY <1>3, <1>6, <2>2, FindSession DEF Inv
<1>13. /\ pc'[t] = "tx" /\ conn'[t] = n /\ calls' = calls
       /\ \A u \in Callers \ {t} : pc'[u] = pc[u] /\ conn'[u] = conn[u]
       /\ \A u \in Callers : conn[u] # n
  BY <1>3, <1>4, <1>7 DEF Goto, Inv, CallsInv, Typed, CallsTypeOK, Attached
<1>14. Attached'
  <2>1. conn' \in [Callers -> Sessions \cup {0}]
    BY <1>3, <1>7 DEF Inv, Attached
  <2> QED
    BY <1>4, <1>8, <1>13, <2>1 DEF Inv, Attached
<1>15. ASSUME NEW u \in Callers, pc'[u] = "tx", sess'[conn'[u]].phase \in {"commit", "committed"}
       PROVE  /\ pc[u] = "tx" /\ conn'[u] = conn[u] /\ rec'[u] = rec[u]
              /\ sess'[conn[u]] = sess[conn[u]]
  <2>1. u # t /\ pc[u] = "tx" /\ conn[u] \in Sessions \ {n}
    BY <1>8, <1>13, <1>15 DEF Inv, Attached
  <2> QED
    BY <1>7, <1>8, <1>13, <2>1
<1>16. Assigned'
  BY <1>15 DEF Inv, Assigned
<1>17. Secret'
  BY <1>10, <1>15, SecretsKept
<1>18. Budget'
  <2>1. t \in Waiting /\ Used' \subseteq Used \cup {n} /\ Waiting' \subseteq Waiting \ {t}
    BY <1>7, <1>8, <1>13 DEF Used, Waiting
  <2>2. PICK A, B, A2, B2 : A = Used /\ B = Waiting /\ A2 = Used' /\ B2 = Waiting'
    OBVIOUS
  <2>3. Within(A2, B2, calls)
    BY <1>2, <2>1, <2>2, WithinMoves DEF Inv, Budget
  <2> QED
    BY <1>13, <2>2, <2>3 DEF Budget
<1>19. StateInv' /\ HandleInv'
  BY <1>7 DEF Inv, StateInv, HandleInv
<1>20. HealthyInv'
  BY <1>7, <1>8 DEF Inv, HealthyInv, Healthy, Goto
<1>21. OnePerCall'
  <2>1. \A m \in Sessions \ {n} : sess[m].phase # "none" => sess[m].call \in 1..opened
    BY DEF Inv, OnePerCall
  <2>2. \A m \in Sessions \ {n} :
          sess'[m].phase # "none" => sess'[m].call \in 1..opened' /\ sess'[m].call # opened + 1
    BY <1>5, <1>7, <1>8, <2>1
  <2>3. opened' \in Nat /\ sess'[n].call \in 1..opened'
    BY <1>5, <1>7, <1>8
  <2>4. \A m, k \in Sessions \ {n} :
          m # k /\ sess'[m].phase # "none" /\ sess'[k].phase # "none" =>
            sess'[m].call # sess'[k].call
    BY <1>8 DEF Inv, OnePerCall
  <2> QED
    BY <1>8, <2>2, <2>3, <2>4 DEF OnePerCall
<1> QED
  BY <1>11, <1>12, <1>14, <1>16, <1>17, <1>18, <1>19, <1>20, <1>21 DEF Inv

(***************************************************************************)
(* The server applies a commit: a document that nobody knows of yet.       *)
(***************************************************************************)
LEMMA ApplyStep ==
  ASSUME Inv, NEW n \in Sessions, CommitApplied(n)
  PROVE  Inv'
<1>1. PICK e : e = sess[n].row
  OBVIOUS
<1>2. TableInv' /\ StateInv' /\ e \in Entry /\ Key(e) \notin DocKeys
  BY <1>1, ApplySession DEF Inv
<1>3. /\ sess[n].phase = "commit" /\ docs' = docs \cup {e} /\ UNCHANGED <<callVars, handle, lost, conn>>
      /\ sess'[n].phase = "committed" /\ sess'[n].row = e /\ sess'[n].call = sess[n].call
      /\ \A m \in Sessions \ {n} : sess'[m] = sess[m]
  <2>1. sess \in [Sessions -> SessionType(docs)]
    BY DEF Inv, TableInv
  <2> QED
    BY <1>1, <2>1 DEF CommitApplied, SessionType
<1>4. PICK S, T : S = DocKeys /\ T = DocKeys'
  OBVIOUS
<1>5. T = S \cup {Key(e)} /\ T \subseteq Keys
  BY <1>2, <1>3, <1>4, KeyOfEntry DEF DocKeys, Inv, TableInv
<1>6. CallsInv(MongoSteps, T)'
  BY <1>3, <1>4, <1>5, StillKeeps DEF Inv, CallsInv, Typed, CallsTypeOK, callVars
<1>7. CallsInv(MongoSteps, DocKeys)'
  BY <1>4, <1>6 DEF CallsInv, Owned, Delivered
<1>8. Attached'
  BY <1>3 DEF Inv, Attached, callVars
<1>9. Assigned'
  <2> SUFFICES ASSUME NEW u \in Callers, pc[u] = "tx", sess'[conn[u]].phase \in {"commit", "committed"}
               PROVE  rec[u] = Key(sess'[conn[u]].row)
    BY <1>3 DEF Assigned, callVars
  <2>1. conn[u] \in Sessions
    BY DEF Inv, Attached
  <2> QED
    BY <1>1, <1>3, <2>1 DEF Inv, Assigned
<1>10. Unseen(Key(e))
  <2>1. Key(e) \in Keys \ S /\ CallsInv(MongoSteps, S)
    BY <1>2, <1>4, KeyOfEntry DEF Inv
  <2> QED
    BY <2>1, NotStoredUnseen
<1>11. Secret'
  <2> SUFFICES ASSUME NEW u \in Callers, pc[u] = "tx", sess'[conn[u]].phase = "committed"
               PROVE  Unseen(Key(sess'[conn[u]].row))
    BY <1>3 DEF Secret, callVars, Unseen, InProgress, Publishing
  <2>1. conn[u] \in Sessions
    BY DEF Inv, Attached
  <2>2. CASE conn[u] = n
    BY <1>3, <1>10, <2>2
  <2>3. CASE conn[u] # n
    BY <1>3, <2>1, <2>3 DEF Inv, Secret
  <2> QED
    BY <2>2, <2>3
<1>12. Budget'
  <2>1. Used' = Used /\ Waiting' = Waiting /\ calls' = calls
    BY <1>3 DEF Used, Waiting, callVars
  <2> QED
    BY <2>1 DEF Inv, Budget
<1>13. HandleInv' /\ OnePerCall'
  <2>1. opened' = opened /\ HandleInv'
    BY <1>3 DEF Inv, HandleInv, handle
  <2>2. \A m \in Sessions : KeepsCall(sess[m], sess'[m])
    BY <1>3 DEF KeepsCall
  <2> QED
    BY <2>1, <2>2, OnePerCallKept
<1>14. HealthyInv'
  BY <1>3 DEF Inv, HealthyInv, Healthy, handle, callVars
<1> QED
  BY <1>2, <1>7, <1>8, <1>9, <1>11, <1>12, <1>13, <1>14 DEF Inv

(***************************************************************************)
(* WithTransaction returns nil: recorded is the document that was          *)
(* committed.                                                              *)
(***************************************************************************)
LEMMA ReplyStep ==
  ASSUME Inv, NEW t \in Callers, CommitReply(t)
  PROVE  Inv'
<1>1. PICK n : n = conn[t]
  OBVIOUS
<1>2. PICK k : k = Key(sess[n].row)
  OBVIOUS
<1>3. /\ pc[t] = "tx" /\ sess[n].phase = "committed" /\ rec' = rec
      /\ conn' = [conn EXCEPT ![t] = 0]
      /\ Goto(t, "publish") /\ UNCHANGED <<handle, server>>
  BY <1>1 DEF CommitReply, InTx
<1>4. /\ n \in Sessions /\ n # 0
      /\ conn'[t] = 0 /\ \A u \in Callers \ {t} : conn'[u] = conn[u] /\ conn[u] # n
  BY <1>1, <1>3 DEF Inv, Attached
<1>5. sess[n].row \in docs /\ Unseen(k) /\ k \in DocKeys /\ rec[t] = k
  BY <1>1, <1>2, <1>3, <1>4 DEF Inv, Secret, Assigned, TableInv, SessionOK, DocKeys
<1>6. rec' = [rec EXCEPT ![t] = k]
  BY <1>3, <1>5 DEF Inv, CallsInv, Typed, CallsTypeOK
<1>7. PICK S : S = DocKeys
  OBVIOUS
<1>8. CallsInv(MongoSteps, S)' /\ KeepsOtherSecrets(k)
  <2>1. pc[t] \in MongoSteps \cup {"begin"} /\ CallsInv(MongoSteps, S) /\ S \subseteq Keys /\ k \in S
    BY <1>3, <1>5, <1>7 DEF MongoSteps, Inv, CallsInv, Owned
  <2> QED
    BY <1>3, <1>5, <1>6, <2>1, StoredKeeps, MongoStepNames
<1>9. CallsInv(MongoSteps, DocKeys)'
  BY <1>3, <1>7, <1>8 DEF CallsInv, Owned, Delivered, DocKeys, server
<1>10. TableInv' /\ StateInv'
  BY <1>3 DEF Inv, TableInv, StateInv, Snapshot, server, handle
<1>11. pc'[t] = "publish" /\ \A u \in Callers \ {t} : pc'[u] = pc[u]
  BY <1>3 DEF Goto, Inv, CallsInv, Typed, CallsTypeOK
<1>12. Attached'
  <2>1. conn' \in [Callers -> Sessions \cup {0}]
    BY <1>3 DEF Inv, Attached
  <2> QED
    BY <1>3, <1>4, <1>11, <2>1 DEF Inv, Attached, server
<1>13. ASSUME NEW u \in Callers, pc'[u] = "tx"
       PROVE  /\ u # t /\ pc[u] = "tx" /\ conn'[u] = conn[u] /\ conn[u] \in Sessions \ {n}
              /\ sess' = sess
  BY <1>3, <1>4, <1>11, <1>13 DEF Inv, Attached, server
<1>14. Assigned'
  BY <1>3, <1>13 DEF Inv, Assigned
<1>15. Secret'
  <2> SUFFICES ASSUME NEW u \in Callers, pc'[u] = "tx", sess'[conn'[u]].phase = "committed"
               PROVE  Unseen(Key(sess[conn[u]].row))'
    BY DEF Secret
  <2>1. PICK j : j = Key(sess[conn[u]].row)
    OBVIOUS
  <2>2. sess[conn[u]].row \in docs /\ sess[conn[u]].row # sess[n].row
    BY <1>3, <1>4, <1>13 DEF Inv, TableInv, SessionOK, Apart
  <2>3. j \in Keys /\ Unseen(j) /\ j # k
    <3>1. j # k
      BY <1>2, <1>5, <2>1, <2>2, KeysDiffer DEF Inv, TableInv
    <3> QED
      BY <1>13, <2>1, <2>2, <3>1, KeyOfEntry DEF Inv, Secret, TableInv
  <2>4. Unseen(j)' /\ j = Key(sess'[conn'[u]].row)
    BY <1>8, <1>13, <2>1, <2>3 DEF KeepsOtherSecrets
  <2> QED
    BY <2>4 DEF Unseen, InProgress, Publishing
<1>16. Budget'
  <2>1. Used' = Used /\ Waiting' \subseteq Waiting /\ calls' = calls
    BY <1>3, <1>11 DEF Used, Waiting, server, Goto
  <2> QED
    BY <2>1, BudgetKept
<1>17. HandleInv' /\ OnePerCall'
  BY <1>3 DEF Inv, HandleInv, OnePerCall, handle, server
<1>18. HealthyInv'
  BY <1>3 DEF Inv, HealthyInv, Healthy, server, handle, Goto
<1> QED
  BY <1>9, <1>10, <1>12, <1>14, <1>15, <1>16, <1>17, <1>18 DEF Inv

(***************************************************************************)
(* Where the two collections agreed in the snapshot, the snapshot does not *)
(* show an entry at the next position.                                     *)
(***************************************************************************)
LEMMA SnapshotShowsNoDuplicate ==
  ASSUME NEW D \in SUBSET Entry, NEW c \in Chains, Ledger(D, c), NEW T, T = LastEntry(D, c),
         NEW z, NEW e, e = NewEntry(c, T.id + 1, z, T.hash), NEW f \in D
  PROVE  ~Duplicate(e, f)
<1>1. T \in [id : Nat, hash : Hash] /\ Fills(D, c, T.id)
  BY LastOfLedger
<1>2. e.chain = c /\ e.id = T.id + 1
  BY DEF NewEntry
<1> QED
  BY <1>1, <1>2 DEF Duplicate, Fills, OfChain

(***************************************************************************)
(* ComputeHash and InsertOne, for the session that t is using.             *)
(***************************************************************************)
LEMMA InsertSteps ==
  ASSUME Inv, NEW t \in Callers, InsertOne(t) \/ ComputeHashFails(t)
  PROVE  Inv'
<1>1. PICK n : n = conn[t]
  OBVIOUS
<1>2. pc[t] = "tx" /\ sess[n].phase = "read" /\ Quiet
  BY <1>1 DEF InsertOne, ComputeHashFails, Statement, InTx
<1>3. n \in Sessions /\ TableInv /\ UNCHANGED <<env, docs, lost>> /\ sess[n] \in SessionType(docs)
  BY <1>1, <1>2 DEF Inv, Attached, Quiet, handle, TableInv
<1>4. ASSUME NEW p \in {"aborted", "failed"}, Healthy => p # "failed",
             sess' = [sess EXCEPT ![n] = [sess[n] EXCEPT !.phase = p]]
      PROVE  Inv'
  <2>1. TableInv'
    BY <1>2, <1>3, <1>4, StopSession
  <2>2. /\ sess'[n].phase = p /\ sess'[n].call = sess[n].call
        /\ \A m \in Sessions \ {n} : sess'[m] = sess[m]
    BY <1>3, <1>4 DEF TableInv, SessionType
  <2> QED
    BY <1>2, <1>3, <1>4, <2>1, <2>2, SessionStep
<1>5. CASE ComputeHashFails(t)
  <2>1. sess' = [sess EXCEPT ![n] = [sess[n] EXCEPT !.phase = "failed"]] /\ ~Healthy
    BY <1>1, <1>3, <1>5 DEF ComputeHashFails, TableInv, Healthy
  <2> QED
    BY <1>4, <2>1
<1>6. CASE InsertOne(t)
  <2>1. PICK z \in Contents : z = event[t].content
    BY <1>2 DEF Inv, CallsInv, Typed, MongoSteps, Events
  <2>2. PICK e : e = NewEntry(sess[n].chain, sess[n].tail.id + 1, z, sess[n].tail.hash)
    OBVIOUS
  <2>3. PICK inSnap \in BOOLEAN : inSnap = (\E f \in sess[n].snap : Duplicate(e, f))
    OBVIOUS
  <2>4. PICK busy \in BOOLEAN : busy = \/ \E f \in docs \ sess[n].snap : Duplicate(e, f)
                                       \/ \E m \in Writers(n) : Duplicate(e, sess[m].row)
    OBVIOUS
  <2>5. \/ inSnap /\ sess' = [sess EXCEPT ![n] = [sess[n] EXCEPT !.phase = "failed"]]
        \/ busy /\ sess' = [sess EXCEPT ![n] = [sess[n] EXCEPT !.phase = "aborted"]]
        \/ /\ ~inSnap /\ ~busy
           /\ sess' = [sess EXCEPT ![n] = [sess[n] EXCEPT !.phase = "inserted", !.row = e]]
    <3>1. PICK s1, s2, s3 : /\ s1 = [sess[n] EXCEPT !.phase = "failed"]
                            /\ s2 = [sess[n] EXCEPT !.phase = "aborted"]
                            /\ s3 = [sess[n] EXCEPT !.phase = "inserted", !.row = e]
      OBVIOUS
    <3>2. sess' = [sess EXCEPT ![n] =
                     CASE \E f \in sess[n].snap : Duplicate(e, f) -> s1
                       [] \/ \E f \in docs \ sess[n].snap : Duplicate(e, f)
                          \/ \E m \in Writers(n) : Duplicate(e, sess[m].row) -> s2
                       [] OTHER -> s3]
      BY <1>1, <1>6, <2>1, <2>2, <3>1, Zenon DEF InsertOne
    <3>3. PICK s : s = CASE inSnap -> s1 [] busy -> s2 [] OTHER -> s3
      OBVIOUS
    <3>4. sess' = [sess EXCEPT ![n] = s]
      BY <2>3, <2>4, <3>2, <3>3, Zenon
    <3>5. (inSnap /\ s = s1) \/ (busy /\ s = s2) \/ (~inSnap /\ ~busy /\ s = s3)
      BY <3>3
    <3> QED
      BY <3>1, <3>4, <3>5
  <2>6. CASE inSnap /\ sess' = [sess EXCEPT ![n] = [sess[n] EXCEPT !.phase = "failed"]]
    <3>1. ~Healthy
      <4> SUFFICES ASSUME Healthy PROVE FALSE
        OBVIOUS
      <4>1. /\ sess[n].chain \in Chains /\ Ledger(sess[n].snap, sess[n].chain)
            /\ sess[n].tail = LastEntry(sess[n].snap, sess[n].chain)
            /\ sess[n].snap \in SUBSET Entry
        BY <1>2, <1>3 DEF Healthy, TableInv, Snapshot, SessionOK, HasRead, SessionType
      <4> QED
        BY <2>2, <2>3, <2>6, <4>1, SnapshotShowsNoDuplicate
    <3> QED
      BY <1>4, <2>6, <3>1
  <2>7. CASE sess' = [sess EXCEPT ![n] = [sess[n] EXCEPT !.phase = "aborted"]]
    BY <1>4, <2>7
  <2>8. CASE /\ ~inSnap /\ ~busy
             /\ sess' = [sess EXCEPT ![n] = [sess[n] EXCEPT !.phase = "inserted", !.row = e]]
    <3>1. \A f \in docs : ~Duplicate(e, f)
      BY <2>3, <2>4, <2>8
    <3>2. \A m \in Sessions \ {n} : sess[m].phase \in HasRow => ~Duplicate(e, sess[m].row)
      BY <2>4, <2>8 DEF Writers, HasRow
    <3>3. TableInv'
      BY <1>2, <1>3, <2>2, <2>8, <3>1, <3>2, InsertSession
    <3>4. /\ sess'[n].phase = "inserted" /\ sess'[n].call = sess[n].call
          /\ \A m \in Sessions \ {n} : sess'[m] = sess[m]
      BY <1>3, <2>8 DEF TableInv, SessionType
    <3> QED
      BY <1>2, <1>3, <3>3, <3>4, SessionStep
  <2> QED
    BY <2>5, <2>6, <2>7, <2>8
<1> QED
  BY <1>5, <1>6

(***************************************************************************)
(* The server ends a transaction.                                          *)
(***************************************************************************)
LEMMA AbortStep ==
  ASSUME Inv, NEW n \in Sessions, ServerAbort(n)
  PROVE  Inv'
<1>1. /\ TableInv /\ UNCHANGED <<env, docs, lost>> /\ Quiet /\ sess[n] \in SessionType(docs)
      /\ sess[n].phase \notin {"none", "committed"}
  BY DEF Inv, TableInv, ServerAbort, Quiet, handle
<1>2. \/ Orphan(n) /\ sess' = [sess EXCEPT ![n] = NoSession]
      \/ sess' = [sess EXCEPT ![n] = [sess[n] EXCEPT !.phase = "aborted"]]
  BY <1>1 DEF ServerAbort, TableInv
<1>3. TableInv'
  BY <1>1, <1>2, DropSession, StopSession
<1>4. /\ sess'[n].phase \in {"none", "aborted"}
      /\ sess'[n].phase # "none" \/ Orphan(n)
      /\ sess'[n].phase = "none" \/ sess'[n].call = sess[n].call
      /\ \A m \in Sessions \ {n} : sess'[m] = sess[m]
  BY <1>1, <1>2, NoSessionType DEF TableInv, SessionType
<1> QED
  BY <1>1, <1>3, <1>4, SessionStep

(***************************************************************************)
(* The steps of the read methods.                                          *)
(***************************************************************************)
LEMMA ReadSteps ==
  ASSUME Inv, NEW t \in Callers, ResolveLatest(t) \/ Fetch(t) \/ ReadFails(t)
  PROVE  Inv'
<1>1. PICK S : S = DocKeys
  OBVIOUS
<1>2. CallsInv(MongoSteps, S) /\ CallsTypeOK(MongoSteps)
  BY <1>1 DEF Inv, CallsInv, Typed
<1>3. pc[t] \in {"resolve", "fetch"} /\ UNCHANGED <<handle, server, conn>>
  BY DEF ResolveLatest, Fetch, ReadFails
<1>4. ASSUME NEW err, NEW val, ReadReturn(t, err, val),
             Healthy /\ client # "disconnected" => "ErrBackendUnavailable" \notin err
      PROVE  Inv'
  <2>1. /\ CallsInv(MongoSteps, S)' /\ KeepsSecrets
        /\ ret'[t] = Result(read[t].req, read[t].known, err, val)
        /\ \A u \in Callers \ {t} : ret'[u] = ret[u]
    BY <1>2, <1>3, <1>4, ReadReturnKeeps, MongoStepNames
  <2>2. /\ pc'[t] = "idle" /\ calls' = calls
        /\ \A u \in Callers \ {t} : pc'[u] = pc[u] /\ rec'[u] = rec[u]
    BY <1>2, <1>4 DEF ReadReturn, CallsTypeOK
  <2>3. ret'[t].err = err
    BY <2>1 DEF Result
  <2>4. Healthy /\ client # "disconnected" =>
          \A u \in Callers : ret'[u] = ret[u] \/ "ErrBackendUnavailable" \notin ret'[u].err
    BY <1>4, <2>1, <2>3
  <2> QED
    BY <1>1, <1>3, <2>1, <2>2, <2>4, CallStep
<1>5. ASSUME NEW last \in Nat, pc[t] = "resolve", TailResolved(t, last)
      PROVE  Inv'
  <2>1. CASE \E err, val : ReadReturn(t, err, val) /\ "ErrBackendUnavailable" \notin err
    BY <1>4, <2>1
  <2>2. CASE /\ read' = [read EXCEPT ![t].to = last]
             /\ pc' = [pc EXCEPT ![t] = "fetch"]
             /\ UNCHANGED <<event, rec, outer, ret, closed, bus, acked, calls>>
    <3>1. CallsInv(MongoSteps, S)' /\ KeepsSecrets
      BY <1>2, <1>5, <2>2, ResolvedKeeps, MongoStepNames
    <3>2. pc'[t] = "fetch" /\ \A u \in Callers \ {t} : pc'[u] = pc[u] /\ rec'[u] = rec[u]
      BY <1>2, <2>2 DEF CallsTypeOK
    <3> QED
      BY <1>1, <1>3, <2>2, <3>1, <3>2, CallStep
  <2> QED
    BY <1>5, <2>1, <2>2 DEF TailResolved
<1>6. CASE ResolveLatest(t)
  <2>1. PICK last : last = tails[read[t].req.chain].id
    OBVIOUS
  <2>2. pc[t] = "resolve" /\ TailResolved(t, last)
    BY <1>6, <2>1 DEF ResolveLatest
  <2>3. last \in Nat
    <3>1. read[t].req.chain \in Chains
      BY <1>3 DEF Inv, CallsInv, ReadsTyped
    <3> QED
      BY <2>1, <3>1 DEF Inv, StateInv
  <2> QED
    BY <1>5, <2>2, <2>3
<1>7. CASE Fetch(t)
  <2>1. \E err, val : ReadReturn(t, err, val) /\ "ErrBackendUnavailable" \notin err
    BY <1>7 DEF Fetch, Fetched
  <2> QED
    BY <1>4, <2>1
<1>8. CASE ReadFails(t)
  BY <1>4, <1>8 DEF ReadFails, Healthy
<1> QED
  BY <1>6, <1>7, <1>8

(***************************************************************************)
(* The steps of a Record outside its transaction.                          *)
(***************************************************************************)
LEMMA RecordSteps ==
  ASSUME Inv, NEW t \in Callers,
         Begin(t) \/ StartSessionFails(t) \/ Finish(t) \/ ProcessDies(t)
  PROVE  Inv'
<1>1. PICK S : S = DocKeys
  OBVIOUS
<1>2. CallsInv(MongoSteps, S) /\ CallsTypeOK(MongoSteps) /\ MongoSteps \cap CallSteps = {}
  BY <1>1, MongoStepNames DEF Inv, CallsInv, Typed
<1>3. UNCHANGED <<handle, server, conn>>
  BY DEF Begin, StartSessionFails, Finish, ProcessDies
<1>4. CASE Begin(t)
  <2>0. pc[t] # "tx"
    BY <1>4 DEF Begin, Call, Record, RecordChange, SubscriberRecord, ReadEntry
  <2>1. CallBegins(t) /\ BeginCall
    BY <1>4, CallCases DEF Begin
  <2>2. CallsInv(MongoSteps, S)' /\ KeepsSecrets
    BY <1>2, <2>1, BeginKeeps
  <2>3. /\ calls' = calls + 1
        /\ pc'[t] # "tx" /\ \A u \in Callers \ {t} : pc'[u] = pc[u] /\ rec'[u] = rec[u]
        /\ \A u \in Callers : ret'[u] = ret[u] \/ "ErrBackendUnavailable" \notin ret'[u].err
    BY <1>2, <2>0, <2>1
    DEF BeginCall, CallBegins, Refuse, Accept, ReadBegins, CallsTypeOK, NoResult, Result
  <2> QED
    BY <1>1, <1>3, <2>0, <2>2, <2>3, CallStep
<1>5. CASE StartSessionFails(t)
  <2>1. CallsInv(MongoSteps, S)' /\ KeepsSecrets
    BY <1>2, <1>5, FailsKeeps DEF StartSessionFails
  <2>2. /\ pc[t] = "begin" /\ pc'[t] \notin {"tx", "begin"} /\ calls' = calls
        /\ \A u \in Callers \ {t} : pc'[u] = pc[u] /\ rec'[u] = rec[u]
        /\ Healthy => client = "disconnected"
    BY <1>2, <1>5 DEF StartSessionFails, RecordFails, Resume, CallsTypeOK, Healthy
  <2> QED
    BY <1>1, <1>3, <2>1, <2>2, CallStep
<1>6. CASE PublishRecorded(t)
  <2>1. CallsInv(MongoSteps, S)' /\ KeepsSecrets
    BY <1>2, <1>6, PublishKeeps
  <2>2. /\ pc[t] = "publish" /\ pc'[t] \notin {"tx", "begin"} /\ calls' = calls
        /\ \A u \in Callers \ {t} : pc'[u] = pc[u] /\ rec'[u] = rec[u]
        /\ ret' = ret
    BY <1>2, <1>6 DEF PublishRecorded, CallsTypeOK
  <2> QED
    BY <1>1, <1>3, <2>1, <2>2, CallStep
<1>7. CASE RecordReturn(t)
  <2>1. CallsInv(MongoSteps, S)' /\ KeepsSecrets
    BY <1>2, <1>7, ReturnKeeps
  <2>2. /\ pc[t] # "tx" /\ pc'[t] \notin {"tx", "begin"} /\ calls' = calls
        /\ \A u \in Callers \ {t} : pc'[u] = pc[u] /\ rec'[u] = rec[u] /\ ret'[u] = ret[u]
        /\ "ErrBackendUnavailable" \notin ret'[t].err
    BY <1>2, <1>7 DEF RecordReturn, Resume, CallsTypeOK, Result
  <2> QED
    BY <1>1, <1>3, <2>1, <2>2, CallStep
<1>8. CASE ProcessDies(t)
  <2>1. CallsInv(MongoSteps, S)' /\ KeepsSecrets
    BY <1>2, <1>8, CrashKeeps DEF ProcessDies
  <2>2. /\ pc[t] # "tx" /\ pc'[t] = "idle" /\ calls' = calls /\ ret' = ret
        /\ \A u \in Callers \ {t} : pc'[u] = pc[u] /\ rec'[u] = rec[u]
    BY <1>2, <1>8 DEF ProcessDies, Crash, CallsTypeOK
  <2> QED
    BY <1>1, <1>3, <2>1, <2>2, CallStep
<1> QED
  BY <1>4, <1>5, <1>6, <1>7, <1>8 DEF Finish

\* A step of the constructor.
Constructor ==
  \/ Connect \/ Ping \/ probeTransactionSupport \/ ensureAuditIndexes
  \/ \E err \in SetupErrors : DisconnectAfter(err)

(***************************************************************************)
(* The steps of the constructor and of Close.  A new process has no        *)
(* results of the calls of the old one.                                    *)
(***************************************************************************)
LEMMA HandleSteps ==
  ASSUME Inv, Constructor \/ Restart \/ CloseFlag \/ Disconnect \/ UNCHANGED vars
  PROVE  Inv'
<1>1. /\ UNCHANGED <<pc, event, rec, outer, read, bus, acked, calls, env, opened>>
      /\ UNCHANGED <<docs, tails, lost, sess, conn>>
  BY DEF Constructor, Connect, Ping, probeTransactionSupport, ensureAuditIndexes,
     SetupStep, DisconnectAfter, Restart, CloseFlag, Disconnect, vars, callVars, handle, server
<1>2. closed' \in BOOLEAN /\ DOMAIN ret' = Callers
  BY DEF Constructor, Connect, Ping, probeTransactionSupport, ensureAuditIndexes,
     SetupStep, DisconnectAfter, Restart, CloseFlag, Disconnect, vars, callVars, Inv, CallsInv, Typed,
     CallsTypeOK
<1>3. HandleInv'
  BY DEF Constructor, Connect, Ping, probeTransactionSupport, ensureAuditIndexes,
     SetupStep, DisconnectAfter, Restart, CloseFlag, Disconnect, vars, handle, Inv, HandleInv, Lives,
     SetupErrors
<1>4. StateInv'
  BY <1>1 DEF Inv, StateInv
<1>5. Healthy /\ client' # "disconnected" =>
        \A t \in Callers : "ErrBackendUnavailable" \notin ret'[t].err
  <2>1. CASE Restart
    BY <2>1 DEF Restart, NoResult, Result
  <2>2. CASE Constructor \/ CloseFlag \/ Disconnect \/ UNCHANGED vars
    BY <2>2 DEF Constructor, Connect, Ping, probeTransactionSupport, ensureAuditIndexes,
     SetupStep, DisconnectAfter, CloseFlag, Disconnect, vars, callVars, handle, Inv, HandleInv,
       HealthyInv
  <2> QED
    BY <2>1, <2>2
<1> QED
  BY <1>1, <1>2, <1>3, <1>4, <1>5, HandleStep

(***************************************************************************)
(* A chain-state document is lost.                                         *)
(***************************************************************************)
LEMMA LoseStep ==
  ASSUME Inv, NEW c \in Chains, LoseState(c)
  PROVE  Inv'
<1>1. /\ tails' = [tails EXCEPT ![c] = NoTail] /\ lost' = lost \cup {c}
      /\ UNCHANGED <<callVars, handle, docs, sess, conn>>
  BY DEF LoseState
<1>2. StateInv'
  <2>1. NoTail \in [id : Nat, hash : Hash]
    BY DEF NoTail, GenesisPrevHash, Hash
  <2>2. tails'[c] = NoTail /\ \A d \in Chains \ {c} : tails'[d] = tails[d]
    BY <1>1 DEF Inv, StateInv
  <2> QED
    BY <1>1, <2>1, <2>2 DEF Inv, StateInv, OldTail
<1>3. HandleInv' /\ closed' \in BOOLEAN /\ DOMAIN ret' = Callers
  BY <1>1 DEF Inv, HandleInv, handle, callVars, CallsInv, Typed, CallsTypeOK
<1> QED
  BY <1>1, <1>2, <1>3, HandleStep DEF callVars, handle, Inv, HealthyInv

(***************************************************************************)
(* Every step preserves the invariant.                                     *)
(***************************************************************************)
LEMMA NextInv == Inv /\ [Next]_vars => Inv'
<1> SUFFICES ASSUME Inv, [Next]_vars PROVE Inv'
  OBVIOUS
<1>1. ASSUME NEW t \in Callers, TxFailed(t) \/ TimeUp(t)
      PROVE  Inv'
  <2>1. pc[t] = "tx" /\ sess[conn[t]].phase \in {"failed", "aborted"} /\ TxOver(t)
    BY <1>1 DEF TxFailed, TimeUp, InTx
  <2>2. ~Healthy
    BY <1>1, <2>1 DEF TxFailed, TimeUp, InTx, Inv, Attached, HealthyInv, Healthy
  <2> QED
    BY <2>1, <2>2, LeaveStep DEF TxOver
<1>2. ASSUME NEW t \in Callers, GiveUp(t)
      PROVE  Inv'
  <2>1. PICK n : n = conn[t]
    OBVIOUS
  <2>2. pc[t] = "tx" /\ n \in Sessions
    BY <1>2, <2>1 DEF GiveUp, Inv, Attached
  <2>3. \/ sess' = sess
        \/ sess[n].phase # "committed" /\ sess' = [sess EXCEPT ![n] = NoSession]
    <3>1. sess' = [sess EXCEPT ![n] = IF sess[n].phase = "aborted" THEN NoSession ELSE sess[n]]
      BY <1>2, <2>1, <2>2 DEF GiveUp, Inv, TableInv
    <3> QED
      BY <2>2, <3>1 DEF Inv, TableInv
  <2> QED
    BY <1>2, <2>1, <2>2, <2>3, LeaveStep DEF GiveUp, Healthy
<1> QED
  BY <1>1, <1>2, ReplaceStep, RetryStep, FindStep, ApplyStep, ReplyStep, InsertSteps, AbortStep,
     ReadSteps, RecordSteps, HandleSteps, LoseStep
  DEF Next, ClientStep, Fault, Constructor

(***************************************************************************)
(* Every behaviour satisfies the inductive invariant.                      *)
(***************************************************************************)
LEMMA InvAlways == Spec => []Inv
  BY InitInv, NextInv, PTL DEF Spec

-----------------------------------------------------------------------------
(***************************************************************************)
(* Every reachable state of the MongoDB backend is well typed.             *)
(***************************************************************************)
THEOREM TypeCorrect == Spec => []TypeOK
<1>1. Inv => TypeOK
  BY DEF Inv, CallsInv, Typed, MongoSteps, TableInv, StateInv, SessionType, Attached, HandleInv,
     OnePerCall, TypeOK
<1> QED
  BY <1>1, InvAlways, PTL

(***************************************************************************)
(* Every chain of the entries collection is an intact hash chain at every  *)
(* commit, also after its chain-state document was lost.                   *)
(***************************************************************************)
THEOREM ChainsAlwaysIntact == Spec => []ChainsIntact
<1>1. Inv => ChainsIntact
  BY DEF Inv, TableInv, Ledger, ChainsIntact
<1> QED
  BY <1>1, InvAlways, PTL

(***************************************************************************)
(* Unless it was lost behind the program, a chain-state document names the *)
(* last entry of its chain, whatever attempt was aborted or retried.       *)
(***************************************************************************)
THEOREM StateAlwaysAgrees == Spec => []StateAgreesWithEntries
<1>1. Inv => StateAgreesWithEntries
  BY DEF Inv, StateInv, StateAgreesWithEntries
<1> QED
  BY <1>1, InvAlways, PTL

(***************************************************************************)
(* A call to Record has at most one transaction that is committed or may   *)
(* still be, however often its callback ran, so it leaves at most one      *)
(* document; it publishes and returns that one.                            *)
(***************************************************************************)
THEOREM AlwaysRecordedByCommit == Spec => []RecordedByCommit
<1>1. Inv => RecordedByCommit
  <2> SUFFICES ASSUME Inv PROVE RecordedByCommit
    OBVIOUS
  <2>1. ASSUME NEW e \in docs
        PROVE  \E n \in Sessions :
                 /\ sess[n].phase = "committed" /\ sess[n].row = e
                 /\ \A m \in Sessions \ {n} : sess[m].phase = "committed" => sess[m].row # e
    BY DEF Inv, TableInv, Apart
  <2>0. \A n, m \in { k \in Sessions : sess[k].phase \in {"commit", "committed"} } :
          n # m => sess[n].call # sess[m].call
    BY DEF Inv, OnePerCall
  <2>2. ASSUME NEW t \in Callers, Publishing(t)
        PROVE  \E e \in docs : rec[t] = Key(e) /\ Key(e) \notin acked
    <3>1. rec[t] \in Keys /\ InProgress(t, rec[t])
      BY <2>2 DEF Inv, CallsInv, Typed, InProgress
    <3>2. rec[t] \in DocKeys /\ rec[t] \notin acked
      BY <3>1 DEF Inv, CallsInv, Owned
    <3> QED
      BY <3>2 DEF DocKeys
  <2> QED
    BY <2>0, <2>1, <2>2 DEF RecordedByCommit
<1> QED
  BY <1>1, InvAlways, PTL

(***************************************************************************)
(* On a healthy deployment no call fails while the client is connected:    *)
(* the snapshot never shows an entry where a Record is about to insert, so *)
(* every conflict is one that WithTransaction retries.                     *)
(***************************************************************************)
THEOREM HealthyCallsAlwaysSucceed == Spec => []HealthyCallsSucceed
<1>1. Inv => HealthyCallsSucceed
  BY DEF Inv, HealthyInv, HealthyCallsSucceed
<1> QED
  BY <1>1, InvAlways, PTL

(***************************************************************************)
(* A constructor that fails leaves no client connected, at whichever of    *)
(* its steps it fails; a log that was returned has its client until Close  *)
(* releases it.                                                            *)
(***************************************************************************)
THEOREM ClientAlwaysReleased == Spec => []ClientReleased
<1>1. Inv => ClientReleased
  BY DEF Inv, HandleInv, ClientReleased, Lives
<1> QED
  BY <1>1, InvAlways, PTL

-----------------------------------------------------------------------------
(***************************************************************************)
(* Refinement of AuditLog.  The server's application of a commit is        *)
(* Commit, whether or not its caller is still there; the publication to a  *)
(* bus is Publish, the return of a Record is Ack, and every other step,    *)
(* the loss of a chain-state document included, is a stutter.              *)
(***************************************************************************)
TailIDs == [c \in Chains |-> LastEntry(docs, c).id]

Published == { bus[i] : i \in DOMAIN bus }

\* Initial states map to initial states of AuditLog.
LEMMA AbstractInit == Init => Abstract!Init
<1> SUFFICES ASSUME Init PROVE Abstract!Init
  OBVIOUS
<1>1. docs = {} /\ DOMAIN bus = {}
  BY DEF Init, CallsInit
<1>2. \A c \in Chains : LastEntry(docs, c).id = 0
  BY <1>1, EmptyLedger DEF NoTail
<1> QED
  BY <1>1, <1>2 DEF Abstract!Init, Init, CallsInit

\* Every step maps to a step of AuditLog or to a stutter.
LEMMA AbstractStep == Inv /\ [Next]_vars => [Abstract!Next]_(Abstract!vars)
<1> SUFFICES ASSUME Inv, [Next]_vars
             PROVE  Abstract!Next \/ UNCHANGED <<DocKeys, TailIDs, Published, acked>>
  BY DEF Abstract!vars, DocKeys, TailIDs, Published
<1>d. CallsTypeOK(MongoSteps) /\ Typed(MongoSteps)
  BY DEF Inv, CallsInv, Typed
\* A step that changes none of the four variables of AuditLog.
<1>s. ASSUME UNCHANGED <<docs, bus, acked>>
      PROVE  UNCHANGED <<DocKeys, TailIDs, Published, acked>>
  BY <1>s DEF DocKeys, TailIDs, Published
<1>1. CASE UNCHANGED vars
  BY <1>1, <1>s DEF vars, callVars, server
<1>2. CASE \/ Constructor \/ Restart \/ CloseFlag \/ Disconnect
           \/ \E c \in Chains : LoseState(c)
  BY <1>2, <1>s DEF Constructor, Connect, Ping, probeTransactionSupport, ensureAuditIndexes,
     SetupStep, DisconnectAfter, Restart, CloseFlag, Disconnect, LoseState, callVars, server
<1>3. ASSUME NEW t \in Callers, Begin(t)
      PROVE  UNCHANGED <<DocKeys, TailIDs, Published, acked>>
  <2>1. CallBegins(t) /\ UNCHANGED server
    BY <1>3, CallCases DEF Begin
  <2>2. UNCHANGED <<bus, acked>>
    BY <2>1 DEF CallBegins, Refuse, Accept, ReadBegins
  <2> QED
    BY <1>s, <2>1, <2>2 DEF server
<1>4. ASSUME NEW t \in Callers,
             \/ FindTail(t) \/ ReplaceOne(t) \/ CommitReply(t)
             \/ StartSessionFails(t) \/ TxFailed(t) \/ TimeUp(t) \/ GiveUp(t) \/ ProcessDies(t)
      PROVE  UNCHANGED <<DocKeys, TailIDs, Published, acked>>
  BY <1>4, <1>s DEF FindTail, ReplaceOne, CommitReply, StartSessionFails, TxFailed, TimeUp,
     TxOver, GiveUp, ProcessDies, Crash, RecordFails, Goto, server
<1>5. ASSUME NEW t \in Callers, InsertOne(t) \/ ComputeHashFails(t) \/ Retry(t)
      PROVE  UNCHANGED <<DocKeys, TailIDs, Published, acked>>
  BY <1>5, <1>s DEF InsertOne, ComputeHashFails, Retry, Quiet, callVars
<1>6. ASSUME NEW t \in Callers, ResolveLatest(t) \/ Fetch(t) \/ ReadFails(t)
      PROVE  UNCHANGED <<DocKeys, TailIDs, Published, acked>>
  <2>1. UNCHANGED docs
    BY <1>6 DEF ResolveLatest, Fetch, ReadFails, server
  <2>2. UNCHANGED <<bus, acked>>
    BY <1>6 DEF ResolveLatest, Fetch, ReadFails, TailResolved, Fetched, ReadReturn
  <2> QED
    BY <1>s, <2>1, <2>2
<1>7. ASSUME NEW n \in Sessions, ServerAbort(n)
      PROVE  UNCHANGED <<DocKeys, TailIDs, Published, acked>>
  BY <1>7, <1>s DEF ServerAbort, Quiet, callVars
<1>8. ASSUME NEW n \in Sessions, CommitApplied(n)
      PROVE  Abstract!Next
  <2>1. PICK e : e = sess[n].row
    OBVIOUS
  <2>2. /\ e \in Entry /\ e.chain \in Chains /\ e.content \in Contents
        /\ e.id = LastEntry(docs, e.chain).id + 1
        /\ \A c \in Chains : LastEntry(docs', c).id =
             IF c = e.chain THEN LastEntry(docs, c).id + 1 ELSE LastEntry(docs, c).id
    BY <1>8, <2>1, ApplySession DEF Inv, Entry
  <2>3. docs' = docs \cup {e} /\ UNCHANGED <<bus, acked>>
    BY <1>8, <2>1 DEF CommitApplied, callVars
  <2>4. PICK c \in Chains, z \in Contents : c = e.chain /\ z = e.content
    BY <2>2
  <2>5. DocKeys' = DocKeys \cup {[chain |-> c, id |-> TailIDs[c] + 1, content |-> z]}
    <3>1. DocKeys' = DocKeys \cup {Key(e)}
      BY <2>3 DEF DocKeys
    <3>2. Key(e) = [chain |-> c, id |-> TailIDs[c] + 1, content |-> z]
      BY <2>2, <2>4 DEF Key, TailIDs
    <3> QED
      BY <3>1, <3>2
  <2>6. TailIDs' = [TailIDs EXCEPT ![c] = @ + 1]
    BY <2>2, <2>4 DEF TailIDs
  <2>7. Published' = Published
    BY <2>3 DEF Published
  <2>8. Abstract!Commit(c, z)
    BY <2>3, <2>5, <2>6, <2>7 DEF Abstract!Commit, DocKeys, TailIDs, Published
  <2> QED
    BY <2>8 DEF Abstract!Next
<1>9. ASSUME NEW t \in Callers, PublishRecorded(t), UNCHANGED server
      PROVE  Abstract!Next \/ UNCHANGED <<DocKeys, TailIDs, Published, acked>>
  <2>1. CASE bus' = bus
    BY <1>9, <1>s, <2>1 DEF PublishRecorded, server
  <2>2. CASE bus' = Append(bus, rec[t])
    <3>1. /\ rec[t] \in Keys /\ InProgress(t, rec[t])
          /\ rec[t] \in DocKeys /\ rec[t] \notin acked /\ rec[t] \notin Published
      BY <1>9, <1>d DEF PublishRecorded, Typed, InProgress, Publishing, Inv, CallsInv, Owned,
         Delivered, Published
    <3>2. Published' = Published \cup {rec[t]}
      <4>1. bus \in Seq(Keys)
        BY <1>d DEF CallsTypeOK
      <4> QED
        BY <2>2, <3>1, <4>1, AppendFacts DEF Published
    <3>3. UNCHANGED <<DocKeys, TailIDs, acked>>
      BY <1>9 DEF PublishRecorded, server, DocKeys, TailIDs
    <3>4. PICK k \in DocKeys : k = rec[t]
      BY <3>1
    <3>5. Abstract!Publish(k)
      BY <3>1, <3>2, <3>3, <3>4 DEF Abstract!Publish, DocKeys, TailIDs, Published
    <3> QED
      BY <3>5 DEF Abstract!Next, DocKeys
  <2> QED
    BY <1>9, <2>1, <2>2 DEF PublishRecorded
<1>10. ASSUME NEW t \in Callers, RecordReturn(t), UNCHANGED server
       PROVE  Abstract!Next
  <2>1. rec[t] \in Keys /\ InProgress(t, rec[t]) /\ rec[t] \in DocKeys /\ rec[t] \notin acked
    BY <1>10, <1>d DEF RecordReturn, Typed, InProgress, Publishing, Inv, CallsInv, Owned
  <2>2. UNCHANGED <<DocKeys, TailIDs, Published>> /\ acked' = acked \cup {rec[t]}
    BY <1>10 DEF RecordReturn, server, DocKeys, TailIDs, Published
  <2>3. PICK k \in DocKeys : k = rec[t]
    BY <2>1
  <2>4. Abstract!Ack(k)
    BY <2>1, <2>2, <2>3 DEF Abstract!Ack, DocKeys, TailIDs, Published
  <2> QED
    BY <2>4 DEF Abstract!Next, DocKeys
<1> QED
  BY <1>1, <1>2, <1>3, <1>4, <1>5, <1>6, <1>7, <1>8, <1>9, <1>10
  DEF Next, ClientStep, Fault, Finish, Constructor

(***************************************************************************)
(* The MongoDB backend implements AuditLog, also where attempts are        *)
(* retried, commits are applied after their caller has given up, and       *)
(* chain-state documents are lost.                                         *)
(***************************************************************************)
THEOREM MongoLogImplements == Spec => ImplementsAuditLog
  BY AbstractInit, AbstractStep, InvAlways, PTL DEF Spec, ImplementsAuditLog, Abstract!Spec

-----------------------------------------------------------------------------
(***************************************************************************)
(* The answers of the read methods.                                        *)
(***************************************************************************)
MustSee(r) ==
  /\ r.req.op \notin {"none", "Record"} /\ "ErrBackendUnavailable" \notin r.err
  /\ r.req.op \in {"Query", "GetEntry"} \/ r.req.chain \notin lost

AnswersInv == \A t \in Callers : FromStartValid(ret[t]) /\ (MustSee(ret[t]) => Sees(ret[t]))

(***************************************************************************)
(* Only a step of a read method leaves an answer.                          *)
(***************************************************************************)
LEMMA QuietSteps ==
  ASSUME Inv, [Next]_vars,
         \A t \in Callers : ~(ResolveLatest(t) \/ Fetch(t) \/ ReadFails(t))
  PROVE  NoReadReturns
<1>1. PICK S : S = DocKeys
  OBVIOUS
<1>2. CallsInv(MongoSteps, S) /\ MongoSteps \cap CallSteps = {}
  BY <1>1, MongoStepNames DEF Inv
<1>3. ASSUME UNCHANGED ret PROVE NoReadReturns
  BY <1>3 DEF NoReadReturns
<1>4. CASE UNCHANGED vars
  BY <1>3, <1>4 DEF vars, callVars
<1>5. CASE Constructor \/ CloseFlag \/ Disconnect \/ \E c \in Chains : LoseState(c)
  BY <1>3, <1>5 DEF Constructor, Connect, Ping, probeTransactionSupport, ensureAuditIndexes,
     SetupStep, DisconnectAfter, CloseFlag, Disconnect, LoseState, callVars
<1>6. CASE Restart
  BY <1>6 DEF Restart, NoReadReturns, NoResult, Result
<1>7. ASSUME NEW t \in Callers, Begin(t) PROVE NoReadReturns
  <2>1. CallBegins(t) /\ BeginCall
    BY <1>7, CallCases DEF Begin
  <2> QED
    BY <1>2, <2>1, BeginKeeps
<1>8. ASSUME NEW t \in Callers, StartSessionFails(t) \/ TxFailed(t) \/ TimeUp(t) \/ GiveUp(t)
      PROVE  NoReadReturns
  BY <1>2, <1>8, FailsKeeps DEF StartSessionFails, TxFailed, TimeUp, TxOver, GiveUp
<1>9. ASSUME NEW t \in Callers, Finish(t) PROVE NoReadReturns
  BY <1>2, <1>9, PublishKeeps, ReturnKeeps DEF Finish
<1>10. ASSUME NEW t \in Callers,
              FindTail(t) \/ ReplaceOne(t) \/ CommitReply(t) \/ ProcessDies(t)
       PROVE  NoReadReturns
  BY <1>3, <1>10 DEF FindTail, ReplaceOne, CommitReply, ProcessDies, Crash, Goto
<1>11. ASSUME NEW t \in Callers, InsertOne(t) \/ ComputeHashFails(t) \/ Retry(t)
       PROVE  NoReadReturns
  BY <1>3, <1>11 DEF InsertOne, ComputeHashFails, Retry, Quiet, callVars
<1>12. ASSUME NEW n \in Sessions, CommitApplied(n) \/ ServerAbort(n) PROVE NoReadReturns
  BY <1>3, <1>12 DEF CommitApplied, ServerAbort, Quiet, callVars
<1> QED
  BY <1>4, <1>5, <1>6, <1>7, <1>8, <1>9, <1>10, <1>11, <1>12
  DEF Next, ClientStep, Fault, Constructor

\* A lost chain-state document stays on record.
LEMMA LostGrows ==
  ASSUME [Next]_vars
  PROVE  lost \subseteq lost'
<1>1. CASE UNCHANGED <<docs, tails, lost>> \/ UNCHANGED server \/ UNCHANGED vars
  BY <1>1 DEF server, vars
<1> QED
  BY <1>1 DEF Next, Connect, Ping, probeTransactionSupport, ensureAuditIndexes, SetupStep,
     DisconnectAfter, Restart, CloseFlag, Disconnect, Begin, ClientStep, Fault,
     FindTail, InsertOne, ReplaceOne, Retry, CommitReply, TxFailed, TimeUp, TxOver, GiveUp, Finish,
     ResolveLatest, Fetch, ReadFails, StartSessionFails, ComputeHashFails, ProcessDies,
     CommitApplied, ServerAbort, LoseState, Quiet, server

\* Every step leaves answers that are accepted.
LEMMA AnswersNext == Inv /\ AnswersInv /\ [Next]_vars => AnswersInv'
<1> SUFFICES ASSUME Inv, AnswersInv, [Next]_vars PROVE AnswersInv'
  OBVIOUS
<1>1. PICK D : D = docs
  OBVIOUS
<1>2. /\ D \in SUBSET Entry /\ \A c \in Chains : Ledger(D, c)
      /\ CallsInv(MongoSteps, KeysOf(D)) /\ MongoSteps \cap CallSteps = {}
  BY <1>1, MongoStepNames DEF Inv, TableInv, DocKeys, KeysOf
<1>0. lost \subseteq lost'
  BY LostGrows
<1>3. ASSUME NEW t \in Callers, FromStartValid(ret'[t]), MustSee(ret[t])' => Sees(ret'[t]),
             \A u \in Callers \ {t} : ret'[u] = ret[u]
      PROVE  AnswersInv'
  BY <1>0, <1>3 DEF AnswersInv, MustSee
<1>4. ASSUME NEW t \in Callers, Fetch(t) PROVE AnswersInv'
  <2>1. GoodAnswer(ret'[t]) /\ \A u \in Callers \ {t} : ret'[u] = ret[u]
    BY <1>1, <1>2, <1>4, FetchedAnswers DEF Fetch
  <2> QED
    BY <1>3, <2>1 DEF GoodAnswer
<1>5. ASSUME NEW t \in Callers, ResolveLatest(t) PROVE AnswersInv'
  <2>1. PICK c, last : c = read[t].req.chain /\ last = tails[c].id
    OBVIOUS
  <2>2. c \in Chains /\ NeedsTail(read[t].req) /\ lost' = lost
    BY <1>5, <2>1 DEF ResolveLatest, Inv, CallsInv, ReadsTyped, server
  <2>3. last \in Nat /\ (c \notin lost => last = LastEntry(D, c).id)
    BY <1>1, <2>1, <2>2 DEF Inv, StateInv
  <2>4. pc[t] = "resolve" /\ TailResolved(t, last)
    BY <1>5, <2>1 DEF ResolveLatest
  <2>5. \/ /\ ret'[t].req = read[t].req /\ FromStartValid(ret'[t])
           /\ last = LastEntry(D, c).id => GoodAnswer(ret'[t])
           /\ \A u \in Callers \ {t} : ret'[u] = ret[u]
        \/ ret' = ret
    BY <1>2, <2>1, <2>3, <2>4, ResolvedAnswers
  <2>6. CASE ret' = ret
    BY <1>0, <2>6 DEF AnswersInv, MustSee
  <2>7. CASE /\ ret'[t].req = read[t].req /\ FromStartValid(ret'[t])
             /\ last = LastEntry(D, c).id => GoodAnswer(ret'[t])
             /\ \A u \in Callers \ {t} : ret'[u] = ret[u]
    <3>1. MustSee(ret[t])' => c \notin lost
      BY <2>1, <2>2, <2>7 DEF MustSee, NeedsTail
    <3> QED
      BY <1>3, <2>3, <2>7, <3>1 DEF GoodAnswer
  <2> QED
    BY <2>5, <2>6, <2>7
<1>6. ASSUME NEW t \in Callers, ReadFails(t) PROVE AnswersInv'
  <2>1. /\ ret'[t] = Result(read[t].req, read[t].known, {"ErrBackendUnavailable"}, 0)
        /\ \A u \in Callers \ {t} : ret'[u] = ret[u]
    BY <1>2, <1>6, ReadReturnKeeps DEF ReadFails
  <2>2. ret'[t].err = {"ErrBackendUnavailable"}
    BY <2>1 DEF Result
  <2>3. FromStartValid(ret'[t]) /\ ~MustSee(ret[t])'
    BY <2>2 DEF MustSee, FromStartValid
  <2> QED
    BY <1>3, <2>1, <2>3
<1>7. CASE NoReadReturns
  BY <1>0, <1>7, NoAnswer DEF NoReadReturns, AnswersInv, MustSee
<1> QED
  BY <1>4, <1>5, <1>6, <1>7, QuietSteps

\* The last answer of every goroutine is accepted, at all times.
LEMMA AnswersAlways == Spec => []AnswersInv
<1>1. Init => AnswersInv
  BY NoAnswer DEF Init, CallsInit, AnswersInv, MustSee, NoResult, Result
<1> QED
  BY <1>1, AnswersNext, InvAlways, PTL DEF Spec

(***************************************************************************)
(* Every Verify that starts at the first entry reports a valid chain,      *)
(* whatever Records it races with, also where its upper bound comes from a *)
(* chain-state document that was lost or is written anew.                  *)
(***************************************************************************)
THEOREM VerifyAlwaysValid == Spec => []VerifyFromStartValid
<1>1. AnswersInv => VerifyFromStartValid
  BY DEF AnswersInv, FromStartValid, VerifyFromStartValid
<1> QED
  BY <1>1, AnswersAlways, PTL

(***************************************************************************)
(* A read sees what was acknowledged before it began: Query and GetEntry   *)
(* always, Verify and LatestEntryID on chains whose chain-state document   *)
(* was not lost.                                                           *)
(***************************************************************************)
THEOREM ReadsAlwaysSeeEntries == Spec => []ReadsSeeEntries
<1>1. AnswersInv => ReadsSeeEntries
  BY DEF AnswersInv, MustSee, ReadsSeeEntries
<1> QED
  BY <1>1, AnswersAlways, PTL
=============================================================================
