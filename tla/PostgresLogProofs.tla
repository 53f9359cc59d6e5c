-------------------------- MODULE PostgresLogProofs --------------------------
(***************************************************************************)
(* Proofs about the PostgreSQL backend, for any number of callers, chains, *)
(* pooled connections and calls, with faults or without, under either      *)
(* isolation level and whatever chains share an advisory key.              *)
(***************************************************************************)
EXTENDS PostgresLog, DurableCallsProofs

PgSteps == {"tx"}

RowKeys == { Key(e) : e \in rows }

-----------------------------------------------------------------------------
(***************************************************************************)
(* The inductive invariant.                                                *)
(***************************************************************************)

SessionType(R) ==
  [phase : Phases, chain : Chains \cup {NoChain}, snap : SUBSET R,
   tail : [id : Nat, hash : Hash], row : Entry \cup {NoRow}]

\* The phases in which a session has read a tail, and has inserted a row.
HasRead == {"read", "staged", "commit"}

HasRow == {"staged", "commit"}

(***************************************************************************)
(* One session against the rows R: its snapshot is a prefix of every       *)
(* chain, the tail it has read is or was the tail of its chain, and the    *)
(* row it has inserted sits on that tail and meets no constraint.          *)
(***************************************************************************)
SessionOK(s, R) ==
  /\ \A c \in Chains : Ledger(s.snap, c)
  /\ s.phase \in Holding \cup {"waiting"} => s.chain \in Chains
  /\ s.phase \in HasRead => OldTail(R, s.chain, s.tail)
  /\ s.phase \in HasRow =>
       /\ s.row \in Entry
       /\ s.row = NewEntry(s.chain, s.tail.id + 1, s.row.content, s.tail.hash)
       /\ \A f \in R : ~Conflicts(s.row, f)
  /\ s.phase = "committed" => s.row \in R

(***************************************************************************)
(* Two sessions: the advisory lock, and the rows they have inserted.       *)
(***************************************************************************)
Apart(s, z) ==
  /\ s.phase \in Holding /\ z.phase \in Holding =>
       env.lockKey[s.chain] # env.lockKey[z.chain]
  /\ s.phase \in HasRow /\ z.phase \in HasRow => ~Conflicts(s.row, z.row)
  /\ s.phase = "committed" /\ z.phase = "committed" => s.row # z.row

\* Under read committed the tail a session has read is still the tail.
Current(s) ==
  env.isolation = "read committed" /\ s.phase \in HasRead => s.tail = LastEntry(rows, s.chain)

TableInv ==
  /\ env \in Environments
  /\ rows \subseteq Entry
  /\ \A c \in Chains : Ledger(rows, c)
  /\ sess \in [Sessions -> SessionType(rows)]
  /\ \A n \in Sessions : SessionOK(sess[n], rows) /\ Current(sess[n])
  /\ \A n \in Sessions : \A m \in Sessions \ {n} : Apart(sess[n], sess[m])
  /\ \A e \in rows : \E n \in Sessions : sess[n].phase = "committed" /\ sess[n].row = e

(***************************************************************************)
(* Goroutines and sessions: one session per transaction, and the row of a  *)
(* commit that its caller has not heard of is known to nobody.             *)
(***************************************************************************)
Attached ==
  /\ conn \in [Callers -> Sessions \cup {0}]
  /\ \A t \in Callers : pc[t] = "tx" <=> conn[t] # 0
  /\ \A t \in Callers : conn[t] # 0 => sess[conn[t]].phase # "none"
  /\ \A t, u \in Callers : conn[t] # 0 /\ conn[t] = conn[u] => t = u

Secret ==
  \A t \in Callers :
    pc[t] = "tx" /\ sess[conn[t]].phase = "committed" => Unseen(Key(sess[conn[t]].row))

\* Every session in use, and every Record about to open one, has its call.
Used == { n \in Sessions : sess[n].phase # "none" }

Waiting == { t \in Callers : pc[t] = "begin" }

Budget == Within(Used, Waiting, calls)

(***************************************************************************)
(* The constructor, the pool and Close.                                    *)
(***************************************************************************)
HandleInv ==
  /\ life \in {"new", "dialed", "failed", "open", "flagged", "draining", "done"}
  /\ pool \in {"none", "open", "closed"}
  /\ ~env.ownsPool => pool = "open" /\ life \notin {"dialed", "draining"}
  /\ env.ownsPool /\ life = "new" => pool = "none"
  /\ env.ownsPool /\ life = "failed" => pool # "open"
  /\ env.ownsPool /\ life = "done" => pool = "closed" /\ \A t \in Callers : conn[t] = 0
  /\ env.ownsPool /\ life = "draining" => pool = "closed"

(***************************************************************************)
(* A healthy server: no session is rolled back, no constructor fails, and  *)
(* no call fails before the pool is closed.                                *)
(***************************************************************************)
HealthyInv ==
  Healthy =>
    /\ life # "failed"
    /\ \A n \in Sessions : sess[n].phase # "aborted"
    /\ pool # "closed" => \A t \in Callers : "ErrBackendUnavailable" \notin ret[t].err

Inv ==
  /\ CallsInv(PgSteps, RowKeys)
  /\ TableInv /\ Attached /\ Secret /\ Budget /\ HandleInv /\ HealthyInv

-----------------------------------------------------------------------------
(***************************************************************************)
(* The table: one lemma per way a session can change.                      *)
(***************************************************************************)

(***************************************************************************)
(* Session n becomes s, which is in order by itself and next to the other  *)
(* sessions; no row is committed.                                          *)
(***************************************************************************)
LEMMA SetSession ==
  ASSUME TableInv, UNCHANGED <<env, rows>>, NEW n \in Sessions,
         NEW s \in SessionType(rows), sess' = [sess EXCEPT ![n] = s],
         sess[n].phase # "committed", SessionOK(s, rows), Current(s),
         \A m \in Sessions \ {n} : Apart(s, sess[m])
  PROVE  TableInv'
<1>1. sess' \in [Sessions -> SessionType(rows')]
  BY DEF TableInv
<1>2. sess'[n] = s /\ \A m \in Sessions \ {n} : sess'[m] = sess[m]
  BY DEF TableInv
<1>3. \A m \in Sessions : SessionOK(sess'[m], rows')
  BY <1>2 DEF TableInv
<1>4. \A m \in Sessions : Current(sess[m])' 
  BY <1>2 DEF TableInv, Current
<1>5. \A m \in Sessions : \A k \in Sessions \ {m} : Apart(sess[m], sess[k])'
  BY <1>2 DEF TableInv, Apart, Conflicts
<1>6. \A e \in rows' : \E m \in Sessions : sess'[m].phase = "committed" /\ sess'[m].row = e
  <2> SUFFICES ASSUME NEW e \in rows
               PROVE  \E m \in Sessions : sess'[m].phase = "committed" /\ sess'[m].row = e
    OBVIOUS
  <2>1. PICK m \in Sessions : sess[m].phase = "committed" /\ sess[m].row = e
    BY DEF TableInv
  <2>2. m # n
    BY <2>1
  <2> QED
    BY <1>2, <2>1, <2>2
<1> QED
  BY <1>1, <1>3, <1>4, <1>5, <1>6 DEF TableInv

(***************************************************************************)
(* A session is rolled back.                                               *)
(***************************************************************************)
LEMMA NoSessionType ==
  /\ \A R : NoSession \in SessionType(R) /\ Aborted \in SessionType(R)
  /\ NoSession.phase = "none" /\ Aborted.phase = "aborted"
  /\ NoSession.snap = {} /\ Aborted.snap = {}
<1>1. NoTail \in [id : Nat, hash : Hash]
  BY DEF NoTail, GenesisPrevHash, Hash
<1> QED
  BY <1>1 DEF SessionType, NoSession, Aborted, Phases

\* A session that ends, or is rolled back, without a commit.
LEMMA DropSession ==
  ASSUME TableInv, UNCHANGED <<env, rows>>, NEW n \in Sessions, sess[n].phase # "committed",
         sess' = [sess EXCEPT ![n] = NoSession] \/ sess' = [sess EXCEPT ![n] = Aborted]
  PROVE  TableInv'
<1>1. PICK s : s \in {NoSession, Aborted} /\ sess' = [sess EXCEPT ![n] = s]
  OBVIOUS
<1>2. s \in SessionType(rows) /\ s.phase \in {"none", "aborted"} /\ s.snap = {}
  BY <1>1, NoSessionType
<1>3. SessionOK(s, rows) /\ Current(s)
  BY <1>2, EmptyLedger DEF SessionOK, Current, HasRead, HasRow, Holding
<1>4. \A m \in Sessions \ {n} : Apart(s, sess[m])
  BY <1>2 DEF Apart, Holding, HasRow
<1> QED
  BY <1>1, <1>2, <1>3, <1>4, SetSession

(***************************************************************************)
(* A transaction begins, and waits for the advisory lock.                  *)
(***************************************************************************)
LEMMA OpenSession ==
  ASSUME TableInv, UNCHANGED <<env, rows>>, NEW n \in Sessions, sess[n].phase = "none",
         NEW c \in Chains,
         sess' = [sess EXCEPT ![n] = [NoSession EXCEPT
                    !.phase = "waiting", !.chain = c,
                    !.snap = IF env.isolation = "repeatable read" THEN rows ELSE {}]]
  PROVE  TableInv'
<1>1. PICK s : s = [NoSession EXCEPT
                      !.phase = "waiting", !.chain = c,
                      !.snap = IF env.isolation = "repeatable read" THEN rows ELSE {}]
  OBVIOUS
<1>2. /\ s \in SessionType(rows) /\ s.phase = "waiting" /\ s.chain = c
      /\ s.snap \in {rows, {}}
  <2>1. NoTail \in [id : Nat, hash : Hash]
    BY DEF NoTail, GenesisPrevHash, Hash
  <2> QED
    BY <1>1, <2>1 DEF SessionType, NoSession, Phases
<1>3. SessionOK(s, rows) /\ Current(s)
  BY <1>2, EmptyLedger DEF TableInv, SessionOK, Current, HasRead, HasRow, Holding
<1>4. \A m \in Sessions \ {n} : Apart(s, sess[m])
  BY <1>2 DEF Apart, Holding, HasRow
<1> QED
  BY <1>1, <1>2, <1>3, <1>4, SetSession

(***************************************************************************)
(* pg_advisory_xact_lock returns.                                          *)
(***************************************************************************)
LEMMA LockSession ==
  ASSUME TableInv, NEW n \in Sessions, GrantLock(n)
  PROVE  TableInv'
<1>1. PICK s : s = [sess[n] EXCEPT !.phase = "locked"]
  OBVIOUS
<1>2. sess[n] \in SessionType(rows) /\ SessionOK(sess[n], rows) /\ sess[n].phase = "waiting"
  BY DEF TableInv, GrantLock
<1>3. /\ s \in SessionType(rows) /\ s.phase = "locked" /\ s.chain = sess[n].chain
      /\ s.snap = sess[n].snap
  BY <1>1, <1>2 DEF SessionType, Phases
<1>4. SessionOK(s, rows) /\ Current(s)
  BY <1>2, <1>3 DEF SessionOK, Current, HasRead, HasRow, Holding
<1>5. \A m \in Sessions \ {n} : Apart(s, sess[m])
  BY <1>3 DEF GrantLock, Apart, HasRow
<1>6. sess' = [sess EXCEPT ![n] = s] /\ UNCHANGED <<env, rows>>
  BY <1>1 DEF GrantLock, Quiet, handle
<1> QED
  BY <1>2, <1>3, <1>4, <1>5, <1>6, SetSession

(***************************************************************************)
(* GetLastEntry: the tail of the rows that are visible.                    *)
(***************************************************************************)
LEMMA ReadSession ==
  ASSUME TableInv, UNCHANGED <<env, rows>>, NEW n \in Sessions, sess[n].phase = "locked",
         NEW V, V = IF env.isolation = "read committed" THEN rows ELSE sess[n].snap,
         NEW T, T = LastEntry(V, sess[n].chain),
         sess' = [sess EXCEPT ![n] = [sess[n] EXCEPT !.phase = "read", !.tail = T]]
  PROVE  TableInv'
<1>1. PICK s : s = [sess[n] EXCEPT !.phase = "read", !.tail = T]
  OBVIOUS
<1>2. sess[n] \in SessionType(rows) /\ SessionOK(sess[n], rows) /\ sess[n].chain \in Chains
  BY DEF TableInv, SessionOK, Holding
<1>3. V \subseteq rows /\ V \in SUBSET Entry /\ \A c \in Chains : Ledger(V, c)
  BY <1>2 DEF TableInv, SessionOK, SessionType
<1>4. T \in [id : Nat, hash : Hash] /\ OldTail(V, sess[n].chain, T)
  BY <1>2, <1>3, LastOfLedger
<1>5. /\ s \in SessionType(rows) /\ s.phase = "read" /\ s.chain = sess[n].chain
      /\ s.snap = sess[n].snap /\ s.tail = T
  BY <1>1, <1>2, <1>4 DEF SessionType, Phases
<1>6. OldTail(rows, s.chain, s.tail)
  BY <1>3, <1>4, <1>5, OldTailGrows
<1>7. SessionOK(s, rows) /\ Current(s)
  BY <1>2, <1>5, <1>6 DEF SessionOK, Current, HasRow, Holding
<1>8. \A m \in Sessions \ {n} : Apart(sess[n], sess[m])
  BY DEF TableInv
<1>9. \A m \in Sessions \ {n} : Apart(s, sess[m])
  BY <1>5, <1>8 DEF Apart, HasRow, Holding
<1> QED
  BY <1>1, <1>5, <1>7, <1>9, SetSession

(***************************************************************************)
(* InsertEntry when no constraint refuses the row.                         *)
(***************************************************************************)
LEMMA StageSession ==
  ASSUME TableInv, UNCHANGED <<env, rows>>, NEW n \in Sessions, sess[n].phase = "read",
         NEW z \in Contents, NEW e,
         e = NewEntry(sess[n].chain, sess[n].tail.id + 1, z, sess[n].tail.hash),
         \A m \in Sessions \ {n} : sess[m].phase \in HasRow => ~Conflicts(e, sess[m].row),
         \A f \in rows : ~Conflicts(e, f),
         sess' = [sess EXCEPT ![n] = [sess[n] EXCEPT !.phase = "staged", !.row = e]]
  PROVE  TableInv'
<1>1. PICK s : s = [sess[n] EXCEPT !.phase = "staged", !.row = e]
  OBVIOUS
<1>2. /\ sess[n] \in SessionType(rows) /\ SessionOK(sess[n], rows) /\ Current(sess[n])
      /\ sess[n].chain \in Chains
  BY DEF TableInv, SessionOK, Holding
<1>3. sess[n].tail.id + 1 \in Nat /\ sess[n].tail.hash \in Hash
  BY <1>2 DEF SessionType
<1>4. e \in Entry /\ e.content = z
  BY <1>2, <1>3, NewEntryType DEF NewEntry
<1>5. /\ s \in SessionType(rows) /\ s.phase = "staged" /\ s.chain = sess[n].chain
      /\ s.snap = sess[n].snap /\ s.tail = sess[n].tail /\ s.row = e
  BY <1>1, <1>2, <1>4 DEF SessionType, Phases
<1>6. SessionOK(s, rows) /\ Current(s)
  BY <1>2, <1>4, <1>5 DEF SessionOK, Current, HasRead, HasRow, Holding
<1>7. \A m \in Sessions \ {n} : Apart(s, sess[m])
  BY <1>5 DEF TableInv, Apart, HasRow, Holding
<1> QED
  BY <1>1, <1>5, <1>6, <1>7, SetSession

\* COMMIT is sent: the row is still only staged.
LEMMA CommitSession ==
  ASSUME TableInv, UNCHANGED <<env, rows>>, NEW n \in Sessions, sess[n].phase = "staged",
         sess' = [sess EXCEPT ![n].phase = "commit"]
  PROVE  TableInv'
<1>1. PICK s : s = [sess[n] EXCEPT !.phase = "commit"]
  OBVIOUS
<1>2. sess[n] \in SessionType(rows) /\ SessionOK(sess[n], rows) /\ Current(sess[n])
  BY DEF TableInv
<1>3. /\ s \in SessionType(rows) /\ s.phase = "commit" /\ s.chain = sess[n].chain
      /\ s.snap = sess[n].snap /\ s.tail = sess[n].tail /\ s.row = sess[n].row
  BY <1>1, <1>2 DEF SessionType, Phases
<1>4. SessionOK(s, rows) /\ Current(s)
  BY <1>2, <1>3 DEF SessionOK, Current, HasRead, HasRow, Holding
<1>5. \A m \in Sessions \ {n} : Apart(s, sess[m])
  BY <1>3 DEF TableInv, Apart, HasRow, Holding
<1>6. sess' = [sess EXCEPT ![n] = s]
  BY <1>1
<1> QED
  BY <1>3, <1>4, <1>5, <1>6, SetSession

(***************************************************************************)
(* A commit is applied.  Its row meets no constraint, so the tail it sits  *)
(* on is the tail of the chain; the advisory lock keeps the tails of the   *)
(* other sessions current, since none of them has the same chain.          *)
(***************************************************************************)
LEMMA ApplySession ==
  ASSUME TableInv, NEW n \in Sessions, CommitApplied(n)
  PROVE  /\ TableInv'
         /\ sess[n].row \in Entry /\ sess[n].row \notin rows
         /\ sess[n].row.chain \in Chains
         /\ sess[n].row.id = LastEntry(rows, sess[n].row.chain).id + 1
         /\ Key(sess[n].row) \notin RowKeys
         /\ \A c \in Chains : LastEntry(rows', c).id =
              IF c = sess[n].row.chain THEN LastEntry(rows, c).id + 1 ELSE LastEntry(rows, c).id
<1>1. PICK e : e = sess[n].row
  OBVIOUS
<1>2. PICK c : c = sess[n].chain
  OBVIOUS
<1>3. PICK R : R = rows \cup {e}
  OBVIOUS
<1>4. PICK s : s = [sess[n] EXCEPT !.phase = "committed", !.snap = {}, !.tail = NoTail]
  OBVIOUS
<1>5. /\ sess' = [sess EXCEPT ![n] = s] /\ rows' = R /\ env' = env
      /\ sess[n].phase = "commit"
  BY <1>1, <1>3, <1>4 DEF CommitApplied, Quiet, handle, TableInv
<1>6. /\ sess[n] \in SessionType(rows) /\ c \in Chains /\ e \in Entry
      /\ OldTail(rows, c, sess[n].tail)
      /\ e = NewEntry(c, sess[n].tail.id + 1, e.content, sess[n].tail.hash)
      /\ \A f \in rows : ~Conflicts(e, f)
  BY <1>1, <1>2, <1>5 DEF TableInv, SessionOK, Holding, HasRead, HasRow
<1>7. e.chain = c /\ e.id = sess[n].tail.id + 1 /\ e.content \in Contents
  BY <1>6 DEF NewEntry, Entry
<1>8. rows \in SUBSET Entry /\ \A d \in Chains : Ledger(rows, d)
  BY DEF TableInv
<1>9. sess[n].tail = LastEntry(rows, c)
  <2>1. \A f \in OfChain(rows, c) : f.id # sess[n].tail.id + 1
    BY <1>6, <1>7 DEF Conflicts, OfChain
  <2> QED
    BY <1>6, <1>8, <2>1, FreshMeansCurrent
<1>10. Ledger(R, c) /\ LastEntry(R, c) = [id |-> e.id, hash |-> e.hash]
  BY <1>3, <1>6, <1>7, <1>8, <1>9, AppendKeepsLedger
<1>11. \A d \in Chains \ {c} : Ledger(R, d) /\ LastEntry(R, d) = LastEntry(rows, d)
  BY <1>3, <1>7, <1>8, OtherChain
<1>12. R \subseteq Entry /\ \A d \in Chains : Ledger(R, d)
  BY <1>3, <1>6, <1>8, <1>10, <1>11
<1>13. e \notin rows
  BY <1>6 DEF Conflicts
<1>14. /\ s \in SessionType(R) /\ s.phase = "committed" /\ s.row = e /\ s.snap = {}
  <2>1. NoTail \in [id : Nat, hash : Hash]
    BY DEF NoTail, GenesisPrevHash, Hash
  <2> QED
    BY <1>1, <1>4, <1>6, <2>1 DEF SessionType, Phases
<1>15. /\ sess'[n] = s
       /\ \A m \in Sessions \ {n} : sess'[m] = sess[m] /\ sess[m] \in SessionType(rows)
  BY <1>5 DEF TableInv
<1>16. sess' \in [Sessions -> SessionType(R)]
  <2>1. SessionType(rows) \subseteq SessionType(R)
    BY <1>3 DEF SessionType
  <2> QED
    BY <1>5, <1>14, <2>1 DEF TableInv
<1>17. SessionOK(s, R) /\ Current(s)'
  BY <1>3, <1>14, EmptyLedger DEF SessionOK, Current, HasRead, HasRow, Holding
<1>18. ASSUME NEW m \in Sessions \ {n}
       PROVE  SessionOK(sess[m], R) /\ Current(sess[m])' /\ Apart(s, sess[m])' /\ Apart(sess[m], s)'
  <2>1. PICK z : z = sess[m]
    OBVIOUS
  <2>2. sess'[m] = z /\ SessionOK(z, rows) /\ Current(z) /\ Apart(z, sess[n])
    BY <1>15, <2>1 DEF TableInv
  <2>3. z.phase \in Holding => z.chain \in Chains \ {c}
    BY <1>2, <1>5, <2>2 DEF Apart, SessionOK, Holding
  <2>4. z.phase \in HasRow => ~Conflicts(z.row, e)
    BY <1>1, <1>5, <2>2 DEF Apart, HasRow
  <2>5. z.phase \in HasRead => OldTail(R, z.chain, z.tail)
    BY <1>3, <2>2, OldTailGrows DEF SessionOK
  <2>6. SessionOK(z, R)
    BY <1>3, <2>2, <2>4, <2>5 DEF SessionOK
  <2>7. Current(sess[m])'
    BY <1>5, <1>11, <2>2, <2>3 DEF Current, Holding, HasRead
  <2>8. z.phase = "committed" => z.row # e
    BY <1>13, <2>2 DEF SessionOK
  <2>9. Apart(s, sess[m])' /\ Apart(sess[m], s)'
    BY <1>14, <2>2, <2>8 DEF Apart, Holding, HasRow
  <2> QED
    BY <2>1, <2>6, <2>7, <2>9
<1>19. \A m \in Sessions : SessionOK(sess'[m], rows') /\ Current(sess[m])'
  BY <1>5, <1>15, <1>17, <1>18
<1>20. \A m \in Sessions : \A k \in Sessions \ {m} : Apart(sess[m], sess[k])'
  <2> SUFFICES ASSUME NEW m \in Sessions, NEW k \in Sessions \ {m}
               PROVE  Apart(sess[m], sess[k])'
    OBVIOUS
  <2>1. CASE m = n
    BY <1>15, <1>18, <2>1 DEF Apart
  <2>2. CASE k = n
    BY <1>15, <1>18, <2>2 DEF Apart
  <2>3. CASE m # n /\ k # n
    BY <1>5, <1>15, <2>3 DEF TableInv, Apart
  <2> QED
    BY <2>1, <2>2, <2>3
<1>21. \A f \in R : \E m \in Sessions : sess'[m].phase = "committed" /\ sess'[m].row = f
  <2>1. ASSUME NEW f \in rows
        PROVE  \E m \in Sessions : sess'[m].phase = "committed" /\ sess'[m].row = f
    <3>1. PICK m \in Sessions : sess[m].phase = "committed" /\ sess[m].row = f
      BY DEF TableInv
    <3> QED
      BY <1>5, <1>15, <3>1
  <2> QED
    BY <1>3, <1>14, <1>15, <2>1
<1>22. TableInv'
  BY <1>5, <1>12, <1>16, <1>19, <1>20, <1>21 DEF TableInv
<1>23. Key(e) \notin RowKeys
  BY <1>6 DEF RowKeys, Key, Conflicts
<1>24. \A d \in Chains : LastEntry(rows', d).id =
         IF d = c THEN LastEntry(rows, d).id + 1 ELSE LastEntry(rows, d).id
  BY <1>5, <1>7, <1>9, <1>10, <1>11
<1> QED
  BY <1>1, <1>6, <1>7, <1>9, <1>13, <1>22, <1>23, <1>24

-----------------------------------------------------------------------------
(***************************************************************************)
(* The inductive invariant: one lemma per kind of step.                    *)
(***************************************************************************)

\* The steps of PostgresLog are its own.
LEMMA PgStepNames == PgSteps \cap CallSteps = {}
  BY DEF PgSteps, CallSteps

\* The invariant holds initially.
LEMMA InitInv == Init => Inv
<1> SUFFICES ASSUME Init PROVE Inv
  OBVIOUS
<1>1. RowKeys = {}
  BY DEF Init, RowKeys
<1>2. CallsInv(PgSteps, RowKeys)
  BY <1>1, CallsInitInv, PgStepNames DEF Init
<1>3. /\ sess = [n \in Sessions |-> NoSession] /\ \A n \in Sessions : sess[n].phase = "none"
      /\ \A n \in Sessions : sess[n].snap = {}
  BY NoSessionType DEF Init
<1>4. TableInv
  <2>1. sess \in [Sessions -> SessionType(rows)]
    BY <1>3, NoSessionType
  <2>2. \A n \in Sessions : SessionOK(sess[n], rows) /\ Current(sess[n])
    BY <1>3, EmptyLedger DEF SessionOK, Current, HasRead, HasRow, Holding
  <2>3. \A n \in Sessions : \A m \in Sessions \ {n} : Apart(sess[n], sess[m])
    BY <1>3 DEF Apart, HasRow, Holding
  <2>4. rows = {} /\ env \in Environments /\ \A c \in Chains : Ledger(rows, c)
    BY EmptyLedger DEF Init
  <2> QED
    BY <2>1, <2>2, <2>3, <2>4 DEF TableInv
<1>5. Attached /\ Secret
  BY <1>3 DEF Init, CallsInit, Attached, Secret
<1>6. Budget
  <2>1. Used = {} /\ Waiting = {}
    BY <1>3 DEF Used, Waiting, Init, CallsInit
  <2>2. IsFiniteSet({}) /\ Cardinality({}) = 0 /\ calls = 0
    BY FS_EmptySet DEF Init, CallsInit
  <2> QED
    BY <2>1, <2>2 DEF Budget, Within
<1>7. HandleInv
  BY DEF Init, HandleInv
<1>8. HealthyInv
  BY <1>3 DEF Init, CallsInit, HealthyInv, NoResult, Result
<1> QED
  BY <1>2, <1>4, <1>5, <1>6, <1>7, <1>8 DEF Inv

(***************************************************************************)
(* A step that calls and sessions take no part in.                         *)
(***************************************************************************)
LEMMA HandleStep ==
  ASSUME Inv, UNCHANGED <<pc, event, rec, outer, read, ret, bus, acked, calls, env, server, conn>>,
         closed' \in BOOLEAN, HandleInv',
         Healthy => life' # "failed" /\ (pool = "closed" => pool' = "closed")
  PROVE  Inv'
<1>1. PICK S : S = RowKeys
  OBVIOUS
<1>2. CallsInv(PgSteps, S)'
  BY <1>1, StillKeeps DEF Inv, CallsInv, Owned, Typed, CallsTypeOK
<1>3. CallsInv(PgSteps, RowKeys)'
  BY <1>1, <1>2 DEF CallsInv, Owned, Delivered, RowKeys, server
<1>4. TableInv'
  BY DEF Inv, TableInv, Current, Apart, server
<1>5. Attached' /\ Secret' /\ Budget'
  BY DEF Inv, Attached, Secret, Budget, Used, Waiting, Unseen, InProgress, Publishing, server
<1>6. HealthyInv'
  BY DEF Inv, HealthyInv, Healthy, server
<1> QED
  BY <1>3, <1>4, <1>5, <1>6 DEF Inv

(***************************************************************************)
(* A step of a call outside its transaction.                               *)
(***************************************************************************)
LEMMA CallStep ==
  ASSUME Inv, NEW t \in Callers, NEW S, S = RowKeys,
         CallsInv(PgSteps, S)', KeepsSecrets, UNCHANGED <<handle, server, conn>>,
         pc[t] # "tx", pc'[t] # "tx", \A u \in Callers \ {t} : pc'[u] = pc[u],
         \/ pc'[t] # "begin" /\ calls' = calls
         \/ calls' = calls + 1,
         Healthy /\ pool # "closed" =>
           \A u \in Callers : ret'[u] = ret[u] \/ "ErrBackendUnavailable" \notin ret'[u].err
  PROVE  Inv'
<1>1. CallsInv(PgSteps, RowKeys)'
  BY DEF CallsInv, Owned, Delivered, RowKeys, server
<1>2. TableInv'
  BY DEF Inv, TableInv, Current, Apart, server, handle
<1>3. Attached'
  BY DEF Inv, Attached, server
<1>4. Secret'
  <2> SUFFICES ASSUME NEW u \in Callers, pc'[u] = "tx", sess[conn[u]].phase = "committed"
               PROVE  Unseen(Key(sess[conn[u]].row))'
    BY DEF Secret, server
  <2>1. pc[u] = "tx" /\ conn[u] \in Sessions
    BY DEF Inv, Attached
  <2>2. Key(sess[conn[u]].row) \in Keys
    BY <2>1, KeyOfEntry DEF Inv, TableInv, SessionOK
  <2>3. PICK k : k = Key(sess[conn[u]].row)
    OBVIOUS
  <2>4. Unseen(k)'
    BY <2>1, <2>2, <2>3 DEF Inv, Secret, KeepsSecrets
  <2>5. k = Key(sess[conn[u]].row)'
    BY <2>3 DEF server
  <2> QED
    BY <2>4, <2>5 DEF Unseen, InProgress, Publishing
<1>5. Budget'
  <2>1. calls \in Nat /\ Used' = Used
    BY CallsConstants DEF Inv, CallsInv, Typed, CallsTypeOK, Used, server
  <2>2. CASE pc'[t] # "begin" /\ calls' = calls
    <3>1. Waiting' \subseteq Waiting
      BY <2>2 DEF Waiting
    <3>2. PICK A, B, A2, B2 : A = Used /\ B = Waiting /\ A2 = Used' /\ B2 = Waiting'
      OBVIOUS
    <3>3. Within(A2, B2, calls)
      BY <2>1, <3>1, <3>2, WithinShrinks DEF Inv, Budget
    <3> QED
      BY <2>2, <3>2, <3>3 DEF Budget
  <2>3. CASE calls' = calls + 1
    <3>1. Waiting' \subseteq Waiting \cup {t}
      BY DEF Waiting
    <3>2. PICK A, B, B2, k : A = Used /\ B = Waiting /\ B2 = Waiting' /\ k = calls
      OBVIOUS
    <3>3. Within(A, B2, k + 1)
      BY <2>1, <3>1, <3>2, WithinBegins DEF Inv, Budget
    <3> QED
      BY <2>1, <2>3, <3>2, <3>3 DEF Budget
  <2> QED
    BY <2>2, <2>3
<1>6. HandleInv'
  BY DEF Inv, HandleInv, handle
<1>7. HealthyInv'
  BY DEF Inv, HealthyInv, Healthy, handle, server
<1> QED
  BY <1>1, <1>2, <1>3, <1>4, <1>5, <1>6, <1>7 DEF Inv

(***************************************************************************)
(* A step of a session short of a commit, which no caller notices yet.     *)
(***************************************************************************)
LEMMA SessionStep ==
  ASSUME Inv, NEW n \in Sessions, Quiet, UNCHANGED rows, TableInv',
         \A m \in Sessions \ {n} : sess'[m] = sess[m],
         sess[n].phase # "none", sess'[n].phase # "committed",
         sess'[n].phase # "none" \/ Orphan(n),
         Healthy => sess'[n].phase # "aborted"
  PROVE  Inv'
<1>1. PICK S : S = RowKeys
  OBVIOUS
<1>2. CallsInv(PgSteps, S)' /\ KeepsSecrets
  BY <1>1, StillKeeps DEF Inv, CallsInv, Owned, Typed, CallsTypeOK, Quiet, callVars
<1>3. CallsInv(PgSteps, RowKeys)'
  BY <1>1, <1>2 DEF CallsInv, Owned, Delivered, RowKeys
<1>4. Attached'
  BY DEF Inv, Attached, Quiet, callVars, Orphan
<1>5. Secret'
  <2> SUFFICES ASSUME NEW u \in Callers, pc'[u] = "tx", sess'[conn[u]].phase = "committed"
               PROVE  Unseen(Key(sess[conn[u]].row))'
    BY DEF Secret, Quiet
  <2>1. pc[u] = "tx" /\ conn[u] \in Sessions /\ conn' = conn
    BY DEF Inv, Attached, Quiet, callVars
  <2>2. sess'[conn[u]] = sess[conn[u]]
    BY <2>1
  <2>3. Unseen(Key(sess[conn[u]].row))
    BY <2>1, <2>2 DEF Inv, Secret
  <2> QED
    BY <2>1, <2>2, <2>3 DEF Unseen, InProgress, Publishing, Quiet, callVars
<1>6. Budget'
  <2>1. calls \in Nat
    BY CallsConstants DEF Inv, CallsInv, Typed, CallsTypeOK
  <2>2. Used' \subseteq Used /\ Waiting' = Waiting /\ calls' = calls
    BY DEF Used, Waiting, Quiet, callVars
  <2>3. PICK A, B, A2 : A = Used /\ B = Waiting /\ A2 = Used'
    OBVIOUS
  <2>4. Within(A2, B, calls)
    BY <2>1, <2>2, <2>3, WithinShrinks DEF Inv, Budget
  <2> QED
    BY <2>2, <2>3, <2>4 DEF Budget
<1>7. HandleInv'
  BY DEF Inv, HandleInv, Quiet, handle
<1>8. HealthyInv'
  BY DEF Inv, HealthyInv, Healthy, Quiet, handle, callVars
<1> QED
  BY <1>3, <1>4, <1>5, <1>6, <1>7, <1>8 DEF Inv

(***************************************************************************)
(* Record leaves its transaction with an error; the session stays behind   *)
(* or, when it has been rolled back already, ends.                         *)
(***************************************************************************)
LEMMA LeaveStep ==
  ASSUME Inv, NEW t \in Callers, pc[t] = "tx",
         RecordFails(t, {"ErrBackendUnavailable"}),
         conn' = [conn EXCEPT ![t] = 0], UNCHANGED <<handle, rows>>, ~Healthy,
         \/ UNCHANGED sess
         \/ sess[conn[t]].phase = "aborted" /\ sess' = [sess EXCEPT ![conn[t]] = NoSession]
  PROVE  Inv'
<1>1. PICK S : S = RowKeys
  OBVIOUS
<1>2. CallsInv(PgSteps, S)' /\ KeepsSecrets
  BY <1>1, FailsKeeps, PgStepNames DEF Inv
<1>3. CallsInv(PgSteps, RowKeys)'
  BY <1>1, <1>2 DEF CallsInv, Owned, Delivered, RowKeys
<1>4. PICK n : n = conn[t]
  OBVIOUS
<1>5. /\ n \in Sessions /\ n # 0
      /\ \A u \in Callers \ {t} : conn[u] # n
      /\ conn'[t] = 0 /\ \A u \in Callers \ {t} : conn'[u] = conn[u]
  BY <1>4 DEF Inv, Attached
<1>6. /\ pc'[t] \notin {"tx", "begin"} /\ calls' = calls
      /\ \A u \in Callers \ {t} : pc'[u] = pc[u]
  BY DEF RecordFails, Resume, Inv, CallsInv, Typed, CallsTypeOK
<1>7. TableInv'
  <2>1. CASE UNCHANGED sess
    BY <2>1 DEF Inv, TableInv, Current, Apart, handle
  <2>2. CASE sess[n].phase = "aborted" /\ sess' = [sess EXCEPT ![n] = NoSession]
    BY <1>5, <2>2, DropSession DEF Inv, handle
  <2> QED
    BY <1>4, <2>1, <2>2
<1>8. \A m \in Sessions : sess'[m] = sess[m] \/ (m = n /\ sess'[m].phase = "none")
  BY <1>4, <1>5, NoSessionType DEF Inv, TableInv
<1>9. Attached'
  <2>1. conn' \in [Callers -> Sessions \cup {0}]
    BY DEF Inv, Attached
  <2> QED
    BY <1>5, <1>6, <1>8, <2>1 DEF Inv, Attached
<1>10. Secret'
  <2> SUFFICES ASSUME NEW u \in Callers, pc'[u] = "tx", sess'[conn'[u]].phase = "committed"
               PROVE  Unseen(Key(sess[conn[u]].row))'
    BY DEF Secret
  <2>1. u # t /\ conn'[u] = conn[u] /\ conn[u] \in Sessions \ {n} /\ pc[u] = "tx"
    BY <1>5, <1>6 DEF Inv, Attached
  <2>2. sess'[conn[u]] = sess[conn[u]]
    BY <1>8, <2>1
  <2>3. PICK k : k = Key(sess[conn[u]].row)
    OBVIOUS
  <2>4. k \in Keys /\ Unseen(k)
    BY <2>1, <2>2, <2>3, KeyOfEntry DEF Inv, Secret, TableInv, SessionOK
  <2>5. Unseen(k)' /\ k = Key(sess'[conn'[u]].row)
    BY <1>2, <2>1, <2>2, <2>3, <2>4 DEF KeepsSecrets
  <2> QED
    BY <2>5 DEF Unseen, InProgress, Publishing
<1>11. Budget'
  <2>1. calls \in Nat
    BY CallsConstants DEF Inv, CallsInv, Typed, CallsTypeOK
  <2>2. Used' \subseteq Used /\ Waiting' \subseteq Waiting
    BY <1>6, <1>8 DEF Used, Waiting
  <2>3. PICK A, B, A2, B2 : A = Used /\ B = Waiting /\ A2 = Used' /\ B2 = Waiting'
    OBVIOUS
  <2>4. Within(A2, B2, calls)
    BY <2>1, <2>2, <2>3, WithinShrinks DEF Inv, Budget
  <2> QED
    BY <1>6, <2>3, <2>4 DEF Budget
<1>12. HandleInv'
  BY <1>5 DEF Inv, HandleInv, handle
<1>13. HealthyInv'
  BY DEF HealthyInv, Healthy, handle
<1> QED
  BY <1>3, <1>7, <1>9, <1>10, <1>11, <1>12, <1>13 DEF Inv

(***************************************************************************)
(* BeginFunc: there is a session left for the transaction.                 *)
(***************************************************************************)
LEMMA AcquireStep ==
  ASSUME Inv, NEW t \in Callers, AcquireConn(t)
  PROVE  Inv'
<1>1. PICK n : n = CHOOSE m \in Sessions : sess[m].phase = "none"
  OBVIOUS
<1>2. calls \in Nat /\ MaxCalls \in Nat /\ calls <= MaxCalls
  BY CallsConstants DEF Inv, CallsInv, Typed, CallsTypeOK
<1>3. n \in Sessions /\ sess[n].phase = "none"
  <2>1. t \in Waiting
    BY DEF AcquireConn, Waiting
  <2>2. \E m \in 1..MaxCalls : m \notin Used
    BY <1>2, <2>1, WithinFree DEF Inv, Budget
  <2>3. \E m \in Sessions : sess[m].phase = "none"
    BY <2>2 DEF Used, Sessions
  <2> QED
    BY <1>1, <2>3
<1>4. n # 0 /\ n \in Nat
  BY <1>2, <1>3 DEF Sessions
<1>5. PICK c : c = event[t].chain
  OBVIOUS
<1>6. c \in Chains
  BY <1>5 DEF Inv, CallsInv, Typed, AcquireConn, Events
<1>7. /\ conn' = [conn EXCEPT ![t] = n]
      /\ sess' = [sess EXCEPT ![n] = [NoSession EXCEPT
                    !.phase = "waiting", !.chain = c,
                    !.snap = IF env.isolation = "repeatable read" THEN rows ELSE {}]]
      /\ pc[t] = "begin" /\ pool = "open"
      /\ Goto(t, "tx") /\ UNCHANGED <<rec, handle, rows>>
  BY <1>1, <1>5 DEF AcquireConn, CanAcquire
<1>8. /\ sess'[n].phase = "waiting"
      /\ \A m \in Sessions \ {n} : sess'[m] = sess[m]
  BY <1>3, <1>7 DEF Inv, TableInv, NoSession
<1>9. PICK S : S = RowKeys
  OBVIOUS
<1>10. CallsInv(PgSteps, S)' /\ KeepsSecrets
  <2>1. "tx" \in PgSteps \cup {"begin"} /\ pc[t] \in PgSteps \cup {"begin"}
    BY <1>7 DEF PgSteps
  <2> QED
    BY <1>7, <1>9, <2>1, TxKeeps, PgStepNames DEF Inv
<1>11. CallsInv(PgSteps, RowKeys)'
  BY <1>7, <1>9, <1>10 DEF CallsInv, Owned, Delivered, RowKeys
<1>12. TableInv'
  BY <1>3, <1>6, <1>7, OpenSession DEF Inv, handle
<1>13. /\ pc'[t] = "tx" /\ conn'[t] = n
       /\ \A u \in Callers \ {t} : pc'[u] = pc[u] /\ conn'[u] = conn[u]
       /\ \A u \in Callers : conn[u] # n
  BY <1>3, <1>4, <1>7 DEF Goto, Inv, CallsInv, Typed, CallsTypeOK, Attached
<1>14. Attached'
  <2>1. conn' \in [Callers -> Sessions \cup {0}]
    BY <1>3, <1>7 DEF Inv, Attached
  <2> QED
    BY <1>4, <1>8, <1>13, <2>1 DEF Inv, Attached
<1>15. Secret'
  <2> SUFFICES ASSUME NEW u \in Callers, pc'[u] = "tx", sess'[conn'[u]].phase = "committed"
               PROVE  Unseen(Key(sess[conn[u]].row))'
    BY DEF Secret
  <2>1. u # t /\ conn'[u] = conn[u] /\ conn[u] \in Sessions \ {n} /\ pc[u] = "tx"
    BY <1>8, <1>13 DEF Inv, Attached
  <2>2. sess'[conn[u]] = sess[conn[u]]
    BY <1>8, <2>1
  <2>3. Unseen(Key(sess[conn[u]].row))
    BY <2>1, <2>2 DEF Inv, Secret
  <2>4. Key(sess[conn[u]].row) \in Keys
    BY <2>1, <2>2, KeyOfEntry DEF Inv, TableInv, SessionOK
  <2>5. PICK k : k = Key(sess[conn[u]].row)
    OBVIOUS
  <2>6. Unseen(k)' /\ k = Key(sess'[conn'[u]].row)
    BY <1>10, <2>1, <2>2, <2>3, <2>4, <2>5 DEF KeepsSecrets
  <2> QED
    BY <2>6 DEF Unseen, InProgress, Publishing
<1>16. Budget'
  <2>1. t \in Waiting /\ Used' \subseteq Used \cup {n} /\ Waiting' \subseteq Waiting \ {t}
    BY <1>7, <1>8, <1>13 DEF Used, Waiting
  <2>2. PICK A, B, A2, B2 : A = Used /\ B = Waiting /\ A2 = Used' /\ B2 = Waiting'
    OBVIOUS
  <2>3. Within(A2, B2, calls)
    BY <1>2, <2>1, <2>2, WithinMoves DEF Inv, Budget
  <2> QED
    BY <1>7, <2>2, <2>3 DEF Budget, Goto
<1>17. HandleInv'
  BY <1>7 DEF Inv, HandleInv, handle
<1>18. HealthyInv'
  BY <1>7, <1>8 DEF Inv, HealthyInv, Healthy, handle, Goto
<1> QED
  BY <1>11, <1>12, <1>14, <1>15, <1>16, <1>17, <1>18 DEF Inv

(***************************************************************************)
(* The server applies a commit: a row that nobody knows of yet.            *)
(***************************************************************************)
LEMMA ApplyStep ==
  ASSUME Inv, NEW n \in Sessions, CommitApplied(n)
  PROVE  Inv'
<1>1. PICK e : e = sess[n].row
  OBVIOUS
<1>2. TableInv' /\ e \in Entry /\ Key(e) \notin RowKeys
  BY <1>1, ApplySession DEF Inv
<1>3. /\ sess[n].phase = "commit" /\ rows' = rows \cup {e} /\ Quiet
      /\ sess'[n].phase = "committed" /\ sess'[n].row = e
      /\ \A m \in Sessions \ {n} : sess'[m] = sess[m]
  <2>1. sess \in [Sessions -> SessionType(rows)]
    BY DEF Inv, TableInv
  <2> QED
    BY <1>1, <2>1 DEF CommitApplied, SessionType
<1>4. PICK S, T : S = RowKeys /\ T = RowKeys'
  OBVIOUS
<1>5. T = S \cup {Key(e)} /\ T \subseteq Keys
  BY <1>2, <1>3, <1>4, KeyOfEntry DEF RowKeys, Inv, TableInv
<1>6. CallsInv(PgSteps, T)'
  BY <1>3, <1>4, <1>5, StillKeeps DEF Inv, CallsInv, Typed, CallsTypeOK, Quiet, callVars
<1>7. CallsInv(PgSteps, RowKeys)'
  BY <1>4, <1>6 DEF CallsInv, Owned, Delivered
<1>8. Attached'
  BY <1>3 DEF Inv, Attached, Quiet, callVars
<1>9. Unseen(Key(e))
  <2>1. Key(e) \in Keys \ S /\ CallsInv(PgSteps, S)
    BY <1>2, <1>4, KeyOfEntry DEF Inv
  <2> QED
    BY <2>1, NotStoredUnseen
<1>10. Secret'
  <2> SUFFICES ASSUME NEW u \in Callers, pc[u] = "tx", sess'[conn[u]].phase = "committed"
               PROVE  Unseen(Key(sess'[conn[u]].row))
    BY <1>3 DEF Secret, Quiet, callVars, Unseen, InProgress, Publishing
  <2>1. conn[u] \in Sessions
    BY DEF Inv, Attached
  <2>2. CASE conn[u] = n
    BY <1>3, <1>9, <2>2
  <2>3. CASE conn[u] # n
    BY <1>3, <2>1, <2>3 DEF Inv, Secret
  <2> QED
    BY <2>2, <2>3
<1>11. Budget'
  <2>1. Used' = Used /\ Waiting' = Waiting /\ calls' = calls
    BY <1>3 DEF Used, Waiting, Quiet, callVars
  <2> QED
    BY <2>1 DEF Inv, Budget
<1>12. HandleInv'
  BY <1>3 DEF Inv, HandleInv, Quiet, handle
<1>13. HealthyInv'
  BY <1>3 DEF Inv, HealthyInv, Healthy, Quiet, handle, callVars
<1> QED
  BY <1>2, <1>7, <1>8, <1>10, <1>11, <1>12, <1>13 DEF Inv

(***************************************************************************)
(* BeginFunc returns nil: the caller has the key of its row.               *)
(***************************************************************************)
LEMMA ReplyStep ==
  ASSUME Inv, NEW t \in Callers, CommitReply(t)
  PROVE  Inv'
<1>1. PICK n : n = conn[t]
  OBVIOUS
<1>2. PICK k : k = Key(sess[n].row)
  OBVIOUS
<1>3. /\ pc[t] = "tx" /\ sess[n].phase = "committed"
      /\ rec' = [rec EXCEPT ![t] = k] /\ conn' = [conn EXCEPT ![t] = 0]
      /\ Goto(t, "publish") /\ UNCHANGED <<handle, server>>
  BY <1>1, <1>2 DEF CommitReply, InTx
<1>4. /\ n \in Sessions /\ n # 0
      /\ conn'[t] = 0 /\ \A u \in Callers \ {t} : conn'[u] = conn[u] /\ conn[u] # n
  BY <1>1, <1>3 DEF Inv, Attached
<1>5. sess[n].row \in rows /\ Unseen(k) /\ k \in RowKeys
  BY <1>1, <1>2, <1>3, <1>4 DEF Inv, Secret, TableInv, SessionOK, RowKeys
<1>6. PICK S : S = RowKeys
  OBVIOUS
<1>7. CallsInv(PgSteps, S)' /\ KeepsOtherSecrets(k)
  <2>1. pc[t] \in PgSteps \cup {"begin"} /\ CallsInv(PgSteps, S) /\ S \subseteq Keys /\ k \in S
    BY <1>3, <1>5, <1>6 DEF PgSteps, Inv, CallsInv, Owned
  <2> QED
    BY <1>3, <1>5, <2>1, StoredKeeps, PgStepNames
<1>8. CallsInv(PgSteps, RowKeys)'
  BY <1>3, <1>6, <1>7 DEF CallsInv, Owned, Delivered, RowKeys, server
<1>9. TableInv'
  BY <1>3 DEF Inv, TableInv, Current, Apart, server, handle
<1>10. pc'[t] = "publish" /\ \A u \in Callers \ {t} : pc'[u] = pc[u]
  BY <1>3 DEF Goto, Inv, CallsInv, Typed, CallsTypeOK
<1>11. Attached'
  <2>1. conn' \in [Callers -> Sessions \cup {0}]
    BY <1>3 DEF Inv, Attached
  <2> QED
    BY <1>3, <1>4, <1>10, <2>1 DEF Inv, Attached, server
<1>12. Secret'
  <2> SUFFICES ASSUME NEW u \in Callers, pc'[u] = "tx", sess'[conn'[u]].phase = "committed"
               PROVE  Unseen(Key(sess[conn[u]].row))'
    BY DEF Secret
  <2>1. u # t /\ conn'[u] = conn[u] /\ conn[u] \in Sessions \ {n} /\ pc[u] = "tx" /\ sess' = sess
    BY <1>3, <1>4, <1>10 DEF Inv, Attached, server
  <2>2. PICK j : j = Key(sess[conn[u]].row)
    OBVIOUS
  <2>3. sess[conn[u]].row \in rows /\ sess[conn[u]].row # sess[n].row
    BY <1>3, <1>4, <2>1 DEF Inv, TableInv, SessionOK, Apart
  <2>4. j \in Keys /\ Unseen(j) /\ j # k
    <3>1. j # k
      BY <1>2, <1>5, <2>2, <2>3, KeysDiffer DEF Inv, TableInv
    <3> QED
      BY <2>1, <2>2, <2>3, <3>1, KeyOfEntry DEF Inv, Secret, TableInv
  <2>5. Unseen(j)' /\ j = Key(sess'[conn'[u]].row)
    BY <1>7, <2>1, <2>2, <2>4 DEF KeepsOtherSecrets
  <2> QED
    BY <2>5 DEF Unseen, InProgress, Publishing
<1>13. Budget'
  <2>1. calls \in Nat
    BY CallsConstants DEF Inv, CallsInv, Typed, CallsTypeOK
  <2>2. Used' = Used /\ Waiting' \subseteq Waiting /\ calls' = calls
    BY <1>3, <1>10 DEF Used, Waiting, server, Goto
  <2>3. PICK A, B, B2 : A = Used /\ B = Waiting /\ B2 = Waiting'
    OBVIOUS
  <2>4. Within(A, B2, calls)
    BY <2>1, <2>2, <2>3, WithinShrinks DEF Inv, Budget
  <2> QED
    BY <2>2, <2>3, <2>4 DEF Budget
<1>14. HandleInv'
  BY <1>3, <1>4 DEF Inv, HandleInv, handle
<1>15. HealthyInv'
  BY <1>3 DEF Inv, HealthyInv, Healthy, server, handle, Goto
<1> QED
  BY <1>8, <1>9, <1>11, <1>12, <1>13, <1>14, <1>15 DEF Inv

(***************************************************************************)
(* A row on top of the current tail of its chain meets no constraint: its  *)
(* position is past every row of the chain, and its hash is the hash of    *)
(* that position in that chain, unless entries read alike.                 *)
(***************************************************************************)
LEMMA CurrentMeetsNoConflict ==
  ASSUME TableInv, Collisions = {},
         NEW c \in Chains, NEW z \in Contents, NEW T, T = LastEntry(rows, c),
         NEW e, e = NewEntry(c, T.id + 1, z, T.hash), NEW f \in rows
  PROVE  ~Conflicts(e, f)
<1>1. T \in [id : Nat, hash : Hash] /\ Fills(rows, c, T.id)
  BY LastOfLedger DEF TableInv
<1>2. e.chain = c /\ e.id = T.id + 1 /\ e.id \in Nat /\ e.hash = ComputeHash(c, T.id + 1, z, T.hash)
  BY <1>1 DEF NewEntry
<1>3. f \in Entry /\ f.chain \in Chains /\ f.id \in Nat /\ f.content \in Contents /\ f.prevHash \in Hash
  BY DEF TableInv, Entry
<1>4. f.hash = ComputeHash(f.chain, f.id, f.content, f.prevHash)
  BY <1>3 DEF TableInv, Ledger, ChainIntact, OfChain, Recompute
<1>5. ~(f.chain = c /\ f.id = T.id + 1)
  BY <1>1 DEF Fills, OfChain
<1>6. e.hash # f.hash
  <2> SUFFICES ASSUME e.hash = f.hash PROVE FALSE
    OBVIOUS
  <2>1. PICK d, n, m, y : d = f.chain /\ n = T.id + 1 /\ m = f.id /\ y = f.content
    OBVIOUS
  <2>2. /\ d \in Chains /\ n \in Int /\ m \in Int /\ y \in Contents
        /\ T.hash \in Hash /\ f.prevHash \in Hash
    BY <1>1, <1>3, <2>1
  <2>3. ComputeHash(c, n, z, T.hash) = ComputeHash(d, m, y, f.prevHash)
    BY <1>2, <1>4, <2>1
  <2>4. Text(c, n, z) = Text(d, m, y)
    BY <2>2, <2>3, HashInjective
  <2> QED
    BY <1>5, <2>1, <2>4, TextOfOneEntry
<1> QED
  BY <1>2, <1>5, <1>6 DEF Conflicts

(***************************************************************************)
(* The steps of a transaction, for the session on t's connection.          *)
(***************************************************************************)
LEMMA TxSteps ==
  ASSUME Inv, NEW t \in Callers,
         GetLastEntry(t) \/ InsertEntry(t) \/ ComputeHashFails(t) \/ SendCommit(t)
  PROVE  Inv'
<1>1. PICK n : n = conn[t]
  OBVIOUS
<1>2. pc[t] = "tx" /\ Quiet /\ UNCHANGED rows
  BY DEF GetLastEntry, InsertEntry, ComputeHashFails, SendCommit, InTx
<1>3. n \in Sessions /\ TableInv /\ UNCHANGED <<env, rows>>
  BY <1>1, <1>2 DEF Inv, Attached, Quiet, handle
<1>4. event[t].content \in Contents
  BY <1>2 DEF Inv, CallsInv, Typed, PgSteps, Events
<1>5. sess[n] \in SessionType(rows)
  BY <1>3 DEF TableInv
<1>6. CASE GetLastEntry(t)
  <2>1. PICK V : V = IF env.isolation = "read committed" THEN rows ELSE sess[n].snap
    OBVIOUS
  <2>2. PICK T : T = LastEntry(V, sess[n].chain)
    OBVIOUS
  <2>3. /\ sess[n].phase = "locked"
        /\ sess' = [sess EXCEPT ![n] = [sess[n] EXCEPT !.phase = "read", !.tail = T]]
    BY <1>1, <1>6, <2>1, <2>2 DEF GetLastEntry, InTx
  <2>4. TableInv'
    BY <1>3, <2>1, <2>2, <2>3, ReadSession
  <2>5. sess'[n].phase = "read" /\ \A m \in Sessions \ {n} : sess'[m] = sess[m]
    BY <1>3, <1>5, <2>3 DEF TableInv, SessionType
  <2> QED
    BY <1>2, <1>3, <2>3, <2>4, <2>5, SessionStep
<1>7. CASE InsertEntry(t)
  <2>1. PICK e : e = NewEntry(sess[n].chain, sess[n].tail.id + 1, event[t].content, sess[n].tail.hash)
    OBVIOUS
  <2>2. /\ sess[n].phase = "read"
        /\ \A m \in Sessions \ {n} : sess[m].phase \in HasRow => ~Conflicts(e, sess[m].row)
        /\ sess' = [sess EXCEPT ![n] =
                      IF \E f \in rows : Conflicts(e, f)
                        THEN Aborted ELSE [sess[n] EXCEPT !.phase = "staged", !.row = e]]
    BY <1>1, <1>7, <2>1 DEF InsertEntry, InTx, HasRow
  <2>3. CASE \E f \in rows : Conflicts(e, f)
    <3>1. sess' = [sess EXCEPT ![n] = Aborted]
      BY <2>2, <2>3
    <3>2. TableInv'
      BY <1>3, <2>2, <3>1, DropSession
    <3>3. sess'[n].phase = "aborted" /\ \A m \in Sessions \ {n} : sess'[m] = sess[m]
      BY <1>3, <3>1, NoSessionType DEF TableInv
    <3>4. ~Healthy
      <4> SUFFICES ASSUME Healthy PROVE FALSE
        OBVIOUS
      <4>1. sess[n].tail = LastEntry(rows, sess[n].chain) /\ sess[n].chain \in Chains
        BY <1>3, <2>2 DEF Healthy, TableInv, Current, SessionOK, HasRead, Holding
      <4>2. Collisions = {}
        BY DEF Healthy
      <4> QED
        BY <1>3, <1>4, <2>1, <2>3, <4>1, <4>2, CurrentMeetsNoConflict
    <3> QED
      BY <1>2, <1>3, <2>2, <3>2, <3>3, <3>4, SessionStep
  <2>4. CASE \A f \in rows : ~Conflicts(e, f)
    <3>1. sess' = [sess EXCEPT ![n] = [sess[n] EXCEPT !.phase = "staged", !.row = e]]
      BY <2>2, <2>4
    <3>2. PICK z \in Contents : z = event[t].content
      BY <1>4
    <3>3. TableInv'
      BY <1>3, <2>1, <2>2, <2>4, <3>1, <3>2, StageSession
    <3>4. sess'[n].phase = "staged" /\ \A m \in Sessions \ {n} : sess'[m] = sess[m]
      BY <1>3, <1>5, <3>1 DEF TableInv, SessionType
    <3> QED
      BY <1>2, <1>3, <2>2, <3>3, <3>4, SessionStep
  <2> QED
    BY <2>3, <2>4
<1>8. CASE ComputeHashFails(t)
  <2>1. sess[n].phase = "read" /\ sess' = [sess EXCEPT ![n] = Aborted] /\ ~Healthy
    BY <1>1, <1>8 DEF ComputeHashFails, InTx, Healthy
  <2>2. TableInv'
    BY <1>3, <2>1, DropSession
  <2>3. sess'[n].phase = "aborted" /\ \A m \in Sessions \ {n} : sess'[m] = sess[m]
    BY <1>3, <2>1, NoSessionType DEF TableInv
  <2> QED
    BY <1>2, <1>3, <2>1, <2>2, <2>3, SessionStep
<1>9. CASE SendCommit(t)
  <2>1. sess[n].phase = "staged" /\ sess' = [sess EXCEPT ![n].phase = "commit"]
    BY <1>1, <1>9 DEF SendCommit, InTx
  <2>2. TableInv'
    BY <1>3, <2>1, CommitSession
  <2>3. sess'[n].phase = "commit" /\ \A m \in Sessions \ {n} : sess'[m] = sess[m]
    BY <1>3, <1>5, <2>1 DEF TableInv, SessionType
  <2> QED
    BY <1>2, <1>3, <2>1, <2>2, <2>3, SessionStep
<1> QED
  BY <1>6, <1>7, <1>8, <1>9

(***************************************************************************)
(* The steps of the server other than a commit.                            *)
(***************************************************************************)
LEMMA ServerSteps ==
  ASSUME Inv, NEW n \in Sessions, GrantLock(n) \/ ServerAbort(n)
  PROVE  Inv'
<1>1. TableInv /\ UNCHANGED <<env, rows>> /\ Quiet /\ sess[n] \in SessionType(rows)
  BY DEF Inv, TableInv, GrantLock, ServerAbort, Quiet, handle
<1>2. CASE GrantLock(n)
  <2>1. TableInv'
    BY <1>1, <1>2, LockSession
  <2>2. /\ sess[n].phase = "waiting" /\ sess'[n].phase = "locked"
        /\ \A m \in Sessions \ {n} : sess'[m] = sess[m]
    BY <1>1, <1>2 DEF GrantLock, TableInv, SessionType
  <2> QED
    BY <1>1, <2>1, <2>2, SessionStep
<1>3. CASE ServerAbort(n)
  <2>1. /\ sess[n].phase \in Holding \cup {"waiting"} /\ ~Healthy
        /\ sess' = [sess EXCEPT ![n] = IF Orphan(n) THEN NoSession ELSE Aborted]
    BY <1>3 DEF ServerAbort, Healthy
  <2>2. sess[n].phase \notin {"none", "committed"}
    BY <2>1 DEF Holding
  <2>3. TableInv'
    BY <1>1, <2>1, <2>2, DropSession
  <2>4. /\ sess'[n].phase \in {"none", "aborted"}
        /\ sess'[n].phase # "none" \/ Orphan(n)
        /\ \A m \in Sessions \ {n} : sess'[m] = sess[m]
    BY <1>1, <2>1, NoSessionType DEF TableInv
  <2> QED
    BY <1>1, <2>1, <2>2, <2>3, <2>4, SessionStep
<1> QED
  BY <1>2, <1>3

(***************************************************************************)
(* The steps of the read methods.                                          *)
(***************************************************************************)
LEMMA ReadSteps ==
  ASSUME Inv, NEW t \in Callers, ResolveLatest(t) \/ Fetch(t) \/ ReadFails(t)
  PROVE  Inv'
<1>1. PICK S : S = RowKeys
  OBVIOUS
<1>2. CallsInv(PgSteps, S) /\ CallsTypeOK(PgSteps)
  BY <1>1 DEF Inv, CallsInv, Typed
<1>3. pc[t] \in {"resolve", "fetch"} /\ UNCHANGED <<handle, server, conn>>
  BY DEF ResolveLatest, Fetch, ReadFails
<1>4. ASSUME NEW err, NEW val, ReadReturn(t, err, val),
             Healthy /\ pool # "closed" => "ErrBackendUnavailable" \notin err
      PROVE  Inv'
  <2>1. /\ CallsInv(PgSteps, S)' /\ KeepsSecrets
        /\ ret'[t] = Result(read[t].req, read[t].known, err, val)
        /\ \A u \in Callers \ {t} : ret'[u] = ret[u]
    BY <1>2, <1>3, <1>4, ReadReturnKeeps, PgStepNames
  <2>2. /\ pc'[t] = "idle" /\ calls' = calls
        /\ \A u \in Callers \ {t} : pc'[u] = pc[u]
    BY <1>2, <1>4 DEF ReadReturn, CallsTypeOK
  <2>3. ret'[t].err = err
    BY <2>1 DEF Result
  <2>4. Healthy /\ pool # "closed" =>
          \A u \in Callers : ret'[u] = ret[u] \/ "ErrBackendUnavailable" \notin ret'[u].err
    BY <1>4, <2>1, <2>3
  <2> QED
    BY <1>1, <1>3, <2>1, <2>2, <2>4, CallStep
<1>5. ASSUME NEW last \in Nat, pc[t] = "resolve", TailResolved(t, last)
      PROVE  Inv'
  <2>1. CASE \E err, val : ReadReturn(t, err, val) /\ "ErrBackendUnavailable" \notin err
    BY <1>4, <2>1
  <2>2. CASE /\ read' = [read EXCEPT ![t].to = last]
             /\ pc' = [pc EXCEPT ![t] = "fetch"]
             /\ UNCHANGED <<event, rec, outer, ret, closed, bus, acked, calls>>
    <3>1. CallsInv(PgSteps, S)' /\ KeepsSecrets
      BY <1>2, <1>5, <2>2, ResolvedKeeps, PgStepNames
    <3>2. pc'[t] = "fetch" /\ \A u \in Callers \ {t} : pc'[u] = pc[u]
      BY <1>2, <2>2 DEF CallsTypeOK
    <3> QED
      BY <1>1, <1>3, <2>2, <3>1, <3>2, CallStep
  <2> QED
    BY <1>5, <2>1, <2>2 DEF TailResolved
<1>6. CASE ResolveLatest(t)
  <2>1. PICK last : last = LastEntry(rows, read[t].req.chain).id
    OBVIOUS
  <2>2. pc[t] = "resolve" /\ TailResolved(t, last)
    BY <1>6, <2>1 DEF ResolveLatest
  <2>3. last \in Nat
    <3>1. read[t].req.chain \in Chains
      BY <1>3 DEF Inv, CallsInv, ReadsTyped
    <3>2. rows \in SUBSET Entry /\ Ledger(rows, read[t].req.chain)
      BY <3>1 DEF Inv, TableInv
    <3>3. LastEntry(rows, read[t].req.chain) \in [id : Nat, hash : Hash]
      BY <3>2, LastOfLedger
    <3> QED
      BY <2>1, <3>3
  <2> QED
    BY <1>5, <2>2, <2>3
<1>7. CASE Fetch(t)
  <2>1. \E err, val : ReadReturn(t, err, val) /\ "ErrBackendUnavailable" \notin err
    BY <1>7 DEF Fetch, Fetched
  <2> QED
    BY <1>4, <2>1
<1>8. CASE ReadFails(t)
  BY <1>4, <1>8 DEF ReadFails, Healthy
<1> QED
  BY <1>6, <1>7, <1>8

(***************************************************************************)
(* The steps of a Record outside its transaction.                          *)
(***************************************************************************)
LEMMA RecordSteps ==
  ASSUME Inv, NEW t \in Callers,
         Begin(t) \/ AcquireFails(t) \/ Finish(t) \/ ProcessDies(t)
  PROVE  Inv'
<1>1. PICK S : S = RowKeys
  OBVIOUS
<1>2. CallsInv(PgSteps, S) /\ CallsTypeOK(PgSteps) /\ PgSteps \cap CallSteps = {}
  BY <1>1, PgStepNames DEF Inv, CallsInv, Typed
<1>3. UNCHANGED <<handle, server, conn>>
  BY DEF Begin, AcquireFails, Finish, ProcessDies
<1>4. CASE Begin(t)
  <2>0. pc[t] # "tx"
    BY <1>4 DEF Begin, Call, Record, RecordChange, SubscriberRecord, ReadEntry
  <2>1. CallBegins(t) /\ BeginCall
    BY <1>4, CallCases DEF Begin
  <2>2. CallsInv(PgSteps, S)' /\ KeepsSecrets
    BY <1>2, <2>1, BeginKeeps
  <2>3. /\ calls' = calls + 1
        /\ pc'[t] # "tx" /\ \A u \in Callers \ {t} : pc'[u] = pc[u]
        /\ \A u \in Callers : ret'[u] = ret[u] \/ "ErrBackendUnavailable" \notin ret'[u].err
    BY <1>2, <2>0, <2>1
    DEF BeginCall, CallBegins, Refuse, Accept, ReadBegins, CallsTypeOK, NoResult, Result
  <2> QED
    BY <1>1, <1>3, <2>0, <2>2, <2>3, CallStep
<1>5. CASE AcquireFails(t)
  <2>1. CallsInv(PgSteps, S)' /\ KeepsSecrets
    BY <1>2, <1>5, FailsKeeps DEF AcquireFails
  <2>2. /\ pc[t] = "begin" /\ pc'[t] \notin {"tx", "begin"} /\ calls' = calls
        /\ \A u \in Callers \ {t} : pc'[u] = pc[u]
        /\ Healthy => pool = "closed"
    BY <1>2, <1>5 DEF AcquireFails, RecordFails, Resume, CallsTypeOK, Healthy
  <2> QED
    BY <1>1, <1>3, <2>1, <2>2, CallStep
<1>6. CASE PublishRecorded(t)
  <2>1. CallsInv(PgSteps, S)' /\ KeepsSecrets
    BY <1>2, <1>6, PublishKeeps
  <2>2. /\ pc[t] = "publish" /\ pc'[t] \notin {"tx", "begin"} /\ calls' = calls
        /\ \A u \in Callers \ {t} : pc'[u] = pc[u]
        /\ ret' = ret
    BY <1>2, <1>6 DEF PublishRecorded, CallsTypeOK
  <2> QED
    BY <1>1, <1>3, <2>1, <2>2, CallStep
<1>7. CASE RecordReturn(t)
  <2>1. CallsInv(PgSteps, S)' /\ KeepsSecrets
    BY <1>2, <1>7, ReturnKeeps
  <2>2. /\ pc[t] # "tx" /\ pc'[t] \notin {"tx", "begin"} /\ calls' = calls
        /\ \A u \in Callers \ {t} : pc'[u] = pc[u] /\ ret'[u] = ret[u]
        /\ "ErrBackendUnavailable" \notin ret'[t].err
    BY <1>2, <1>7 DEF RecordReturn, Resume, CallsTypeOK, Result
  <2> QED
    BY <1>1, <1>3, <2>1, <2>2, CallStep
<1>8. CASE ProcessDies(t)
  <2>1. CallsInv(PgSteps, S)' /\ KeepsSecrets
    BY <1>2, <1>8, CrashKeeps DEF ProcessDies
  <2>2. /\ pc[t] # "tx" /\ pc'[t] = "idle" /\ calls' = calls /\ ret' = ret
        /\ \A u \in Callers \ {t} : pc'[u] = pc[u]
    BY <1>2, <1>8 DEF ProcessDies, Crash, CallsTypeOK
  <2> QED
    BY <1>1, <1>3, <2>1, <2>2, CallStep
<1> QED
  BY <1>4, <1>5, <1>6, <1>7, <1>8 DEF Finish

(***************************************************************************)
(* The steps of the constructor and of Close.                              *)
(***************************************************************************)
LEMMA HandleSteps ==
  ASSUME Inv,
         \/ Construct \/ PingDialed \/ ConstructAgain
         \/ CloseFlag \/ ClosePool \/ CloseReturn \/ CloseAgain
  PROVE  Inv'
<1>1. UNCHANGED <<pc, event, rec, outer, read, ret, bus, acked, calls, env, server, conn>>
  BY DEF Construct, PingDialed, ConstructAgain, CloseFlag, ClosePool, CloseReturn, CloseAgain,
     vars, callVars, handle
<1>2. closed' \in BOOLEAN
  BY DEF Construct, PingDialed, ConstructAgain, CloseFlag, ClosePool, CloseReturn, CloseAgain,
     vars, callVars, Inv, CallsInv, Typed, CallsTypeOK
<1>3. env.ownsPool \in BOOLEAN
  BY PostgresConstants DEF Inv, TableInv
<1>4. HandleInv'
  <2>1. CASE Construct \/ PingDialed \/ ConstructAgain
    BY <1>1, <1>3, <2>1 DEF Construct, PingDialed, ConstructAgain, Inv, HandleInv
  <2>2. CASE CloseFlag \/ ClosePool
    BY <1>1, <1>3, <2>2 DEF CloseFlag, ClosePool, Inv, HandleInv
  <2>3. CASE CloseReturn
    <3>1. \A t \in Callers : conn'[t] = 0
      BY <1>1, <2>3 DEF CloseReturn, Out
    <3> QED
      BY <1>1, <1>3, <2>3, <3>1 DEF CloseReturn, Inv, HandleInv
  <2>4. CASE CloseAgain
    BY <1>1, <2>4 DEF CloseAgain, vars, handle, Inv, HandleInv
  <2> QED
    BY <2>1, <2>2, <2>3, <2>4
<1>5. Healthy => life' # "failed" /\ (pool = "closed" => pool' = "closed")
  BY <1>3 DEF Construct, PingDialed, ConstructAgain, CloseFlag, ClosePool, CloseReturn,
     CloseAgain, vars, handle, Inv, HandleInv, HealthyInv, Healthy
<1> QED
  BY <1>1, <1>2, <1>4, <1>5, HandleStep

(***************************************************************************)
(* Every step preserves the invariant.                                     *)
(***************************************************************************)
LEMMA NextInv == Inv /\ [Next]_vars => Inv'
<1> SUFFICES ASSUME Inv, [Next]_vars PROVE Inv'
  OBVIOUS
<1>1. CASE UNCHANGED vars
  BY <1>1, HandleStep DEF vars, callVars, handle, Inv, HandleInv, HealthyInv, CallsInv, Typed,
     CallsTypeOK
<1>2. ASSUME NEW t \in Callers, TxFailed(t)
      PROVE  Inv'
  <2>1. pc[t] = "tx" /\ sess[conn[t]].phase = "aborted"
    BY <1>2 DEF TxFailed, InTx
  <2>2. ~Healthy
    BY <2>1 DEF Inv, Attached, HealthyInv
  <2> QED
    BY <1>2, <2>1, <2>2, LeaveStep DEF TxFailed
<1>3. ASSUME NEW t \in Callers, Detach(t)
      PROVE  Inv'
  BY <1>3, LeaveStep DEF Detach, Healthy, server
<1> QED
  BY <1>1, <1>2, <1>3, AcquireStep, ApplyStep, ReplyStep, TxSteps, ServerSteps, ReadSteps,
     RecordSteps, HandleSteps
  DEF Next, ClientStep, Fault, CloseStep

(***************************************************************************)
(* Every behaviour satisfies the inductive invariant.                      *)
(***************************************************************************)
LEMMA InvAlways == Spec => []Inv
  BY InitInv, NextInv, PTL DEF Spec

-----------------------------------------------------------------------------
(***************************************************************************)
(* Every reachable state of the PostgreSQL backend is well typed.          *)
(***************************************************************************)
THEOREM TypeCorrect == Spec => []TypeOK
<1>1. Inv => TypeOK
  BY DEF Inv, CallsInv, Typed, PgSteps, TableInv, SessionType, Attached, HandleInv, TypeOK
<1> QED
  BY <1>1, InvAlways, PTL

(***************************************************************************)
(* Every chain of the table is an intact hash chain at every commit,       *)
(* whatever sessions survive their callers, whatever chains share an       *)
(* advisory key, under either isolation level.                             *)
(***************************************************************************)
THEOREM ChainsAlwaysIntact == Spec => []ChainsIntact
<1>1. Inv => ChainsIntact
  BY DEF Inv, TableInv, Ledger, ChainsIntact
<1> QED
  BY <1>1, InvAlways, PTL

(***************************************************************************)
(* Under read committed no session changes the tail that another one has   *)
(* read: the lock is taken before the read and held until the commit.      *)
(***************************************************************************)
THEOREM TailsStayCurrent == Spec => []TailNotStale
<1>1. Inv => TailNotStale
  BY DEF Inv, TableInv, Current, HasRead, TailNotStale
<1> QED
  BY <1>1, InvAlways, PTL

(***************************************************************************)
(* Every row comes from exactly one transaction that was told to commit,   *)
(* and a Record acknowledges or publishes only what is a row.              *)
(***************************************************************************)
THEOREM RowsAlwaysFromCommits == Spec => []RowsFromCommits
<1>1. Inv => RowsFromCommits
  <2> SUFFICES ASSUME Inv PROVE RowsFromCommits
    OBVIOUS
  <2>1. \A n \in Sessions : sess[n].phase = "committed" => sess[n].row \in rows
    BY DEF Inv, TableInv, SessionOK
  <2>2. ASSUME NEW e \in rows
        PROVE  \E n \in Sessions :
                 /\ sess[n].phase = "committed" /\ sess[n].row = e
                 /\ \A m \in Sessions \ {n} : sess[m].phase = "committed" => sess[m].row # e
    BY DEF Inv, TableInv, Apart
  <2>3. ASSUME NEW t \in Callers, Publishing(t)
        PROVE  \E e \in rows : rec[t] = Key(e) /\ Key(e) \notin acked
    <3>1. rec[t] \in Keys /\ InProgress(t, rec[t])
      BY <2>3 DEF Inv, CallsInv, Typed, InProgress
    <3>2. rec[t] \in RowKeys /\ rec[t] \notin acked
      BY <3>1 DEF Inv, CallsInv, Owned
    <3> QED
      BY <3>2 DEF RowKeys
  <2> QED
    BY <2>1, <2>2, <2>3 DEF RowsFromCommits
<1> QED
  BY <1>1, InvAlways, PTL

(***************************************************************************)
(* On a healthy server under read committed no call fails while the pool   *)
(* is open.                                                                *)
(***************************************************************************)
THEOREM HealthyCallsAlwaysSucceed == Spec => []HealthyCallsSucceed
<1>1. Inv => HealthyCallsSucceed
  BY DEF Inv, HealthyInv, HealthyCallsSucceed
<1> QED
  BY <1>1, InvAlways, PTL

(***************************************************************************)
(* A pool that was passed in is never closed; a pool that was dialed is    *)
(* not left open by a failed constructor or by Close.                      *)
(***************************************************************************)
THEOREM PoolAlwaysOwned == Spec => []PoolOwnership
<1>1. Inv => PoolOwnership
  <2> SUFFICES ASSUME Inv PROVE PoolOwnership
    OBVIOUS
  <2>1. env.ownsPool \in BOOLEAN
    BY PostgresConstants DEF Inv, TableInv
  <2> QED
    BY <2>1 DEF Inv, HandleInv, PoolOwnership
<1> QED
  BY <1>1, InvAlways, PTL

(***************************************************************************)
(* Once Close has returned on a pool of its own, only sessions of clients  *)
(* that were cut off still change on the server.                           *)
(***************************************************************************)
THEOREM CloseAlwaysDrains == Spec => CloseDrains
<1>1. Inv /\ [Next]_vars =>
        [\A n \in Sessions :
           env.ownsPool /\ life = "done" /\ sess'[n] # sess[n] => Orphan(n)]_vars
  <2> SUFFICES ASSUME Inv, NEW n \in Sessions, env.ownsPool, life = "done"
               PROVE  Orphan(n)
    OBVIOUS
  <2>1. \A t \in Callers : conn[t] = 0
    BY DEF Inv, HandleInv
  <2>2. n # 0
    BY CallsConstants DEF Sessions
  <2> QED
    BY <2>1, <2>2 DEF Orphan
<1> QED
  BY <1>1, InvAlways, PTL DEF Spec, CloseDrains

-----------------------------------------------------------------------------
(***************************************************************************)
(* Refinement of AuditLog.  The server's application of a commit is        *)
(* Commit, whether or not its caller is still there; the publication to a  *)
(* bus is Publish, the return of a Record is Ack, and every other step is  *)
(* a stutter.                                                              *)
(***************************************************************************)
TailIDs == [c \in Chains |-> LastEntry(rows, c).id]

Published == { bus[i] : i \in DOMAIN bus }

\* Initial states map to initial states of AuditLog.
LEMMA AbstractInit == Init => Abstract!Init
<1> SUFFICES ASSUME Init PROVE Abstract!Init
  OBVIOUS
<1>1. rows = {} /\ DOMAIN bus = {}
  BY DEF Init, CallsInit
<1>2. \A c \in Chains : LastEntry(rows, c).id = 0
  BY <1>1, EmptyLedger DEF NoTail
<1> QED
  BY <1>1, <1>2 DEF Abstract!Init, Init, CallsInit

\* Every step maps to a step of AuditLog or to a stutter.
LEMMA AbstractStep == Inv /\ [Next]_vars => [Abstract!Next]_(Abstract!vars)
<1> SUFFICES ASSUME Inv, [Next]_vars
             PROVE  Abstract!Next \/ UNCHANGED <<RowKeys, TailIDs, Published, acked>>
  BY DEF Abstract!vars, RowKeys, TailIDs, Published
<1>d. CallsTypeOK(PgSteps) /\ Typed(PgSteps)
  BY DEF Inv, CallsInv, Typed
\* A step that changes none of the four variables of AuditLog.
<1>s. ASSUME UNCHANGED <<rows, bus, acked>>
      PROVE  UNCHANGED <<RowKeys, TailIDs, Published, acked>>
  BY <1>s DEF RowKeys, TailIDs, Published
<1>1. CASE UNCHANGED vars
  BY <1>1, <1>s DEF vars, callVars, server
<1>2. CASE Construct \/ PingDialed \/ ConstructAgain \/ CloseFlag \/ CloseStep \/ CloseAgain
  BY <1>2, <1>s DEF Construct, PingDialed, ConstructAgain, CloseFlag, CloseStep, ClosePool,
     CloseReturn, CloseAgain, vars, callVars, server
<1>3. ASSUME NEW t \in Callers, Begin(t)
      PROVE  UNCHANGED <<RowKeys, TailIDs, Published, acked>>
  <2>1. CallBegins(t) /\ UNCHANGED server
    BY <1>3, CallCases DEF Begin
  <2>2. UNCHANGED <<bus, acked>>
    BY <2>1 DEF CallBegins, Refuse, Accept, ReadBegins
  <2> QED
    BY <1>s, <2>1, <2>2 DEF server
<1>4. ASSUME NEW t \in Callers,
             \/ AcquireConn(t) \/ AcquireFails(t) \/ TxFailed(t) \/ Detach(t)
             \/ CommitReply(t) \/ ProcessDies(t)
      PROVE  UNCHANGED <<RowKeys, TailIDs, Published, acked>>
  BY <1>4, <1>s DEF AcquireConn, AcquireFails, TxFailed, Detach, CommitReply, ProcessDies, Crash,
     RecordFails, Goto, server
<1>5. ASSUME NEW t \in Callers,
             GetLastEntry(t) \/ InsertEntry(t) \/ ComputeHashFails(t) \/ SendCommit(t)
      PROVE  UNCHANGED <<RowKeys, TailIDs, Published, acked>>
  BY <1>5, <1>s DEF GetLastEntry, InsertEntry, ComputeHashFails, SendCommit, Quiet, callVars
<1>6. ASSUME NEW t \in Callers, ResolveLatest(t) \/ Fetch(t) \/ ReadFails(t)
      PROVE  UNCHANGED <<RowKeys, TailIDs, Published, acked>>
  <2>1. UNCHANGED rows
    BY <1>6 DEF ResolveLatest, Fetch, ReadFails, server
  <2>2. UNCHANGED <<bus, acked>>
    BY <1>6 DEF ResolveLatest, Fetch, ReadFails, TailResolved, Fetched, ReadReturn
  <2> QED
    BY <1>s, <2>1, <2>2
<1>7. ASSUME NEW n \in Sessions, GrantLock(n) \/ ServerAbort(n)
      PROVE  UNCHANGED <<RowKeys, TailIDs, Published, acked>>
  BY <1>7, <1>s DEF GrantLock, ServerAbort, Quiet, callVars
<1>8. ASSUME NEW n \in Sessions, CommitApplied(n)
      PROVE  Abstract!Next
  <2>1. PICK e : e = sess[n].row
    OBVIOUS
  <2>2. /\ e \in Entry /\ e.chain \in Chains /\ e.content \in Contents
        /\ e.id = LastEntry(rows, e.chain).id + 1
        /\ \A c \in Chains : LastEntry(rows', c).id =
             IF c = e.chain THEN LastEntry(rows, c).id + 1 ELSE LastEntry(rows, c).id
    BY <1>8, <2>1, ApplySession DEF Inv, Entry
  <2>3. rows' = rows \cup {e} /\ UNCHANGED <<bus, acked>>
    BY <1>8, <2>1 DEF CommitApplied, Quiet, callVars
  <2>4. PICK c \in Chains, z \in Contents : c = e.chain /\ z = e.content
    BY <2>2
  <2>5. RowKeys' = RowKeys \cup {[chain |-> c, id |-> TailIDs[c] + 1, content |-> z]}
    <3>1. RowKeys' = RowKeys \cup {Key(e)}
      BY <2>3 DEF RowKeys
    <3>2. Key(e) = [chain |-> c, id |-> TailIDs[c] + 1, content |-> z]
      BY <2>2, <2>4 DEF Key, TailIDs
    <3> QED
      BY <3>1, <3>2
  <2>6. TailIDs' = [TailIDs EXCEPT ![c] = @ + 1]
    BY <2>2, <2>4 DEF TailIDs
  <2>7. Published' = Published
    BY <2>3 DEF Published
  <2>8. Abstract!Commit(c, z)
    BY <2>3, <2>5, <2>6, <2>7 DEF Abstract!Commit, RowKeys, TailIDs, Published
  <2> QED
    BY <2>8 DEF Abstract!Next
<1>9. ASSUME NEW t \in Callers, PublishRecorded(t), UNCHANGED server
      PROVE  Abstract!Next \/ UNCHANGED <<RowKeys, TailIDs, Published, acked>>
  <2>1. CASE bus' = bus
    BY <1>9, <1>s, <2>1 DEF PublishRecorded, server
  <2>2. CASE bus' = Append(bus, rec[t])
    <3>1. /\ rec[t] \in Keys /\ InProgress(t, rec[t])
          /\ rec[t] \in RowKeys /\ rec[t] \notin acked /\ rec[t] \notin Published
      BY <1>9, <1>d DEF PublishRecorded, Typed, InProgress, Publishing, Inv, CallsInv, Owned,
         Delivered, Published
    <3>2. Published' = Published \cup {rec[t]}
      <4>1. bus \in Seq(Keys)
        BY <1>d DEF CallsTypeOK
      <4> QED
        BY <2>2, <3>1, <4>1, AppendFacts DEF Published
    <3>3. UNCHANGED <<RowKeys, TailIDs, acked>>
      BY <1>9 DEF PublishRecorded, server, RowKeys, TailIDs
    <3>4. PICK k \in RowKeys : k = rec[t]
      BY <3>1
    <3>5. Abstract!Publish(k)
      BY <3>1, <3>2, <3>3, <3>4 DEF Abstract!Publish, RowKeys, TailIDs, Published
    <3> QED
      BY <3>5 DEF Abstract!Next, RowKeys
  <2> QED
    BY <1>9, <2>1, <2>2 DEF PublishRecorded
<1>10. ASSUME NEW t \in Callers, RecordReturn(t), UNCHANGED server
       PROVE  Abstract!Next
  <2>1. rec[t] \in Keys /\ InProgress(t, rec[t]) /\ rec[t] \in RowKeys /\ rec[t] \notin acked
    BY <1>10, <1>d DEF RecordReturn, Typed, InProgress, Publishing, Inv, CallsInv, Owned
  <2>2. UNCHANGED <<RowKeys, TailIDs, Published>> /\ acked' = acked \cup {rec[t]}
    BY <1>10 DEF RecordReturn, server, RowKeys, TailIDs, Published
  <2>3. PICK k \in RowKeys : k = rec[t]
    BY <2>1
  <2>4. Abstract!Ack(k)
    BY <2>1, <2>2, <2>3 DEF Abstract!Ack, RowKeys, TailIDs, Published
  <2> QED
    BY <2>4 DEF Abstract!Next, RowKeys
<1> QED
  BY <1>1, <1>2, <1>3, <1>4, <1>5, <1>6, <1>7, <1>8, <1>9, <1>10
  DEF Next, ClientStep, Fault, Finish

(***************************************************************************)
(* The PostgreSQL backend implements AuditLog, also where sessions outlive *)
(* their callers and commits whose answer was lost are applied later.      *)
(***************************************************************************)
THEOREM PostgresLogImplements == Spec => ImplementsAuditLog
  BY AbstractInit, AbstractStep, InvAlways, PTL DEF Spec, ImplementsAuditLog, Abstract!Spec

-----------------------------------------------------------------------------
(***************************************************************************)
(* The answers of the read methods.                                        *)
(***************************************************************************)
AnswersInv == \A t \in Callers : Answered(ret[t])

(***************************************************************************)
(* Only a step of a read method leaves an answer.                          *)
(***************************************************************************)
LEMMA QuietSteps ==
  ASSUME Inv, [Next]_vars,
         \A t \in Callers : ~(ResolveLatest(t) \/ Fetch(t) \/ ReadFails(t))
  PROVE  NoReadReturns
<1>1. PICK S : S = RowKeys
  OBVIOUS
<1>2. CallsInv(PgSteps, S) /\ PgSteps \cap CallSteps = {}
  BY <1>1, PgStepNames DEF Inv
<1>3. ASSUME UNCHANGED ret PROVE NoReadReturns
  BY <1>3 DEF NoReadReturns
<1>4. CASE UNCHANGED vars
  BY <1>3, <1>4 DEF vars, callVars
<1>5. CASE Construct \/ PingDialed \/ ConstructAgain \/ CloseFlag \/ CloseStep \/ CloseAgain
  BY <1>3, <1>5 DEF Construct, PingDialed, ConstructAgain, CloseFlag, CloseStep, ClosePool,
     CloseReturn, CloseAgain, vars, callVars
<1>6. ASSUME NEW t \in Callers, Begin(t) PROVE NoReadReturns
  <2>1. CallBegins(t) /\ BeginCall
    BY <1>6, CallCases DEF Begin
  <2> QED
    BY <1>2, <2>1, BeginKeeps
<1>7. ASSUME NEW t \in Callers, AcquireFails(t) \/ TxFailed(t) \/ Detach(t)
      PROVE  NoReadReturns
  BY <1>2, <1>7, FailsKeeps DEF AcquireFails, TxFailed, Detach
<1>8. ASSUME NEW t \in Callers, Finish(t) PROVE NoReadReturns
  BY <1>2, <1>8, PublishKeeps, ReturnKeeps DEF Finish
<1>9. ASSUME NEW t \in Callers, AcquireConn(t) \/ CommitReply(t) \/ ProcessDies(t)
      PROVE  NoReadReturns
  BY <1>3, <1>9 DEF AcquireConn, CommitReply, ProcessDies, Crash, Goto
<1>10. ASSUME NEW t \in Callers,
              GetLastEntry(t) \/ InsertEntry(t) \/ ComputeHashFails(t) \/ SendCommit(t)
       PROVE  NoReadReturns
  BY <1>3, <1>10 DEF GetLastEntry, InsertEntry, ComputeHashFails, SendCommit, Quiet, callVars
<1>11. ASSUME NEW n \in Sessions, GrantLock(n) \/ CommitApplied(n) \/ ServerAbort(n)
       PROVE  NoReadReturns
  BY <1>3, <1>11 DEF GrantLock, CommitApplied, ServerAbort, Quiet, callVars
<1> QED
  BY <1>4, <1>5, <1>6, <1>7, <1>8, <1>9, <1>10, <1>11 DEF Next, ClientStep, Fault

\* Every step leaves answers that are accepted.
LEMMA AnswersNext == Inv /\ AnswersInv /\ [Next]_vars => AnswersInv'
<1> SUFFICES ASSUME Inv, AnswersInv, [Next]_vars PROVE AnswersInv'
  OBVIOUS
<1>1. PICK R : R = rows
  OBVIOUS
<1>2. /\ R \in SUBSET Entry /\ \A c \in Chains : Ledger(R, c)
      /\ CallsInv(PgSteps, KeysOf(R)) /\ PgSteps \cap CallSteps = {}
  BY <1>1, PgStepNames DEF Inv, TableInv, RowKeys, KeysOf
<1>3. ASSUME NEW t \in Callers, Answered(ret'[t]), \A u \in Callers \ {t} : ret'[u] = ret[u]
      PROVE  AnswersInv'
  BY <1>3 DEF AnswersInv
<1>4. ASSUME NEW t \in Callers, Fetch(t) PROVE AnswersInv'
  <2>1. GoodAnswer(ret'[t]) /\ \A u \in Callers \ {t} : ret'[u] = ret[u]
    BY <1>1, <1>2, <1>4, FetchedAnswers DEF Fetch
  <2> QED
    BY <1>3, <2>1 DEF GoodAnswer, Answered
<1>5. ASSUME NEW t \in Callers, ResolveLatest(t) PROVE AnswersInv'
  <2>1. PICK last : last = LastEntry(R, read[t].req.chain).id
    OBVIOUS
  <2>2. last \in Nat
    <3>1. read[t].req.chain \in Chains
      BY <1>5 DEF ResolveLatest, Inv, CallsInv, ReadsTyped
    <3>2. LastEntry(R, read[t].req.chain) \in [id : Nat, hash : Hash]
      BY <1>2, <3>1, LastOfLedger
    <3> QED
      BY <2>1, <3>2
  <2>3. pc[t] = "resolve" /\ TailResolved(t, last)
    BY <1>1, <1>5, <2>1 DEF ResolveLatest
  <2>4. \/ GoodAnswer(ret'[t]) /\ \A u \in Callers \ {t} : ret'[u] = ret[u]
        \/ ret' = ret
    BY <1>2, <2>1, <2>2, <2>3, ResolvedAnswers
  <2> QED
    BY <1>3, <2>4 DEF GoodAnswer, Answered, AnswersInv
<1>6. ASSUME NEW t \in Callers, ReadFails(t) PROVE AnswersInv'
  <2>1. /\ ret'[t] = Result(read[t].req, read[t].known, {"ErrBackendUnavailable"}, 0)
        /\ \A u \in Callers \ {t} : ret'[u] = ret[u]
    BY <1>2, <1>6, ReadReturnKeeps DEF ReadFails
  <2>2. ret'[t].err = {"ErrBackendUnavailable"}
    BY <2>1 DEF Result
  <2>3. Answered(ret'[t])
    BY <2>2 DEF Answered, FromStartValid
  <2> QED
    BY <1>3, <2>1, <2>3
<1>7. CASE NoReadReturns
  BY <1>7, NoAnswer DEF NoReadReturns, AnswersInv, Answered
<1> QED
  BY <1>4, <1>5, <1>6, <1>7, QuietSteps

\* The last answer of every goroutine is accepted, at all times.
LEMMA AnswersAlways == Spec => []AnswersInv
<1>1. Init => AnswersInv
  BY NoAnswer DEF Init, CallsInit, AnswersInv, Answered, NoResult, Result
<1> QED
  BY <1>1, AnswersNext, InvAlways, PTL DEF Spec

(***************************************************************************)
(* Every Verify that starts at the first entry reports a valid chain,      *)
(* whatever Records it races with and whatever its upper bound.            *)
(***************************************************************************)
THEOREM VerifyAlwaysValid == Spec => []VerifyFromStartValid
<1>1. AnswersInv => VerifyFromStartValid
  BY DEF AnswersInv, Answered, FromStartValid, VerifyFromStartValid
<1> QED
  BY <1>1, AnswersAlways, PTL

(***************************************************************************)
(* A read that began after Record had returned an EntryID sees that entry. *)
(***************************************************************************)
THEOREM ReadsAlwaysSeeAcked == Spec => []ReadsSeeAcked
<1>1. AnswersInv => ReadsSeeAcked
  BY DEF AnswersInv, Answered, ReadsSeeAcked
<1> QED
  BY <1>1, AnswersAlways, PTL
=============================================================================
