---------------------------- MODULE PostgresLog ----------------------------
(***************************************************************************)
(* The PostgreSQL backend, postgresAuditLog of postgres.go, with the parts *)
(* of pgx and of the server it relies on: a connection pool, one server    *)
(* session per transaction, and advisory locks that a session holds from   *)
(* pg_advisory_xact_lock to the end of its transaction.                    *)
(*                                                                         *)
(* A caller that is cancelled, loses its connection or crashes leaves its  *)
(* session behind on the server.  Such a session keeps its lock until the  *)
(* server notices; if COMMIT had already been sent, it may still commit.   *)
(***************************************************************************)
EXTENDS DurableCalls

CONSTANTS
  Environments, \* where the program may be run, see env below
  MaxConns      \* size of the pool

ASSUME PostgresConstants ==
  /\ \A v \in Environments :
       /\ DOMAIN v = {"isolation", "lockKey", "ownsPool", "faults"}
       /\ v.isolation \in {"read committed", "repeatable read"}
       /\ DOMAIN v.lockKey = Chains
       /\ v.ownsPool \in BOOLEAN /\ v.faults \in BOOLEAN
  /\ MaxConns \in Nat \ {0}

VARIABLES
  env,       \* isolation: the server's default isolation level
             \* lockKey: chainLockSubKey, a 32-bit hash; chains may share a key
             \* ownsPool: the pool is dialed from PostgresConfig.DSN
             \* faults: cancellations, crashes, backend errors and payloads
             \*   that change during a call occur
  life,      \* progress of the constructor and of Close
  pool,      \* the pgxpool.Pool: not dialed yet, open or closed
  rows,      \* committed rows of graudit_entries
  sess,      \* server sessions
  conn       \* the session each goroutine is attached to, 0 when none

server == <<rows, sess>>
handle == <<env, life, pool>>
vars   == <<callVars, handle, server, conn>>

-----------------------------------------------------------------------------
NoSession == [phase |-> "none", chain |-> NoChain, snap |-> {},
              tail |-> NoTail, row |-> NoRow]

Phases == {"none", "waiting", "locked", "read", "staged", "commit",
           "committed", "aborted"}

Holding == {"locked", "read", "staged", "commit"}

\* At most one transaction per call to Record.
Sessions == 1..MaxCalls

TypeOK ==
  /\ CallsTypeOK({"tx"})
  /\ env \in Environments
  /\ life \in {"new", "dialed", "failed", "open", "flagged", "draining", "done"}
  /\ pool \in {"none", "open", "closed"}
  /\ rows \subseteq Entry
  /\ sess \in [Sessions ->
                 [phase : Phases, chain : Chains \cup {NoChain}, snap : SUBSET rows,
                  tail : [id : Nat, hash : Hash], row : Entry \cup {NoRow}]]
  /\ conn \in [Callers -> Sessions \cup {0}]

Init ==
  /\ CallsInit
  /\ env \in Environments
  /\ life = "new"
  /\ pool = IF env.ownsPool THEN "none" ELSE "open"
  /\ rows = {}
  /\ sess = [n \in Sessions |-> NoSession]
  /\ conn = [t \in Callers |-> 0]

-----------------------------------------------------------------------------
(***************************************************************************)
(* connectPostgres.  A DSN is parsed and dialed, then pinged; a pool dialed *)
(* here is closed again when the ping fails.  A pool that was passed in is *)
(* pinged and never closed.  A failed constructor returns no log, and its  *)
(* caller may try again.                                                   *)
(***************************************************************************)
Construct ==
  /\ life = "new"
  /\ \/ env.faults /\ life' = "failed" /\ UNCHANGED pool
     \/ env.ownsPool /\ life' = "dialed" /\ pool' = "open"
     \/ ~env.ownsPool /\ life' = "open" /\ UNCHANGED pool
  /\ UNCHANGED <<callVars, env, server, conn>>

PingDialedLeaks ==
  /\ life = "dialed"
  /\ \/ life' = "open" /\ UNCHANGED pool
     \/ env.faults /\ life' = "failed" /\ UNCHANGED pool
  /\ UNCHANGED <<callVars, env, server, conn>>

PingDialed ==
  /\ life = "dialed"
  /\ \/ life' = "open" /\ UNCHANGED pool
     \/ env.faults /\ life' = "failed" /\ pool' = "closed"
  /\ UNCHANGED <<callVars, env, server, conn>>

ConstructAgain ==
  /\ life = "failed"
  /\ life' = "new"
  /\ pool' = IF env.ownsPool THEN "none" ELSE pool
  /\ UNCHANGED <<callVars, env, server, conn>>

\* Callers have a log once the constructor has returned one.
Constructed == life \notin {"new", "dialed", "failed"}

Begin(t) == Constructed /\ Call(t, TRUE) /\ UNCHANGED <<handle, server, conn>>

-----------------------------------------------------------------------------
(***************************************************************************)
(* The pool.  pool.Close makes every later Acquire fail and then waits     *)
(* until no connection is out.                                             *)
(***************************************************************************)
Out == { t \in Callers : conn[t] # 0 }

CanAcquire == pool = "open" /\ Cardinality(Out) < MaxConns

(***************************************************************************)
(* BeginFunc takes a connection, opens a transaction on it and asks for    *)
(* the chain's advisory lock.  Under repeatable read the snapshot of the   *)
(* transaction is the one of this first statement, taken before it waits.  *)
(***************************************************************************)
AcquireConn(t) ==
  /\ pc[t] = "begin"
  /\ CanAcquire
  /\ LET n == CHOOSE n \in Sessions : sess[n].phase = "none"
     IN  /\ conn' = [conn EXCEPT ![t] = n]
         /\ sess' = [sess EXCEPT ![n] = [NoSession EXCEPT
                       !.phase = "waiting", !.chain = event[t].chain,
                       !.snap = IF env.isolation = "repeatable read" THEN rows ELSE {}]]
  /\ Goto(t, "tx")
  /\ UNCHANGED <<rec, handle, rows>>

AcquireFails(t) ==
  /\ pc[t] = "begin"
  /\ pool = "closed" \/ env.faults
  /\ RecordFails(t, {"ErrBackendUnavailable"})
  /\ UNCHANGED <<handle, server, conn>>

\* The phase of the session on the other end of t's connection.
InTx(t, phase) == pc[t] = "tx" /\ sess[conn[t]].phase = phase

\* A step of the server, or of a transaction, that no caller notices yet.
Quiet == UNCHANGED <<callVars, handle, conn>>

GrantLockPerSession(n) ==
  /\ sess[n].phase = "waiting"
  /\ sess' = [sess EXCEPT ![n].phase = "locked"]
  /\ Quiet /\ UNCHANGED rows

\* pg_advisory_xact_lock returns when no other session holds the key.
GrantLock(n) ==
  /\ sess[n].phase = "waiting"
  /\ \A m \in Sessions \ {n} :
       sess[m].phase \in Holding => env.lockKey[sess[m].chain] # env.lockKey[sess[n].chain]
  /\ sess' = [sess EXCEPT ![n].phase = "locked"]
  /\ Quiet /\ UNCHANGED rows

GetLastEntryStale(t) ==
  /\ InTx(t, "locked")
  /\ LET s == sess[conn[t]]
     IN  sess' = [sess EXCEPT ![conn[t]] =
                    [s EXCEPT !.phase = "read", !.tail = LastEntry(s.snap, s.chain)]]
  /\ Quiet /\ UNCHANGED rows

GetLastEntry(t) ==
  /\ InTx(t, "locked")
  /\ LET s == sess[conn[t]]
         visible == IF env.isolation = "read committed" THEN rows ELSE s.snap
     IN  sess' = [sess EXCEPT ![conn[t]] =
                    [s EXCEPT !.phase = "read", !.tail = LastEntry(visible, s.chain)]]
  /\ Quiet /\ UNCHANGED rows

Aborted == [NoSession EXCEPT !.phase = "aborted"]

(***************************************************************************)
(* ComputeHash and InsertEntry.  An insert waits for a transaction that    *)
(* has inserted a conflicting row, and fails if that row is committed.     *)
(***************************************************************************)
InsertEntry(t) ==
  /\ InTx(t, "read")
  /\ LET n == conn[t]
         s == sess[n]
         e == NewEntry(s.chain, s.tail.id + 1, event[t].content, s.tail.hash)
     IN  /\ \A m \in Sessions \ {n} :
              sess[m].phase \in {"staged", "commit"} => ~Conflicts(e, sess[m].row)
         /\ sess' = [sess EXCEPT ![n] =
                       IF \E f \in rows : Conflicts(e, f)
                         THEN Aborted ELSE [s EXCEPT !.phase = "staged", !.row = e]]
  /\ Quiet /\ UNCHANGED rows

ComputeHashFails(t) ==
  /\ InTx(t, "read")
  /\ env.faults /\ event[t].content \in Unstable
  /\ sess' = [sess EXCEPT ![conn[t]] = Aborted]
  /\ Quiet /\ UNCHANGED rows

SendCommit(t) ==
  /\ InTx(t, "staged")
  /\ sess' = [sess EXCEPT ![conn[t]].phase = "commit"]
  /\ Quiet /\ UNCHANGED rows

\* The row becomes visible, then the transaction's locks are released.
CommitApplied(n) ==
  /\ sess[n].phase = "commit"
  /\ rows' = rows \cup {sess[n].row}
  /\ sess' = [sess EXCEPT ![n].phase = "committed", ![n].snap = {}, ![n].tail = NoTail]
  /\ Quiet

Orphan(n) == \A t \in Callers : conn[t] # n

\* The server rolls back: the client is gone, or an error of its own.
ServerAbort(n) ==
  /\ sess[n].phase \in Holding \cup {"waiting"}
  /\ env.faults
  /\ sess' = [sess EXCEPT ![n] = IF Orphan(n) THEN NoSession ELSE Aborted]
  /\ Quiet /\ UNCHANGED rows

CommitReplyEarly(t) ==
  /\ InTx(t, "commit") \/ InTx(t, "committed")
  /\ rec' = [rec EXCEPT ![t] = Key(sess[conn[t]].row)]
  /\ conn' = [conn EXCEPT ![t] = 0]
  /\ Goto(t, "publish")
  /\ UNCHANGED <<handle, server>>

CommitReplyKeepsConn(t) ==
  /\ InTx(t, "committed")
  /\ rec' = [rec EXCEPT ![t] = Key(sess[conn[t]].row)]
  /\ Goto(t, "publish")
  /\ UNCHANGED <<handle, server, conn>>

\* BeginFunc returns nil; the connection goes back to the pool.
CommitReply(t) ==
  /\ InTx(t, "committed")
  /\ rec' = [rec EXCEPT ![t] = Key(sess[conn[t]].row)]
  /\ conn' = [conn EXCEPT ![t] = 0]
  /\ Goto(t, "publish")
  /\ UNCHANGED <<handle, server>>

TxFailedLeaksConn(t) ==
  /\ InTx(t, "aborted")
  /\ RecordFails(t, {"ErrBackendUnavailable"})
  /\ UNCHANGED <<handle, server, conn>>

\* BeginFunc returns an error after a rollback.
TxFailed(t) ==
  /\ InTx(t, "aborted")
  /\ RecordFails(t, {"ErrBackendUnavailable"})
  /\ conn' = [conn EXCEPT ![t] = 0]
  /\ sess' = [sess EXCEPT ![conn[t]] = NoSession]
  /\ UNCHANGED <<handle, rows>>

(***************************************************************************)
(* ctx is done or the connection breaks: the caller learns nothing of the  *)
(* session, not even whether a COMMIT it sent was applied.                 *)
(***************************************************************************)
Detach(t) ==
  /\ env.faults
  /\ pc[t] = "tx"
  /\ RecordFails(t, {"ErrBackendUnavailable"})
  /\ conn' = [conn EXCEPT ![t] = 0]
  /\ UNCHANGED <<handle, server>>

-----------------------------------------------------------------------------
(***************************************************************************)
(* The read methods.  Each query takes a connection for its one statement; *)
(* Verify with to = 0 runs two of them, and the table may grow in between. *)
(***************************************************************************)

\* resolveLatestEntryID, for LatestEntryID and for Verify with to = 0.
ResolveLatest(t) ==
  LET last == LastEntry(rows, read[t].req.chain).id
  IN  /\ pc[t] = "resolve"
      /\ CanAcquire
      /\ TailResolved(t, last)
      /\ UNCHANGED <<handle, server, conn>>

Fetch(t) ==
  /\ pc[t] = "fetch"
  /\ CanAcquire
  /\ Fetched(t, rows)
  /\ UNCHANGED <<handle, server, conn>>

ReadFails(t) ==
  /\ pc[t] \in {"resolve", "fetch"}
  /\ pool = "closed" \/ env.faults
  /\ ReadReturn(t, {"ErrBackendUnavailable"}, 0)
  /\ UNCHANGED <<handle, server, conn>>

-----------------------------------------------------------------------------
(***************************************************************************)
(* Close: the flag, then pool.Close for a pool of its own.                 *)
(***************************************************************************)
CloseFlag ==
  /\ "Close" \in Ops
  /\ life = "open"
  /\ closed' = TRUE
  /\ life' = "flagged"
  /\ UNCHANGED <<pc, event, rec, outer, read, ret, bus, acked, calls, env, pool,
                 server, conn>>

ClosePool ==
  /\ life = "flagged"
  /\ life' = IF env.ownsPool THEN "draining" ELSE "done"
  /\ pool' = IF env.ownsPool THEN "closed" ELSE pool
  /\ UNCHANGED <<callVars, env, server, conn>>

CloseReturnEarly ==
  /\ life = "draining"
  /\ life' = "done"
  /\ UNCHANGED <<callVars, env, pool, server, conn>>

CloseReturn ==
  /\ life = "draining"
  /\ Out = {}
  /\ life' = "done"
  /\ UNCHANGED <<callVars, env, pool, server, conn>>

\* A later Close returns nil and does nothing.
CloseAgain == life = "done" /\ UNCHANGED vars

-----------------------------------------------------------------------------
Finish(t) == (PublishRecorded(t) \/ RecordReturn(t)) /\ UNCHANGED <<handle, server, conn>>

ClientStep(t) ==
  \/ AcquireConn(t) \/ (pool = "closed" /\ AcquireFails(t))
  \/ GetLastEntry(t) \/ InsertEntry(t) \/ SendCommit(t)
  \/ CommitReply(t) \/ TxFailed(t) \/ Finish(t)
  \/ ResolveLatest(t) \/ Fetch(t) \/ (pool = "closed" /\ ReadFails(t))

ProcessDies(t) == env.faults /\ Crash(t) /\ UNCHANGED <<handle, server, conn>>

Fault(t) ==
  \/ AcquireFails(t) \/ ComputeHashFails(t) \/ Detach(t) \/ ProcessDies(t)
  \/ ReadFails(t)

CloseStep == ClosePool \/ CloseReturn

Next ==
  \/ Construct \/ PingDialed \/ ConstructAgain
  \/ \E t \in Callers : Begin(t) \/ ClientStep(t) \/ Fault(t)
  \/ \E n \in Sessions : GrantLock(n) \/ CommitApplied(n) \/ ServerAbort(n)
  \/ CloseFlag \/ CloseStep \/ CloseAgain

Spec == Init /\ [][Next]_vars

\* What happens without any caller: the server's work, and Close.
Background ==
  \/ \E n \in Sessions :
       GrantLock(n) \/ CommitApplied(n) \/ (Orphan(n) /\ ServerAbort(n))
  \/ CloseStep

(***************************************************************************)
(* Goroutines inside a call are scheduled.  The server goes on granting    *)
(* locks, applying commits and ending the sessions of clients that are     *)
(* gone, and Close goes on.  Nobody has to call and no fault has to happen. *)
(***************************************************************************)
FairSpec ==
  /\ Spec
  /\ \A t \in Callers : WF_vars(ClientStep(t))
  /\ WF_vars(Background)

-----------------------------------------------------------------------------
(***************************************************************************)
(* Properties                                                              *)
(***************************************************************************)

(***************************************************************************)
(* Every chain of the table is an intact hash chain at every commit,       *)
(* whatever sessions survive their callers, whatever chains share an       *)
(* advisory key and whatever the server's isolation level                  *)
(* (postgres.go:379-417).                                                  *)
(***************************************************************************)
ChainsIntact == \A c \in Chains : ChainIntact(rows, c)

(***************************************************************************)
(* Between GetLastEntry and the end of its transaction, no other session   *)
(* changes the tail a Record has read (postgres.go:384-412): under read    *)
(* committed the lock, taken before the read, makes the read current.      *)
(***************************************************************************)
TailNotStale ==
  \A n \in Sessions :
    env.isolation = "read committed" /\ sess[n].phase \in {"read", "staged", "commit"} =>
      sess[n].tail = LastEntry(rows, sess[n].chain)

(***************************************************************************)
(* A row comes from exactly one transaction that was told to commit, and   *)
(* what has been acknowledged or is being published is a row: an error     *)
(* return never hides a second row, and no EntryID is returned for a       *)
(* transaction that rolled back (postgres.go:414-423).                     *)
(***************************************************************************)
RowsFromCommits ==
  /\ \A n \in Sessions : sess[n].phase = "committed" => sess[n].row \in rows
  /\ \A e \in rows : \E n \in Sessions :
       /\ sess[n].phase = "committed" /\ sess[n].row = e
       /\ \A m \in Sessions \ {n} : sess[m].phase = "committed" => sess[m].row # e
  /\ \A t \in Callers :
       Publishing(t) =>
         \E e \in rows : rec[t] = Key(e) /\ Key(e) \notin acked

(***************************************************************************)
(* On a healthy server under read committed no call fails while the pool   *)
(* is open: the lock leaves InsertEntry no conflict, also between chains   *)
(* that share a key, and the pool serves every caller in turn              *)
(* (postgres.go:384-420).  It supposes that no two entries read alike in   *)
(* ComputeHash: the unique index on hash would refuse the second of them.  *)
(***************************************************************************)
Healthy == ~env.faults /\ env.isolation = "read committed" /\ Collisions = {}

HealthyCallsSucceed ==
  \A t \in Callers :
    Healthy /\ pool = "open" => "ErrBackendUnavailable" \notin ret[t].err

(***************************************************************************)
(* README.md:255-258 says it of calls that race with Close, too:           *)
(* "in-flight calls either complete normally or observe `ErrClosed`".      *)
(***************************************************************************)
InFlightCallsSucceed ==
  \A t \in Callers : Healthy => "ErrBackendUnavailable" \notin ret[t].err

(***************************************************************************)
(* A pool that was passed in is never closed, and a pool that was dialed   *)
(* here is never left open by a constructor that failed or by a Close that *)
(* has returned (postgres.go:252-289, 610-619).                            *)
(***************************************************************************)
PoolOwnership ==
  IF env.ownsPool THEN life \in {"failed", "done"} => pool # "open" ELSE pool = "open"

(***************************************************************************)
(* When Close has returned on a pool of its own, no accepted call is left  *)
(* that could change the table: a session that still moves on the server   *)
(* belongs to a client that was cut off (postgres.go:610-619).             *)
(***************************************************************************)
CloseDrains ==
  [][\A n \in Sessions :
       env.ownsPool /\ life = "done" /\ sess'[n] # sess[n] => Orphan(n)]_vars

(***************************************************************************)
(* Close returns: calls in flight give their connections back and calls    *)
(* that wait for one are refused (postgres.go:613-615).                    *)
(***************************************************************************)
CloseReturns == closed ~> life = "done"

(***************************************************************************)
(* The backend implements the interface: one entry per committed           *)
(* transaction at the next position of its chain, published at most once   *)
(* and before it is acknowledged.                                          *)
(***************************************************************************)
Abstract == INSTANCE AuditLog WITH
  log       <- { Key(e) : e \in rows },
  tail      <- [c \in Chains |-> LastEntry(rows, c).id],
  published <- { bus[i] : i \in DOMAIN bus },
  acked     <- acked

ImplementsAuditLog == Abstract!Spec
=============================================================================
