------------------------------ MODULE MongoLog ------------------------------
(***************************************************************************)
(* The MongoDB backend, mongoAuditLog of mongo.go, with the parts of the   *)
(* driver and of the server it relies on: transactions over two            *)
(* collections that read one snapshot and abort on a write conflict, and   *)
(* Session.WithTransaction, which runs its callback again after an error   *)
(* labelled transient and its commit again after an answer was lost.       *)
(*                                                                         *)
(* The last EntryID and hash of a chain are kept in a second collection,   *)
(* one chain-state document per chain, that only Record's transaction      *)
(* keeps in step with the entries.                                         *)
(***************************************************************************)
EXTENDS DurableCalls

CONSTANTS
  Environments, \* where the program may be run, see env below
  probeDocID    \* _id of the document that the constructor's probe inserts

ASSUME MongoConstants ==
  /\ \A v \in Environments :
       DOMAIN v = {"faults", "loss"} /\ v.faults \in BOOLEAN /\ v.loss \in BOOLEAN
  /\ probeDocID # NoChain

VARIABLES
  env,      \* faults: cancellations, crashes, backend errors and payloads
            \*   that change during a call occur
            \* loss: a chain-state document may be lost behind the program
  life,     \* progress of the constructor and of Close
  client,   \* the mongo.Client: none, connected or disconnected
  opened,   \* history: number of driver sessions opened, one per call to Record
  docs,     \* committed documents of the entries collection
  tails,    \* committed chain-state documents, NoTail where there is none
  lost,     \* history: the chains whose chain-state document was lost
  sess,     \* transactions, each one attempt of a call to Record
  conn      \* the transaction each goroutine is running, 0 when none

server == <<docs, tails, lost, sess>>
handle == <<env, life, client, opened>>
vars   == <<callVars, handle, server, conn>>

-----------------------------------------------------------------------------
NoSession == [phase |-> "none", chain |-> NoChain, snap |-> {},
              tail |-> NoTail, row |-> NoRow, call |-> 0]

Phases == {"none", "read", "inserted", "commit", "committed",
           "aborted", "failed"}

\* At most one attempt at a time per call to Record.
Sessions == 1..MaxCalls

\* Where the constructor is when a step of it has failed after Connect.
SetupErrors == {"ping failed", "probe failed", "indexes failed"}

Lives == SetupErrors \cup
  {"new", "connected", "pinged", "probed", "failed", "open", "flagged", "done"}

TypeOK ==
  /\ CallsTypeOK({"tx"})
  /\ env \in Environments
  /\ life \in Lives
  /\ client \in {"none", "connected", "disconnected"}
  /\ opened \in Nat
  /\ docs \subseteq Entry
  /\ tails \in [Chains -> [id : Nat, hash : Hash]]
  /\ lost \subseteq Chains
  /\ sess \in [Sessions ->
                 [phase : Phases, chain : Chains \cup {NoChain}, snap : SUBSET docs,
                  tail : [id : Nat, hash : Hash], row : Entry \cup {NoRow}, call : Nat]]
  /\ conn \in [Callers -> Sessions \cup {0}]

Init ==
  /\ CallsInit
  /\ env \in Environments
  /\ life = "new"
  /\ client = "none"
  /\ opened = 0
  /\ docs = {}
  /\ tails = [c \in Chains |-> NoTail]
  /\ lost = {}
  /\ sess = [n \in Sessions |-> NoSession]
  /\ conn = [t \in Callers |-> 0]

-----------------------------------------------------------------------------
(***************************************************************************)
(* NewMongoAuditLog: connect, ping, probe, create the indexes.  Each of    *)
(* the last three steps has an error path of its own, with a Disconnect of *)
(* its own.                                                                *)
(***************************************************************************)
Connect ==
  /\ life = "new"
  /\ \/ life' = "connected" /\ client' = "connected"
     \/ env.faults /\ life' = "failed" /\ UNCHANGED client
  /\ UNCHANGED <<callVars, env, opened, server, conn>>

\* A step of the constructor on a client that is connected.
SetupStep(before, ok, after, err) ==
  /\ life = before
  /\ \/ ok /\ life' = after
     \/ (~ok \/ env.faults) /\ life' = err
  /\ UNCHANGED <<callVars, env, client, opened, server, conn>>

Ping == SetupStep("connected", TRUE, "pinged", "ping failed")

ProbeDocFree == \A c \in Chains : c = probeDocID => tails[c] = NoTail

(***************************************************************************)
(* The probe inserts and deletes a document of the chain-state collection  *)
(* inside one transaction, which fails if a document with its _id exists.  *)
(***************************************************************************)
probeTransactionSupport ==
  SetupStep("pinged", ProbeDocFree, "probed", "probe failed")

ensureAuditIndexes == SetupStep("probed", TRUE, "open", "indexes failed")

DisconnectAfterForgotten(err) ==
  /\ life = err
  /\ life' = "failed"
  /\ client' = IF err = "indexes failed" THEN client ELSE "disconnected"
  /\ UNCHANGED <<callVars, env, opened, server, conn>>

\* The error path of a failed step, up to its return.
DisconnectAfter(err) ==
  /\ life = err
  /\ life' = "failed"
  /\ client' = "disconnected"
  /\ UNCHANGED <<callVars, env, opened, server, conn>>

(***************************************************************************)
(* The program runs the constructor again, after a failure or, in a new    *)
(* process, after Close.                                                   *)
(***************************************************************************)
Restart ==
  /\ life \in {"failed", "done"}
  /\ \A t \in Callers : pc[t] = "idle"
  /\ life' = "new"
  /\ client' = "none"
  /\ closed' = FALSE
  /\ ret' = [t \in Callers |-> NoResult]
  /\ UNCHANGED <<pc, event, rec, outer, read, bus, acked, calls, env, opened, server, conn>>

Constructed == life \in {"open", "flagged", "done"}

Begin(t) == Constructed /\ Call(t, TRUE) /\ UNCHANGED <<handle, server, conn>>

-----------------------------------------------------------------------------
(***************************************************************************)
(* Record's transaction.                                                   *)
(***************************************************************************)

\* The callback up to FindOne on the chain-state document, its first
\* statement, which fixes the snapshot of the transaction.
Attempt(t, call) ==
  LET c == event[t].chain
  IN  [phase |-> "read", chain |-> c, snap |-> docs, tail |-> tails[c],
       row |-> NoRow, call |-> call]

FreeSession == CHOOSE n \in Sessions : sess[n].phase = "none"

\* StartSession, once per call, and the first attempt of WithTransaction.
FindTail(t) ==
  /\ pc[t] = "begin"
  /\ client = "connected"
  /\ opened' = opened + 1
  /\ conn' = [conn EXCEPT ![t] = FreeSession]
  /\ sess' = [sess EXCEPT ![FreeSession] = Attempt(t, opened + 1)]
  /\ Goto(t, "tx")
  /\ UNCHANGED <<rec, env, life, client, docs, tails, lost>>

StartSessionFails(t) ==
  /\ pc[t] = "begin"
  /\ env.faults \/ client = "disconnected"
  /\ RecordFails(t, {"ErrBackendUnavailable"})
  /\ UNCHANGED <<handle, server, conn>>

\* The phase of the transaction that t is running.
InTx(t, phase) == pc[t] = "tx" /\ sess[conn[t]].phase = phase

\* A statement of t's transaction, on a client that is still connected.
Statement(t, phase) == InTx(t, phase) /\ client = "connected"

\* A step of a transaction that its caller does not notice yet.
Quiet == UNCHANGED <<callVars, handle, docs, tails, lost, conn>>

ComputeHashFails(t) ==
  /\ InTx(t, "read")
  /\ env.faults /\ event[t].content \in Unstable
  /\ sess' = [sess EXCEPT ![conn[t]].phase = "failed"]
  /\ Quiet

\* The unique index on (chainId, entryId).
Duplicate(e, f) == e.chain = f.chain /\ e.id = f.id

\* The other transactions that have written.
Writers(n) == { m \in Sessions \ {n} : sess[m].phase \in {"inserted", "commit"} }

InsertOneOutsideTx(t) ==
  LET n == conn[t]
      s == sess[n]
      e == NewEntry(s.chain, s.tail.id + 1, event[t].content, s.tail.hash)
  IN  /\ Statement(t, "read")
      /\ sess' = [sess EXCEPT ![n] = [s EXCEPT !.phase = "inserted", !.row = e]]
      /\ docs' = docs \cup {e}
      /\ UNCHANGED <<callVars, handle, tails, lost, conn>>

(***************************************************************************)
(* ComputeHash and InsertOne.  A document with the same key fails the      *)
(* insert if the snapshot shows it; one that was committed since, or that  *)
(* another transaction has written, is a write conflict, which is          *)
(* transient.                                                              *)
(***************************************************************************)
InsertOne(t) ==
  LET n == conn[t]
      s == sess[n]
      e == NewEntry(s.chain, s.tail.id + 1, event[t].content, s.tail.hash)
  IN  /\ Statement(t, "read")
      /\ sess' = [sess EXCEPT ![n] =
           CASE \E f \in s.snap : Duplicate(e, f) -> [s EXCEPT !.phase = "failed"]
             [] \/ \E f \in docs \ s.snap : Duplicate(e, f)
                \/ \E m \in Writers(n) : Duplicate(e, sess[m].row) ->
                  [s EXCEPT !.phase = "aborted"]
             [] OTHER -> [s EXCEPT !.phase = "inserted", !.row = e]]
      /\ Quiet

\* Whether the chain-state document of n's chain changed since its snapshot.
TailConflict(n) ==
  \/ tails[sess[n].chain] # sess[n].tail
  \/ \E m \in Writers(n) : sess[m].phase = "commit" /\ sess[m].chain = sess[n].chain

ReplaceOneOutsideTx(t) ==
  LET n  == conn[t]
      e  == sess[n].row
  IN  /\ Statement(t, "inserted")
      /\ sess' = [sess EXCEPT ![n].phase = "commit"]
      /\ tails' = [tails EXCEPT ![e.chain] = [id |-> e.id, hash |-> e.hash]]
      /\ rec' = [rec EXCEPT ![t] = Key(e)]
      /\ Goto(t, "tx")
      /\ UNCHANGED <<handle, docs, lost, conn>>

(***************************************************************************)
(* ReplaceOne with upsert, the assignment to recorded and the end of the   *)
(* callback, after which WithTransaction sends the commit.                 *)
(***************************************************************************)
ReplaceOne(t) ==
  LET n  == conn[t]
      ok == ~TailConflict(n)
  IN  /\ Statement(t, "inserted")
      /\ sess' = [sess EXCEPT ![n].phase = IF ok THEN "commit" ELSE "aborted"]
      /\ rec' = [rec EXCEPT ![t] = IF ok THEN Key(sess[n].row) ELSE @]
      /\ Goto(t, "tx")
      /\ UNCHANGED <<handle, docs, tails, lost, conn>>

\* Both collections change at once, or neither.
CommitApplied(n) ==
  LET s == sess[n]
  IN  /\ s.phase = "commit"
      /\ docs' = docs \cup {s.row}
      /\ tails' = [tails EXCEPT ![s.chain] = [id |-> s.row.id, hash |-> s.row.hash]]
      /\ sess' = [sess EXCEPT ![n].phase = "committed", ![n].snap = {}, ![n].tail = NoTail]
      /\ UNCHANGED <<callVars, handle, lost, conn>>

Orphan(n) == \A t \in Callers : conn[t] # n

\* The client is gone, the primary stepped down, or the connection broke.
ServerAbort(n) ==
  /\ sess[n].phase \in {"read", "inserted", "commit"}
  /\ env.faults \/ Orphan(n)
  /\ sess' = [sess EXCEPT ![n] = IF Orphan(n) THEN NoSession ELSE [@ EXCEPT !.phase = "aborted"]]
  /\ Quiet

\* WithTransaction returns an error and the transaction is over.
TxOver(t) ==
  /\ RecordFails(t, {"ErrBackendUnavailable"})
  /\ conn' = [conn EXCEPT ![t] = 0]
  /\ sess' = [sess EXCEPT ![conn[t]] = NoSession]
  /\ UNCHANGED <<handle, docs, tails, lost>>

RetryNever(t) == Statement(t, "aborted") /\ TxOver(t)

RetryAfterLostReply(t) ==
  \/ /\ Statement(t, "aborted")
     /\ sess' = [sess EXCEPT ![conn[t]] = Attempt(t, @.call)]
     /\ Quiet
  \/ /\ Statement(t, "commit")
     /\ \E n \in Sessions : sess[n].phase = "none"
     /\ conn' = [conn EXCEPT ![t] = FreeSession]
     /\ sess' = [sess EXCEPT ![FreeSession] = Attempt(t, sess[conn[t]].call)]
     /\ UNCHANGED <<callVars, handle, docs, tails, lost>>

\* WithTransaction runs the callback again in a new transaction.
Retry(t) ==
  /\ Statement(t, "aborted")
  /\ sess' = [sess EXCEPT ![conn[t]] = Attempt(t, @.call)]
  /\ Quiet

CommitReply(t) ==
  /\ InTx(t, "committed")
  /\ conn' = [conn EXCEPT ![t] = 0]
  /\ Goto(t, "publish")
  /\ UNCHANGED <<rec, handle, server>>

\* The error of the callback is not transient.
TxFailed(t) == InTx(t, "failed") /\ TxOver(t)

TimeUpNever(t) == FALSE /\ TxOver(t)

\* The time limit of WithTransaction, tested after a transient error.
TimeUp(t) == env.faults /\ InTx(t, "aborted") /\ TxOver(t)

(***************************************************************************)
(* ctx is done, or Close has disconnected the client: WithTransaction      *)
(* returns an error, and a commit it sent may still be applied.            *)
(***************************************************************************)
GiveUp(t) ==
  /\ pc[t] = "tx"
  /\ sess[conn[t]].phase # "failed"
  /\ env.faults \/ client = "disconnected"
  /\ RecordFails(t, {"ErrBackendUnavailable"})
  /\ conn' = [conn EXCEPT ![t] = 0]
  /\ sess' = [sess EXCEPT ![conn[t]] = IF @.phase = "aborted" THEN NoSession ELSE @]
  /\ UNCHANGED <<handle, docs, tails, lost>>

-----------------------------------------------------------------------------
(***************************************************************************)
(* The read methods: the tail comes from the chain-state document, every   *)
(* thing else from the entries.                                            *)
(***************************************************************************)

\* resolveLatestEntryID, for LatestEntryID and for Verify with to = 0.
ResolveLatest(t) ==
  /\ pc[t] = "resolve"
  /\ client = "connected"
  /\ TailResolved(t, tails[read[t].req.chain].id)
  /\ UNCHANGED <<handle, server, conn>>

Fetch(t) ==
  /\ pc[t] = "fetch"
  /\ client = "connected"
  /\ Fetched(t, docs)
  /\ UNCHANGED <<handle, server, conn>>

ReadFails(t) ==
  /\ pc[t] \in {"resolve", "fetch"}
  /\ env.faults \/ client = "disconnected"
  /\ ReadReturn(t, {"ErrBackendUnavailable"}, 0)
  /\ UNCHANGED <<handle, server, conn>>

-----------------------------------------------------------------------------
(***************************************************************************)
(* Close: the flag, then client.Disconnect, which does not wait for calls  *)
(* in flight for longer than its timeout.                                  *)
(***************************************************************************)
CloseFlag ==
  /\ "Close" \in Ops
  /\ life = "open"
  /\ closed' = TRUE
  /\ life' = "flagged"
  /\ UNCHANGED <<pc, event, rec, outer, read, ret, bus, acked, calls, env, client,
                 opened, server, conn>>

Disconnect ==
  /\ life = "flagged"
  /\ life' = "done"
  /\ client' = "disconnected"
  /\ UNCHANGED <<callVars, env, opened, server, conn>>

\* A chain-state document is deleted, or not restored from a backup.
LoseState(c) ==
  /\ env.loss
  /\ tails[c] # NoTail
  /\ tails' = [tails EXCEPT ![c] = NoTail]
  /\ lost' = lost \cup {c}
  /\ UNCHANGED <<callVars, handle, docs, sess, conn>>

-----------------------------------------------------------------------------
Finish(t) == (PublishRecorded(t) \/ RecordReturn(t)) /\ UNCHANGED <<handle, server, conn>>

ClientStep(t) ==
  \/ FindTail(t) \/ InsertOne(t) \/ ReplaceOne(t) \/ Retry(t)
  \/ CommitReply(t) \/ TxFailed(t) \/ Finish(t)
  \/ ResolveLatest(t) \/ Fetch(t)
  \/ client = "disconnected" /\ (StartSessionFails(t) \/ GiveUp(t) \/ ReadFails(t))

ProcessDies(t) == env.faults /\ Crash(t) /\ UNCHANGED <<handle, server, conn>>

Fault(t) ==
  StartSessionFails(t) \/ ComputeHashFails(t) \/ TimeUp(t) \/ GiveUp(t) \/ ReadFails(t) \/ ProcessDies(t)

Next ==
  \/ Connect \/ Ping \/ probeTransactionSupport \/ ensureAuditIndexes
  \/ \E err \in SetupErrors : DisconnectAfter(err)
  \/ Restart \/ CloseFlag \/ Disconnect
  \/ \E t \in Callers : Begin(t) \/ ClientStep(t) \/ Fault(t)
  \/ \E n \in Sessions : CommitApplied(n) \/ ServerAbort(n)
  \/ \E c \in Chains : LoseState(c)

Spec == Init /\ [][Next]_vars

\* What happens without any caller: the server's work, and Close.
Background ==
  \/ \E n \in Sessions : CommitApplied(n) \/ (Orphan(n) /\ ServerAbort(n))
  \/ Disconnect

(***************************************************************************)
(* Goroutines inside a call are scheduled; the server goes on applying     *)
(* commits and ending the transactions of clients that are gone; attempts  *)
(* that fail again and again meet the time limit of WithTransaction.       *)
(* Nobody has to call and no fault has to happen.                          *)
(***************************************************************************)
FairSpec ==
  /\ Spec
  /\ \A t \in Callers : WF_vars(ClientStep(t))
  /\ WF_vars(Background)
  /\ SF_vars(\E t \in Callers : TimeUp(t))

-----------------------------------------------------------------------------
(***************************************************************************)
(* Properties                                                              *)
(***************************************************************************)

(***************************************************************************)
(* Every chain of the entries collection is an intact hash chain at every  *)
(* commit, also after its chain-state document was lost and Record starts  *)
(* from EntryID 1 again: the unique index then refuses the entry           *)
(* (mongo.go:252-261, 294-330).                                            *)
(***************************************************************************)
ChainsIntact == \A c \in Chains : ChainIntact(docs, c)

(***************************************************************************)
(* The chain-state document and the entries change together: unless it was *)
(* lost behind the program, it names the last entry of its chain, whatever *)
(* attempt was aborted, abandoned or retried (mongo.go:313-325).           *)
(***************************************************************************)
StateAgreesWithEntries ==
  \A c \in Chains \ lost : tails[c] = LastEntry(docs, c)

(***************************************************************************)
(* Every document is that of one committed transaction, and a call to      *)
(* Record has at most one transaction that is committed or may still be,   *)
(* however often its callback ran: it leaves at most one document.  What   *)
(* it publishes and returns is that document (mongo.go:283-336).           *)
(***************************************************************************)
RecordedByCommit ==
  /\ \A e \in docs : \E n \in Sessions :
       /\ sess[n].phase = "committed" /\ sess[n].row = e
       /\ \A m \in Sessions \ {n} : sess[m].phase = "committed" => sess[m].row # e
  /\ \A n, m \in { k \in Sessions : sess[k].phase \in {"commit", "committed"} } :
       n # m => sess[n].call # sess[m].call
  /\ \A t \in Callers :
       Publishing(t) =>
         \E e \in docs : rec[t] = Key(e) /\ Key(e) \notin acked

(***************************************************************************)
(* On a healthy deployment no call fails while the client is connected:    *)
(* every conflict between Records of a chain is transient and retried,     *)
(* also with a transaction that an earlier process left behind             *)
(* (mongo.go:290-294).                                                     *)
(***************************************************************************)
Healthy == ~env.faults /\ lost = {}

HealthyCallsSucceed ==
  \A t \in Callers :
    Healthy /\ client = "connected" => "ErrBackendUnavailable" \notin ret[t].err

(***************************************************************************)
(* A constructor that fails leaves no client connected, whichever of its   *)
(* steps failed, and a log that was returned keeps its client until Close, *)
(* which releases it (mongo.go:172-200, 543-553).                          *)
(***************************************************************************)
ClientReleased ==
  /\ life \in {"failed", "done"} => client # "connected"
  /\ life \in {"open", "flagged"} => client = "connected"

(***************************************************************************)
(* A read sees what was acknowledged before it began.  After the loss of a *)
(* chain-state document Query and GetEntry still do; Verify up to the      *)
(* latest entry and LatestEntryID are only sure of the other chains        *)
(* (mongo.go:355-540).                                                     *)
(***************************************************************************)
ReadsSeeEntries ==
  \A t \in Callers :
    /\ ret[t].req.op \notin {"none", "Record"}
    /\ "ErrBackendUnavailable" \notin ret[t].err
    /\ ret[t].req.op \in {"Query", "GetEntry"} \/ ret[t].req.chain \notin lost
    => Sees(ret[t])

(***************************************************************************)
(* audit.go:263 says of a VerifyResult: "Empty is true only when chainID   *)
(* has zero entries recorded at all".                                      *)
(***************************************************************************)
EmptyMeansNoEntries ==
  \A t \in Callers :
    ret[t].req.op = "Verify" /\ ret[t].err = {} /\ ret[t].val.empty
      => \A k \in ret[t].known : k.chain # ret[t].req.chain

(***************************************************************************)
(* mongo.go:203-205 says of the document that the probe inserts that "it   *)
(* can never collide with the real tail document": a healthy deployment    *)
(* never makes the constructor fail.                                       *)
(***************************************************************************)
ProbeNeverCollides == Healthy => life # "failed"

(***************************************************************************)
(* The backend implements the interface: one entry per committed           *)
(* transaction at the next position of its chain, published at most once   *)
(* and before it is acknowledged.                                          *)
(***************************************************************************)
Abstract == INSTANCE AuditLog WITH
  log       <- { Key(e) : e \in docs },
  tail      <- [c \in Chains |-> LastEntry(docs, c).id],
  published <- { bus[i] : i \in DOMAIN bus },
  acked     <- acked

ImplementsAuditLog == Abstract!Spec
=============================================================================
