# A TLA+ verification of graudit

graudit is a Go library that keeps tamper-evident audit logs. An `AuditLog`
holds any number of independent hash chains, one per `ChainID`; every entry
carries the hash of the entry before it, and `Verify` recomputes the chain.
Three backends (memory, PostgreSQL, MongoDB) implement the same interface.

This directory models the library in TLA+, checks the models with TLC on
small instances and proves theorems about them with TLAPS. File and line
numbers refer to the repository's root directory.

## 1. Inventory

| Component | State | Operations | What makes it correct |
|---|---|---|---|
| Interface (`audit.go`, `errors.go`) | none of its own | `Record`, `RecordChange`, `Verify`, `Query`, `GetEntry`, `LatestEntryID`, `Close`; `Validate` | one entry per successful `Record`, at the next position of its chain; returned once, published at most once |
| Hash chain (`hash.go`) | none (pure) | `ComputeHash`, `canonicalJSON`, payload round trip, truncation of timestamps | equal hashes only for entries whose fields read alike on equal predecessors; a row read back has the hash of the event that was written |
| Memory backend (`memory.go`) | a slice of entries, a map of chain tails, a mutex, an atomic closed flag | all of the interface | slice, map and hashes agree whatever goroutines interleave; the mutex is never kept; no alarm but about a payload that its caller changed |
| PostgreSQL backend (`postgres.go`) | the table, a connection pool (owned or borrowed), a closed flag; in the server, sessions and advisory locks | constructor; all of the interface; `BeginFunc` with lock, read, insert, commit | chains intact under cancellation, crashes and ambiguous commits; no call hangs; a pool is closed by its owner only |
| Table (`internal/postgresdb`) | `graudit_entries` | five statements, a primary key, a unique index on the hash | the constraints are the last line of defence of the chain |
| MongoDB backend (`mongo.go`) | the entries collection and a chain-state document per chain; a client; in the server, transactions | constructor with its probe; all of the interface, Record in `WithTransaction` | both collections agree; retries of the callback record once; conflicts stay inside |
| Event publication (`events.go`) | none | `PublishRecorded` | after the durable write, before the return, at most once; its failure is not the caller's |
| Change diff (`diff.go`) | none (pure) | `computeDiff`, `collectDiff`, `BuildChangeEvent` | a path for every change, and nothing that did not change |
| Logging, example, generated plumbing | none | | not modelled |

How they interact. Callers are goroutines, of one process or of several
replicas. A backend's `Record` validates, serialises on its chain (a mutex,
an advisory lock or a transaction), reads the tail, hashes, stores, and then
calls `PublishRecorded` on the same goroutine. Subscribers of the event bus
run inside that call and may call `Record` again. `RecordChange` is
`BuildChangeEvent` followed by `Record`. `Close` flips a flag that every
method tests first, and then closes a pool that the backend owns or
disconnects the client.

What is hard here, and hardly reached by a test:

* the interleaving of Records between reading a tail and replacing it;
* re-entrance: a subscriber that records while its own event is published,
  with a mutex or a pool of one connection underneath;
* sessions and transactions that survive their client: they keep the chain's
  lock, or their writes, and may still commit what the caller was told had
  failed, also after a restart of the program;
* snapshots: under repeatable read, the tail is read from before the lock;
* a callback that runs several times, and a limit on how long it is retried;
* two copies of the tail in MongoDB, one of which may be lost;
* Verify's two statements, with Records committing in between;
* a payload that the memory backend keeps by reference, changed while Verify
  walks over its copy of the chain;
* Close racing with calls in every phase, and constructors that fail half way,
  with an error path after each step;
* damage to stored rows, mixed with further Records on top of it;
* columns that do not give back the bytes that were hashed, and fields that
  concatenate to the same text;
* paths of a diff that coincide, visited in any order.

`PROJECT.json` lists these as hazards, each at its line, with the properties
that would catch it going wrong.

## 2. Modules

| Module | Models | Lines it stands for |
|---|---|---|
| `AuditLog` | the abstract specification: Commit, Publish, Ack | `audit.go`, `events.go` |
| `HashChain` | entries, `Validate`, `ComputeHash` with the fields that read alike, the two-check scan of Verify | `audit.go`, `hash.go`, the scan of `postgres.go` (the same in `mongo.go`) |
| `Calls` | what the methods of every backend have in common: tests, publication, return, re-entrance; what reads and calls promise | the first and the last lines of the methods of all backends, `events.go` |
| `MemoryLog` | the memory backend's storage, Verify entry by entry, payloads that change | `memory.go` |
| `EntryTable` | statements and constraints of the table | `internal/postgresdb/*` |
| `DurableCalls` | the read methods of the durable backends, statement by statement | `postgres.go`, `mongo.go` |
| `PostgresLog` | the PostgreSQL backend, with pool and server | `postgres.go` |
| `MongoLog` | the MongoDB backend, with driver and server | `mongo.go` |
| `ChainIntegrity` | Verify over a damaged table | Record and Verify of `postgres.go` |
| `JSONTree` | JSON values, as trees of positions | what `encoding/json` hands to `diff.go` and `hash.go` |
| `ChangeDiff` | `computeDiff` | `diff.go` |
| `StoredEntry` | `canonicalJSON`, the preimage, what columns keep | `hash.go`, `schema.sql` |
| `RecordedChange` | a change from its snapshots to its row and back; composes `ChangeDiff` and `StoredEntry` | `diff.go`, `hash.go`, parts of `mongo.go` and `postgres.go` |
| `EntryTableProofs`, `CallsProofs`, `DurableCallsProofs` | lemmas about the module of that name (in the first, about `HashChain` too), which the theorems share | |
| `MemoryLogProofs`, `PostgresLogProofs`, `MongoLogProofs`, `ChainIntegrityProofs`, `RecordedChangeProofs` | theorems about the module of that name | |
| `MC...` | instances for TLC | |

`Calls` and `EntryTable` extend `HashChain`; `MemoryLog` extends `Calls`;
`DurableCalls` extends `Calls` and `EntryTable`, and `PostgresLog` and
`MongoLog` extend it; `ChainIntegrity` extends `EntryTable`. `ChangeDiff` and
`StoredEntry` extend `JSONTree`, and `RecordedChange` extends both. The three
backends instantiate `AuditLog` under a refinement mapping.

Definitions whose name extends that of the definition below them
(`RecordLockUnguarded` above `RecordLock`) are deliberately wrong variants,
at least one for each property: putting the variant in the place of the
original makes TLC report that property. No specification uses them.

### Abstractions

* **Content.** In the modules about concurrency actor, entity, action, payload
  and timestamp are one opaque value. `Contents` are the ones that `Validate`
  accepts, `BadEvent` stands for an event it refuses, `BadSnapshot` for a
  before/after that `BuildChangeEvent` refuses, `Unstable` for a payload that
  marshals in `Validate` and no longer does afterwards (a pointer to data that
  another goroutine changes), and that may change after it was recorded. A
  `QueryFilter` is the set of contents that
  match it and a limit. `RecordedChange` looks inside an entry instead.
* **Hashes.** SHA-256 is idealised as collision free, but the text that it
  digests is not unambiguous: `hash.go:78-87` writes the fields one after the
  other without separators, so that chain "a1" at EntryID 1 and chain "a" at
  EntryID 11, or entity "ab", "c" and "a", "bc", give the same text.
  `Collisions` is the set of classes of fields that read alike; `Text` stands
  for the text before prevHash and is the same for all of a class. prevHash
  has a fixed length and comes last, so it can be told apart. A hash is the
  sequence of the texts that were hashed into it, and `GenesisPrevHash` the
  empty sequence. `ChainIntegrity` is checked with fields that read alike. The
  instances of the backends have none, as their names and contents differ by
  more than a boundary; `RecordedChange` has the preimage itself, with real
  strings.
* **EntryIDs** are naturals. `ChainIntegrity` converts the bounds of Verify to
  the signed column with a width of `IDBits`.
* **Errors** are sets of the sentinel errors that `errors.Is` finds.
* **JSON** values are trees: a value is a function from positions (the keys or
  indexes on the way to a node) to nodes, and the value under a key is the
  part of the tree that continues this position. A JSON text is a value
  together with the order of the members of each object: this and the text of
  numbers is all in which two texts of a value can differ. Strings are
  sequences of their dot-separated parts, so that joining paths is
  concatenation. Nothing here is recursive, so that it can be reasoned about.
* **Timestamps** are numbers of units of which `Micro` make a microsecond and
  `Milli` a millisecond.

### Calls and MemoryLog

`pc`, `event`, `rec`, `read` and `ret` are what a call keeps on its stack,
`closed` is the flag. `Record` tests the flag and validates; the steps that
touch storage belong to the backend; `PublishRecorded` and `RecordReturn` end
the call. `SubscriberRecord` is a subscriber's call, one level deep: `outer`
keeps the interrupted publication. `ret` keeps a result until the goroutine
calls again, for the properties about answers.

`MemoryLog` cuts `Record` where another goroutine can run: the mutex
(`RecordLock`), the tail (`RecordReadTail`), hash, append, new tail and unlock
(`RecordAppend`, or `RecordHashError` for the early return). The reading of
the tail and the append are separate steps on purpose: only the mutex keeps
them together. The read methods are the checks and one critical section, in
which `Scan` walks over the slice and keeps some entries in the order they
have there. Verify only copies its entries there (`ReadLocked`); the loop of
`verifyMemoryChain` runs outside the mutex, one entry per step, with an early
return for a failed hash and one for each check. An entry keeps the Payload
that its caller passed, not a copy (`memory.go:126`), so once Record has
returned the caller may change it (`PayloadChanges`). What a changed Payload
reads as is different at every reading: what it was, something else
(`Rewritten`), or nothing that marshals (`PayloadReads`).

### PostgresLog

`Construct` and `PingDialed` are `connectPostgres`, with a pool that is dialed
or passed in. A call to `Record` takes a connection (`AcquireConn`) and drives
a server session through `waiting`, `locked`, `read`, `staged`, `commit` to
`committed` or `aborted`. The client's steps (`GetLastEntry`, `InsertEntry`,
`SendCommit`, `CommitReply`, `TxFailed`) and the server's (`GrantLock`,
`CommitApplied`, `ServerAbort`) interleave freely. `Detach` is a cancelled
context or a broken connection at any point: the caller gets
`ErrBackendUnavailable`, the session goes on without it and a COMMIT already
sent may still be applied. `Crash` is a process that dies after the commit. An
insert that conflicts with a staged row waits for that transaction, and fails
once the row is committed. `env` says where the program runs: isolation level
(the code sets none, so the server's default decides), advisory keys of the
chains, owner of the pool, and whether anything fails. Replicas are further
callers. A read holds its connection for one statement and is one step per
statement (`ResolveLatest`, `Fetch`).

### MongoLog

`Connect`, `Ping`, `probeTransactionSupport` and `ensureAuditIndexes` are the
constructor. Each of the last three may fail and then has an error path of its
own, with its own `Disconnect` (`DisconnectAfter`); until that has run the
client is connected. `Restart` lets the program construct a log again, after a
failure or, as a new process, after Close. `Record` opens a driver session,
once per call (`opened` numbers them), and a transaction at its first
statement (`FindTail`), which fixes the snapshot, inserts the entry
(`InsertOne`) and replaces the chain-state document (`ReplaceOne`);
`CommitApplied` changes both collections at once. A document the snapshot
shows is a duplicate key, an error for the caller; one that was committed
since or that another transaction has written is a write conflict, which
aborts the transaction, and `Retry` runs the callback again in a new one, an
attempt of the same call. `TimeUp` is the time limit of `WithTransaction`;
`GiveUp` is a cancelled context, a lost connection or a client disconnected by
Close, after which the transaction may still commit. An answer to a commit
that is lost and asked for again is a longer stay in `commit`. `LoseState`
removes a chain-state document behind the program's back: deleted by hand, or
not restored with the entries. Without `env.faults` nothing but conflicts and
Close interferes.

### ChainIntegrity

The table of `EntryTable`, with `Record` as one step and one action per kind
of damage: a changed content, `hash` or `prev_hash`, a row that appears in
another chain or at another position, a lost row. Damage respects the table's
constraints and never computes a new hash, for the documentation sets aside
whoever can rewrite a whole chain. For the same reason a stored `hash` is
never overwritten with `GenesisPrevHash`: with it the next Record would begin
a second chain that looks genuine.

Two things that the code cannot see bound what the properties say. A row whose
columns were altered into others that read alike keeps its hash: the
properties speak of the bytes of an entry (`SameBytes`), not of how its
columns divide them. And `entry_id` has no CHECK: a row moved to 0 or below is
outside the scan of Verify, though not outside `GetLastEntry` when it is the
last, so the properties speak of the rows from 1 on (`Scanned`).

### ChangeDiff, StoredEntry, RecordedChange

`collectDiff` is a stack of frames, one per call, each with the keys it has
still to visit, in any order, as Go iterates over a map. `Record` then hashes
the event (`Preimage`) and stores it; `StoredPayload` and `StoredTime` say
what the columns keep: JSONB has an order of members of its own (shorter keys
first) and writes numbers without exponents, TIMESTAMPTZ counts microseconds;
MongoDB keeps the payload's bytes and counts milliseconds. `AlterRow` changes
one column. `Intact` is what Verify computes for the row. `Arguments` is what
an event has besides the action, the payload and the timestamp. `Changes` is
the reference that the diff is compared with: the positions of what differs
inside objects that both snapshots have, and whose paths are their positions
joined (`FlattenSeq`).

## 3. Runs

| Run | Instance | Checks |
|---|---|---|
| `memory` | 2 goroutines, 2 chains, 3 calls of any method, bus, failing hashes, payloads changed after Record, Close | `TypeOK`, `ChainsIntact`, `EveryEntryOwned`, `PublishedOnce`, `AlarmsOnlyOnChange`, `ReadsSeeAcked`, `QuiescentAfterClose`, `ImplementsAuditLog`, `EveryCallReturns` |
| `postgres_record` | constructor, 2 callers, 2 chains, 2 connections, 3 Records, bus, Close, in four environments: read committed with faults on a pool of its own, repeatable read with faults and one key for both chains on a borrowed pool, and two healthy servers | `TypeOK`, `ChainsIntact`, `TailNotStale`, `RowsFromCommits`, `HealthyCallsSucceed`, `PoolOwnership`, `CloseDrains`, `ImplementsAuditLog` |
| `postgres_calls` | one chain, one connection, faults, 3 calls of RecordChange, subscribers and every read method, Close | `VerifyFromStartValid`, `ReadsSeeAcked`, `EveryCallReturns`, `CloseReturns` |
| `mongo` | constructor, 2 callers, one chain, 3 calls of Record, Verify, Query and LatestEntryID, Close and restarts; once with faults, once without but with lost chain-state documents | `TypeOK`, `ChainsIntact`, `StateAgreesWithEntries`, `RecordedByCommit`, `HealthyCallsSucceed`, `ClientReleased`, `ReadsSeeEntries`, `ImplementsAuditLog`, `EveryCallReturns` |
| `integrity` | chains "a" and "a1", three contents of which two read alike, 3 Records, 2 damages in any order | `TypeOK`, `ValidMeansAsRecorded`, `BrokenAtFirstDamage`, `DamageContained`, `PrefixesAgree`, `InteriorRemovalDetected`, `RecordHidesNothing` |
| `recorded_change` | every pair of about thirty-five snapshots, both durable backends, two timestamps, any one column altered | `DiffExact`, `StoredEntryVerifies`, `AlteredColumnDetected` |
| `memory_subrange`, `postgres_close_race`, `mongo_lost_state`, `mongo_probe`, `integrity_removal`, `recorded_numbers` | | one documented promise each, which the code does not keep (section 4) |

What they show beyond their names:

* `postgres_record` says what protects the chain. Under read committed the
  advisory lock alone does: no tail is ever stale (`TailNotStale`) and, on a
  healthy server, no insert ever conflicts (`HealthyCallsSucceed`). Under
  repeatable read tails can be stale, and it is the primary key that turns the
  stale Record into an error: without it two transactions commit the same row
  (`RowsFromCommits`).
* In `mongo` the write conflict on the chain-state document plays the part of
  the lock and the driver's retry keeps it from the caller
  (`HealthyCallsSucceed`, with Close and restarts leaving transactions
  behind). When the chain-state document is lost, the unique index keeps the
  chain intact (`ChainsIntact`): every further Record of that chain fails.
* `ImplementsAuditLog` is a refinement: every step of a backend is a commit at
  the next position, a publication, an acknowledgement or nothing. It covers
  commits whose caller is gone: they are commits that nobody acknowledges.
* `memory` says when this backend raises an alarm although nobody tampered with
  it: only about an entry whose Payload its caller has changed since
  (`AlarmsOnlyOnChange`), never because of a race between Verify and Records.
* `mongo` also counts documents per call: of the attempts of one Record at
  most one is committed or may still be (`RecordedByCommit`), also for a call
  that was given up. A retry after a commit whose answer was lost would break
  this.
* `integrity` says exactly what `Verify` is worth: the rows that it accepts
  have the bytes of recorded entries, each on the one it was recorded on
  (`ValidMeansAsRecorded`), and the chain has the bytes of every entry that a
  scanned row was recorded upon, directly or not (`InteriorRemovalDetected`):
  what can be missing is an end of the chain. Bytes, not columns: the first
  row of chain "a1" moved to position 11 of an empty chain "a" is accepted
  (section 4), and so is a row whose fields were divided differently.
  For the second property it would not be enough that no last row was ever
  removed: when row 1 of two is moved to position 3, row 2 is lost and row 1
  is moved back, the chain is valid and no last row was touched. That takes
  three damages, more than the run has, and the theorem covers it.
* `recorded_change` says what a diff and a row are worth: the diff is empty
  only for equal snapshots, and where the snapshots themselves have no empty
  key its paths are exactly those of the changes; the hash survives storage
  unless JSONB rewrites a number, and no single column can change without
  changing it.

**Bounds.** Two callers and two chains are enough for one Record to overtake,
block or corrupt another on the same chain and on another one; a third call
lets a subscriber record inside a race, a session outlive its caller while two
more Records follow, or a read follow two Records. The runs about reads and
`mongo` have one chain: chains meet only in lock keys, in the pool and in the
statements' `chain_id` conditions, which `memory`, `postgres_record` and
`integrity` exercise. The backends' runs verify whole chains; `integrity` has
every prefix, and the theorems any range. `mongo` has no bus, since
publication is `Calls`' own and runs in the other two. In `integrity` two
damages suffice to rewrite both columns that a row needs to read alike
elsewhere, or to hide one damage under another, three Records leave an entry
before and after a damaged one or entries in both chains, a damaged `entry_id`
may be -1, 0, 1, 2 or 11 (where "a" reads like "a1" at 1), and `IDBits = 5` is
the smallest width that holds all these and puts every bound of Verify up to
the sign bit in reach; `ChainIntegrityProofs` removes these bounds. In
`recorded_change` the snapshots have the fields "a", "b", "a.b" and "", values
that are absent, null, numbers, arrays and objects, so that paths nest,
coincide and vanish; the timestamps fall on both sides of a millisecond, and
the altered strings include the empty one, values of the neighbouring columns
and two that shift a boundary; `RecordedChangeProofs` has any snapshots,
timestamps and strings. `MaxCalls`, `MaxRecords` and `MaxDamages` are only
conjuncts of guards. `integrity` and `recorded_change` disable the deadlock
check, because with the bounds used up, or one change stored and altered,
nothing is left to happen; the other runs keep it.

**Symmetry** over callers and chains is used in `postgres_record`, and over the
two contents that read alike in `integrity` and `integrity_removal`. None of
these checks liveness, and no definition picks among them by `CHOOSE`, except
for the caller-independent choice of a fresh session.

**Fairness** (`FairSpec`). A goroutine inside a call is scheduled again (weak
fairness of its steps; a Go mutex in starvation mode and the queue of pgxpool
hand over to waiters, and each instance makes finitely many calls, so that
weak fairness is enough). The server grants locks, applies commits it has
received and eventually ends the sessions of clients that are gone, and a
Close that was begun goes on (`Background`). In MongoDB a transaction that
fails again and again meets the driver's time limit: strong fairness of
`TimeUp`, since it is tested only after each failure. Nobody has to call, no
fault has to happen and Close need not be called.

## 4. Where the code and its documentation differ

* `memory_subrange`: the first row that Verify fetches is expected to link to
  `GenesisPrevHash` (`memory.go:199`, also `postgres.go:487`,
  `mongo.go:408`), so Verify with `from > 1` reports an untampered chain as
  broken at `from`; `audit.go:82` offers Verify "across [from, to]
  (inclusive)".
* `postgres_close_race`: a Record that was accepted before Close and waits
  for a connection when the pool closes gets `ErrBackendUnavailable`;
  `README.md:257-258`: "in-flight calls either complete normally or observe
  `ErrClosed`".
* `mongo_lost_state`: a missing chain-state document is taken for a chain
  without entries, and Verify reports the chain as valid and empty;
  `audit.go:263`: "Empty is true only when chainID has zero entries recorded
  at all", and `errors.go:40-42` has an error for "a missing Mongo chain-state
  document" that no code returns.
* `mongo_probe`: chain-state documents have the ChainID as their `_id`, so
  that a chain named like `probeDocID` makes the constructor's probe, and with
  it every later constructor, fail; `mongo.go:203-205`: "so it can never
  collide with the real tail document".
* `integrity_removal`: Verify is bounded by the last row that is still there,
  so losing the end of a chain goes unnoticed; `docs.go:16-17`: "nothing in
  the recorded range was altered or removed without Verify() detecting it".
* `recorded_numbers`: a float64 of 1e21 or more is hashed as `1e+21`, and
  JSONB gives it back without an exponent, so that Verify on PostgreSQL
  reports the untouched entry as broken; `hash.go:101-104`: "Decoding with
  UseNumber() preserves the exact original numeric text through the round
  trip".

Others have no run of their own. ChainID and EntryID are hashed without a
separator between them (`hash.go:79-80`), so the first entry of chain "a1",
moved to chain "a" at EntryID 11 by editing these two columns, keeps its hash,
and Verify accepts chain "a", where `hash.go:34-35` says that "reproducing an
entry's Hash under a different chainID requires breaking SHA-256, not just
editing a column". The states of `integrity` have it, and its properties allow
for it. RecordChange builds its event before Record looks at the flag
(`memory.go:138`), so a closed log can answer `ErrInvalidEvent` where
`audit.go:163-164` says that every method returns `ErrClosed`. A bound of
Verify in the upper half of the 64 bits turns negative
(`postgres.go:344-346`), so that no row is scanned and the chain is reported
valid: `PrefixesAgree` holds up to the largest bound below. Rows whose
`entry_id` was changed to 0 or less are not looked at by Verify at all
(`postgres.go:465-467`, `schema.sql:15`). On the memory backend a caller that
goes on using the map it passed as Payload makes Verify report its entry as
broken, or fail (`memory.go:126`, `209-230`). And since the hash column is
unique (`schema.sql:31`), the first entry of a chain is refused if it reads
like the first entry of another chain with the same timestamp: actor "1x" on
chain "a" and actor "x" on chain "a1". `HealthyCallsSucceed` of `PostgresLog`
therefore sets entries that read alike aside.

## 5. Proofs

Every invariant and every action property that a passing run checks is also a
theorem, for any set of callers, chains, contents, snapshots and columns and
any bounds, and so are the three refinements. `PROJECT.json` lists the
theorems.

### Assumptions

On the constants only, named in the module that declares them and evaluated by
TLC in every run: `ConstantsDistinct` (the placeholders for a missing chain, a
refused event and a bad snapshot are none of the real ones),
`CollisionsAreClasses` (reading alike is an equivalence; which fields do is
left open), `CallsConstants` (bounds of Verify are naturals, Limits are
integers, `MaxCalls` is a natural), `MemoryConstants` (the mutex' owner
`NoOne` is no caller, `Rewritten` is not a content that was recorded),
`PostgresConstants` and `MongoConstants` (the shape of the environments; a
pool has a connection; `probeDocID` is a name), `IntegrityConstants` (the
positions that damage or a Record on top of it can reach fit into the signed
column), `DiffConstants` (snapshots are JSON values), `StoredConstants` (a
millisecond is a whole number of microseconds; both orders are of the same
keys) and `RecordedConstants` (columns hold strings, timestamps are naturals).

### The caller's side

A backend's specification is `Calls` with a storage underneath, so
`CallsProofs` proves once what the caller's side preserves. `CallsInv(steps,
S)`, for the backend's own values of `pc` and the keys S of what it has
stored, has the typing of a call's locals by where the call is (`TypeOK` alone
is not inductive: a Record could store an event that was never set), the
ownership of keys (`Owned`: a key is acknowledged, or in progress at one level
of one goroutine, or neither, and never two of these) and what subscribers
have seen (`Delivered`). One lemma per kind of step says that it is kept, and
what the step does to the keys that nobody has seen yet (`KeepsSecrets`): a
commit whose caller was cut off must stay unknown. `EveryEntryOwned`,
`PublishedOnce` and the publication and acknowledgement of the refinements
come from here.

### Memory

`Inv` adds to it

* `Exclusion`: a goroutine between lock and unlock owns the mutex, and if it
  is about to append, the tail it has read is still the tail of its chain.
  Without this an append could fork a chain;
* `StorageInv`: every row has the hash of its fields and lies within its
  chain's tail (`RowsOK`), the slice is ordered per chain (`SliceOrdered`),
  rows link to their predecessors (`Linked`), every position up to the tail is
  taken (`NoGaps`) and empty tails have the genesis hash (`EmptyTails`);
* `NoneLost`: a stored key is acknowledged or in progress, which is special to
  this backend: nothing here outlives its caller.

`CopiesInv` is about a Verify between its critical section and its return: its
copy, if it starts at the first entry, is the beginning of an intact chain,
whatever was appended meanwhile (`CopyIsIntact`, `StoredGrows`). Every link of
it is then sound, and a hash differs only where the Payload was changed: this
is `VerifyAnswers`, the step behind `AlarmsAlwaysOnChange`.

### PostgreSQL and MongoDB

`ChainIntact` says that no position below an entry is missing. That there is a
last one would take an induction, so the inductive form, `Ledger`, names it.
`EntryTableProofs` has the two facts that everything rests on: an entry built
on the last one keeps the chain intact, and an entry built on a tail that is
no longer the last one (`OldTail`) meets a row at its own position. The
invariants relate every session to the table (`TableInv`): its tail is or was
the tail of its chain and what it has inserted sits on that tail, where no row
is yet (`SessionOK`); the tail is the table's current one in PostgreSQL under
read committed (`Current`) and the snapshot's in MongoDB (`Snapshot`); no two
sessions hold one lock, have inserted rows that conflict or have committed the
same row (`Apart`). `Attached` and `Secret` say which session belongs to which
call, and that a row whose caller does not know of it is known to nobody; in
MongoDB, `OnePerCall` says that no two of the transactions that are running or
committed belong to one call; `Budget` counts sessions, so that a Record which
needs one finds one; `HandleInv` follows the constructor, the pool or client
and Close; `HealthyInv` is what a deployment without faults never sees.

The proofs say more precisely than the runs what protects a chain. Under read
committed the advisory lock keeps the tail current (`TailsStayCurrent`), also
where chains share a key. Under repeatable read, and in MongoDB throughout,
intactness rests on the uniqueness of positions alone: a free position means
that the tail was current. The write conflict on the chain-state document is
needed for `HealthyCallsAlwaysSucceed` and `StateAlwaysAgrees`, not for
`ChainsAlwaysIntact`.

### Reads

`AnswersInv` says of every result that a goroutine still has what
`VerifyFromStartValid` (in the memory backend `AlarmsOnlyOnChange`) and
`ReadsSeeAcked` (`ReadsSeeEntries`) ask. It needs
`Inv` and three facts about lists: `RankFacts`, that counting how many keys
are at or below one's own numbers a finite set without gaps (this stands in
for an induction over the length of a list), `OrderedFacts` and `ScanLists`,
that ORDER BY and a walk over the slice list exactly the entries wanted, in
order, and `ScanIntactChain`, that the two checks of Verify pass on such a
list. `MemoryLog` has `Scan` instead of `SelectSeq`, whose recursive
definition could not be reasoned about here.

### Damaged tables

`ChainIntegrityProofs` first restates what Verify reports as a statement about
the set of rows it scanned (`VerifyVerdict`): each row is sound or not, and
`BrokenAt` is the lowest that is not. `LowestAndHighest` gives a finite set of
rows its lowest and highest, again in place of an induction. The invariant is
that the table's constraints hold, that positions fit the column, that stored
hashes are of entries once recorded or of nobody (`RowsInv`), that recorded
entries have the hash of their fields (`GenuineInv`) and that a chain no
damage has touched is a `Ledger` (`UntouchedInv`). Equal hashes mean equal
texts all the way down, not equal fields, and no theorem assumes more:
`SameHashSameBytes` and `OwnHashMeansGenuine` say that a row which has the hash
of its fields has the bytes of a recorded entry, and `CoveredByPrevHash`
follows a row's `prev_hash` back to the bytes of everything it was recorded
upon. All hold for any `Collisions`. `RecordNeverHides` is an action property;
`PrefixesAlwaysAgree` holds for every width of the column.

### Recorded changes

`RecordedChangeProofs` has three results, and the induction they need:
`SetInduction`, for the set of numbers that have a property, comes from
`Least`, that a set of naturals has a least element, which comes from the
well-foundedness of `<`.

*The hash survives storage* (`EntriesVerify`). `RowIsSent` is the invariant: a
stored row is the row of the event that was hashed, except for the column
that was altered. The payload survives because decoding forgets the order of
members, whoever chose it (`RoundTrip`, `PayloadSurvives`), the timestamp
because truncating to microseconds and then to milliseconds is truncating to
milliseconds (`TruncateTwice`).

*An alteration shows* (`AlterationsDetected`). The parts of a preimage have no
separators. If exactly one of them differs, then so do the concatenations:
what comes before it and what comes after it is equal and can be cancelled on
both sides, whatever the lengths (`OnePartDiffers`, for any number of parts).

*A diff is exact* (`DiffIsExact`). `DiffExact` speaks of the finished map only.
The invariant, `DiffInv`, is about the frames of collectDiff: each is at a
position all of whose prefixes are objects in both snapshots (`FrameOf`), its
prefix is the joined position, and every change is in the map or still ahead
of a frame, which has not visited the next key on the way to it (`Walk`).
The frames are taken as a set, so that neither their order nor the order of
the keys matters. One lemma per branch of the loop shows that this is kept:
`VisitObjects` hands the changes below a key to the new frame,
`VisitUnchanged` has none to lose, `VisitChanged` puts one into the map.
When no frame is left every change is in the map (`EndWalk`), and an empty map
means equal snapshots, since the shortest position at which two objects
differ is a change (`SameTree`). That a path is the joined position takes two
inductions over the definition of `FlattenSeq`, and is the one place where an
empty key of a snapshot gets in the way (`PathStep`).

### Only model-checked

* Liveness: `EveryCallReturns` and `CloseReturns`. They need fairness and
  `ENABLED`, which the prover does not support.
* The properties of section 4, which are violated.

## 6. Not modelled

* Logging, the example and the plumbing that sqlc generates have no state that
  a property is about. `applyPostgresSchema` serves tests only.
* The tests of the constructors' arguments end before anything is dialed and
  are part of the failing alternatives of `Construct` and `Connect`.
* `RecordedChange` alters one column of a row. Two columns altered together
  can keep the hash, as their fields are not separated; `ChainIntegrity` has
  that, with `Collisions` in the place of the strings.
* The Go runtime stops a program in which one goroutine writes to a map that
  another one is marshaling. In `MemoryLog` a Payload changes between two
  readings of it, never within one.
* Query and GetEntry of the memory backend hand out the stored Payload, so
  that a reader can change it as well: the same `PayloadChanges`, by another
  hand.
* The path of an empty key at the top of a snapshot is that of what is below
  it; `DiffExact` says of such snapshots only that the diff is empty exactly
  when they are equal.
* Verify's error for a stored payload that is not JSON at all (`postgres.go:497`,
  `mongo.go:418`).
* GetEntry and RecordChange on MongoDB have the same steps as on PostgreSQL
  (`DurableCalls`, `Calls`) and run only there.

## 7. Plan

Done: every component that keeps state or computes something, as in the table
of section 2, and every invariant, action property and refinement of the
passing runs as a theorem. What is left:

1. `AuditLog` itself: that its log is dense (the positions of a chain are
   those up to its tail) and that what is acknowledged or published is in the
   log. By the refinements this then holds of every backend, and of any other
   that is shown to implement `AuditLog`.
2. That collectDiff ends: a measure on the frames, which would turn
   `DiffIsExact` from partial into total correctness.
3. Verify of a subrange, once the code links the first row it fetches to the
   row before it (section 4).
