--------------------------- MODULE ChainIntegrity ---------------------------
(***************************************************************************)
(* What Verify says about a table whose rows have been damaged: a column   *)
(* altered, a row moved to another chain or lost, in any order and between *)
(* any two Records.  Record and Verify are those of the PostgreSQL         *)
(* backend, each as one step; damage never recomputes a hash (docs.go sets *)
(* the rewriting of a chain by whoever controls the storage aside).        *)
(*                                                                         *)
(* Two blind spots of Verify are part of the model and bound what it can   *)
(* promise.  A row whose fields were damaged into others that concatenate  *)
(* to the same text (Collisions) keeps its hash, so Verify vouches for the *)
(* bytes of an entry, not for how its columns divide them.  And entry_id   *)
(* is a BIGINT without a CHECK, so a row may be moved to 0 or below, where *)
(* Verify, which scans from 1, does not look.                              *)
(***************************************************************************)
EXTENDS EntryTable

CONSTANTS
  IDBits,       \* width of an EntryID; 64 in the code
  Positions,    \* values that a damaged entry_id column may come to hold
  MaxRecords,   \* bound on the number of Records
  MaxDamages    \* bound on the number of damaged columns and lost rows

\* The damaged positions, and those recorded on top of them or of nothing.
Column == UNION { n..n + MaxRecords : n \in Positions \cup {0} }

ASSUME IntegrityConstants ==
  /\ IDBits \in Nat \ {0} /\ MaxRecords \in Nat /\ MaxDamages \in Nat
  /\ Positions \subseteq Int
  \* the signed column holds them all
  /\ \A n \in Column : -2^(IDBits - 1) <= n /\ n < 2^(IDBits - 1)

VARIABLES
  rows,      \* the table
  genuine,   \* history: the entries as Record wrote them
  hit,       \* history: chains some damage has touched
  records,   \* number of Records, for the bound MaxRecords
  damages    \* number of damages, for the bound MaxDamages

vars == <<rows, genuine, hit, records, damages>>

Row == [chain : Chains, id : Column, content : Contents,
        prevHash : Hash, hash : Hash]

\* Rows keep to their columns: no Record leaves the positions of its chain.
TypeOK ==
  /\ rows \subseteq Row
  /\ genuine \subseteq Row
  /\ hit \subseteq Chains
  /\ records \in 0..MaxRecords
  /\ damages \in 0..MaxDamages

Init ==
  /\ rows = {}
  /\ genuine = {}
  /\ hit = {}
  /\ records = 0
  /\ damages = 0

-----------------------------------------------------------------------------
NextEntryBelow(c, x) ==
  NewEntry(c, LastEntry(rows, c).id - 1, x, LastEntry(rows, c).hash)

\* The entry Record builds on the tail that GetLastEntry returns.
NextEntry(c, x) ==
  NewEntry(c, LastEntry(rows, c).id + 1, x, LastEntry(rows, c).hash)

\* An insert that violates a constraint rolls back and changes nothing.
Record(c, x) ==
  LET e == NextEntry(c, x)
  IN  /\ records < MaxRecords
      /\ \A f \in rows : ~Conflicts(e, f)
      /\ rows' = rows \cup {e}
      /\ genuine' = genuine \cup {e}
      /\ records' = records + 1
      /\ UNCHANGED <<hit, damages>>

-----------------------------------------------------------------------------
(***************************************************************************)
(* Damage to one row.  The constraints of the table still hold after it.   *)
(***************************************************************************)
Damage(e, new, where) ==
  /\ damages < MaxDamages
  /\ \A d \in new, f \in rows \ {e} : ~Conflicts(d, f)
  /\ rows' = (rows \ {e}) \cup new
  /\ hit' = hit \cup where
  /\ damages' = damages + 1
  /\ UNCHANGED <<genuine, records>>

AlterContent(e, x) ==
  /\ x # e.content
  /\ Damage(e, {[e EXCEPT !.content = x]}, {e.chain})

AlterPrevHash(e, h) ==
  /\ h # e.prevHash
  /\ Damage(e, {[e EXCEPT !.prevHash = h]}, {e.chain})

AlterHash(e, h) ==
  /\ h # e.hash
  /\ Damage(e, {[e EXCEPT !.hash = h]}, {e.chain})

\* chain_id rewritten: the row appears in another chain.
MoveToChain(e, c) ==
  /\ c # e.chain
  /\ Damage(e, {[e EXCEPT !.chain = c]}, {e.chain, c})

\* entry_id rewritten: the row appears at another position.
MoveToPosition(e, n) ==
  /\ n # e.id
  /\ Damage(e, {[e EXCEPT !.id = n]}, {e.chain})

LoseRow(e) == Damage(e, {}, {e.chain})

\* A string that is nobody's hash: the text of no entry went into it.
Garbled == << {} >>

(***************************************************************************)
(* Values that a damaged hash or prev_hash column may come to hold: the    *)
(* hash of another entry, or nobody's; prev_hash may also hold             *)
(* GenesisPrevHash.                                                        *)
(***************************************************************************)
SomeHashes == { e.hash : e \in genuine } \cup {Garbled}

Next ==
  \/ \E c \in Chains, x \in Contents : Record(c, x)
  \/ \E e \in rows :
       \/ \E x \in Contents : AlterContent(e, x)
       \/ \E h \in SomeHashes \cup {GenesisPrevHash} : AlterPrevHash(e, h)
       \/ \E h \in SomeHashes : AlterHash(e, h)
       \/ \E c \in Chains : MoveToChain(e, c)
       \/ \E n \in Positions : MoveToPosition(e, n)
       \/ LoseRow(e)

Spec == Init /\ [][Next]_vars

-----------------------------------------------------------------------------
Signed(id, bits) ==
  LET n == id % 2^bits IN IF n < 2^(bits - 1) THEN n ELSE n - 2^bits

toPgEntryIDHalf(id) == Signed(id, IDBits \div 2)

\* An unsigned EntryID as the column's signed integer of the same width.
toPgEntryID(id) == Signed(id, IDBits)

(***************************************************************************)
(* Verify(chainID, 1, to) on a table, with to = 0 for the whole chain; the *)
(* EntryID of the tail came from the column and returns to it unchanged.   *)
(***************************************************************************)
VerifyTable(table, c, to) ==
  IF to = 0 /\ OfChain(table, c) = {} THEN EmptyResult
  ELSE VerifyRows(table, c, 1, IF to = 0 THEN LastEntry(table, c).id ELSE toPgEntryID(to))

Verify(c, to) == VerifyTable(rows, c, to)

Valid(c) == Verify(c, 0).valid

\* The rows of a chain that Verify looks at.
Scanned(table, c) == { e \in OfChain(table, c) : e.id >= 1 }

(***************************************************************************)
(* Two entries of the same bytes: what ComputeHash reads of the one is     *)
(* what it reads of the other, and so is the hash stored with it.  When no *)
(* other entry reads like them, they are the same entry.                   *)
(***************************************************************************)
SameBytes(e, g) ==
  /\ Text(e.chain, e.id, e.content) = Text(g.chain, g.id, g.content)
  /\ e.prevHash = g.prevHash
  /\ e.hash = g.hash

(***************************************************************************)
(* Every row has the bytes of an entry that Record wrote, and stands on    *)
(* the row on top of which that entry was recorded.                        *)
(***************************************************************************)
AsRecorded(es) ==
  \A e \in es :
    /\ \E g \in genuine : SameBytes(e, g)
    /\ LastEntry({ f \in es : f.id < e.id }, e.chain).hash = e.prevHash

(***************************************************************************)
(* The rows that Verify accepts have the bytes of entries that Record      *)
(* wrote, each on top of the one before it: whatever was altered, moved,   *)
(* renumbered or lost, and recorded in between, the bytes under every hash *)
(* of the chain are those that were hashed (hash.go:27-41,                 *)
(* postgres.go:485-513).                                                   *)
(***************************************************************************)
ValidMeansAsRecorded == \A c \in Chains : Valid(c) => AsRecorded(Scanned(rows, c))

(***************************************************************************)
(* BrokenAt is the first damage that Verify can see                        *)
(* (postgres.go:491-509): the scanned rows below it have the bytes that    *)
(* were recorded, and with it they do not.                                 *)
(***************************************************************************)
BrokenAtFirstDamage ==
  \A c \in Chains :
    LET whole   == Verify(c, 0)
        UpTo(n) == { e \in Scanned(rows, c) : e.id <= n }
    IN  ~whole.valid => /\ AsRecorded(UpTo(whole.brokenAt - 1))
                        /\ ~AsRecorded(UpTo(whole.brokenAt))

(***************************************************************************)
(* Damage is contained (docs.go, README.md "tamper containment"): a chain  *)
(* that no damage has touched is reported valid whatever happened to the   *)
(* other chains in the same table.                                         *)
(***************************************************************************)
DamageContained == \A c \in Chains : c \notin hit => Valid(c)

(***************************************************************************)
(* Verify of a prefix and of the whole chain agree: a prefix is broken     *)
(* exactly when it reaches the row at which the whole chain is broken, and *)
(* then at that row, for every upper bound up to the largest that the      *)
(* column can hold (postgres.go:332-346, 469-480).  A larger one turns     *)
(* negative, and Verify accepts the chain without looking at a row.        *)
(***************************************************************************)
PrefixesAgree ==
  \A c \in Chains :
    LET whole == Verify(c, 0)
    IN  \A to \in 1..2^(IDBits - 1) - 1 :
          IF whole.valid \/ to < whole.brokenAt
            THEN Verify(c, to).valid
            ELSE Verify(c, to) = whole

(***************************************************************************)
(* Recording goes on after damage, and never hides it: no Record turns a   *)
(* chain that Verify rejects into one that it accepts.                     *)
(***************************************************************************)
RecordHidesNothing ==
  [][records' # records =>
       \A c \in Chains : ~Valid(c) => ~VerifyTable(rows', c, 0).valid]_vars

\* g is a hash that h was computed from, or h itself.
Covers(h, g) == Len(g) <= Len(h) /\ SubSeq(h, 1, Len(g)) = g

(***************************************************************************)
(* A removed entry is noticed as long as Verify still sees a row that was  *)
(* recorded on top of it, directly or not (postgres.go:491-498): if it     *)
(* accepts the chain, a row at or below that one has the removed entry's   *)
(* bytes.  A chain can lose the bytes of entries at its end only.          *)
(***************************************************************************)
InteriorRemovalDetected ==
  \A c \in Chains :
    Valid(c) => \A e \in Scanned(rows, c), g \in genuine :
                  Covers(e.hash, g.hash) =>
                    \E f \in Scanned(rows, c) : f.id <= e.id /\ SameBytes(f, g)

=============================================================================
