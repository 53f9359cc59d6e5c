----------------------------- MODULE EntryTable -----------------------------
(***************************************************************************)
(* The table graudit_entries of the PostgreSQL backend: the queries of     *)
(* internal/postgresdb/audit.sql.go as functions of the rows a statement   *)
(* can see, the constraints of schema.sql, and Verify over the rows that   *)
(* its two statements return.                                              *)
(***************************************************************************)
EXTENDS HashChain

NoTail == [id |-> 0, hash |-> GenesisPrevHash]

LastEntryAnyChain(rows, c) ==
  IF rows = {} THEN NoTail
  ELSE LET e == CHOOSE e \in rows : \A f \in rows : f.id <= e.id
       IN  [id |-> e.id, hash |-> e.hash]

\* GetLastEntry: ORDER BY entry_id DESC LIMIT 1; NoTail for pgx.ErrNoRows.
LastEntry(rows, c) ==
  LET es == OfChain(rows, c)
  IN  IF es = {} THEN NoTail
      ELSE LET e == CHOOSE e \in es : \A f \in es : f.id <= e.id
           IN  [id |-> e.id, hash |-> e.hash]

ConflictsNever(e, f) == FALSE

\* PRIMARY KEY (chain_id, entry_id) and the unique index on hash.
Conflicts(e, f) == (e.chain = f.chain /\ e.id = f.id) \/ e.hash = f.hash

\* ORDER BY entry_id ASC, for rows of one chain.
Ordered(es) ==
  LET nth == [k \in 1..Cardinality(es) |->
                CHOOSE e \in es : Cardinality({ f \in es : f.id <= e.id }) = k]
  IN  SubSeq(nth, 1, Cardinality(es))

ListEntriesExclusive(rows, c, from, to) ==
  Ordered({ e \in OfChain(rows, c) : from < e.id /\ e.id <= to })

ListEntriesInRange(rows, c, from, to) ==
  Ordered({ e \in OfChain(rows, c) : from <= e.id /\ e.id <= to })

QueryEntriesLatest(rows, c, match, limit) ==
  LET out == Ordered({ e \in OfChain(rows, c) : e.content \in match })
      n   == Len(out)
  IN  IF limit > 0 /\ n > limit THEN SubSeq(out, n - limit + 1, n) ELSE out

\* LIMIT is NULL unless the filter's Limit is positive.
QueryEntries(rows, c, match, limit) ==
  LET out == Ordered({ e \in OfChain(rows, c) : e.content \in match })
  IN  IF limit > 0 /\ Len(out) > limit THEN SubSeq(out, 1, limit) ELSE out

GetEntryByID(rows, c, id) == { e \in OfChain(rows, c) : e.id = id }

\* Verify once its upper bound is known; from below 1 means 1.
VerifyRows(rows, c, from, to) ==
  verifyChain(ListEntriesInRange(rows, c, IF from < 1 THEN 1 ELSE from, to))
=============================================================================
