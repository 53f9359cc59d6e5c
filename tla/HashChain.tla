----------------------------- MODULE HashChain -----------------------------
(***************************************************************************)
(* Entries of a hash chain and the pure algorithms every backend shares:   *)
(* AuditEvent.Validate (audit.go), ComputeHash (hash.go) and the two-check *)
(* scan of Verify (postgres.go, mongo.go; MemoryLog has one of its own).   *)
(*                                                                         *)
(* A chain is identified by its ChainID, an entry of it by its EntryID.    *)
(* Everything else a caller supplies (actor, entity, action, payload,      *)
(* timestamp) is one opaque value, the entry's content: the properties of  *)
(* the chain only tell apart contents that are equal from contents that    *)
(* differ.                                                                 *)
(*                                                                         *)
(* SHA-256 is idealised as collision free, but what it digests is not      *)
(* unambiguous: the fields of an entry are concatenated without separators *)
(* (hash.go), so that ChainID "a1" at EntryID 1 and ChainID "a" at EntryID *)
(* 11 give the same text, and so do EntityType and EntityID "ab", "c" and  *)
(* "a", "bc".  Which entries share their text is the constant Collisions.  *)
(* The text ends in a PrevHash of 64 characters, which can be told apart.  *)
(* A hash is the sequence of the texts it was computed from, its own last  *)
(* and the predecessors' before it; GenesisPrevHash (64 zeros) is the hash *)
(* of nothing.                                                             *)
(***************************************************************************)
EXTENDS Integers, Sequences, FiniteSets

CONSTANTS
  Chains,      \* the non-empty ChainID strings in use
  NoChain,     \* the empty string passed as a ChainID
  Contents,    \* contents of events that Validate accepts
  BadEvent,    \* an event with a missing field or an unserializable Payload
  BadSnapshot, \* a before/after that does not marshal to a JSON object
  Collisions   \* sets of <<chain, id, content>> whose fields concatenate alike

\* The fields that ComputeHash writes before prevHash.  A position is an
\* integer of the width of an EntryID, here with the sign of the column.
Fields == Chains \X Int \X Contents

ASSUME ConstantsDistinct ==
  /\ NoChain \notin Chains
  /\ BadEvent \notin Contents
  /\ BadSnapshot \notin Contents \cup {BadEvent}

\* Reading alike is an equivalence, and Collisions are its classes.
ASSUME CollisionsAreClasses ==
  /\ Collisions \subseteq SUBSET Fields
  /\ \A p, q \in Collisions : p = q \/ p \cap q = {}

GenesisPrevHash == << >>

Hash == Seq(SUBSET Fields)

Entry == [chain : Chains, id : Nat, content : Contents,
          prevHash : Hash, hash : Hash]

\* What reads like the fields f.
Alike == [f \in UNION Collisions |-> CHOOSE same \in Collisions : f \in same]

(***************************************************************************)
(* ComputeHash: chainID and entryID are part of the text, next to the      *)
(* entry's own fields and the hash of its predecessor.  The text before    *)
(* prevHash is represented by everything that reads like it.               *)
(***************************************************************************)
Text(chain, id, content) ==
  LET own == <<chain, id, content>>
  IN  IF own \in DOMAIN Alike THEN Alike[own] ELSE {own}

ComputeHash(chain, id, content, prevHash) ==
  Append(prevHash, Text(chain, id, content))

\* The entry Record appends after a tail [lastID, lastHash].
NewEntry(chain, id, content, prevHash) ==
  [chain |-> chain, id |-> id, content |-> content, prevHash |-> prevHash,
   hash |-> ComputeHash(chain, id, content, prevHash)]

(***************************************************************************)
(* AuditEvent.Validate: the ChainID is tested first; its error wraps both  *)
(* ErrInvalidEvent and ErrChainIDRequired.                                 *)
(***************************************************************************)
Validate(chain, content) ==
  CASE chain = NoChain -> {"ErrInvalidEvent", "ErrChainIDRequired"}
    [] chain # NoChain /\ content = BadEvent -> {"ErrInvalidEvent"}
    [] OTHER -> {}

\* BuildChangeEvent of diff.go: the event of a before/after pair, or an error.
BuildChangeEvent(snapshots) ==
  IF snapshots = BadSnapshot THEN {"ErrInvalidEvent"} ELSE {}

-----------------------------------------------------------------------------
(***************************************************************************)
(* The scan of Verify over the rows it fetched.  Check B compares a row's  *)
(* PrevHash with the stored Hash of the row fetched before it, and with    *)
(* GenesisPrevHash for the first row fetched.  Check A recomputes the      *)
(* row's Hash from its own fields: what was decoded from stored JSON        *)
(* marshals again, so a durable backend has no error to return here.  The  *)
(* scan stops at the first row that fails either check.                    *)
(***************************************************************************)
ExpectPrev(rows, i) == IF i > 1 THEN rows[i - 1].hash ELSE GenesisPrevHash

LinkOK(rows, i) == rows[i].prevHash = ExpectPrev(rows, i)

Recompute(e) == ComputeHash(e.chain, e.id, e.content, e.prevHash)

BrokenRowsNoLink(rows) == { i \in DOMAIN rows : Recompute(rows[i]) # rows[i].hash }

BrokenRowsNoRecompute(rows) == { i \in DOMAIN rows : ~LinkOK(rows, i) }

BrokenRowsLastOnly(rows) ==
  { i \in DOMAIN rows : i = Len(rows) /\ (~LinkOK(rows, i) \/ Recompute(rows[i]) # rows[i].hash) }

BrokenRows(rows) ==
  { i \in DOMAIN rows : ~LinkOK(rows, i) \/ Recompute(rows[i]) # rows[i].hash }

ValidResult == [valid |-> TRUE, empty |-> FALSE, brokenAt |-> 0,
                expected |-> << >>, actual |-> << >>]

EmptyResult == [ValidResult EXCEPT !.empty = TRUE]

verifyChainLastBroken(rows) ==
  LET broken == BrokenRows(rows)
      i      == CHOOSE i \in broken : \A j \in broken : i >= j
  IN  IF broken = {} THEN ValidResult
      ELSE [ValidResult EXCEPT !.valid = FALSE, !.brokenAt = rows[i].id]

verifyChain(rows) ==
  LET broken == BrokenRows(rows)
      i      == CHOOSE i \in broken : \A j \in broken : i <= j
      linkOK == LinkOK(rows, i)
  IN  IF broken = {} THEN ValidResult
      ELSE [valid |-> FALSE, empty |-> FALSE, brokenAt |-> rows[i].id,
            expected |-> IF linkOK THEN Recompute(rows[i]) ELSE ExpectPrev(rows, i),
            actual   |-> IF linkOK THEN rows[i].hash ELSE rows[i].prevHash]

-----------------------------------------------------------------------------
(***************************************************************************)
(* What it means for the entries of one chain to be an intact hash chain:  *)
(* identifiers are unique and have no gap below them, the first entry      *)
(* links to GenesisPrevHash, every other one to its predecessor, and every *)
(* hash is the hash of the entry's own fields.                             *)
(***************************************************************************)
OfChain(es, c) == { e \in es : e.chain = c }

ChainIntact(es, c) ==
  /\ \A e, f \in OfChain(es, c) : e.id = f.id => e = f
  /\ \A e \in OfChain(es, c) :
        /\ e.id >= 1
        /\ e.hash = Recompute(e)
        /\ e.id = 1 => e.prevHash = GenesisPrevHash
        /\ e.id > 1 => \E f \in OfChain(es, c) :
                          f.id = e.id - 1 /\ e.prevHash = f.hash
=============================================================================
