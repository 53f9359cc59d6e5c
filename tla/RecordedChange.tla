--------------------------- MODULE RecordedChange ---------------------------
(***************************************************************************)
(* A change on its way into a chain and back: RecordChange computes the    *)
(* diff, Record hashes and stores it as the payload of an entry, somebody  *)
(* may alter one column of the row, and Verify computes the hash again     *)
(* from what the row then holds.                                           *)
(***************************************************************************)
EXTENDS ChangeDiff, StoredEntry

CONSTANTS
  Times,      \* timestamps of events, and of altered rows
  Strings,    \* what an altered column may hold
  Arguments   \* what an event has besides its action, payload and timestamp

Columns == {"chain", "id", "actor", "entityType", "entity", "action", "prevHash"}

ASSUME RecordedConstants ==
  /\ Times \subseteq Nat
  /\ Strings \subseteq Seq(STRING)
  /\ Arguments \subseteq [Columns \ {"action"} -> Seq(STRING)]

VARIABLES
  sent,     \* the event as it was passed to Record
  row,      \* the stored row
  altered   \* history: the column that was altered

vars == <<diffVars, sent, row, altered>>

NoEvent == [payload |-> Nil]

NoStoredRow == [backend |-> "none"]

Init ==
  /\ step = "idle"
  /\ before = Nil
  /\ after = Nil
  /\ frames = << >>
  /\ diff = << >>
  /\ sent = NoEvent
  /\ row = NoStoredRow
  /\ altered = "none"

RecordChange ==
  /\ collectDiff \/ \E b, a \in Snapshots : computeDiff(b, a)
  /\ UNCHANGED <<sent, row, altered>>

-----------------------------------------------------------------------------
\* A FieldDiff: a side that is nil is left out of its JSON (omitempty).
FieldJSON(v) == Struct([k \in {<<"before">>, <<"after">>} |->
                          IF v[k[1]] = Null THEN Absent ELSE v[k[1]]])

Event(args, action, payload, ts) ==
  [k \in Columns \cup {"payload", "time"} |->
     CASE k = "action"  -> <<action>>
       [] k = "payload" -> payload
       [] k = "time"    -> ts
       [] OTHER         -> args[k]]

\* The row of event e, with the hash that ComputeHash gives it.
RowOf(backend, e) ==
  [k \in Columns \cup {"payload", "time", "hash", "backend"} |->
     CASE k = "payload" -> StoredPayload(backend, marshalPayload(e.payload))
       [] k = "time"    -> StoredTime(backend, e.time)
       [] k = "hash"    -> Preimage(e)
       [] k = "backend" -> backend
       [] OTHER         -> e[k]]

Store(backend, e) ==
  /\ sent' = e
  /\ row' = RowOf(backend, e)
  /\ step' = "stored"
  /\ UNCHANGED <<before, after, frames, diff, altered>>

\* Record, of the event that RecordChange has built or of one without payload.
Record(backend, args, ts) ==
  \/ /\ step = "built"
     /\ Store(backend, Event(args, Action, Obj([p \in DOMAIN diff |-> FieldJSON(diff[p])]), ts))
  \/ /\ step = "idle"
     /\ Store(backend, Event(args, "login", Nil, ts))

-----------------------------------------------------------------------------
\* The event that a row is read back as.
Loaded(r) == [r EXCEPT !.payload = DecodeStoredPayload(r.payload)]

Intact == Preimage(Loaded(row)) = row.hash

(***************************************************************************)
(* One column of the row comes to hold something else: another string, a   *)
(* payload that is hashed differently, or another millisecond.             *)
(***************************************************************************)
SomePayloads == { NoBytes, Marshal(Obj(<< >>)), Marshal(Obj([k \in {<<"a">>} |-> Num("1")])) }

Alter(column, v) ==
  /\ step = "stored" /\ altered = "none"
  /\ altered' = column
  /\ row' = [row EXCEPT ![column] = v]
  /\ UNCHANGED <<diffVars, sent>>

AlterRow ==
  \/ \E column \in Columns, s \in Strings : s # row[column] /\ Alter(column, s)
  \/ \E p \in SomePayloads :
       /\ canonicalJSON(DecodeStoredPayload(p)) # canonicalJSON(Loaded(row).payload)
       /\ Alter("payload", p)
  \/ \E ts \in Times : TimeText(ts) # TimeText(row.time) /\ Alter("time", ts)

Next ==
  \/ RecordChange
  \/ \E backend \in {"postgres", "mongo"}, args \in Arguments, ts \in Times :
       Record(backend, args, ts)
  \/ step = "stored" /\ AlterRow

Spec == Init /\ [][Next]_vars

-----------------------------------------------------------------------------
\* JSONB has rewritten a number of the payload.
Rewritten ==
  /\ row.backend = "postgres"
  /\ LET v == AsObjects(sent.payload) IN Digits(v) # v

(***************************************************************************)
(* The hash computed from the row is the one computed from the event:      *)
(* neither the order of the members, nor a side of a field that is left    *)
(* out, nor a coarser timestamp, nor the absence of a payload shows        *)
(* (hash.go:72-141, 156-247), as long as JSONB rewrites no number.         *)
(***************************************************************************)
StoredEntryVerifies ==
  step = "stored" /\ altered = "none" /\ ~Rewritten => Intact

(***************************************************************************)
(* An alteration of any one column is detected, although the fields of the *)
(* preimage are not separated (hash.go:78-90).                             *)
(***************************************************************************)
AlteredColumnDetected == altered # "none" /\ ~Rewritten => ~Intact

(***************************************************************************)
(* hash.go:101-104: "Decoding with UseNumber() preserves the exact         *)
(* original numeric text through the round trip".                          *)
(***************************************************************************)
NumbersSurvive == step = "stored" /\ altered = "none" => Intact
=============================================================================
