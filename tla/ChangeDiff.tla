----------------------------- MODULE ChangeDiff -----------------------------
(***************************************************************************)
(* computeDiff of diff.go: what RecordChange records of a before/after     *)
(* pair of snapshots.  Joining two strings with a dot is concatenation.    *)
(***************************************************************************)
EXTENDS JSONTree

CONSTANTS
  Snapshots     \* the arguments before and after

ASSUME DiffConstants == \A s \in Snapshots : IsTree(s)

VARIABLES
  step,     \* where RecordChange is
  before,   \* its arguments
  after,
  frames,   \* the calls of collectDiff in progress, the innermost one last
  diff      \* the ChangeDiff map

diffVars == <<step, before, after, frames, diff>>

-----------------------------------------------------------------------------
\* normalizeToObject fails on a value that does not marshal to an object.
Normalizes(s) == Kind(s) \in {"nil", "null", "object"}

normalizeToObject(s) == IF Kind(s) = "object" THEN s ELSE Obj(<< >>)

\* One call of collectDiff, with the keys it has still to visit.
Frame(prefix, b, a) ==
  [prefix |-> prefix, before |-> b, after |-> a, seen |-> Keys(b) \cup Keys(a)]

computeDiff(b, a) ==
  /\ step = "idle"
  /\ before' = b
  /\ after' = a
  /\ diff' = << >>
  /\ IF Normalizes(b) /\ Normalizes(a)
       THEN /\ step' = "diff"
            /\ frames' = <<Frame(EmptyString, normalizeToObject(b), normalizeToObject(a))>>
       ELSE step' = "refused" /\ UNCHANGED frames

-----------------------------------------------------------------------------
Join(prefix, k) == IF prefix = EmptyString THEN k ELSE prefix \o k

\* A field's value, null when it has none (valueOrNil).
ValueOrNil(v) == IF v = Absent THEN Null ELSE v

BothObjects(b, a) == Kind(ValueOrNil(b)) = "object" /\ Kind(ValueOrNil(a)) = "object"

UnchangedFieldByValue(b, a) == ValueOrNil(b) = ValueOrNil(a)

UnchangedField(b, a) == b # Absent /\ a # Absent /\ b = a

Put(d, path, v) == [p \in DOMAIN d \cup {path} |-> IF p = path THEN v ELSE d[p]]

(***************************************************************************)
(* One iteration of collectDiff's loop.  The keys come in any order, and   *)
(* two keys may have the same path, of which the map keeps the last.       *)
(***************************************************************************)
Visit(k) ==
  LET f    == Last(frames)
      path == Join(f.prefix, k)
      rest == Append(Front(frames), [f EXCEPT !.seen = @ \ {k}])
      b    == At(f.before, <<k>>)
      a    == At(f.after, <<k>>)
  IN  /\ frames' = IF BothObjects(b, a) THEN Append(rest, Frame(path, b, a)) ELSE rest
      /\ diff' = IF BothObjects(b, a) \/ UnchangedField(b, a)
                   THEN diff
                   ELSE Put(diff, path, [before |-> ValueOrNil(b), after |-> ValueOrNil(a)])
      /\ UNCHANGED <<step, before, after>>

\* A call of collectDiff returns; the outermost one ends computeDiff.
Return ==
  /\ Last(frames).seen = {}
  /\ frames' = Front(frames)
  /\ step' = IF Len(frames) = 1 THEN "built" ELSE step
  /\ UNCHANGED <<before, after, diff>>

collectDiff ==
  /\ step = "diff"
  /\ Return \/ \E k \in Last(frames).seen : Visit(k)

\* BuildChangeEvent infers the action from the arguments themselves.
Action == CASE before = Nil -> "create"
            [] before # Nil /\ after = Nil -> "delete"
            [] OTHER -> "update"

-----------------------------------------------------------------------------
B == normalizeToObject(before)

A == normalizeToObject(after)

\* Both b and a have an object at position p.
Common(b, a, p) == BothObjects(At(b, p), At(a, p))

\* The positions, inside objects that both b and a have, of what differs.
Changes(b, a) ==
  { p \in (DOMAIN b \cup DOMAIN a) \ {<< >>} :
      /\ At(b, p) # At(a, p)
      /\ ~Common(b, a, p)
      /\ \A i \in 0..Len(p) - 1 : Common(b, a, SubSeq(p, 1, i)) }

(***************************************************************************)
(* A finished diff has a path exactly for every change between the two     *)
(* snapshots, and under it the values of a change with that path: where    *)
(* keys have dots in them two changes may share a path and one of them is  *)
(* lost, but nothing is reported that did not change, a field set to null  *)
(* or dropped is a change, and so is any difference at all                 *)
(* (diff.go:39-52, 75-104).  An empty key of a snapshot itself is left     *)
(* out: its path is that of what is below it.                              *)
(***************************************************************************)
DiffExact ==
  step = "built" =>
    /\ (DOMAIN diff = {}) <=> (A = B)
    /\ EmptyString \notin Keys(B) \cup Keys(A) =>
         /\ DOMAIN diff = { FlattenSeq(p) : p \in Changes(B, A) }
         /\ \A path \in DOMAIN diff : \E p \in Changes(B, A) :
              /\ FlattenSeq(p) = path
              /\ diff[path] = [before |-> ValueOrNil(At(B, p)), after |-> ValueOrNil(At(A, p))]
=============================================================================
