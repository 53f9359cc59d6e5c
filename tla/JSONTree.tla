------------------------------ MODULE JSONTree ------------------------------
(***************************************************************************)
(* JSON values, as encoding/json gives them to Go.  A string is the        *)
(* sequence of the parts between its dots, so that "a.b" is <<"a", "b">>   *)
(* and the empty string is <<"">>.                                         *)
(*                                                                         *)
(* A value is a tree: a function from positions to nodes, where the        *)
(* position of a node is the sequence of the keys, or indexes of an array, *)
(* on the way to it.  A node is a record with a kind, and the text of a    *)
(* number.                                                                 *)
(***************************************************************************)
EXTENDS Integers, SequencesExt

Names == Seq(STRING) \ {<< >>}

EmptyString == <<"">>

Nodes == [kind : {"nil", "null", "object", "array"}] \cup [kind : {"number"}, text : STRING]

IsTree(v) ==
  /\ v = [p \in DOMAIN v |-> v[p]]
  /\ << >> \in DOMAIN v
  /\ \A p \in DOMAIN v :
       /\ p \in Seq(Names) /\ v[p] \in Nodes
       /\ \A i \in 0..Len(p) : SubSeq(p, 1, i) \in DOMAIN v

\* What is found where there is no value: the tree without a root.
Absent == << >>

\* The tree with the given root and the tree f[k] under each key k.
Tree(root, f) ==
  [p \in {<< >>} \cup UNION { { <<k>> \o q : q \in DOMAIN f[k] } : k \in DOMAIN f } |->
     IF p = << >> THEN root ELSE f[Head(p)][Tail(p)]]

Nil       == Tree([kind |-> "nil"], << >>)     \* a nil interface
Null      == Tree([kind |-> "null"], << >>)    \* null, and what a nil pointer marshals to
Num(s)    == Tree([kind |-> "number", text |-> s], << >>)
Obj(f)    == Tree([kind |-> "object"], f)
Struct(f) == Tree([kind |-> "struct"], f)

\* The tree under a position, and the keys of a tree.
At(v, p) ==
  [q \in { SubSeq(r, Len(p) + 1, Len(r)) : r \in { s \in DOMAIN v : IsPrefix(p, s) } } |->
     v[p \o q]]

Keys(v) == { p[1] : p \in DOMAIN v \ {<< >>} }

Kind(v) == v[<< >>].kind
=============================================================================
