-------------------------- MODULE MCRecordedChange --------------------------
(***************************************************************************)
(* A small instance of RecordedChange for TLC.                             *)
(***************************************************************************)
EXTENDS RecordedChange

a == <<"a">>
b == <<"b">>
ab == <<"a", "b">>

Sorted == <<EmptyString, a, ab, <<"after">>, b, <<"before">>>>

ByLength == <<EmptyString, a, b, ab, <<"after">>, <<"before">>>>

WithExponent == {"1e+21"}

One == Num("1")

Huge == Num("1e+21")

Array == Tree([kind |-> "array"], [i \in {<<"0">>, <<"1">>} |-> IF i = <<"0">> THEN Huge ELSE One])

\* The object with two fields, or with one or none where the value is absent.
Both(k, v, l, w) == Obj([key \in {k, l} |-> IF key = k THEN v ELSE w])

\* Values of the field "a": nested objects reach the path "a.b".
Values == {Absent, One, Huge, Null, Array} \cup { Obj([k \in {b} |-> v]) : v \in {Absent, One, Huge, Null} }

Nested == { Both(a, v, ab, w) : v \in Values, w \in {Absent, One, Huge} }

\* Values of the field "": nested objects reach the path "b".
UnderEmpty ==
  { Both(EmptyString, v, b, w) :
      v \in {Absent, Obj([k \in {b} |-> One]), Obj([k \in {b} |-> Huge])}, w \in {Absent, One} }

SomeSnapshots == Nested \cup UnderEmpty \cup {Nil, Null, One}

SomeArguments ==
  {[chain |-> <<"c">>, id |-> <<"1">>, actor |-> <<"u">>, entityType |-> <<"t">>,
    entity |-> <<"e">>, prevHash |-> <<"0">>]}

\* An empty column, the values of neighbouring columns, and a shifted boundary.
SomeStrings == {<< >>, <<"t">>, <<"e">>, <<"t", "e">>, <<"update">>}
=============================================================================
