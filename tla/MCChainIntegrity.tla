-------------------------- MODULE MCChainIntegrity --------------------------
(***************************************************************************)
(* Small instances of ChainIntegrity for TLC.  The chains are named "a"    *)
(* and "a1", so that a1 at n reads like a at 10 + n; the contents x and y  *)
(* divide the same characters over their columns in two ways, as "ab", "c" *)
(* and "a", "bc" do.                                                       *)
(***************************************************************************)
EXTENDS ChainIntegrity, TLC

CONSTANTS a, a1, x, y, z

SomePositions == {-1, 0, 1, 2, 11}

\* The chain and position that read like c followed by n.
ReadLike(c, n) ==
  {<<c, n>>} \cup (IF c = a1 /\ n \in 1..9 THEN {<<a, 10 + n>>} ELSE {})
             \cup (IF c = a /\ n \in 11..19 THEN {<<a1, n - 10>>} ELSE {})

SomeCollisions ==
  { { <<p[1], p[2], v>> : p \in ReadLike(c, n), v \in alike } :
      c \in {a, a1}, n \in -1..4 \cup 11..14, alike \in {{x, y}, {z}} }

\* The two contents that read alike are interchangeable.
Symmetric == Permutations({x, y})
=============================================================================
