---------------------------- MODULE MCMemoryLog ----------------------------
(***************************************************************************)
(* Small instances of MemoryLog for TLC.                                   *)
(***************************************************************************)
EXTENDS MemoryLog

CONSTANTS t1, t2, c1, c2, x, y

\* Arguments of Verify: the whole chain.
WholeRanges == {<<0, 0>>}

\* ... or a suffix.
SubRanges == {<<2, 0>>}

\* Arguments of Query: everything, and the first match only.
SomeFilters == { [match |-> {x, y}, limit |-> 0], [match |-> {x, y}, limit |-> 1] }

NoFilters == {}
=============================================================================
