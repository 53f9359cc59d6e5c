--------------------------- MODULE MCPostgresLog ---------------------------
(***************************************************************************)
(* Small instances of PostgresLog for TLC.                                 *)
(***************************************************************************)
EXTENDS PostgresLog, TLC

CONSTANTS t1, t2, c1, c2, x

\* Callers are interchangeable, and so are chains (both lock keys respect it).
Symmetric == Permutations(Callers) \cup Permutations(Chains)

\* chainLockSubKey without and with a collision.
DistinctKeys == [c \in Chains |-> c]

SharedKey == [c \in Chains |-> 1]

Environment(isolation, lockKey, ownsPool, faults) ==
  [isolation |-> isolation, lockKey |-> lockKey, ownsPool |-> ownsPool,
   faults |-> faults]

Faulty == {Environment("read committed", DistinctKeys, TRUE, TRUE)}

Borrowed == {Environment("repeatable read", SharedKey, FALSE, TRUE)}

HealthyServer == {Environment("read committed", SharedKey, FALSE, FALSE),
                  Environment("read committed", DistinctKeys, TRUE, FALSE)}

AllServers == Faulty \cup Borrowed \cup HealthyServer

\* Arguments of Verify: the whole chain.
WholeChain == {<<0, 0>>}

NoRanges == {}

\* Arguments of Query: the first match.
FirstMatch == { [match |-> {x}, limit |-> 1] }

NoFilters == {}
=============================================================================
