----------------------------- MODULE MCMongoLog -----------------------------
(***************************************************************************)
(* Small instances of MongoLog for TLC.                                    *)
(***************************************************************************)
EXTENDS MongoLog

CONSTANTS t1, t2, c1, x

LossyDeployment == {[faults |-> FALSE, loss |-> TRUE]}

FaultyDeployment == {[faults |-> TRUE, loss |-> FALSE]}

AllDeployments == LossyDeployment \cup FaultyDeployment

\* Arguments of Verify: the whole chain.
WholeChain == {<<0, 0>>}

\* Arguments of Query: the first match.
FirstMatch == { [match |-> {x}, limit |-> 1] }
=============================================================================
