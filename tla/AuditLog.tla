------------------------------ MODULE AuditLog ------------------------------
(***************************************************************************)
(* What every backend promises of the AuditLog interface (audit.go), with  *)
(* storage, locks, transactions and hashes left out: a Record appends one  *)
(* entry at the next position of its own chain, publishes it at most once  *)
(* and only after it is durable, and returns its EntryID at most once and  *)
(* only after that.  An entry may stay unacknowledged for ever: the        *)
(* process may stop, or the answer to a commit may be lost.                *)
(***************************************************************************)
EXTENDS Integers

CONSTANTS Chains, Contents

VARIABLES
  log,        \* the durable entries of all chains
  tail,       \* EntryID of the last entry of each chain, 0 when it is empty
  published,  \* entries handed to the event bus
  acked       \* entries whose EntryID a Record returned

vars == <<log, tail, published, acked>>

LogEntry == [chain : Chains, id : Nat, content : Contents]

TypeOK ==
  /\ log \subseteq LogEntry
  /\ tail \in [Chains -> Nat]
  /\ published \subseteq log
  /\ acked \subseteq log

Init ==
  /\ log = {}
  /\ tail = [c \in Chains |-> 0]
  /\ published = {}
  /\ acked = {}

Commit(c, x) ==
  /\ log' = log \cup {[chain |-> c, id |-> tail[c] + 1, content |-> x]}
  /\ tail' = [tail EXCEPT ![c] = @ + 1]
  /\ UNCHANGED <<published, acked>>

\* PublishRecorded runs after the commit and before Record returns.
Publish(e) ==
  /\ e \in log \ (published \cup acked)
  /\ published' = published \cup {e}
  /\ UNCHANGED <<log, tail, acked>>

Ack(e) ==
  /\ e \in log \ acked
  /\ acked' = acked \cup {e}
  /\ UNCHANGED <<log, tail, published>>

Next ==
  \/ \E c \in Chains, x \in Contents : Commit(c, x)
  \/ \E e \in log : Publish(e) \/ Ack(e)

Spec == Init /\ [][Next]_vars
=============================================================================
