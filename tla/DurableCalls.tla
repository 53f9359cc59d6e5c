---------------------------- MODULE DurableCalls ----------------------------
(***************************************************************************)
(* The read methods of the durable backends, whose answers are computed    *)
(* from the entries that a statement can see: the tail is looked up in one *)
(* statement, where it is needed, and the entries are fetched in another.  *)
(***************************************************************************)
EXTENDS EntryTable, Calls

NoRow == [chain |-> NoChain, id |-> 0, content |-> BadEvent,
          prevHash |-> GenesisPrevHash, hash |-> GenesisPrevHash]

(***************************************************************************)
(* What becomes of the EntryID that resolveLatestEntryID returns, 0 for    *)
(* its ErrEntryNotFound: the answer of LatestEntryID, or the upper bound   *)
(* of a Verify, which calls a chain without a tail empty.                  *)
(***************************************************************************)
TailResolved(t, last) ==
  LET op == read[t].req.op
  IN  \/ /\ op = "LatestEntryID"
         /\ ReadReturn(t, IF last = 0 THEN {"ErrEntryNotFound"} ELSE {}, last)
      \/ /\ op = "Verify" /\ last = 0
         /\ ReadReturn(t, {}, EmptyResult)
      \/ /\ op = "Verify" /\ last # 0
         /\ read' = [read EXCEPT ![t].to = last]
         /\ pc' = [pc EXCEPT ![t] = "fetch"]
         /\ UNCHANGED <<event, rec, outer, ret, closed, bus, acked, calls>>

\* Verify, Query and GetEntry answer from the entries es.
Fetched(t, es) ==
  LET req == read[t].req
      hit == GetEntryByID(es, req.chain, req.id)
  IN  \/ /\ req.op = "Verify"
         /\ ReadReturn(t, {}, VerifyRows(es, req.chain, req.range[1], read[t].to))
      \/ /\ req.op = "Query"
         /\ ReadReturn(t, {}, QueryEntries(es, req.chain, req.filter.match,
                                          req.filter.limit))
      \/ /\ req.op = "GetEntry" /\ hit = {}
         /\ ReadReturn(t, {"ErrEntryNotFound"}, NoRow)
      \/ /\ req.op = "GetEntry" /\ hit # {}
         /\ ReadReturn(t, {}, CHOOSE e \in hit : TRUE)

(***************************************************************************)
(* Nobody tampers with the rows, so every Verify that starts at the first  *)
(* entry reports a valid chain, whatever Records it races with and         *)
(* whatever its upper bound, although the tail it resolved and the rows it *)
(* lists come from two statements (postgres.go:469-513, mongo.go:382-434). *)
(* This is about contents that read back as they were hashed.  A Payload   *)
(* that storage rewrites (NumbersSurvive of RecordedChange), or that its   *)
(* caller changes while Record is between marshalPayload and ComputeHash,  *)
(* is not one.                                                             *)
(***************************************************************************)
VerifyFromStartValid ==
  \A t \in Callers :
    ret[t].req.op = "Verify" /\ ret[t].err = {} /\ ret[t].req.range[1] <= 1
      => ret[t].val.valid
=============================================================================
