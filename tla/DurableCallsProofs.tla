------------------------- MODULE DurableCallsProofs -------------------------
(***************************************************************************)
(* Lemmas that the proofs of the two durable backends share: how many      *)
(* sessions can be in use, and what the read methods preserve and answer.  *)
(***************************************************************************)
EXTENDS DurableCalls, CallsProofs

(***************************************************************************)
(* Sessions in use, A, and Records that are still to open one, B, are      *)
(* together no more than the calls begun, k: so a Record that needs a      *)
(* session finds one.                                                      *)
(***************************************************************************)
Within(A, B, k) ==
  /\ IsFiniteSet(A) /\ IsFiniteSet(B)
  /\ Cardinality(A) + Cardinality(B) <= k

\* Within survives fewer sessions and fewer waiting Records.
LEMMA WithinShrinks ==
  ASSUME NEW A, NEW B, NEW k \in Nat, Within(A, B, k),
         NEW A2 \in SUBSET A, NEW B2 \in SUBSET B
  PROVE  Within(A2, B2, k)
<1>1. IsFiniteSet(A2) /\ Cardinality(A2) <= Cardinality(A)
  BY FS_Subset DEF Within
<1>2. IsFiniteSet(B2) /\ Cardinality(B2) <= Cardinality(B)
  BY FS_Subset DEF Within
<1>3. /\ Cardinality(A) \in Nat /\ Cardinality(B) \in Nat
      /\ Cardinality(A2) \in Nat /\ Cardinality(B2) \in Nat
  BY <1>1, <1>2, FS_CardinalityType DEF Within
<1> QED
  BY <1>1, <1>2, <1>3 DEF Within

(***************************************************************************)
(* A call begins.                                                          *)
(***************************************************************************)
LEMMA WithinBegins ==
  ASSUME NEW A, NEW B, NEW k \in Nat, Within(A, B, k), NEW t, NEW B2 \in SUBSET (B \cup {t})
  PROVE  Within(A, B2, k + 1)
<1>0. Cardinality(B) \in Nat
  BY FS_CardinalityType DEF Within
<1>1. IsFiniteSet(B \cup {t}) /\ Cardinality(B \cup {t}) <= Cardinality(B) + 1
  <2>1. /\ IsFiniteSet(B \cup {t})
        /\ \/ Cardinality(B \cup {t}) = Cardinality(B)
           \/ Cardinality(B \cup {t}) = Cardinality(B) + 1
    BY FS_AddElement DEF Within
  <2> QED
    BY <1>0, <2>1
<1>2. Cardinality(A) \in Nat /\ Cardinality(B) \in Nat /\ Cardinality(B \cup {t}) \in Nat
  BY <1>1, FS_CardinalityType DEF Within
<1>3. Within(A, B \cup {t}, k + 1)
  BY <1>1, <1>2 DEF Within
<1> QED
  BY <1>3, WithinShrinks

(***************************************************************************)
(* A Record opens session n; or its transaction is to be run again.        *)
(***************************************************************************)
LEMMA WithinMoves ==
  ASSUME NEW A, NEW B, NEW k \in Nat, Within(A, B, k), NEW t \in B, NEW n,
         NEW A2 \in SUBSET (A \cup {n}), NEW B2 \in SUBSET (B \ {t})
  PROVE  Within(A2, B2, k)
<1>0. Cardinality(A) \in Nat
  BY FS_CardinalityType DEF Within
<1>1. IsFiniteSet(A \cup {n}) /\ Cardinality(A \cup {n}) <= Cardinality(A) + 1
  <2>1. /\ IsFiniteSet(A \cup {n})
        /\ \/ Cardinality(A \cup {n}) = Cardinality(A)
           \/ Cardinality(A \cup {n}) = Cardinality(A) + 1
    BY FS_AddElement DEF Within
  <2> QED
    BY <1>0, <2>1
<1>2. IsFiniteSet(B \ {t}) /\ Cardinality(B \ {t}) = Cardinality(B) - 1
  BY FS_RemoveElement DEF Within
<1>3. /\ Cardinality(A) \in Nat /\ Cardinality(B) \in Nat
      /\ Cardinality(A \cup {n}) \in Nat /\ Cardinality(B \ {t}) \in Nat
  BY <1>1, <1>2, FS_CardinalityType DEF Within
<1>4. Within(A \cup {n}, B \ {t}, k)
  BY <1>1, <1>2, <1>3 DEF Within
<1> QED
  BY <1>4, WithinShrinks

\* A Record that is still to open a session finds a free one.
LEMMA WithinFree ==
  ASSUME NEW A, NEW B, NEW k \in Nat, Within(A, B, k), NEW t \in B, NEW m \in Nat, k <= m
  PROVE  \E n \in 1..m : n \notin A
<1> SUFFICES ASSUME 1..m \subseteq A PROVE FALSE
  OBVIOUS
<1>1. Cardinality(1..m) = m
  BY FS_Interval
<1>2. m <= Cardinality(A)
  BY <1>1, FS_Subset DEF Within
<1>3. Cardinality(A) \in Nat /\ Cardinality(B) \in Nat
  BY FS_CardinalityType DEF Within
<1>4. Cardinality(B) # 0
  BY FS_EmptySet DEF Within
<1> QED
  BY <1>2, <1>3, <1>4 DEF Within

-----------------------------------------------------------------------------
(***************************************************************************)
(* The answers of the read methods.                                        *)
(***************************************************************************)

\* What VerifyFromStartValid says of one result.
FromStartValid(r) ==
  r.req.op = "Verify" /\ r.err = {} /\ r.req.range[1] <= 1 => r.val.valid = TRUE

\* What VerifyFromStartValid and ReadsSeeAcked say of one result.
Answered(r) ==
  /\ FromStartValid(r)
  /\ r.req.op \notin {"none", "Record"} /\ "ErrBackendUnavailable" \notin r.err => Sees(r)

\* An answer that is not an error of the backend, and that they accept.
GoodAnswer(r) ==
  /\ r.req.op \notin {"none", "Record"} /\ "ErrBackendUnavailable" \notin r.err
  /\ FromStartValid(r) /\ Sees(r)

(***************************************************************************)
(* The end of a Record, or of anything but a read, leaves no answer.       *)
(***************************************************************************)
LEMMA NoAnswer ==
  ASSUME NEW r, r.req.op \in {"none", "Record"}
  PROVE  FromStartValid(r)
  BY DEF FromStartValid
(***************************************************************************)
(* Verify, Query and GetEntry answer from es.                              *)
(***************************************************************************)
LEMMA VerifyAnswers ==
  ASSUME NEW es \in SUBSET Entry, NEW req \in ReadRequests, Ledger(es, req.chain),
         req.op = "Verify", NEW known, NEW to \in Nat, NEW r,
         r = Result(req, known, {}, VerifyRows(es, req.chain, req.range[1], to))
  PROVE  Sees(r) /\ FromStartValid(r)
<1>1. req.range[1] \in Nat
  BY CallsConstants DEF ReadRequests
<1>2. /\ r.req = req /\ r.known = known
      /\ r.val = VerifyRows(es, req.chain, req.range[1], to)
  BY DEF Result
<1>3. Sees(r)
  <2>1. r.val.empty = FALSE
    <3>1. PICK lo : lo = req.range[1]
      OBVIOUS
    <3>2. VerifyRows(es, req.chain, lo, to).empty = FALSE
      BY VerifyRowsNotEmpty
    <3> QED
      BY <1>2, <3>1, <3>2
  <2> QED
    BY <1>2, <2>1 DEF Sees
<1>4. req.range[1] <= 1 => r.val.valid = TRUE
  BY <1>1, <1>2, VerifyIntactChain
<1> QED
  BY <1>2, <1>3, <1>4 DEF FromStartValid

\* Query lists what it has to see, up to its Limit.
LEMMA QueryAnswers ==
  ASSUME NEW es \in SUBSET Entry, NEW req \in ReadRequests, Ledger(es, req.chain),
         req.op = "Query", NEW known \in SUBSET KeysOf(es), NEW r, NEW out,
         out = QueryEntries(es, req.chain, req.filter.match, req.filter.limit),
         r = Result(req, known, {}, out)
  PROVE  Sees(r)
<1>1. PICK c, match, limit : c = req.chain /\ match = req.filter.match /\ limit = req.filter.limit
  OBVIOUS
<1>2. limit \in Int
  BY <1>1, CallsConstants DEF ReadRequests
<1>3. Ledger(es, c) /\ out = QueryEntries(es, c, match, limit)
  BY <1>1
<1>4. ListsMatches(es, c, match, limit, out)
  BY <1>2, <1>3, QueryIntactChain
<1>5. ListsMatches(es, req.chain, req.filter.match, req.filter.limit, out)
  BY <1>1, <1>4
<1>6. req.op = "Query" /\ known \in SUBSET KeysOf(es) /\ r = Result(req, known, {}, out)
  OBVIOUS
<1> QED
  BY <1>5, <1>6, QuerySees

\* GetEntry finds the entry it has to see.
LEMMA GetEntryAnswers ==
  ASSUME NEW es \in SUBSET Entry, NEW req, Ledger(es, req.chain),
         req.op = "GetEntry", NEW known \in SUBSET KeysOf(es), NEW hit,
         hit = GetEntryByID(es, req.chain, req.id)
  PROVE  /\ hit = {} => Sees(Result(req, known, {"ErrEntryNotFound"}, NoRow))
         /\ \A e \in hit : Sees(Result(req, known, {}, e))
<1>1. ASSUME NEW k \in known, k.chain = req.chain, k.id = req.id
      PROVE  \E e \in hit : Key(e) = k
  <2>1. PICK e \in OfChain(es, req.chain) : Key(e) = k
    BY <1>1, KnownAreStored
  <2>2. e.id = req.id
    BY <1>1, <2>1 DEF Key
  <2> QED
    BY <2>1, <2>2 DEF GetEntryByID
<1>2. \A e, f \in hit : e = f
  BY DEF GetEntryByID, Ledger, ChainIntact
<1>3. ASSUME hit = {} PROVE Sees(Result(req, known, {"ErrEntryNotFound"}, NoRow))
  BY <1>1, <1>3 DEF Sees, Result
<1>4. ASSUME NEW e \in hit PROVE Sees(Result(req, known, {}, e))
  BY <1>1, <1>2, <1>4 DEF Sees, Result
<1> QED
  BY <1>3, <1>4

(***************************************************************************)
(* A statement of a read on the entries es, whose keys are S: the call     *)
(* goes on, or returns an answer that sees what it has to see.             *)
(***************************************************************************)
LEMMA FetchedAnswers ==
  ASSUME NEW steps, NEW es \in SUBSET Entry, CallsInv(steps, KeysOf(es)),
         steps \cap CallSteps = {}, \A c \in Chains : Ledger(es, c),
         NEW t \in Callers, pc[t] = "fetch", Fetched(t, es)
  PROVE  /\ \E err, val : ReadReturn(t, err, val) /\ "ErrBackendUnavailable" \notin err
         /\ GoodAnswer(ret'[t])
         /\ \A u \in Callers \ {t} : ret'[u] = ret[u]
<1>1. PICK req, known, to : req = read[t].req /\ known = read[t].known /\ to = read[t].to
  OBVIOUS
<1>2. /\ req \in ReadRequests /\ known \in SUBSET KeysOf(es) /\ to \in Nat
      /\ req.chain \in Chains /\ Ledger(es, req.chain)
  BY <1>1 DEF CallsInv, ReadsTyped, Owned
<1>3. ASSUME NEW err, NEW val, ReadReturn(t, err, val)
      PROVE  ret'[t] = Result(req, known, err, val) /\ \A u \in Callers \ {t} : ret'[u] = ret[u]
  BY <1>1, <1>3, ReadReturnKeeps
<1>4. ASSUME NEW err, NEW val, ReadReturn(t, err, val), "ErrBackendUnavailable" \notin err,
             req.op \notin {"none", "Record"}, Sees(Result(req, known, err, val)),
             FromStartValid(Result(req, known, err, val))
      PROVE  /\ \E e, v : ReadReturn(t, e, v) /\ "ErrBackendUnavailable" \notin e
             /\ GoodAnswer(ret'[t])
             /\ \A u \in Callers \ {t} : ret'[u] = ret[u]
  <2>1. PICK r : r = Result(req, known, err, val)
    OBVIOUS
  <2>2. r.req = req /\ r.err = err
    BY <2>1 DEF Result
  <2>3. GoodAnswer(r)
    BY <1>4, <2>1, <2>2 DEF GoodAnswer
  <2> QED
    BY <1>3, <1>4, <2>1, <2>3
<1>5. ASSUME req.op # "Verify", NEW err, NEW val
      PROVE  FromStartValid(Result(req, known, err, val))
  BY <1>5 DEF FromStartValid, Result
<1>6. CASE req.op = "Verify" /\ ReadReturn(t, {}, VerifyRows(es, req.chain, req.range[1], to))
  <2>1. PICK val : val = VerifyRows(es, req.chain, req.range[1], to)
    OBVIOUS
  <2>2. Sees(Result(req, known, {}, val)) /\ FromStartValid(Result(req, known, {}, val))
    BY <1>2, <1>6, <2>1, VerifyAnswers
  <2> QED
    BY <1>4, <1>6, <2>1, <2>2
<1>7. CASE /\ req.op = "Query"
           /\ ReadReturn(t, {}, QueryEntries(es, req.chain, req.filter.match, req.filter.limit))
  <2>1. PICK val : val = QueryEntries(es, req.chain, req.filter.match, req.filter.limit)
    OBVIOUS
  <2>2. Sees(Result(req, known, {}, val)) /\ FromStartValid(Result(req, known, {}, val))
    BY <1>2, <1>5, <1>7, <2>1, QueryAnswers
  <2> QED
    BY <1>4, <1>7, <2>1, <2>2
<1>8. ASSUME NEW hit, hit = GetEntryByID(es, req.chain, req.id), req.op = "GetEntry",
             \/ hit = {} /\ ReadReturn(t, {"ErrEntryNotFound"}, NoRow)
             \/ hit # {} /\ ReadReturn(t, {}, CHOOSE e \in hit : TRUE)
      PROVE  /\ \E err, val : ReadReturn(t, err, val) /\ "ErrBackendUnavailable" \notin err
             /\ GoodAnswer(ret'[t])
             /\ \A u \in Callers \ {t} : ret'[u] = ret[u]
  <2>1. CASE hit = {} /\ ReadReturn(t, {"ErrEntryNotFound"}, NoRow)
    BY <1>2, <1>4, <1>5, <1>8, <2>1, GetEntryAnswers
  <2>2. CASE hit # {} /\ ReadReturn(t, {}, CHOOSE e \in hit : TRUE)
    <3>1. PICK val : val = CHOOSE e \in hit : TRUE
      OBVIOUS
    <3>2. val \in hit
      BY <2>2, <3>1
    <3>3. Sees(Result(req, known, {}, val))
      BY <1>2, <1>8, <3>2, GetEntryAnswers
    <3> QED
      BY <1>4, <1>5, <1>8, <2>2, <3>1, <3>3
  <2> QED
    BY <1>8, <2>1, <2>2
<1> QED
  BY <1>1, <1>6, <1>7, <1>8 DEF Fetched

\* The lookup of the tail, for LatestEntryID and for Verify with to = 0.
LEMMA ResolvedAnswers ==
  ASSUME NEW steps, NEW es \in SUBSET Entry, CallsInv(steps, KeysOf(es)),
         steps \cap CallSteps = {}, \A c \in Chains : Ledger(es, c),
         NEW t \in Callers, pc[t] = "resolve", NEW last \in Nat, TailResolved(t, last)
  PROVE  \/ /\ \E err, val : ReadReturn(t, err, val) /\ "ErrBackendUnavailable" \notin err
            /\ ret'[t].req = read[t].req
            /\ last = LastEntry(es, read[t].req.chain).id => GoodAnswer(ret'[t])
            /\ FromStartValid(ret'[t])
            /\ \A u \in Callers \ {t} : ret'[u] = ret[u]
         \/ /\ read' = [read EXCEPT ![t].to = last]
            /\ pc' = [pc EXCEPT ![t] = "fetch"]
            /\ UNCHANGED <<event, rec, outer, ret, closed, bus, acked, calls>>
<1>1. PICK req, known : req = read[t].req /\ known = read[t].known
  OBVIOUS
<1>2. known \in SUBSET KeysOf(es) /\ Ledger(es, req.chain)
  BY <1>1 DEF CallsInv, ReadsTyped, Owned
<1>3. ASSUME NEW err, NEW val, ReadReturn(t, err, val), "ErrBackendUnavailable" \notin err,
             req.op \notin {"none", "Record"}, FromStartValid(Result(req, known, err, val)),
             last = LastEntry(es, req.chain).id => Sees(Result(req, known, err, val))
      PROVE  /\ \E e, v : ReadReturn(t, e, v) /\ "ErrBackendUnavailable" \notin e
             /\ ret'[t].req = read[t].req
             /\ last = LastEntry(es, read[t].req.chain).id => GoodAnswer(ret'[t])
             /\ FromStartValid(ret'[t])
             /\ \A u \in Callers \ {t} : ret'[u] = ret[u]
  <2>1. ret'[t] = Result(req, known, err, val) /\ \A u \in Callers \ {t} : ret'[u] = ret[u]
    BY <1>1, <1>3, ReadReturnKeeps
  <2>2. PICK r : r = Result(req, known, err, val)
    OBVIOUS
  <2>3. r.req = req /\ r.err = err
    BY <2>2 DEF Result
  <2>4. last = LastEntry(es, req.chain).id => GoodAnswer(r)
    BY <1>3, <2>2, <2>3 DEF GoodAnswer
  <2> QED
    BY <1>1, <1>3, <2>1, <2>2, <2>3, <2>4
<1>4. ASSUME req.op = "LatestEntryID", NEW err, err = IF last = 0 THEN {"ErrEntryNotFound"} ELSE {}
      PROVE  /\ "ErrBackendUnavailable" \notin err
             /\ FromStartValid(Result(req, known, err, last))
             /\ last = LastEntry(es, req.chain).id => Sees(Result(req, known, err, last))
  <2>1. FromStartValid(Result(req, known, err, last)) /\ "ErrBackendUnavailable" \notin err
    BY <1>4 DEF FromStartValid, Result
  <2> QED
    BY <1>2, <1>4, <2>1, TailAnswers
<1>5. ASSUME req.op = "Verify", last = 0
      PROVE  /\ FromStartValid(Result(req, known, {}, EmptyResult))
             /\ last = LastEntry(es, req.chain).id => Sees(Result(req, known, {}, EmptyResult))
  <2>1. FromStartValid(Result(req, known, {}, EmptyResult))
    BY EmptyIsValid DEF FromStartValid, Result
  <2> QED
    BY <1>2, <1>5, <2>1, TailAnswers
<1>6. CASE /\ req.op = "LatestEntryID"
           /\ ReadReturn(t, IF last = 0 THEN {"ErrEntryNotFound"} ELSE {}, last)
  <2>1. PICK err : err = IF last = 0 THEN {"ErrEntryNotFound"} ELSE {}
    OBVIOUS
  <2> QED
    BY <1>3, <1>4, <1>6, <2>1
<1>7. CASE req.op = "Verify" /\ last = 0 /\ ReadReturn(t, {}, EmptyResult)
  BY <1>3, <1>5, <1>7
<1> QED
  BY <1>1, <1>6, <1>7 DEF TailResolved

=============================================================================
