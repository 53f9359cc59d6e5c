------------------------------- MODULE Calls -------------------------------
(***************************************************************************)
(* The caller's side of an AuditLog, the same in every backend: what a     *)
(* method tests before it touches storage, the publication of the entry a  *)
(* Record has stored, and the return.  A backend extends this module with  *)
(* its storage; pc tells where a call is, and the values between "begin"   *)
(* and "publish" (for a Record) are the backend's own.                     *)
(*                                                                         *)
(* A caller is a goroutine.  A subscriber of the event bus runs on the     *)
(* goroutine that publishes, and may itself call Record (one level deep).  *)
(***************************************************************************)
EXTENDS HashChain

CONSTANTS
  Callers,      \* goroutines, of one process or of several replicas
  HasBus,       \* whether an event bus was given
  Ops,          \* the methods that callers and subscribers use
  Unstable,     \* contents whose Payload may stop marshaling after Validate
  Ranges,       \* <<from, to>> arguments of Verify
  Filters,      \* [match: a set of contents, limit: an integer], arguments of Query
  MaxCalls      \* bound on the number of calls

ASSUME CallsConstants ==
  /\ HasBus \in BOOLEAN
  /\ Unstable \subseteq Contents
  /\ Ranges \subseteq Nat \X Nat
  /\ \A f \in Filters : f.limit \in Int
  /\ MaxCalls \in Nat

VARIABLES
  pc,        \* where each goroutine is
  event,     \* argument of the Record in progress
  rec,       \* the entry that Record has stored
  outer,     \* the entry being published while a subscriber calls Record
  read,      \* the read method in progress
  ret,       \* the result of each goroutine's last call, until it calls again
  closed,    \* a.closed
  bus,       \* entries delivered to subscribers, in order
  acked,     \* history: entries whose EntryID Record has returned
  calls      \* number of calls begun, for the bound MaxCalls

callVars == <<pc, event, rec, outer, read, ret, closed, bus, acked, calls>>

-----------------------------------------------------------------------------
\* An entry as callers and subscribers know it.
Key(e) == [chain |-> e.chain, id |-> e.id, content |-> e.content]

Keys == [chain : Chains, id : Nat, content : Contents]

NoKey == [chain |-> NoChain, id |-> 0, content |-> BadEvent]

Events == [chain : Chains, content : Contents]

NoRead == [req |-> [op |-> "none"], known |-> {}, to |-> 0]

Result(req, known, err, val) ==
  [req |-> req, known |-> known, err |-> err, val |-> val]

NoResult == Result([op |-> "none"], {}, {}, 0)

CallsTypeOK(steps) ==
  /\ pc \in [Callers -> steps \cup {"idle", "begin", "publish", "handler", "return",
                                    "resolve", "fetch"}]
  /\ event \in [Callers -> Events \cup {NoKey}]
  /\ rec \in [Callers -> Keys \cup {NoKey}]
  /\ outer \in [Callers -> Keys \cup {NoKey}]
  /\ DOMAIN read = Callers
  /\ DOMAIN ret = Callers
  /\ closed \in BOOLEAN
  /\ bus \in Seq(Keys)
  /\ acked \subseteq Keys
  /\ calls \in 0..MaxCalls

CallsInit ==
  /\ pc = [t \in Callers |-> "idle"]
  /\ event = [t \in Callers |-> NoKey]
  /\ rec = [t \in Callers |-> NoKey]
  /\ outer = [t \in Callers |-> NoKey]
  /\ read = [t \in Callers |-> NoRead]
  /\ ret = [t \in Callers |-> NoResult]
  /\ closed = FALSE
  /\ bus = << >>
  /\ acked = {}
  /\ calls = 0

-----------------------------------------------------------------------------
(***************************************************************************)
(* Record up to its first access to storage: the closed flag is tested     *)
(* before the event.  The durable backends then marshal the payload for    *)
(* their own column (stored), which can fail although Validate has just    *)
(* marshaled it.  A refused call changes nothing.  saved is the entry      *)
(* whose publication a subscriber interrupts, if there is one.             *)
(***************************************************************************)
RefusalNoValidate(c, x) == IF closed THEN {"ErrClosed"} ELSE {}

RefusalNoClosedTest(c, x) == Validate(c, x)

Refusal(c, x) == IF closed THEN {"ErrClosed"} ELSE Validate(c, x)

Outcomes(c, x, stored) ==
  IF Refusal(c, x) # {} THEN {Refusal(c, x)}
  ELSE {{}} \cup IF stored /\ x \in Unstable THEN {{"ErrInvalidEvent"}} ELSE {}

BeginCall == calls < MaxCalls /\ calls' = calls + 1

Refuse(t, err) ==
  /\ ret' = [ret EXCEPT ![t] = Result([op |-> "none"], {}, err, 0)]
  /\ UNCHANGED <<pc, event, rec, outer, read, closed, bus, acked>>

Accept(t, c, x, saved) ==
  /\ pc' = [pc EXCEPT ![t] = "begin"]
  /\ event' = [event EXCEPT ![t] = [chain |-> c, content |-> x]]
  /\ outer' = [outer EXCEPT ![t] = saved]
  /\ ret' = [ret EXCEPT ![t] = NoResult]
  /\ UNCHANGED <<rec, read, closed, bus, acked>>

RecordEntry(t, c, x, saved, stored) ==
  \E err \in Outcomes(c, x, stored) :
    IF err = {} THEN Accept(t, c, x, saved) ELSE Refuse(t, err)

Record(t, c, x, stored) ==
  /\ "Record" \in Ops
  /\ pc[t] = "idle"
  /\ BeginCall
  /\ RecordEntry(t, c, x, NoKey, stored)

(***************************************************************************)
(* RecordChange builds its event before Record looks at the closed flag,   *)
(* and a snapshot that is not a JSON object ends the call there.           *)
(***************************************************************************)
RecordChange(t, c, x, stored) ==
  /\ "RecordChange" \in Ops
  /\ pc[t] = "idle"
  /\ BeginCall
  /\ IF BuildChangeEvent(x) = {}
       THEN RecordEntry(t, c, x, NoKey, stored)
       ELSE Refuse(t, BuildChangeEvent(x))

SubscriberRecord(t, c, x, stored) ==
  /\ "SubscriberRecord" \in Ops
  /\ pc[t] = "handler"
  /\ outer[t] = NoKey
  /\ BeginCall
  /\ RecordEntry(t, c, x, rec[t], stored)

-----------------------------------------------------------------------------
\* An accepted Record moves from one of its steps to the next.
Goto(t, step) ==
  /\ pc' = [pc EXCEPT ![t] = step]
  /\ UNCHANGED <<event, outer, read, ret, closed, bus, acked, calls>>

PublishRecordedRetries(t) ==
  /\ pc[t] = "publish"
  /\ \/ HasBus /\ bus' = Append(bus, rec[t]) /\ UNCHANGED pc
     \/ pc' = [pc EXCEPT ![t] = "return"] /\ UNCHANGED bus
  /\ UNCHANGED <<event, rec, outer, read, ret, closed, acked, calls>>

(***************************************************************************)
(* PublishRecorded: nothing without a bus; with one, the event reaches the *)
(* subscribers or the error of bus.Publish is logged and dropped.          *)
(***************************************************************************)
PublishRecorded(t) ==
  /\ pc[t] = "publish"
  /\ \/ HasBus /\ bus' = Append(bus, rec[t]) /\ pc' = [pc EXCEPT ![t] = "handler"]
     \/ pc' = [pc EXCEPT ![t] = "return"] /\ UNCHANGED bus
  /\ UNCHANGED <<event, rec, outer, read, ret, closed, acked, calls>>

ResumeLosesOuter(t) ==
  /\ pc' = [pc EXCEPT ![t] = IF outer[t] = NoKey THEN "idle" ELSE "handler"]
  /\ outer' = [outer EXCEPT ![t] = NoKey]
  /\ event' = [event EXCEPT ![t] = NoKey]
  /\ UNCHANGED rec

\* Back to the subscriber that called Record, or to the outermost caller.
Resume(t) ==
  /\ pc' = [pc EXCEPT ![t] = IF outer[t] = NoKey THEN "idle" ELSE "handler"]
  /\ rec' = [rec EXCEPT ![t] = outer[t]]
  /\ outer' = [outer EXCEPT ![t] = NoKey]
  /\ event' = [event EXCEPT ![t] = NoKey]

\* Record returns an error: nothing is published or acknowledged.
RecordFails(t, err) ==
  /\ ret' = [ret EXCEPT ![t] = Result([op |-> "Record"], {}, err, 0)]
  /\ Resume(t)
  /\ UNCHANGED <<read, closed, bus, acked, calls>>

RecordReturn(t) ==
  /\ pc[t] \in {"handler", "return"}
  /\ acked' = acked \cup {rec[t]}
  /\ ret' = [ret EXCEPT ![t] = Result([op |-> "Record"], {}, {}, rec[t].id)]
  /\ Resume(t)
  /\ UNCHANGED <<read, closed, bus, calls>>

\* The process dies after the commit: nothing more is published or returned.
Crash(t) ==
  /\ pc[t] \in {"publish", "handler", "return"}
  /\ pc' = [pc EXCEPT ![t] = "idle"]
  /\ rec' = [rec EXCEPT ![t] = NoKey]
  /\ outer' = [outer EXCEPT ![t] = NoKey]
  /\ UNCHANGED <<event, read, ret, closed, bus, acked, calls>>

-----------------------------------------------------------------------------
(***************************************************************************)
(* Verify, Query, GetEntry and LatestEntryID: the closed flag and the      *)
(* ChainID are tested first.  LatestEntryID and a Verify up to the latest  *)
(* entry (to = 0) look the tail up before anything is fetched.  known is   *)
(* history: the entries acknowledged when the call began.                  *)
(***************************************************************************)
ReadRequests ==
  [op : {"Verify"} \cap Ops, chain : Chains \cup {NoChain}, range : Ranges]
    \cup [op : {"Query"} \cap Ops, chain : Chains \cup {NoChain}, filter : Filters]
    \cup [op : {"GetEntry"} \cap Ops, chain : Chains \cup {NoChain}, id : 1..MaxCalls]
    \cup [op : {"LatestEntryID"} \cap Ops, chain : Chains \cup {NoChain}]

ReadRefusal(req) ==
  IF closed THEN {"ErrClosed"}
  ELSE IF req.chain = NoChain THEN {"ErrChainIDRequired"} ELSE {}

\* The upper bound a request gives, 0 when the tail is to be looked up.
UpperBound(req) == IF req.op = "Verify" THEN req.range[2] ELSE 0

NeedsTail(req) == req.op \in {"Verify", "LatestEntryID"} /\ UpperBound(req) = 0

ReadEntry(t, req) ==
  /\ pc[t] = "idle"
  /\ BeginCall
  /\ IF ReadRefusal(req) = {}
       THEN /\ pc' = [pc EXCEPT ![t] = IF NeedsTail(req) THEN "resolve" ELSE "fetch"]
            /\ read' = [read EXCEPT ![t] =
                          [req |-> req, known |-> acked, to |-> UpperBound(req)]]
            /\ ret' = [ret EXCEPT ![t] = NoResult]
            /\ UNCHANGED <<event, rec, outer, closed, bus, acked>>
       ELSE Refuse(t, ReadRefusal(req))

ReadReturn(t, err, val) ==
  /\ pc' = [pc EXCEPT ![t] = "idle"]
  /\ ret' = [ret EXCEPT ![t] = Result(read[t].req, read[t].known, err, val)]
  /\ read' = [read EXCEPT ![t] = NoRead]
  /\ UNCHANGED <<event, rec, outer, closed, bus, acked, calls>>

Call(t, stored) ==
  \/ \E c \in Chains \cup {NoChain}, x \in Contents \cup {BadEvent} :
        Record(t, c, x, stored) \/ SubscriberRecord(t, c, x, stored)
  \/ \E c \in Chains \cup {NoChain}, x \in Contents \cup {BadEvent, BadSnapshot} :
        RecordChange(t, c, x, stored)
  \/ \E req \in ReadRequests : ReadEntry(t, req)

-----------------------------------------------------------------------------
(***************************************************************************)
(* Properties that are the same in every backend                           *)
(***************************************************************************)

\* The Record that t is running, or one suspended under it, has stored k.
Publishing(t) == pc[t] \in {"publish", "handler", "return"}

InProgress(t, k) == (Publishing(t) /\ rec[t] = k) \/ outer[t] = k

(***************************************************************************)
(* No subscriber sees an entry twice or one that is not in storage, stored *)
(* (events.go:17-24): PublishRecorded runs once per durable entry.         *)
(***************************************************************************)
DeliveredOnce(stored) ==
  /\ \A i \in DOMAIN bus : \E e \in stored : bus[i] = Key(e)
  /\ \A i, j \in DOMAIN bus : bus[i] = bus[j] => i = j

(***************************************************************************)
(* A read that began after Record had returned an EntryID sees that entry  *)
(* or fails; it never answers from before it: GetEntry finds it,           *)
(* LatestEntryID is at or past it, Verify does not call the chain empty,   *)
(* Query lists it, in EntryID order, or stops at its Limit with earlier    *)
(* matches (memory.go:228-309, postgres.go:441-604, mongo.go:355-540).     *)
(***************************************************************************)
Sees(r) ==
  LET mine == { k \in r.known : k.chain = r.req.chain }
  IN  CASE r.req.op = "Verify" -> r.val.empty => mine = {}
        [] r.req.op = "LatestEntryID" -> \A k \in mine : r.err = {} /\ k.id <= r.val
        [] r.req.op = "GetEntry" ->
             \A k \in mine : k.id = r.req.id => r.err = {} /\ Key(r.val) = k
        [] r.req.op = "Query" ->
             /\ \A i, j \in DOMAIN r.val : i < j => r.val[i].id < r.val[j].id
             /\ \A k \in mine :
                  k.content \in r.req.filter.match =>
                    \/ \E i \in DOMAIN r.val : Key(r.val[i]) = k
                    \/ /\ r.req.filter.limit > 0 /\ Len(r.val) = r.req.filter.limit
                       /\ \A i \in DOMAIN r.val : r.val[i].id < k.id

ReadsSeeAcked ==
  \A t \in Callers :
    ret[t].req.op \notin {"none", "Record"} /\ "ErrBackendUnavailable" \notin ret[t].err
      => Sees(ret[t])

(***************************************************************************)
(* Every call returns: no path keeps a mutex, a lock or a connection that  *)
(* another call needs, a subscriber that calls Record does not wait for    *)
(* its own goroutine, and no retry goes on for ever.                       *)
(***************************************************************************)
EveryCallReturns == \A t \in Callers : pc[t] # "idle" ~> pc[t] = "idle"
=============================================================================
