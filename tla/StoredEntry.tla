---------------------------- MODULE StoredEntry -----------------------------
(***************************************************************************)
(* How an entry reaches its hash and its row: canonicalJSON and the        *)
(* preimage of ComputeHash (hash.go), and what the columns of the durable  *)
(* backends keep of a payload and of a timestamp.                          *)
(*                                                                         *)
(* A JSON text is a value together with the order in which it has the      *)
(* members of each object: this and the text of the numbers is all that    *)
(* the backends may change.  A timestamp is a number of small units, Micro *)
(* of which make a microsecond and Milli of which make a millisecond.      *)
(***************************************************************************)
EXTENDS JSONTree

CONSTANTS
  ByteOrder,    \* every string in use, in the order of sort.Strings
  LengthOrder,  \* the same in the order of JSONB, by length first
  Exponents,    \* texts of numbers with an exponent
  Micro, Milli  \* units of time

ASSUME StoredConstants ==
  /\ Range(ByteOrder) = Range(LengthOrder) /\ Len(ByteOrder) = Len(LengthOrder)
  /\ {<<"before">>, <<"after">>} \subseteq Range(ByteOrder)
  /\ Micro \in Nat \ {0} /\ Milli \in Nat \ {0} /\ Milli % Micro = 0

\* The fields of a FieldDiff in the order of their declaration.
DeclaredOrder == <<<<"before">>, <<"after">>>>

\* As JSON a struct is an object like any other.
AsObjects(v) == [p \in DOMAIN v |-> IF v[p].kind = "struct" THEN [kind |-> "object"] ELSE v[p]]

(***************************************************************************)
(* The text of value v: the members of an object in the given order, those *)
(* of a struct in the order of their declaration.                          *)
(***************************************************************************)
Encode(v, order) ==
  [value   |-> AsObjects(v),
   members |-> [p \in { q \in DOMAIN v : v[q].kind \in {"object", "struct"} } |->
                  SelectSeq(IF v[p].kind = "struct" THEN DeclaredOrder ELSE order,
                            LAMBDA k : Append(p, k) \in DOMAIN v)]]

\* A json.Decoder with UseNumber: the text of a number is kept.
Decode(s) == s.value

\* A JSONB column writes out the digits of a number, without an exponent.
Digits(v) ==
  [p \in DOMAIN v |-> IF v[p].kind = "number" /\ v[p].text \in Exponents
                        THEN [kind |-> "digits", text |-> v[p].text] ELSE v[p]]

\* json.Marshal sorts the keys of a map, and not the fields of a struct.
Marshal(v) == Encode(v, ByteOrder)

CanonicalAsMarshaled(v) == Marshal(v)

\* canonicalJSON: marshaled, decoded, and encoded again with sorted keys.
canonicalJSON(v) == Encode(IF v = Nil THEN Null ELSE Decode(Marshal(v)), ByteOrder)

\* A nil payload has no bytes, and is hashed as null.
NoBytes == [kind |-> "no bytes"]

marshalPayload(v) == IF v = Nil THEN NoBytes ELSE Marshal(v)

DecodeStoredPayload(s) == IF s = NoBytes THEN Nil ELSE Decode(s)

-----------------------------------------------------------------------------
Truncate(ts, unit) == ts - (ts % unit)

\* UTC, truncated to milliseconds, RFC 3339.
TimeText(ts) == Truncate(ts, Milli)

PreimageNoAction(e) ==
  e.chain \o e.id \o e.actor \o e.entityType \o e.entity
    \o <<canonicalJSON(e.payload), TimeText(e.time)>> \o e.prevHash

(***************************************************************************)
(* The bytes ComputeHash digests: the fields one after the other, without  *)
(* a separator.  Strings are sequences of characters here.                 *)
(***************************************************************************)
Preimage(e) ==
  e.chain \o e.id \o e.actor \o e.entityType \o e.entity \o e.action
    \o <<canonicalJSON(e.payload), TimeText(e.time)>> \o e.prevHash

-----------------------------------------------------------------------------
(***************************************************************************)
(* The columns that do not give back what was written to them.  JSONB has  *)
(* its own order of members and its own numbers, TIMESTAMPTZ counts        *)
(* microseconds; MongoDB keeps the bytes of the payload, and a date counts *)
(* milliseconds.                                                           *)
(***************************************************************************)
StoredPayload(backend, s) ==
  IF backend = "postgres" /\ s # NoBytes
    THEN Encode(Digits(Decode(s)), LengthOrder) ELSE s

StoredTime(backend, ts) == Truncate(ts, IF backend = "postgres" THEN Micro ELSE Milli)
=============================================================================
