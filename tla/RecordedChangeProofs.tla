------------------------ MODULE RecordedChangeProofs ------------------------
(***************************************************************************)
(* Theorems about a recorded change.  An entry verifies as it is read      *)
(* back, because decoding forgets what a backend may change of a payload,  *)
(* and hashing what it may change of a timestamp.  A diff is exact,        *)
(* because every change is pending in a call of collectDiff until it is in *)
(* the map.                                                                *)
(***************************************************************************)
EXTENDS RecordedChange, SequenceTheorems, WellFoundedInduction, TLAPS

(***************************************************************************)
(* A set of natural numbers has a least element.                           *)
(***************************************************************************)
LEMMA Least ==
  ASSUME NEW T \in SUBSET Nat, T # {}
  PROVE  \E x \in T : \A y \in T : x <= y
<1>1. IsWellFoundedOn(OpToRel(<, Nat), Nat)
  BY NatLessThanWellFounded
<1>2. PICK x \in T : \A y \in T : ~(<<y, x>> \in OpToRel(<, Nat))
  BY <1>1, WFMin
<1>3. ASSUME NEW y \in T
      PROVE  x <= y
  <2>1. x \in Nat /\ y \in Nat
    OBVIOUS
  <2>2. ~(y < x)
    BY <1>2, <2>1 DEF OpToRel
  <2> QED
    BY <2>1, <2>2
<1> QED
  BY <1>3

(***************************************************************************)
(* Induction over the natural numbers, for the set of those that have the  *)
(* property.                                                               *)
(***************************************************************************)
LEMMA SetInduction ==
  ASSUME NEW G \in SUBSET Nat, 0 \in G, \A n \in G : n + 1 \in G
  PROVE  \A n \in Nat : n \in G
<1> SUFFICES ASSUME Nat \ G # {} PROVE FALSE
  OBVIOUS
<1>1. PICK x \in Nat \ G : \A y \in Nat \ G : x <= y
  BY Least
<1>2. x - 1 \in Nat \ G /\ x - 1 < x
  OBVIOUS
<1> QED
  BY <1>1, <1>2

(***************************************************************************)
(* Quotient and remainder are unique.                                      *)
(***************************************************************************)
LEMMA Remainder ==
  ASSUME NEW m \in Nat \ {0}, NEW q \in Nat, NEW r \in 0..m - 1
  PROVE  (m * q + r) % m = r
  OBVIOUS

(***************************************************************************)
(* Every number has a quotient and a remainder.                            *)
(***************************************************************************)
LEMMA Division ==
  ASSUME NEW n \in Nat, NEW m \in Nat \ {0}
  PROVE  \E q \in Nat, r \in 0..m - 1 : n = m * q + r
<1>1. n % m \in 0..m - 1 /\ n \div m \in Int
  OBVIOUS
<1>2. PICK r \in 0..m - 1 : r = n % m
  BY <1>1
<1>3. PICK q \in Int : q = n \div m
  BY <1>1
<1>4. n = m * q + r
  BY <1>2, <1>3
<1>5. q >= 0
  <2>1. CASE q < 0
    <3>1. m * q <= m * (-1)
      BY <2>1
    <3> QED
      BY <1>4, <2>1, <3>1
  <2> QED
    BY <2>1
<1> QED
  BY <1>4, <1>5

(***************************************************************************)
(* What is left of a timestamp after two truncations, the second to a      *)
(* multiple of the unit of the first, is what the second one leaves of it. *)
(***************************************************************************)
LEMMA TruncateTwice ==
  ASSUME NEW u \in Nat \ {0}, NEW m \in Nat \ {0}, m % u = 0, NEW ts \in Nat
  PROVE  Truncate(Truncate(ts, u), m) = Truncate(ts, m)
<1>1. PICK k \in Nat \ {0} : m = u * k
  <2>1. PICK q \in Nat, r \in 0..u - 1 : m = u * q + r
    BY Division
  <2>2. r = 0
    BY <2>1, Remainder
  <2>3. q # 0
    BY <2>1, <2>2
  <2> QED
    BY <2>1, <2>2, <2>3
<1>2. PICK a \in Nat, b \in 0..u - 1 : ts = u * a + b
  BY Division
<1>3. PICK c \in Nat, d \in 0..k - 1 : a = k * c + d
  BY Division
<1>4. u * a = m * c + u * d
  <2>1. u * a = u * (k * c) + u * d
    BY <1>3
  <2>2. u * (k * c) = m * c
    BY <1>1
  <2> QED
    BY <2>1, <2>2
<1>5. u * d \in Nat /\ u * d + b \in 0..m - 1
  <2>1. u * d + u = u * (d + 1)
    OBVIOUS
  <2>2. u * (d + 1) <= u * k
    BY <1>1, <1>3
  <2>3. u * d \in Nat
    BY <1>3
  <2> QED
    BY <1>1, <1>2, <2>1, <2>2, <2>3
<1>6. ts % u = b /\ ts - (ts % u) = m * c + u * d
  BY <1>2, <1>4, Remainder
<1>7. ts % m = u * d + b
  <2>1. ts = m * c + (u * d + b)
    BY <1>2, <1>4
  <2> QED
    BY <2>1, <1>5, Remainder
<1>8. (m * c + u * d) % m = u * d
  <2>1. u * d \in 0..m - 1
    BY <1>2, <1>5
  <2> QED
    BY <2>1, Remainder
<1>9. m * c \in Nat /\ u * d \in Nat
  BY <1>5
<1>10. Truncate(ts, m) = m * c
  <2>1. ts = m * c + (u * d + b)
    BY <1>2, <1>4
  <2> QED
    BY <1>2, <1>7, <1>9, <2>1 DEF Truncate
<1>11. Truncate(Truncate(ts, u), m) = m * c
  <2>1. Truncate(ts, u) = m * c + u * d
    BY <1>6 DEF Truncate
  <2> QED
    BY <1>8, <1>9, <2>1 DEF Truncate
<1> QED
  BY <1>10, <1>11

(***************************************************************************)
(* The columns of both backends keep the millisecond of a timestamp.       *)
(***************************************************************************)
LEMMA TimeSurvives ==
  ASSUME NEW ts \in Nat, NEW backend
  PROVE  TimeText(StoredTime(backend, ts)) = TimeText(ts)
<1>1. Milli % Milli = 0
  BY StoredConstants
<1> QED
  BY <1>1, StoredConstants, TruncateTwice DEF TimeText, StoredTime

(***************************************************************************)
(* Decoding gives back what an object is as JSON, and encoding that again  *)
(* changes nothing: the order of the members and the declaration of a      *)
(* struct are forgotten.                                                   *)
(***************************************************************************)
LEMMA RoundTrip ==
  ASSUME NEW v, NEW order
  PROVE  /\ Decode(Encode(v, order)) = AsObjects(v)
         /\ AsObjects(AsObjects(v)) = AsObjects(v)
         /\ Encode(v, order) # NoBytes
<1>1. Decode(Encode(v, order)) = AsObjects(v)
  BY DEF Decode, Encode
<1>2. AsObjects(AsObjects(v)) = AsObjects(v)
  BY DEF AsObjects
<1>3. Encode(v, order) # NoBytes
  BY DEF Encode, NoBytes
<1> QED
  BY <1>1, <1>2, <1>3

\* Nil is a leaf of its kind.
LEMMA NilLeaf == << >> \in DOMAIN Nil /\ Nil[<< >>] = [kind |-> "nil"]
  BY DEF Nil, Tree

(***************************************************************************)
(* The payload read back from a column is hashed as the one that was       *)
(* stored, unless the column has rewritten a number of it.                 *)
(***************************************************************************)
LEMMA PayloadSurvives ==
  ASSUME NEW v, v = Nil \/ (<< >> \in DOMAIN v /\ v[<< >>] = [kind |-> "object"]),
         NEW backend, backend = "postgres" => Digits(AsObjects(v)) = AsObjects(v)
  PROVE  canonicalJSON(DecodeStoredPayload(StoredPayload(backend, marshalPayload(v))))
           = canonicalJSON(v)
<1>1. CASE v = Nil
  BY <1>1 DEF marshalPayload, StoredPayload, DecodeStoredPayload
<1>2. CASE v # Nil
  <2> DEFINE w == AsObjects(v)
  <2>1. w # Nil
    <3>1. << >> \in DOMAIN w /\ w[<< >>] = [kind |-> "object"]
      BY <1>2 DEF AsObjects
    <3> QED
      BY <3>1, NilLeaf
  <2>2. DecodeStoredPayload(StoredPayload(backend, marshalPayload(v))) = w
    BY <1>2, RoundTrip DEF marshalPayload, StoredPayload, DecodeStoredPayload, Marshal
  <2>3. canonicalJSON(w) = Encode(w, ByteOrder) /\ canonicalJSON(v) = Encode(w, ByteOrder)
    BY <1>2, <2>1, RoundTrip DEF canonicalJSON, Marshal
  <2> QED
    BY <2>2, <2>3
<1> QED
  BY <1>1, <1>2

-----------------------------------------------------------------------------
\* X[k] is the concatenation of the first k of the n parts x.
Joins(X, x, n) == X[1] = x[1] /\ \A k \in 1..n - 1 : X[k + 1] = X[k] \o x[k + 1]

\* Of the n parts x and y exactly the j-th differ.
OnlyDiffer(x, y, j, n) == \A i \in 1..n : x[i] = y[i] <=> i # j

(***************************************************************************)
(* Two concatenations that differ in exactly one part differ, although the *)
(* parts are not separated.                                                *)
(***************************************************************************)
LEMMA OnePartDiffers ==
  ASSUME NEW S, NEW n \in Nat, NEW x \in [1..n -> Seq(S)], NEW y \in [1..n -> Seq(S)],
         NEW X \in [1..n -> Seq(S)], NEW Y \in [1..n -> Seq(S)],
         Joins(X, x, n), Joins(Y, y, n),
         NEW j \in 1..n, OnlyDiffer(x, y, j, n)
  PROVE  X[n] # Y[n]
<1> DEFINE E == { k \in 1..n : X[k] = Y[k] }
           e == { k \in 1..n : x[k] = y[k] }
<1>1. ASSUME NEW k \in Nat, NEW m \in 1..n, k \in 1..n, m = k + 1
      PROVE  /\ m \in E => (k \in E <=> m \in e)
             /\ k \in E /\ m \in e => m \in E
  <2>1. k \in 1..n - 1
    BY ONLY k \in 1..n, m \in 1..n, m = k + 1, n \in Nat
  <2>2. X[m] = X[k] \o x[m] /\ Y[m] = Y[k] \o y[m]
    BY ONLY Joins(X, x, n), Joins(Y, y, n), <2>1, m = k + 1 DEF Joins
  <2>3. X[k] \in Seq(S) /\ x[m] \in Seq(S) /\ Y[k] \in Seq(S) /\ y[m] \in Seq(S)
    BY ONLY k \in 1..n, m \in 1..n, x \in [1..n -> Seq(S)], y \in [1..n -> Seq(S)],
            X \in [1..n -> Seq(S)], Y \in [1..n -> Seq(S)]
  <2>4. X[k] \o x[m] = Y[k] \o y[m] => (X[k] = Y[k] <=> x[m] = y[m])
    BY ONLY <2>3, ConcatSimplifications
  <2> QED
    BY ONLY <2>2, <2>4, k \in 1..n, m \in 1..n
<1>2. 1 \in E <=> 1 \in e
  BY ONLY Joins(X, x, n), Joins(Y, y, n) DEF Joins
<1>3. E \subseteq 1..n /\ \A k \in 1..n : k \in e <=> k # j
  BY DEF OnlyDiffer
<1> SUFFICES ASSUME n \in E PROVE FALSE
  OBVIOUS
<1> HIDE DEF E, e
<1>4. j \in E
  <2> DEFINE G == { d \in Nat : n - d >= j => n - d \in E }
  <2>1. 0 \in G
    BY ONLY n \in E, n \in Nat, j \in 1..n
  <2>2. ASSUME NEW d \in G PROVE d + 1 \in G
    <3>1. CASE n - d > j
      <4>1. PICK m \in 1..n : m = n - d
        BY ONLY <3>1, d \in Nat, n \in Nat, j \in 1..n
      <4>2. PICK k \in 1..n : m = k + 1 /\ k = n - (d + 1)
        BY ONLY <3>1, <4>1, d \in Nat, n \in Nat, j \in 1..n
      <4> QED
        BY <1>1, <1>3, <3>1, <4>1, <4>2
    <3> QED
      BY ONLY <3>1, d \in G, n \in Nat, j \in 1..n
  <2>3. n - j \in G
    <3>1. \A d \in Nat : d \in G
      <4>1. G \in SUBSET Nat
        OBVIOUS
      <4> HIDE DEF G
      <4> QED
        BY <2>1, <2>2, <4>1, SetInduction
    <3>2. n - j \in Nat
      BY ONLY n \in Nat, j \in 1..n
    <3> QED
      BY ONLY <3>1, <3>2, Zenon
  <2> QED
    BY ONLY <2>3, n \in Nat, j \in 1..n
<1>5. \A k \in 1..n : k < j => k \in E
  <2> DEFINE G == { k \in Nat : k + 1 < j => k + 1 \in E }
  <2>1. 0 \in G
    BY ONLY <1>2, <1>3, n \in Nat, j \in 1..n
  <2>2. ASSUME NEW k \in G PROVE k + 1 \in G
    <3>1. CASE k + 2 < j
      <4>1. PICK l \in 1..n : l = k + 1
        BY ONLY <3>1, k \in Nat, n \in Nat, j \in 1..n
      <4>2. PICK m \in 1..n : m = l + 1
        BY ONLY <3>1, <4>1, k \in Nat, n \in Nat, j \in 1..n
      <4> QED
        BY <1>1, <1>3, <3>1, <4>1, <4>2
    <3> QED
      BY ONLY <3>1, k \in G, j \in 1..n, n \in Nat
  <2>3. \A k \in Nat : k \in G
    <3>1. G \in SUBSET Nat
      OBVIOUS
    <3> HIDE DEF G
    <3> QED
      BY <2>1, <2>2, <3>1, SetInduction
  <2> QED
    <3> SUFFICES ASSUME NEW k \in 1..n, NEW i \in Nat, k = i + 1, k < j PROVE k \in E
      OBVIOUS
    <3> QED
      BY ONLY <2>3, i \in Nat, k = i + 1, k < j
<1>6. CASE j = 1
  BY ONLY <1>2, <1>3, <1>4, <1>6, j \in 1..n
<1>7. CASE j # 1
  <2>1. PICK k \in 1..n : j = k + 1
    BY ONLY <1>7, j \in 1..n, n \in Nat
  <2>2. k \in E /\ k \in Nat
    BY ONLY <1>5, <2>1, k \in 1..n, j \in 1..n, n \in Nat
  <2>3. j \in e
    BY <1>1, <1>4, <2>1, <2>2
  <2> QED
    BY ONLY <1>3, <2>3, j \in 1..n
<1> QED
  BY <1>6, <1>7

\* The eight parts of the preimage of entry e.
Parts(e) ==
  <<e.chain, e.id, e.actor, e.entityType, e.entity, e.action,
    <<canonicalJSON(e.payload), TimeText(e.time)>>, e.prevHash>>

(***************************************************************************)
(* The concatenations of the first parts.                                  *)
(***************************************************************************)
LEMMA PartialJoins ==
  ASSUME NEW S, NEW x \in [1..8 -> Seq(S)]
  PROVE  \E X \in [1..8 -> Seq(S)] :
           /\ Joins(X, x, 8)
           /\ X[8] = x[1] \o x[2] \o x[3] \o x[4] \o x[5] \o x[6] \o x[7] \o x[8]
<1>1. /\ x[1] \in Seq(S) /\ x[2] \in Seq(S) /\ x[3] \in Seq(S) /\ x[4] \in Seq(S)
      /\ x[5] \in Seq(S) /\ x[6] \in Seq(S) /\ x[7] \in Seq(S) /\ x[8] \in Seq(S)
  OBVIOUS
<1>2. PICK a2 \in Seq(S) : a2 = x[1] \o x[2]
  BY <1>1, ConcatProperties
<1>3. PICK a3 \in Seq(S) : a3 = a2 \o x[3]
  BY <1>1, ConcatProperties
<1>4. PICK a4 \in Seq(S) : a4 = a3 \o x[4]
  BY <1>1, ConcatProperties
<1>5. PICK a5 \in Seq(S) : a5 = a4 \o x[5]
  BY <1>1, ConcatProperties
<1>6. PICK a6 \in Seq(S) : a6 = a5 \o x[6]
  BY <1>1, ConcatProperties
<1>7. PICK a7 \in Seq(S) : a7 = a6 \o x[7]
  BY <1>1, ConcatProperties
<1>8. PICK a8 \in Seq(S) : a8 = a7 \o x[8]
  BY <1>1, ConcatProperties
<1> DEFINE X == <<x[1], a2, a3, a4, a5, a6, a7, a8>>
<1>9. X \in [1..8 -> Seq(S)]
  BY ONLY <1>1, a2 \in Seq(S), a3 \in Seq(S), a4 \in Seq(S), a5 \in Seq(S), a6 \in Seq(S),
          a7 \in Seq(S), a8 \in Seq(S)
<1>10. Joins(X, x, 8)
  <2>1. ASSUME NEW k \in 1..7 PROVE X[k + 1] = X[k] \o x[k + 1]
    <3>1. k = 1 \/ k = 2 \/ k = 3 \/ k = 4 \/ k = 5 \/ k = 6 \/ k = 7
      BY ONLY k \in 1..7
    <3>2. /\ X[2] = X[1] \o x[2] /\ X[3] = X[2] \o x[3] /\ X[4] = X[3] \o x[4]
          /\ X[5] = X[4] \o x[5] /\ X[6] = X[5] \o x[6] /\ X[7] = X[6] \o x[7]
          /\ X[8] = X[7] \o x[8]
      BY ONLY <1>2, <1>3, <1>4, <1>5, <1>6, <1>7, <1>8
    <3>3. /\ 1 + 1 = 2 /\ 2 + 1 = 3 /\ 3 + 1 = 4 /\ 4 + 1 = 5 /\ 5 + 1 = 6 /\ 6 + 1 = 7
          /\ 7 + 1 = 8
      OBVIOUS
    <3> HIDE DEF X
    <3> QED
      BY ONLY <3>1, <3>2, <3>3
  <2>2. X[1] = x[1] /\ 8 - 1 = 7
    OBVIOUS
  <2> QED
    BY ONLY <2>1, <2>2 DEF Joins
<1>11. X[8] = x[1] \o x[2] \o x[3] \o x[4] \o x[5] \o x[6] \o x[7] \o x[8]
  BY ONLY <1>2, <1>3, <1>4, <1>5, <1>6, <1>7, <1>8
<1> QED
  BY ONLY <1>9, <1>10, <1>11

(***************************************************************************)
(* The preimage of an entry is the last of these concatenations.           *)
(***************************************************************************)
LEMMA PartsJoin ==
  ASSUME NEW S, NEW e, NEW x \in [1..8 -> Seq(S)], x = Parts(e)
  PROVE  \E X \in [1..8 -> Seq(S)] : Joins(X, x, 8) /\ X[8] = Preimage(e)
<1>1. Preimage(e) = x[1] \o x[2] \o x[3] \o x[4] \o x[5] \o x[6] \o x[7] \o x[8]
  BY DEF Preimage, Parts
<1> QED
  BY <1>1, PartialJoins

(***************************************************************************)
(* Entries that differ in exactly one part have different preimages.       *)
(***************************************************************************)
LEMMA PreimageDiffers ==
  ASSUME NEW S, NEW d, NEW e, Parts(d) \in [1..8 -> Seq(S)], Parts(e) \in [1..8 -> Seq(S)],
         NEW j \in 1..8, OnlyDiffer(Parts(d), Parts(e), j, 8)
  PROVE  Preimage(d) # Preimage(e)
<1>1. PICK x \in [1..8 -> Seq(S)] : x = Parts(d)
  OBVIOUS
<1>2. PICK y \in [1..8 -> Seq(S)] : y = Parts(e)
  OBVIOUS
<1>3. PICK X \in [1..8 -> Seq(S)] : Joins(X, x, 8) /\ X[8] = Preimage(d)
  BY ONLY <1>1, PartsJoin
<1>4. PICK Y \in [1..8 -> Seq(S)] : Joins(Y, y, 8) /\ Y[8] = Preimage(e)
  BY ONLY <1>2, PartsJoin
<1>5. OnlyDiffer(x, y, j, 8)
  BY <1>1, <1>2
<1>6. PICK n \in Nat : n = 8
  OBVIOUS
<1>7. /\ x \in [1..n -> Seq(S)] /\ X \in [1..n -> Seq(S)] /\ Joins(X, x, n)
      /\ y \in [1..n -> Seq(S)] /\ Y \in [1..n -> Seq(S)] /\ Joins(Y, y, n)
      /\ j \in 1..n /\ OnlyDiffer(x, y, j, n)
  BY ONLY <1>3, <1>4, <1>5, <1>6, j \in 1..8, x \in [1..8 -> Seq(S)], y \in [1..8 -> Seq(S)],
          X \in [1..8 -> Seq(S)], Y \in [1..8 -> Seq(S)]
<1>8. X[n] # Y[n]
  BY ONLY <1>7, n \in Nat, OnePartDiffers
<1> QED
  BY ONLY <1>3, <1>4, <1>6, <1>8

-----------------------------------------------------------------------------
RowColumns == Columns \cup {"payload", "time", "hash", "backend"}

Payload(v) == v = Nil \/ (<< >> \in DOMAIN v /\ v[<< >>] = [kind |-> "object"])

\* The characters of columns; an action counts as one.
Symbols == STRING \cup {"create", "delete", "update", "login"}

SentOK(e) ==
  /\ \A c \in Columns : e[c] \in Seq(Symbols)
  /\ e.time \in Nat
  /\ Payload(e.payload)

\* Row w is row r but for column c, which shows in the preimage.
Differs(w, r, c) ==
  \/ c \in Columns /\ \E s \in Seq(Symbols) : s # r[c] /\ w = [r EXCEPT ![c] = s]
  \/ /\ c = "payload"
     /\ \E p : /\ canonicalJSON(DecodeStoredPayload(p)) # canonicalJSON(DecodeStoredPayload(r.payload))
               /\ w = [r EXCEPT !.payload = p]
  \/ /\ c = "time"
     /\ \E ts \in Nat : TimeText(ts) # TimeText(r.time) /\ w = [r EXCEPT !.time = ts]

(***************************************************************************)
(* The inductive invariant: the row is that of the event that was sent, or *)
(* differs from it in the altered column.                                  *)
(***************************************************************************)
RowInv ==
  /\ altered # "none" => step = "stored"
  /\ step = "stored" =>
       /\ SentOK(sent)
       /\ \E backend \in {"postgres", "mongo"} :
            \/ altered = "none" /\ row = RowOf(backend, sent)
            \/ Differs(row, RowOf(backend, sent), altered)

(***************************************************************************)
(* The columns of a row.                                                   *)
(***************************************************************************)
LEMMA RowFields ==
  ASSUME NEW backend, NEW e
  PROVE  /\ RowOf(backend, e) = [k \in RowColumns |-> RowOf(backend, e)[k]]
         /\ \A c \in Columns : RowOf(backend, e)[c] = e[c]
         /\ RowOf(backend, e).payload = StoredPayload(backend, marshalPayload(e.payload))
         /\ RowOf(backend, e).time = StoredTime(backend, e.time)
         /\ RowOf(backend, e).hash = Preimage(e)
         /\ RowOf(backend, e).backend = backend
  BY DEF RowOf, RowColumns, Columns

(***************************************************************************)
(* Strings are sequences of symbols.                                       *)
(***************************************************************************)
LEMMA StringSymbols == Seq(STRING) \subseteq Seq(Symbols)
<1>1. STRING \subseteq Symbols
  BY DEF Symbols
<1> QED
  BY <1>1, SeqMonotonic

(***************************************************************************)
(* The fields of an event.                                                 *)
(***************************************************************************)
LEMMA EventOK ==
  ASSUME NEW args \in Arguments, NEW action \in Symbols, NEW v, Payload(v), NEW ts \in Times
  PROVE  SentOK(Event(args, action, v, ts))
<1>1. args \in [Columns \ {"action"} -> Seq(Symbols)] /\ ts \in Nat
  BY RecordedConstants, StringSymbols
<1>2. \A T : \A a \in T : <<a>> \in Seq(T)
  OBVIOUS
<1>3. <<action>> \in Seq(Symbols)
  BY <1>2, Zenon
<1> QED
  BY <1>1, <1>3 DEF SentOK, Event, Columns

(***************************************************************************)
(* A recorded event is stored as its row.                                  *)
(***************************************************************************)
LEMMA StoreRow ==
  ASSUME NEW backend \in {"postgres", "mongo"}, NEW args \in Arguments, NEW ts \in Times,
         RowInv, Record(backend, args, ts)
  PROVE  RowInv'
<1>1. step # "stored" /\ altered = "none" /\ altered' = altered
  BY DEF RowInv, Record, Store
<1>2. PICK e : Store(backend, e) /\ SentOK(e)
  <2>1. CASE step = "built"
    <3> DEFINE v == Obj([p \in DOMAIN diff |-> FieldJSON(diff[p])])
    <3>1. Payload(v)
      BY DEF Payload, Obj, Tree
    <3>2. Action \in Symbols
      BY DEF Action, Symbols
    <3>3. Store(backend, Event(args, Action, v, ts))
      BY <2>1 DEF Record
    <3> HIDE DEF v
    <3> QED
      BY <3>1, <3>2, <3>3, EventOK
  <2>2. CASE step = "idle"
    <3>1. Store(backend, Event(args, "login", Nil, ts))
      BY <2>2 DEF Record
    <3>2. Payload(Nil) /\ "login" \in Symbols
      BY DEF Payload, Symbols
    <3> QED
      BY <3>1, <3>2, EventOK
  <2> QED
    BY <2>1, <2>2 DEF Record
<1> QED
  BY <1>1, <1>2 DEF RowInv, Store

(***************************************************************************)
(* An altered row differs in that column.                                  *)
(***************************************************************************)
LEMMA AlterDiffers ==
  ASSUME RowInv, step = "stored", AlterRow
  PROVE  RowInv'
<1>1. /\ altered = "none" /\ step' = step /\ sent' = sent /\ SentOK(sent)
  BY DEF RowInv, AlterRow, Alter, diffVars
<1>2. PICK backend \in {"postgres", "mongo"} : row = RowOf(backend, sent)
  BY <1>1 DEF RowInv, Differs, Columns
<1>3. Differs(row', row, altered')
  BY RecordedConstants, StringSymbols, <1>2, RowFields
     DEF AlterRow, Alter, Differs, Loaded, RowColumns, Columns
<1> QED
  BY <1>1, <1>2, <1>3 DEF RowInv

(***************************************************************************)
(* The invariant holds in every state.                                     *)
(***************************************************************************)
THEOREM RowIsSent == Spec => []RowInv
<1>1. Init => RowInv
  BY DEF Init, RowInv
<1>2. RowInv /\ [Next]_vars => RowInv'
  <2> SUFFICES ASSUME RowInv, [Next]_vars PROVE RowInv'
    OBVIOUS
  <2>1. CASE RecordChange
    BY <2>1 DEF RecordChange, RowInv, collectDiff, Return, Visit, computeDiff
  <2>2. ASSUME NEW backend \in {"postgres", "mongo"}, NEW args \in Arguments, NEW ts \in Times,
               Record(backend, args, ts)
        PROVE  RowInv'
    BY <2>2, StoreRow
  <2>3. CASE step = "stored" /\ AlterRow
    BY <2>3, AlterDiffers
  <2>4. CASE UNCHANGED vars
    BY <2>4 DEF vars, diffVars, RowInv
  <2> QED
    BY <2>1, <2>2, <2>3, <2>4 DEF Next
<1> QED
  BY <1>1, <1>2, PTL DEF Spec

-----------------------------------------------------------------------------
\* The column keeps the numbers of payload v.
KeepsNumbers(backend, v) == backend = "postgres" => Digits(AsObjects(v)) = AsObjects(v)

(***************************************************************************)
(* What is hashed of the event read back from a row is what was hashed of  *)
(* the event that was sent.                                                *)
(***************************************************************************)
LEMMA LoadedParts ==
  ASSUME NEW backend, NEW e, SentOK(e), KeepsNumbers(backend, e.payload),
         NEW r, r = RowOf(backend, e)
  PROVE  /\ \A c \in Columns : r[c] = e[c]
         /\ canonicalJSON(DecodeStoredPayload(r.payload)) = canonicalJSON(e.payload)
         /\ TimeText(r.time) = TimeText(e.time)
         /\ r = [k \in RowColumns |-> r[k]]
         /\ r.hash = Preimage(e) /\ r.backend = backend
<1>1. canonicalJSON(DecodeStoredPayload(StoredPayload(backend, marshalPayload(e.payload))))
        = canonicalJSON(e.payload)
  BY PayloadSurvives DEF SentOK, Payload, KeepsNumbers
<1>2. TimeText(StoredTime(backend, e.time)) = TimeText(e.time)
  BY TimeSurvives DEF SentOK
<1> QED
  BY <1>1, <1>2, RowFields

(***************************************************************************)
(* The parts of the preimage of a row that is read back.                   *)
(***************************************************************************)
LEMMA PartsOfLoaded ==
  ASSUME NEW r, r = [k \in RowColumns |-> r[k]]
  PROVE  Parts(Loaded(r)) =
           <<r.chain, r.id, r.actor, r.entityType, r.entity, r.action,
             <<canonicalJSON(DecodeStoredPayload(r.payload)), TimeText(r.time)>>, r.prevHash>>
  BY DEF Parts, Loaded, RowColumns, Columns

(***************************************************************************)
(* An untouched row verifies.                                              *)
(***************************************************************************)
LEMMA UntouchedVerifies ==
  ASSUME NEW backend, NEW e, SentOK(e), KeepsNumbers(backend, e.payload),
         NEW r, r = RowOf(backend, e)
  PROVE  Preimage(Loaded(r)) = r.hash
<1>1. /\ \A c \in Columns : r[c] = e[c]
      /\ canonicalJSON(DecodeStoredPayload(r.payload)) = canonicalJSON(e.payload)
      /\ TimeText(r.time) = TimeText(e.time)
      /\ r = [k \in RowColumns |-> r[k]]
      /\ r.hash = Preimage(e)
  BY LoadedParts
<1>2. Parts(Loaded(r)) = Parts(e)
  BY <1>1, PartsOfLoaded DEF Parts, Columns
<1> QED
  BY <1>1, <1>2 DEF Parts, Preimage

(***************************************************************************)
(* The parts are sequences over one set of symbols.                        *)
(***************************************************************************)
LEMMA PartsType ==
  ASSUME NEW r, r = [k \in RowColumns |-> r[k]], \A c \in Columns : r[c] \in Seq(Symbols),
         NEW S, Symbols \subseteq S,
         canonicalJSON(DecodeStoredPayload(r.payload)) \in S, TimeText(r.time) \in S
  PROVE  Parts(Loaded(r)) \in [1..8 -> Seq(S)]
<1>1. Seq(Symbols) \subseteq Seq(S)
  BY SeqMonotonic
<1>2. \A x, y \in S : <<x, y>> \in Seq(S)
  OBVIOUS
<1>3. <<canonicalJSON(DecodeStoredPayload(r.payload)), TimeText(r.time)>> \in Seq(S)
  BY <1>2, Zenon
<1>4. /\ r.chain \in Seq(S) /\ r.id \in Seq(S) /\ r.actor \in Seq(S) /\ r.entityType \in Seq(S)
      /\ r.entity \in Seq(S) /\ r.action \in Seq(S) /\ r.prevHash \in Seq(S)
  BY <1>1 DEF Columns
<1>5. PICK p \in Seq(S) : p = <<canonicalJSON(DecodeStoredPayload(r.payload)), TimeText(r.time)>>
  BY <1>3
<1>6. <<r.chain, r.id, r.actor, r.entityType, r.entity, r.action, p, r.prevHash>>
        \in [1..8 -> Seq(S)]
  BY ONLY <1>4, p \in Seq(S)
<1> QED
  BY <1>5, <1>6, PartsOfLoaded

(***************************************************************************)
(* A row that differs in one column does not verify.                       *)
(***************************************************************************)
LEMMA AlteredFails ==
  ASSUME NEW backend, NEW e, SentOK(e), KeepsNumbers(backend, e.payload),
         NEW r, r = RowOf(backend, e), NEW w, NEW c, Differs(w, r, c)
  PROVE  Preimage(Loaded(w)) # w.hash /\ w.backend = backend
<1>1. /\ \A k \in Columns : r[k] = e[k]
      /\ r = [k \in RowColumns |-> r[k]]
      /\ r.hash = Preimage(e) /\ r.backend = backend
  BY LoadedParts
<1>2. /\ w = [k \in RowColumns |-> w[k]]
      /\ \A k \in RowColumns \ {c} : w[k] = r[k]
      /\ w.hash = r.hash /\ w.backend = r.backend
      /\ c \in Columns \cup {"payload", "time"}
  BY <1>1 DEF Differs, RowColumns, Columns
<1>3. \A k \in Columns : r[k] \in Seq(Symbols) /\ w[k] \in Seq(Symbols)
  <2>1. \A k \in Columns : r[k] \in Seq(Symbols)
    BY <1>1 DEF SentOK
  <2>2. c \in Columns => w[c] \in Seq(Symbols)
    BY <1>1 DEF Differs, RowColumns, Columns
  <2> QED
    BY <1>2, <2>1, <2>2 DEF RowColumns
<1> DEFINE S == Symbols \cup
                {canonicalJSON(DecodeStoredPayload(r.payload)), TimeText(r.time),
                 canonicalJSON(DecodeStoredPayload(w.payload)), TimeText(w.time)}
<1>4. Parts(Loaded(r)) \in [1..8 -> Seq(S)]
  BY <1>1, <1>3, PartsType
<1>5. Parts(Loaded(w)) \in [1..8 -> Seq(S)]
  BY <1>2, <1>3, PartsType
<1> HIDE DEF S
<1>6. \E j \in 1..8 : OnlyDiffer(Parts(Loaded(w)), Parts(Loaded(r)), j, 8)
  <2> DEFINE R(x) == <<x.chain, x.id, x.actor, x.entityType, x.entity, x.action,
                       <<canonicalJSON(DecodeStoredPayload(x.payload)), TimeText(x.time)>>, x.prevHash>>
  <2>1. Parts(Loaded(w)) = R(w) /\ Parts(Loaded(r)) = R(r)
    BY <1>1, <1>2, PartsOfLoaded
  <2>2. \E j \in 1..8 : \A i \in 1..8 : R(w)[i] = R(r)[i] <=> i # j
    <3>1. CASE c = "payload"
      <4>1. canonicalJSON(DecodeStoredPayload(w.payload)) # canonicalJSON(DecodeStoredPayload(r.payload))
        BY <1>1, <3>1 DEF Differs, RowColumns, Columns
      <4>2. \A k \in Columns : w[k] = r[k]
        BY <1>2, <3>1 DEF RowColumns, Columns
      <4>3. \A i \in 1..8 : R(w)[i] = R(r)[i] <=> i # 7
        BY ONLY <4>1, <4>2 DEF Columns
      <4> QED
        BY <4>3
    <3>2. CASE c = "time"
      <4>1. TimeText(w.time) # TimeText(r.time)
        BY <1>1, <3>2 DEF Differs, RowColumns, Columns
      <4>2. \A k \in Columns : w[k] = r[k]
        BY <1>2, <3>2 DEF RowColumns, Columns
      <4>3. \A i \in 1..8 : R(w)[i] = R(r)[i] <=> i # 7
        BY ONLY <4>1, <4>2 DEF Columns
      <4> QED
        BY <4>3
    <3>3. CASE c \in Columns
      <4>1. w[c] # r[c] /\ w.payload = r.payload /\ w.time = r.time
        BY <1>1, <1>2, <3>3 DEF Differs, RowColumns, Columns
      <4>2. \A k \in Columns \ {c} : w[k] = r[k]
        BY <1>2 DEF RowColumns
      <4>3. PICK j \in 1..8 : <<"chain", "id", "actor", "entityType", "entity", "action", "-",
                               "prevHash">>[j] = c
        BY <3>3 DEF Columns
      <4>4. \A i \in 1..8 : R(w)[i] = R(r)[i] <=> i # j
        BY ONLY <3>3, <4>1, <4>2, <4>3, j \in 1..8 DEF Columns
      <4> QED
        BY <4>4
    <3> QED
      BY <1>2, <3>1, <3>2, <3>3
  <2> QED
    BY <2>1, <2>2 DEF OnlyDiffer
<1>7. Preimage(Loaded(w)) # Preimage(Loaded(r))
  BY <1>4, <1>5, <1>6, PreimageDiffers
<1>8. Preimage(Loaded(r)) = r.hash
  BY UntouchedVerifies
<1> QED
  BY <1>1, <1>2, <1>7, <1>8

(***************************************************************************)
(* The entry that comes back from either durable backend has the hash that *)
(* was computed from the event, whatever the payload, unless JSONB has     *)
(* rewritten one of its numbers (hash.go:72-141, 156-247).                 *)
(***************************************************************************)
THEOREM EntriesVerify == Spec => []StoredEntryVerifies
<1>1. RowInv => StoredEntryVerifies
  <2> SUFFICES ASSUME RowInv, step = "stored", altered = "none", ~Rewritten PROVE Intact
    BY DEF StoredEntryVerifies
  <2>1. PICK backend \in {"postgres", "mongo"} : row = RowOf(backend, sent)
    BY DEF RowInv, Differs, Columns
  <2>2. SentOK(sent) /\ KeepsNumbers(backend, sent.payload)
    BY <2>1, RowFields DEF RowInv, Rewritten, KeepsNumbers
  <2>3. PICK e, r : e = sent /\ r = row
    OBVIOUS
  <2>4. Preimage(Loaded(r)) = r.hash
    BY <2>1, <2>2, <2>3, UntouchedVerifies
  <2> QED
    BY <2>3, <2>4 DEF Intact
<1> QED
  BY <1>1, RowIsSent, PTL

(***************************************************************************)
(* No alteration of one column goes undetected, for any strings in the     *)
(* others: the parts of a preimage are not separated, but those before and *)
(* after the altered one fix where it begins and ends (hash.go:78-90).     *)
(***************************************************************************)
THEOREM AlterationsDetected == Spec => []AlteredColumnDetected
<1>1. RowInv => AlteredColumnDetected
  <2> SUFFICES ASSUME RowInv, altered # "none", ~Rewritten PROVE ~Intact
    BY DEF AlteredColumnDetected
  <2>1. PICK backend \in {"postgres", "mongo"} : Differs(row, RowOf(backend, sent), altered)
    BY DEF RowInv
  <2>2. PICK e, w, r, c : e = sent /\ w = row /\ r = RowOf(backend, sent) /\ c = altered
    OBVIOUS
  <2>3. SentOK(e) /\ Differs(w, r, c) /\ r = RowOf(backend, e)
    BY <2>1, <2>2 DEF RowInv
  <2>4. w.backend = backend
    BY <2>3, RowFields DEF Differs, RowColumns, Columns
  <2>5. KeepsNumbers(backend, e.payload)
    BY <2>2, <2>4 DEF Rewritten, KeepsNumbers
  <2>6. Preimage(Loaded(w)) # w.hash
    BY <2>3, <2>5, AlteredFails
  <2> QED
    BY <2>2, <2>6 DEF Intact
<1> QED
  BY <1>1, RowIsSent, PTL

-----------------------------------------------------------------------------
(***************************************************************************)
(* The prefixes of a sequence: their lengths, elements and prefixes, and   *)
(* what the next one adds.                                                 *)
(***************************************************************************)
LEMMA PrefixFacts ==
  ASSUME NEW S, NEW c \in Seq(S), NEW n \in 0..Len(c)
  PROVE  /\ SubSeq(c, 1, n) \in Seq(S) /\ Len(SubSeq(c, 1, n)) = n
         /\ \A i \in 1..n : SubSeq(c, 1, n)[i] = c[i]
         /\ \A i \in 0..n : SubSeq(SubSeq(c, 1, n), 1, i) = SubSeq(c, 1, i)
         /\ n < Len(c) => SubSeq(c, 1, n + 1) = Append(SubSeq(c, 1, n), c[n + 1])
         /\ SubSeq(c, 1, 0) = << >> /\ SubSeq(c, 1, Len(c)) = c
<1>1. /\ SubSeq(c, 1, n) \in Seq(S) /\ Len(SubSeq(c, 1, n)) = n
      /\ \A i \in 1..n : SubSeq(c, 1, n)[i] = c[i]
  BY SubSeqProperties
<1>2. \A i \in 0..n : SubSeq(SubSeq(c, 1, n), 1, i) = SubSeq(c, 1, i)
  OBVIOUS
<1>3. n < Len(c) => SubSeq(c, 1, n + 1) = Append(SubSeq(c, 1, n), c[n + 1])
  OBVIOUS
<1>4. SubSeq(c, 1, 0) = << >> /\ SubSeq(c, 1, Len(c)) = c
  BY SubSeqEmpty, SubSeqFull
<1> QED
  BY <1>1, <1>2, <1>3, <1>4

(***************************************************************************)
(* The tree under a position has the positions that continue it, and the   *)
(* nodes found there.                                                      *)
(***************************************************************************)
LEMMA AtFacts ==
  ASSUME NEW v, IsTree(v), NEW p \in Seq(Names)
  PROVE  /\ DOMAIN At(v, p) = { q \in Seq(Names) : p \o q \in DOMAIN v }
         /\ At(v, p) = [q \in DOMAIN At(v, p) |-> v[p \o q]]
<1>1. ASSUME NEW q \in DOMAIN At(v, p)
      PROVE  q \in Seq(Names) /\ p \o q \in DOMAIN v
  <2>1. PICK r \in DOMAIN v : IsPrefix(p, r) /\ q = SubSeq(r, Len(p) + 1, Len(r))
    BY DEF At
  <2>2. r \in Seq(Names)
    BY DEF IsTree
  <2>3. p \o q = r /\ q \in Seq(Names)
    BY <2>1, <2>2 DEF IsPrefix
  <2> QED
    BY <2>3
<1>2. ASSUME NEW q \in Seq(Names), p \o q \in DOMAIN v
      PROVE  q \in DOMAIN At(v, p)
  <2>1. IsPrefix(p, p \o q) /\ q = SubSeq(p \o q, Len(p) + 1, Len(p \o q))
    BY DEF IsPrefix
  <2> QED
    BY <1>2, <2>1 DEF At
<1>3. At(v, p) = [q \in DOMAIN At(v, p) |-> v[p \o q]]
  BY DEF At
<1> QED
  BY <1>1, <1>2, <1>3

(***************************************************************************)
(* FlattenSeq, by the function with which it is defined.                   *)
(***************************************************************************)
Flattens(p, g) == g = [i \in 1..Len(p) |-> IF i = 1 THEN p[i] ELSE g[i - 1] \o p[i]]

FlatOf(p) == CHOOSE g : Flattens(p, g)

(***************************************************************************)
(* Names are closed under concatenation, which is what joining with a dot  *)
(* is (diff.go:85-88).                                                     *)
(***************************************************************************)
LEMMA JoinedNames ==
  ASSUME NEW x \in Names, NEW y \in Names
  PROVE  x \o y \in Names /\ Len(x \o y) > 1
<1>1. x \in Seq(STRING) /\ y \in Seq(STRING) /\ Len(x) > 0 /\ Len(y) > 0
  BY EmptySeq DEF Names
<1>2. x \o y \in Seq(STRING) /\ Len(x \o y) = Len(x) + Len(y)
  BY <1>1
<1> QED
  BY <1>1, <1>2 DEF Names

(***************************************************************************)
(* The function with which FlattenSeq is defined exists, and its values    *)
(* are names.                                                              *)
(***************************************************************************)
LEMMA FlatExists ==
  ASSUME NEW p \in Seq(Names)
  PROVE  \E g \in [1..Len(p) -> Names] : Flattens(p, g)
<1> DEFINE Upto(n) == \E g \in [1..n -> Names] :
                         \A i \in 1..n : g[i] = IF i = 1 THEN p[i] ELSE g[i - 1] \o p[i]
           G == { n \in Nat : n <= Len(p) => Upto(n) }
<1>1. 0 \in G
  <2>1. PICK g \in [1..0 -> Names] : TRUE
    <3>1. [i \in 1..0 |-> p[1]] \in [1..0 -> Names]
      OBVIOUS
    <3> QED
      BY <3>1
  <2>2. \A i \in 1..0 : g[i] = IF i = 1 THEN p[i] ELSE g[i - 1] \o p[i]
    OBVIOUS
  <2>3. Upto(0)
    BY <2>1, <2>2
  <2> QED
    BY <2>3
<1>2. ASSUME NEW n \in G
      PROVE  n + 1 \in G
  <2> SUFFICES ASSUME n + 1 <= Len(p) PROVE Upto(n + 1)
    OBVIOUS
  <2>1. PICK g \in [1..n -> Names] :
          \A i \in 1..n : g[i] = IF i = 1 THEN p[i] ELSE g[i - 1] \o p[i]
    OBVIOUS
  <2> DEFINE last == IF n = 0 THEN p[1] ELSE g[n] \o p[n + 1]
             h    == [i \in 1..n + 1 |-> IF i = n + 1 THEN last ELSE g[i]]
  <2>2. last \in Names
    <3>1. p[n + 1] \in Names
      OBVIOUS
    <3>2. CASE n = 0
      BY <3>1, <3>2
    <3>3. CASE n # 0
      <4>1. g[n] \in Names
        BY <3>3
      <4>2. g[n] \o p[n + 1] \in Names
        BY <3>1, <4>1, JoinedNames
      <4> QED
        BY <3>3, <4>2
    <3> QED
      BY <3>2, <3>3
  <2>3. h \in [1..n + 1 -> Names]
    BY <2>2
  <2>4. ASSUME NEW i \in 1..n + 1
        PROVE  h[i] = IF i = 1 THEN p[i] ELSE h[i - 1] \o p[i]
    <3>1. CASE i = n + 1
      <4>1. h[i] = last
        BY <3>1
      <4>2. CASE n = 0
        BY <3>1, <4>1, <4>2
      <4>3. CASE n # 0
        <5>1. h[n] = g[n] /\ i - 1 = n /\ i # 1
          BY <3>1, <4>3
        <5> QED
          BY <3>1, <4>1, <4>3, <5>1
      <4> QED
        BY <4>2, <4>3
    <3>2. CASE i # n + 1
      <4>1. i \in 1..n
        BY <3>2
      <4>2. h[i] = g[i]
        BY <3>2
      <4>3. i # 1 => h[i - 1] = g[i - 1]
        BY <4>1
      <4> QED
        BY <2>1, <4>1, <4>2, <4>3
    <3> QED
      BY <3>1, <3>2
  <2> QED
    BY <2>3, <2>4
<1>3. G \in SUBSET Nat
  OBVIOUS
<1> HIDE DEF G
<1>4. \A n \in Nat : n \in G
  BY <1>1, <1>2, <1>3, SetInduction
<1>5. Len(p) \in Nat
  OBVIOUS
<1>6. Len(p) \in G
  BY <1>4, <1>5
<1> USE DEF G
<1>7. PICK g \in [1..Len(p) -> Names] :
        \A i \in 1..Len(p) : g[i] = IF i = 1 THEN p[i] ELSE g[i - 1] \o p[i]
  BY <1>6
<1>8. Flattens(p, g)
  BY <1>7 DEF Flattens
<1> QED
  BY <1>8

(***************************************************************************)
(* The function chosen in the definition of FlattenSeq satisfies its       *)
(* recursion.                                                              *)
(***************************************************************************)
LEMMA FlatFacts ==
  ASSUME NEW p \in Seq(Names)
  PROVE  \A i \in 1..Len(p) :
           FlatOf(p)[i] = IF i = 1 THEN p[i] ELSE FlatOf(p)[i - 1] \o p[i]
<1>1. Flattens(p, FlatOf(p))
  BY FlatExists DEF FlatOf
<1>2. PICK g : g = FlatOf(p)
  OBVIOUS
<1>3. \A i \in 1..Len(p) : g[i] = IF i = 1 THEN p[i] ELSE g[i - 1] \o p[i]
  BY <1>1, <1>2 DEF Flattens
<1> QED
  BY <1>2, <1>3

(***************************************************************************)
(* Flattening a position with one more key joins that key to the flattened *)
(* position.                                                               *)
(***************************************************************************)
LEMMA Flatten ==
  ASSUME NEW p \in Seq(Names), NEW k \in Names
  PROVE  FlattenSeq(Append(p, k)) = IF p = << >> THEN k ELSE FlattenSeq(p) \o k
<1>1. PICK q : q = Append(p, k)
  OBVIOUS
<1>2. q \in Seq(Names) /\ Len(q) = Len(p) + 1 /\ q[Len(q)] = k /\ \A i \in 1..Len(p) : q[i] = p[i]
  BY <1>1
<1>3. FlattenSeq(q) = FlatOf(q)[Len(q)] /\ (p # << >> => FlattenSeq(p) = FlatOf(p)[Len(p)])
  BY <1>2, EmptySeq DEF FlattenSeq, FlatOf, Flattens
<1>4. PICK g, h : g = FlatOf(p) /\ h = FlatOf(q)
  OBVIOUS
<1>5. /\ \A i \in 1..Len(p) : g[i] = IF i = 1 THEN p[i] ELSE g[i - 1] \o p[i]
      /\ \A i \in 1..Len(q) : h[i] = IF i = 1 THEN q[i] ELSE h[i - 1] \o q[i]
  BY <1>2, <1>4, FlatFacts
<1> DEFINE G == { n \in Nat : n \in 1..Len(p) => g[n] = h[n] }
<1>6. 0 \in G
  OBVIOUS
<1>7. ASSUME NEW n \in G PROVE n + 1 \in G
  <2> SUFFICES ASSUME n + 1 \in 1..Len(p) PROVE g[n + 1] = h[n + 1]
    OBVIOUS
  <2>1. n + 1 \in 1..Len(q) /\ q[n + 1] = p[n + 1]
    BY <1>2
  <2>2. CASE n = 0
    BY <1>5, <2>1, <2>2
  <2>3. CASE n # 0
    <3>1. g[n] = h[n]
      BY <2>3
    <3>2. g[n + 1] = g[n] \o p[n + 1]
      <4>1. (n + 1) - 1 = n /\ n + 1 # 1
        BY <2>3
      <4> QED
        BY <1>5, <4>1
    <3>3. h[n + 1] = h[n] \o q[n + 1]
      <4>1. (n + 1) - 1 = n /\ n + 1 # 1
        BY <2>3
      <4> QED
        BY <1>5, <2>1, <4>1
    <3> QED
      BY <2>1, <3>1, <3>2, <3>3
  <2> QED
    BY <2>2, <2>3
<1>8. G \in SUBSET Nat
  OBVIOUS
<1> HIDE DEF G
<1>9. \A n \in Nat : n \in G
  BY <1>6, <1>7, <1>8, SetInduction
<1>10. CASE p = << >>
  <2>1. Len(q) = 1
    BY <1>2, <1>10
  <2>2. h[1] = q[1]
    BY <1>5, <2>1
  <2> QED
    BY <1>1, <1>2, <1>3, <1>4, <1>10, <2>1, <2>2
<1>11. CASE p # << >>
  <2>1. Len(p) \in Nat /\ Len(p) > 0
    BY <1>11, EmptySeq
  <2>2. g[Len(p)] = h[Len(p)]
    <3>1. Len(p) \in G
      BY <1>9, <2>1
    <3> QED
      BY <2>1, <3>1 DEF G
  <2>3. h[Len(q)] = h[Len(p)] \o k
    <3>1. Len(q) \in 1..Len(q) /\ Len(q) # 1 /\ Len(q) - 1 = Len(p)
      BY <1>2, <2>1
    <3> QED
      BY <1>2, <1>5, <3>1
  <2> QED
    BY <1>1, <1>3, <1>4, <1>11, <2>2, <2>3
<1> QED
  BY <1>10, <1>11

(***************************************************************************)
(* A flattened position is a name.                                         *)
(***************************************************************************)
LEMMA FlattenType ==
  ASSUME NEW p \in Seq(Names), p # << >>
  PROVE  FlattenSeq(p) \in Names
<1>1. PICK g : g = FlatOf(p)
  OBVIOUS
<1>2. \A i \in 1..Len(p) : g[i] = IF i = 1 THEN p[i] ELSE g[i - 1] \o p[i]
  BY <1>1, FlatFacts
<1> DEFINE G == { n \in Nat : n \in 1..Len(p) => g[n] \in Names }
<1>3. 0 \in G
  OBVIOUS
<1>4. ASSUME NEW n \in G PROVE n + 1 \in G
  <2> SUFFICES ASSUME n + 1 \in 1..Len(p) PROVE g[n + 1] \in Names
    OBVIOUS
  <2>1. p[n + 1] \in Names
    OBVIOUS
  <2>2. CASE n = 0
    BY <1>2, <2>1, <2>2
  <2>3. CASE n # 0
    <3>1. g[n] \in Names
      BY <2>3
    <3>2. g[n + 1] = g[n] \o p[n + 1]
      <4>1. (n + 1) - 1 = n /\ n + 1 # 1
        BY <2>3
      <4> QED
        BY <1>2, <4>1
    <3>3. g[n] \o p[n + 1] \in Names
      BY <2>1, <3>1, JoinedNames
    <3> QED
      BY <3>2, <3>3
  <2> QED
    BY <2>2, <2>3
<1>5. G \in SUBSET Nat
  OBVIOUS
<1> HIDE DEF G
<1>6. \A n \in Nat : n \in G
  BY <1>3, <1>4, <1>5, SetInduction
<1>7. Len(p) \in Nat /\ Len(p) > 0
  BY EmptySeq
<1>8. Len(p) \in G
  BY <1>6, <1>7
<1>9. FlattenSeq(p) = g[Len(p)]
  BY <1>1, EmptySeq DEF FlattenSeq, FlatOf, Flattens
<1> QED
  BY <1>7, <1>8, <1>9 DEF G

(***************************************************************************)
(* The path of a frame, and of what it visits.                             *)
(***************************************************************************)
PathOf(p) == IF p = << >> THEN EmptyString ELSE FlattenSeq(p)

(***************************************************************************)
(* The path that collectDiff gives a key is the flattened position of that *)
(* key, unless the first key on the way to it is empty (diff.go:85-88).    *)
(***************************************************************************)
LEMMA PathStep ==
  ASSUME NEW p \in Seq(Names), NEW k \in Names, p = << >> \/ p[1] # EmptyString
  PROVE  Join(PathOf(p), k) = FlattenSeq(Append(p, k))
<1>1. CASE p = << >>
  BY <1>1, Flatten DEF Join, PathOf
<1>2. CASE p # << >>
  <2>1. PICK n \in Nat : n = Len(p) - 1 /\ n < Len(p)
    <3>1. Len(p) \in Nat /\ Len(p) # 0
      BY <1>2, EmptySeq
    <3>2. Len(p) - 1 \in Nat /\ Len(p) - 1 < Len(p)
      BY <3>1
    <3> QED
      BY <3>2
  <2>2. PICK q, l : q = SubSeq(p, 1, n) /\ l = p[n + 1]
    OBVIOUS
  <2>3. p = Append(q, l) /\ q \in Seq(Names) /\ l \in Names
    BY <2>1, <2>2, PrefixFacts
  <2>4. FlattenSeq(p) = IF q = << >> THEN l ELSE FlattenSeq(q) \o l
    BY <2>3, Flatten
  <2>5. FlattenSeq(p) # EmptyString
    <3>1. CASE q = << >>
      <4>1. p[1] = l
        <5>1. p = Append(<< >>, l)
          BY <2>3, <3>1
        <5> QED
          BY <5>1
      <4> QED
        BY <1>2, <2>4, <3>1, <4>1
    <3>2. CASE q # << >>
      <4>1. FlattenSeq(q) \in Names
        BY <2>3, <3>2, FlattenType
      <4>2. Len(FlattenSeq(q) \o l) > 1
        BY <2>3, <4>1, JoinedNames
      <4>3. Len(EmptyString) = 1
        BY DEF EmptyString
      <4> QED
        BY <2>4, <3>2, <4>2, <4>3
    <3> QED
      BY <3>1, <3>2
  <2> QED
    BY <1>2, <2>5, Flatten DEF Join, PathOf
<1> QED
  BY <1>1, <1>2

(***************************************************************************)
(* The position of an object.                                              *)
(***************************************************************************)
HasObject(v, p) == p \in DOMAIN v /\ v[p].kind = "object"

(***************************************************************************)
(* The tree under its own root is the tree.                                *)
(***************************************************************************)
LEMMA Root ==
  ASSUME NEW v, IsTree(v)
  PROVE  At(v, << >>) = v
<1>1. << >> \in Seq(Names)
  OBVIOUS
<1>2. /\ DOMAIN At(v, << >>) = { q \in Seq(Names) : << >> \o q \in DOMAIN v }
      /\ At(v, << >>) = [q \in DOMAIN At(v, << >>) |-> v[<< >> \o q]]
  BY <1>1, AtFacts
<1>3. \A q \in Seq(Names) : << >> \o q = q
  BY ConcatEmptySeq
<1>4. DOMAIN v \subseteq Seq(Names) /\ v = [q \in DOMAIN v |-> v[q]]
  BY DEF IsTree
<1> QED
  BY <1>2, <1>3, <1>4

(***************************************************************************)
(* A tree has the position above each of its positions.                    *)
(***************************************************************************)
LEMMA PrefixIn ==
  ASSUME NEW v, IsTree(v), NEW p \in Seq(Names), NEW q \in Seq(Names), p \o q \in DOMAIN v
  PROVE  p \in DOMAIN v
<1>1. Len(p) \in 0..Len(p \o q) /\ SubSeq(p \o q, 1, Len(p)) = p
  OBVIOUS
<1> QED
  BY <1>1 DEF IsTree

(***************************************************************************)
(* Under a position that a tree does not have, nothing is found.           *)
(***************************************************************************)
LEMMA AtAbsent ==
  ASSUME NEW v, IsTree(v), NEW p \in Seq(Names), p \notin DOMAIN v
  PROVE  At(v, p) = Absent
<1>1. DOMAIN At(v, p) = {}
  <2>1. ASSUME NEW q \in DOMAIN At(v, p) PROVE FALSE
    <3>1. DOMAIN At(v, p) = { r \in Seq(Names) : p \o r \in DOMAIN v }
      BY AtFacts
    <3>2. q \in Seq(Names) /\ p \o q \in DOMAIN v
      BY <3>1
    <3> QED
      BY <3>2, PrefixIn
  <2> QED
    BY <2>1
<1>2. At(v, p) = [q \in DOMAIN At(v, p) |-> v[p \o q]]
  BY AtFacts
<1>3. At(v, p) = [q \in {} |-> v[p \o q]]
  BY <1>1, <1>2
<1> QED
  BY <1>3 DEF Absent

(***************************************************************************)
(* Under a position of a tree there is a tree, whose root is the node at   *)
(* that position.                                                          *)
(***************************************************************************)
LEMMA AtPresent ==
  ASSUME NEW v, IsTree(v), NEW p \in DOMAIN v
  PROVE  /\ At(v, p) # Absent
         /\ At(v, p)[<< >>] = v[p]
         /\ IsTree(At(v, p))
<1>1. p \in Seq(Names) /\ p \o << >> = p
  BY ConcatEmptySeq DEF IsTree
<1>2. PICK w : w = At(v, p)
  OBVIOUS
<1>3. /\ DOMAIN w = { q \in Seq(Names) : p \o q \in DOMAIN v }
      /\ w = [q \in DOMAIN w |-> v[p \o q]]
  BY <1>1, <1>2, AtFacts
<1>4. << >> \in DOMAIN w
  BY <1>1, <1>3
<1>5. w[<< >>] = v[p]
  BY <1>1, <1>3, <1>4
<1>6. w # Absent
  BY <1>4 DEF Absent
<1>7. w = [q \in DOMAIN w |-> w[q]]
  BY <1>3
<1>8. ASSUME NEW q \in DOMAIN w
      PROVE  /\ q \in Seq(Names) /\ w[q] \in Nodes
             /\ \A i \in 0..Len(q) : SubSeq(q, 1, i) \in DOMAIN w
  <2>1. q \in Seq(Names) /\ p \o q \in DOMAIN v /\ w[q] = v[p \o q]
    BY <1>3
  <2>2. w[q] \in Nodes
    BY <2>1 DEF IsTree
  <2>3. ASSUME NEW i \in 0..Len(q) PROVE SubSeq(q, 1, i) \in DOMAIN w
    <3>1. PICK r : r = SubSeq(q, 1, i)
      OBVIOUS
    <3>2. r \in Seq(Names)
      BY <2>1, <3>1, PrefixFacts
    <3>3. Len(p) + i \in 0..Len(p \o q) /\ SubSeq(p \o q, 1, Len(p) + i) = p \o r
      BY <1>1, <2>1, <3>1
    <3>4. p \o r \in DOMAIN v
      BY <2>1, <3>3 DEF IsTree
    <3> QED
      BY <1>3, <3>1, <3>2, <3>4
  <2> QED
    BY <2>1, <2>2, <2>3
<1>9. IsTree(w)
  BY <1>4, <1>7, <1>8 DEF IsTree
<1> QED
  BY <1>2, <1>5, <1>6, <1>9

(***************************************************************************)
(* A key of the tree under a position is the position with that key        *)
(* appended: what collectDiff looks up in its arguments is what the        *)
(* snapshots have (diff.go:89-90).                                         *)
(***************************************************************************)
LEMMA AtAt ==
  ASSUME NEW v, IsTree(v), NEW p \in DOMAIN v, NEW k \in Names
  PROVE  At(At(v, p), <<k>>) = At(v, Append(p, k))
<1>1. p \in Seq(Names) /\ <<k>> \in Seq(Names) /\ Append(p, k) \in Seq(Names)
  BY DEF IsTree
<1>2. PICK w, q : w = At(v, p) /\ q = Append(p, k)
  OBVIOUS
<1>3. IsTree(w) /\ DOMAIN w = { r \in Seq(Names) : p \o r \in DOMAIN v }
      /\ w = [r \in DOMAIN w |-> v[p \o r]]
  BY <1>1, <1>2, AtFacts, AtPresent
<1>4. PICK x, y : x = At(w, <<k>>) /\ y = At(v, q)
  OBVIOUS
<1>5. /\ DOMAIN x = { r \in Seq(Names) : <<k>> \o r \in DOMAIN w }
      /\ x = [r \in DOMAIN x |-> w[<<k>> \o r]]
  <2>1. PICK l \in Seq(Names) : l = <<k>>
    BY <1>1
  <2>2. IsTree(w) /\ x = At(w, l)
    BY <1>3, <1>4, <2>1
  <2>3. DOMAIN x = { r \in Seq(Names) : l \o r \in DOMAIN w } /\ x = [r \in DOMAIN x |-> w[l \o r]]
    BY <2>2, AtFacts
  <2> QED
    BY <2>1, <2>3
<1>6. /\ DOMAIN y = { r \in Seq(Names) : q \o r \in DOMAIN v }
      /\ y = [r \in DOMAIN y |-> v[q \o r]]
  <2>1. q \in Seq(Names)
    BY <1>1, <1>2
  <2> QED
    BY <1>4, <2>1, AtFacts
<1>7. \A r \in Seq(Names) : <<k>> \o r \in Seq(Names) /\ p \o (<<k>> \o r) = q \o r
  BY <1>1, <1>2
<1>8. DOMAIN x = DOMAIN y
  BY <1>3, <1>5, <1>6, <1>7
<1>9. \A r \in DOMAIN x : w[<<k>> \o r] = v[q \o r]
  BY <1>3, <1>5, <1>7
<1> QED
  BY <1>2, <1>4, <1>5, <1>6, <1>8, <1>9

(***************************************************************************)
(* The keys of a tree are its positions of length one.                     *)
(***************************************************************************)
LEMMA KeysFacts ==
  ASSUME NEW v, IsTree(v)
  PROVE  Keys(v) = { k \in Names : <<k>> \in DOMAIN v }
<1>1. ASSUME NEW k \in Keys(v)
      PROVE  k \in Names /\ <<k>> \in DOMAIN v
  <2>1. PICK p \in DOMAIN v \ {<< >>} : k = p[1]
    BY DEF Keys
  <2>2. p \in Seq(Names) /\ Len(p) \in Nat /\ Len(p) # 0
    BY <2>1, EmptySeq DEF IsTree
  <2>3. 1 \in 0..Len(p) /\ p[1] \in Names
    BY <2>2
  <2>4. SubSeq(p, 1, 1) = <<p[1]>>
    <3>1. 0 \in 0..Len(p) /\ 0 < Len(p)
      BY <2>2
    <3>2. SubSeq(p, 1, 0 + 1) = Append(SubSeq(p, 1, 0), p[0 + 1]) /\ SubSeq(p, 1, 0) = << >>
      BY <2>2, <3>1, PrefixFacts
    <3>3. 0 + 1 = 1 /\ Append(<< >>, p[1]) = <<p[1]>>
      OBVIOUS
    <3>4. SubSeq(p, 1, 1) = Append(<< >>, p[1])
      BY ONLY <3>2, 0 + 1 = 1
    <3> QED
      BY <3>3, <3>4
  <2> QED
    BY <2>1, <2>3, <2>4 DEF IsTree
<1>2. ASSUME NEW k \in Names, <<k>> \in DOMAIN v
      PROVE  k \in Keys(v)
  <2>1. <<k>> # << >> /\ <<k>>[1] = k
    OBVIOUS
  <2> QED
    BY <1>2, <2>1 DEF Keys
<1> QED
  BY <1>1, <1>2

(***************************************************************************)
(* The keys of the tree under a position are those that continue the       *)
(* position.                                                               *)
(***************************************************************************)
LEMMA KeysAt ==
  ASSUME NEW v, IsTree(v), NEW p \in DOMAIN v
  PROVE  Keys(At(v, p)) = { k \in Names : Append(p, k) \in DOMAIN v }
<1>1. p \in Seq(Names)
  BY DEF IsTree
<1>2. PICK w : w = At(v, p)
  OBVIOUS
<1>3. IsTree(w) /\ DOMAIN w = { r \in Seq(Names) : p \o r \in DOMAIN v }
  BY <1>1, <1>2, AtFacts, AtPresent
<1>4. \A k \in Names : <<k>> \in Seq(Names) /\ p \o <<k>> = Append(p, k)
  BY <1>1
<1>5. Keys(w) = { k \in Names : <<k>> \in DOMAIN w }
  BY <1>3, KeysFacts
<1> QED
  BY <1>2, <1>3, <1>4, <1>5

(***************************************************************************)
(* A field is taken for an object exactly when the snapshot has an object  *)
(* at its position: neither an absent field nor a null is one.             *)
(***************************************************************************)
LEMMA ObjectAt ==
  ASSUME NEW v, IsTree(v), NEW p \in Seq(Names)
  PROVE  Kind(ValueOrNil(At(v, p))) = "object" <=> HasObject(v, p)
<1>1. CASE p \in DOMAIN v
  BY <1>1, AtPresent DEF Kind, ValueOrNil, HasObject
<1>2. CASE p \notin DOMAIN v
  <2>1. Kind(Null) # "object"
    BY DEF Kind, Null, Tree
  <2> QED
    BY <1>2, <2>1, AtAbsent DEF ValueOrNil, HasObject
<1> QED
  BY <1>1, <1>2

(***************************************************************************)
(* Two snapshots have an object in common at a position exactly when both  *)
(* have one there.                                                         *)
(***************************************************************************)
LEMMA CommonObjects ==
  ASSUME NEW b, NEW a, IsTree(b), IsTree(a), NEW p \in Seq(Names)
  PROVE  Common(b, a, p) <=> HasObject(b, p) /\ HasObject(a, p)
BY ObjectAt DEF Common, BothObjects

SameAt(b, a, p) == (p \in DOMAIN b <=> p \in DOMAIN a) /\ (p \in DOMAIN b => b[p] = a[p])

(***************************************************************************)
(* Where the trees under a position are equal, they have the same nodes.   *)
(***************************************************************************)
LEMMA SameBelow ==
  ASSUME NEW b, NEW a, IsTree(b), IsTree(a), NEW p \in Seq(Names), NEW q \in Seq(Names)
  PROVE  At(b, p) = At(a, p) => SameAt(b, a, p \o q)
<1> SUFFICES ASSUME At(b, p) = At(a, p) PROVE SameAt(b, a, p \o q)
  OBVIOUS
<1>1. PICK x, y : x = At(b, p) /\ y = At(a, p)
  OBVIOUS
<1>2. DOMAIN x = { r \in Seq(Names) : p \o r \in DOMAIN b } /\ x = [r \in DOMAIN x |-> b[p \o r]]
  BY <1>1, AtFacts
<1>3. DOMAIN y = { r \in Seq(Names) : p \o r \in DOMAIN a } /\ y = [r \in DOMAIN y |-> a[p \o r]]
  BY <1>1, AtFacts
<1>4. x = y
  BY <1>1
<1>5. p \o q \in DOMAIN b <=> p \o q \in DOMAIN a
  BY <1>2, <1>3, <1>4
<1>6. ASSUME p \o q \in DOMAIN b PROVE b[p \o q] = a[p \o q]
  <2>1. q \in DOMAIN x
    BY <1>2, <1>6
  <2>2. x[q] = b[p \o q]
    BY <1>2, <2>1
  <2>3. y[q] = a[p \o q]
    BY <1>3, <1>4, <2>1
  <2> QED
    BY <1>4, <2>2, <2>3
<1> QED
  BY <1>5, <1>6 DEF SameAt

-----------------------------------------------------------------------------
(***************************************************************************)
(* The calls of collectDiff, as frames at the positions they visit.  What  *)
(* a walk over the snapshots b and a promises of a change: a frame is      *)
(* still to visit a key on the way to it, or it is in the map.             *)
(***************************************************************************)
Pair(b, a) == IsTree(b) /\ IsTree(a) /\ HasObject(b, << >>) /\ HasObject(a, << >>)

NoEmptyKey(b, a) == EmptyString \notin Keys(b) \cup Keys(a)

InObjects(b, a, p) == \A i \in 0..Len(p) : Common(b, a, SubSeq(p, 1, i))

Below(b, a, p) == { k \in Names : Append(p, k) \in DOMAIN b \cup DOMAIN a }

FrameOf(b, a, f, p) ==
  /\ p \in Seq(Names)
  /\ InObjects(b, a, p)
  /\ f.seen \subseteq Below(b, a, p)
  /\ f = [prefix |-> f.prefix, before |-> At(b, p), after |-> At(a, p), seen |-> f.seen]
  /\ NoEmptyKey(b, a) => f.prefix = PathOf(p)

Without(f, k) == [f EXCEPT !.seen = @ \ {k}]

PendingIn(b, a, f, c, n) == FrameOf(b, a, f, SubSeq(c, 1, n)) /\ c[n + 1] \in f.seen

Pending(b, a, F, c) == \E f \in F, n \in 0..Len(c) - 1 : PendingIn(b, a, f, c, n)

PendingAfter(b, a, F, f, k, c) ==
  \/ Pending(b, a, F \cup {Without(f, k)}, c)
  \/ \E n \in 0..Len(c) - 1 : PendingIn(b, a, f, c, n) /\ c[n + 1] = k

Recorded(b, a, d, c) == DOMAIN d # {} /\ (NoEmptyKey(b, a) => FlattenSeq(c) \in DOMAIN d)

Values(b, a, c) == [before |-> ValueOrNil(At(b, c)), after |-> ValueOrNil(At(a, c))]

Right(b, a, d, path) ==
  \E c \in Changes(b, a) : NoEmptyKey(b, a) => FlattenSeq(c) = path /\ d[path] = Values(b, a, c)

Walk(b, a, F, d) ==
  /\ \A f \in F : \E p : FrameOf(b, a, f, p)
  /\ \A c \in Changes(b, a) : Pending(b, a, F, c) \/ Recorded(b, a, d, c)
  /\ \A path \in DOMAIN d : Right(b, a, d, path)

(***************************************************************************)
(* A change: its position is not the root, every position above it has an  *)
(* object in both snapshots, and itself it has not.                        *)
(***************************************************************************)
LEMMA ChangeFacts ==
  ASSUME NEW b, NEW a, Pair(b, a), NEW c \in Changes(b, a)
  PROVE  /\ c \in Seq(Names) /\ Len(c) \in Nat /\ Len(c) # 0
         /\ \A i \in 0..Len(c) - 1 : Common(b, a, SubSeq(c, 1, i))
         /\ ~Common(b, a, c) /\ At(b, c) # At(a, c)
         /\ \A i \in 0..Len(c) : SubSeq(c, 1, i) \in DOMAIN b \cup DOMAIN a
<1>1. c \in (DOMAIN b \cup DOMAIN a) \ {<< >>}
  BY DEF Changes
<1>2. c \in Seq(Names)
  BY <1>1 DEF Pair, IsTree
<1>3. Len(c) \in Nat /\ Len(c) # 0
  BY <1>1, <1>2, EmptySeq
<1>4. \A i \in 0..Len(c) : SubSeq(c, 1, i) \in DOMAIN b \cup DOMAIN a
  BY <1>1 DEF Pair, IsTree
<1> QED
  BY <1>2, <1>3, <1>4 DEF Changes

(***************************************************************************)
(* A position with nothing but common objects on the way is a position of  *)
(* both snapshots.                                                         *)
(***************************************************************************)
LEMMA CommonPresent ==
  ASSUME NEW b, NEW a, Pair(b, a), NEW p \in Seq(Names), InObjects(b, a, p)
  PROVE  p \in DOMAIN b /\ p \in DOMAIN a
<1>1. Len(p) \in 0..Len(p) /\ SubSeq(p, 1, Len(p)) = p
  BY PrefixFacts
<1>2. Common(b, a, p)
  BY <1>1 DEF InObjects
<1> QED
  BY <1>2, CommonObjects DEF Pair, HasObject

(***************************************************************************)
(* A recursive call of collectDiff starts with every key that either       *)
(* object has (diff.go:75-82).                                             *)
(***************************************************************************)
LEMMA NewFrame ==
  ASSUME NEW b, NEW a, Pair(b, a), NEW p \in Seq(Names), InObjects(b, a, p),
         NEW path, NoEmptyKey(b, a) => path = PathOf(p)
  PROVE  /\ FrameOf(b, a, Frame(path, At(b, p), At(a, p)), p)
         /\ Frame(path, At(b, p), At(a, p)).seen = Below(b, a, p)
<1>1. p \in DOMAIN b /\ p \in DOMAIN a /\ IsTree(b) /\ IsTree(a)
  BY CommonPresent DEF Pair
<1>2. Keys(At(b, p)) \cup Keys(At(a, p)) = Below(b, a, p)
  BY <1>1, KeysAt DEF Below
<1> QED
  BY <1>2 DEF Frame, FrameOf

(***************************************************************************)
(* What a frame reads of a key, and the path it gives it, are those of the *)
(* position of the key in the snapshots (diff.go:85-90).                   *)
(***************************************************************************)
LEMMA Visited ==
  ASSUME NEW b, NEW a, Pair(b, a), NEW f, NEW p, FrameOf(b, a, f, p), NEW k \in f.seen
  PROVE  /\ k \in Names /\ Append(p, k) \in DOMAIN b \cup DOMAIN a
         /\ At(f.before, <<k>>) = At(b, Append(p, k))
         /\ At(f.after, <<k>>) = At(a, Append(p, k))
         /\ NoEmptyKey(b, a) => Join(f.prefix, k) = FlattenSeq(Append(p, k))
<1>1. p \in Seq(Names) /\ k \in Names /\ Append(p, k) \in DOMAIN b \cup DOMAIN a
  BY DEF FrameOf, Below
<1>2. p \in DOMAIN b /\ p \in DOMAIN a /\ IsTree(b) /\ IsTree(a)
  BY <1>1, CommonPresent DEF Pair, FrameOf
<1>3. f.before = At(b, p) /\ f.after = At(a, p)
  BY DEF FrameOf
<1>4. At(f.before, <<k>>) = At(b, Append(p, k)) /\ At(f.after, <<k>>) = At(a, Append(p, k))
  BY <1>1, <1>2, <1>3, AtAt
<1>5. ASSUME NoEmptyKey(b, a)
      PROVE  Join(f.prefix, k) = FlattenSeq(Append(p, k))
  <2>1. p = << >> \/ p[1] # EmptyString
    <3>1. p # << >> => p[1] \in Keys(b)
      BY <1>2 DEF Keys
    <3> QED
      BY <1>5, <3>1 DEF NoEmptyKey
  <2>2. f.prefix = PathOf(p)
    BY <1>5 DEF FrameOf
  <2> QED
    BY <1>1, <2>1, <2>2, PathStep
<1> QED
  BY <1>1, <1>4, <1>5

(***************************************************************************)
(* A frame that has visited a key is still a frame at the same position.   *)
(***************************************************************************)
LEMMA FrameLeft ==
  ASSUME NEW b, NEW a, NEW f, NEW p, FrameOf(b, a, f, p), NEW k
  PROVE  /\ FrameOf(b, a, Without(f, k), p)
         /\ Without(f, k).seen = f.seen \ {k}
<1>1. f = [prefix |-> f.prefix, before |-> At(b, p), after |-> At(a, p), seen |-> f.seen]
  BY DEF FrameOf
<1>2. Without(f, k)
        = [prefix |-> f.prefix, before |-> At(b, p), after |-> At(a, p), seen |-> f.seen \ {k}]
  BY <1>1 DEF Without
<1> QED
  BY <1>2 DEF FrameOf

(***************************************************************************)
(* When a frame has visited a key, a change that was pending is still      *)
(* pending, or it was pending at that frame for that key.                  *)
(***************************************************************************)
LEMMA StillPending ==
  ASSUME NEW b, NEW a, NEW G, NEW f, NEW k, NEW c, Pending(b, a, G \cup {f}, c)
  PROVE  PendingAfter(b, a, G, f, k, c)
<1> USE DEF PendingAfter
<1>1. PICK e \in G \cup {f}, n \in 0..Len(c) - 1 : PendingIn(b, a, e, c, n)
  BY DEF Pending
<1>2. CASE e \in G
  BY <1>1, <1>2 DEF Pending
<1>3. CASE e = f /\ c[n + 1] = k
  BY <1>1, <1>3
<1>4. CASE e = f /\ c[n + 1] # k
  <2>1. PICK g : g = Without(f, k)
    OBVIOUS
  <2>2. FrameOf(b, a, g, SubSeq(c, 1, n)) /\ g.seen = f.seen \ {k}
    <3>1. PICK p : p = SubSeq(c, 1, n)
      OBVIOUS
    <3>2. FrameOf(b, a, f, p)
      BY <1>1, <1>4, <3>1 DEF PendingIn
    <3>3. /\ FrameOf(b, a, Without(f, k), p)
          /\ Without(f, k).seen = f.seen \ {k}
      BY <3>2, FrameLeft
    <3> QED
      BY <2>1, <3>1, <3>3
  <2>3. PendingIn(b, a, g, c, n)
    BY <1>1, <1>4, <2>2 DEF PendingIn
  <2> QED
    BY <2>1, <2>3 DEF Pending
<1> QED
  BY <1>1, <1>2, <1>3, <1>4

(***************************************************************************)
(* The steps on the way to a change: every position before the last one    *)
(* has a common object, and the last one is the change.                    *)
(***************************************************************************)
LEMMA ThroughKey ==
  ASSUME NEW b, NEW a, Pair(b, a), NEW c \in Changes(b, a), NEW n \in 0..Len(c) - 1
  PROVE  /\ n + 1 \in 0..Len(c) /\ c[n + 1] \in Names
         /\ SubSeq(c, 1, n) \in Seq(Names)
         /\ SubSeq(c, 1, n + 1) = Append(SubSeq(c, 1, n), c[n + 1])
         /\ n + 1 # Len(c) => n + 1 \in 0..Len(c) - 1 /\ InObjects(b, a, SubSeq(c, 1, n + 1))
         /\ n + 1 = Len(c) => SubSeq(c, 1, n + 1) = c
<1>1. c \in Seq(Names) /\ Len(c) \in Nat /\ n \in 0..Len(c) /\ n < Len(c) /\ n + 1 \in 0..Len(c)
  BY ChangeFacts
<1>2. /\ SubSeq(c, 1, n) \in Seq(Names)
      /\ SubSeq(c, 1, n + 1) = Append(SubSeq(c, 1, n), c[n + 1])
      /\ SubSeq(c, 1, Len(c)) = c
  BY <1>1, PrefixFacts
<1>3. c[n + 1] \in Names
  BY <1>1
<1>4. ASSUME n + 1 # Len(c)
      PROVE  n + 1 \in 0..Len(c) - 1 /\ InObjects(b, a, SubSeq(c, 1, n + 1))
  <2>1. PICK m : m = n + 1
    OBVIOUS
  <2>2. m \in 0..Len(c) /\ m \in 0..Len(c) - 1
    BY <1>1, <1>4, <2>1
  <2>3. Len(SubSeq(c, 1, m)) = m /\ \A i \in 0..m : SubSeq(SubSeq(c, 1, m), 1, i) = SubSeq(c, 1, i)
    BY <1>1, <2>2, PrefixFacts
  <2>4. \A i \in 0..m : i \in 0..Len(c) - 1
    BY <1>1, <2>2
  <2>5. InObjects(b, a, SubSeq(c, 1, m))
    BY <2>3, <2>4, ChangeFacts DEF InObjects
  <2> QED
    BY <2>1, <2>2, <2>5
<1> QED
  BY <1>1, <1>2, <1>3, <1>4

(***************************************************************************)
(* When a frame has visited a key, every frame still has a position.       *)
(***************************************************************************)
LEMMA FramesLeft ==
  ASSUME NEW b, NEW a, NEW G, NEW f, NEW d, Walk(b, a, G \cup {f}, d), NEW k
  PROVE  \A g \in G \cup {Without(f, k)} : \E p : FrameOf(b, a, g, p)
<1>1. PICK p : FrameOf(b, a, f, p)
  BY DEF Walk
<1>2. FrameOf(b, a, Without(f, k), p)
  BY <1>1, FrameLeft
<1>3. \A g \in G : \E q : FrameOf(b, a, g, q)
  BY DEF Walk
<1> QED
  BY <1>2, <1>3

(***************************************************************************)
(* A key at which both snapshots have an object: the new frame takes over  *)
(* every change below it (diff.go:92-97).                                  *)
(***************************************************************************)
LEMMA VisitObjects ==
  ASSUME NEW b, NEW a, Pair(b, a), NEW G, NEW f, NEW d, Walk(b, a, G \cup {f}, d),
         NEW k \in f.seen, BothObjects(At(f.before, <<k>>), At(f.after, <<k>>))
  PROVE  Walk(b, a,
              (G \cup {Without(f, k)})
                \cup {Frame(Join(f.prefix, k), At(f.before, <<k>>), At(f.after, <<k>>))}, d)
<1>1. PICK g, h : /\ g = Without(f, k)
                  /\ h = Frame(Join(f.prefix, k), At(f.before, <<k>>), At(f.after, <<k>>))
  OBVIOUS
<1>2. ASSUME NEW p, FrameOf(b, a, f, p)
      PROVE  /\ FrameOf(b, a, h, Append(p, k)) /\ h.seen = Below(b, a, Append(p, k))
             /\ k \in Names /\ p \in Seq(Names)
  <2>1. /\ k \in Names
        /\ At(f.before, <<k>>) = At(b, Append(p, k)) /\ At(f.after, <<k>>) = At(a, Append(p, k))
        /\ NoEmptyKey(b, a) => Join(f.prefix, k) = FlattenSeq(Append(p, k))
    BY <1>2, Visited
  <2>2. p \in Seq(Names) /\ InObjects(b, a, p)
    BY <1>2 DEF FrameOf
  <2>3. PICK q : q = Append(p, k)
    OBVIOUS
  <2>4. q \in Seq(Names) /\ Len(q) = Len(p) + 1 /\ q # << >>
    BY <2>1, <2>2, <2>3
  <2>5. InObjects(b, a, q)
    <3>1. Common(b, a, q)
      BY <2>1, <2>3 DEF Common
    <3>2. ASSUME NEW i \in 0..Len(q) PROVE Common(b, a, SubSeq(q, 1, i))
      <4>1. CASE i = Len(q)
        BY <2>4, <3>1, <4>1, PrefixFacts
      <4>2. CASE i # Len(q)
        <5>1. i \in 0..Len(p)
          BY <2>2, <2>4, <4>2
        <5>2. SubSeq(q, 1, i) = SubSeq(p, 1, i)
          BY <2>1, <2>2, <2>3, <5>1
        <5> QED
          BY <2>2, <5>1, <5>2 DEF InObjects
      <4> QED
        BY <4>1, <4>2
    <3> QED
      BY <3>2 DEF InObjects
  <2>6. PICK path : path = Join(f.prefix, k)
    OBVIOUS
  <2>7. NoEmptyKey(b, a) => path = PathOf(q)
    BY <2>1, <2>3, <2>4, <2>6 DEF PathOf
  <2>8. h = Frame(path, At(b, q), At(a, q))
    BY <1>1, <2>1, <2>3, <2>6
  <2>9. FrameOf(b, a, h, q) /\ h.seen = Below(b, a, q)
    BY <2>4, <2>5, <2>7, <2>8, NewFrame
  <2> QED
    BY <2>1, <2>2, <2>3, <2>9
<1>3. \A e \in (G \cup {g}) \cup {h} : \E p : FrameOf(b, a, e, p)
  <2>1. \A e \in G \cup {g} : \E p : FrameOf(b, a, e, p)
    BY <1>1, FramesLeft
  <2>2. PICK p : FrameOf(b, a, f, p)
    BY DEF Walk
  <2>3. FrameOf(b, a, h, Append(p, k))
    BY <1>2, <2>2
  <2> QED
    BY <2>1, <2>3
<1>4. ASSUME NEW c \in Changes(b, a), ~Recorded(b, a, d, c)
      PROVE  Pending(b, a, (G \cup {g}) \cup {h}, c)
  <2>1. Pending(b, a, G \cup {f}, c)
    BY <1>4 DEF Walk
  <2>2. CASE Pending(b, a, G \cup {g}, c)
    BY <2>2 DEF Pending
  <2>3. CASE \E n \in 0..Len(c) - 1 : PendingIn(b, a, f, c, n) /\ c[n + 1] = k
    <3>1. PICK n \in 0..Len(c) - 1 : PendingIn(b, a, f, c, n) /\ c[n + 1] = k
      BY <2>3
    <3>2. PICK p, q, m : p = SubSeq(c, 1, n) /\ q = SubSeq(c, 1, n + 1) /\ m = n + 1
      OBVIOUS
    <3>3. /\ q = Append(p, k) /\ m \in 0..Len(c)
          /\ m # Len(c) => m \in 0..Len(c) - 1
          /\ m = Len(c) => q = c
      BY <3>1, <3>2, ThroughKey
    <3>4. FrameOf(b, a, h, q) /\ h.seen = Below(b, a, q)
      BY <1>2, <3>1, <3>2, <3>3 DEF PendingIn
    <3>5. m # Len(c)
      <4>1. SUFFICES ASSUME q = c PROVE FALSE
        BY <3>3
      <4>2. q \in Seq(Names) /\ InObjects(b, a, q)
        BY <3>4 DEF FrameOf
      <4>3. Common(b, a, q)
        <5>1. Len(q) \in 0..Len(q) /\ SubSeq(q, 1, Len(q)) = q
          BY <4>2, PrefixFacts
        <5> QED
          BY <4>2, <5>1 DEF InObjects
      <4> QED
        BY <4>1, <4>3, ChangeFacts
    <3>6. m \in 0..Len(c) - 1 /\ c[m + 1] \in h.seen
      <4>1. m \in 0..Len(c) - 1
        BY <3>3, <3>5
      <4>2. /\ m + 1 \in 0..Len(c) /\ c[m + 1] \in Names
            /\ SubSeq(c, 1, m + 1) = Append(SubSeq(c, 1, m), c[m + 1])
        BY <4>1, ThroughKey
      <4>3. SubSeq(c, 1, m + 1) \in DOMAIN b \cup DOMAIN a
        BY <4>2, ChangeFacts
      <4> QED
        BY <3>2, <3>4, <4>1, <4>2, <4>3 DEF Below
    <3>7. PendingIn(b, a, h, c, m)
      BY <3>2, <3>4, <3>6 DEF PendingIn
    <3> QED
      BY <3>6, <3>7 DEF Pending
  <2>4. \/ Pending(b, a, G \cup {Without(f, k)}, c)
        \/ \E n \in 0..Len(c) - 1 : PendingIn(b, a, f, c, n) /\ c[n + 1] = k
    <3>1. PendingAfter(b, a, G, f, k, c)
      BY <2>1, StillPending
    <3> QED
      BY <3>1 DEF PendingAfter
  <2> QED
    BY <1>1, <2>2, <2>3, <2>4
<1>5. \A path \in DOMAIN d : Right(b, a, d, path)
  BY DEF Walk
<1>6. Walk(b, a, (G \cup {g}) \cup {h}, d)
  BY <1>3, <1>4, <1>5 DEF Walk
<1> QED
  BY <1>1, <1>6

(***************************************************************************)
(* A key that both have with the same value: no change is at it or below   *)
(* it (diff.go:99-101).                                                    *)
(***************************************************************************)
LEMMA VisitUnchanged ==
  ASSUME NEW b, NEW a, Pair(b, a), NEW G, NEW f, NEW d, Walk(b, a, G \cup {f}, d),
         NEW k \in f.seen, ~BothObjects(At(f.before, <<k>>), At(f.after, <<k>>)),
         UnchangedField(At(f.before, <<k>>), At(f.after, <<k>>))
  PROVE  Walk(b, a, G \cup {Without(f, k)}, d)
<1>1. ASSUME NEW c \in Changes(b, a), ~Recorded(b, a, d, c)
      PROVE  Pending(b, a, G \cup {Without(f, k)}, c)
  <2>1. Pending(b, a, G \cup {f}, c)
    BY <1>1 DEF Walk
  <2>2. \/ Pending(b, a, G \cup {Without(f, k)}, c)
        \/ \E n \in 0..Len(c) - 1 : PendingIn(b, a, f, c, n) /\ c[n + 1] = k
    <3>1. PendingAfter(b, a, G, f, k, c)
      BY <2>1, StillPending
    <3> QED
      BY <3>1 DEF PendingAfter
  <2>3. ASSUME NEW n \in 0..Len(c) - 1, PendingIn(b, a, f, c, n), c[n + 1] = k
        PROVE  FALSE
    <3>1. PICK p, q : p = SubSeq(c, 1, n) /\ q = SubSeq(c, 1, n + 1)
      OBVIOUS
    <3>2. /\ q = Append(p, k)
          /\ n + 1 # Len(c) => InObjects(b, a, q)
          /\ n + 1 = Len(c) => q = c
      BY <2>3, <3>1, ThroughKey
    <3>3. At(f.before, <<k>>) = At(b, q) /\ At(f.after, <<k>>) = At(a, q)
      <4>1. FrameOf(b, a, f, p)
        BY <2>3, <3>1 DEF PendingIn
      <4> QED
        BY <3>2, <4>1, Visited
    <3>4. CASE n + 1 = Len(c)
      <4>1. At(b, c) # At(a, c)
        BY ChangeFacts
      <4>2. q = c
        BY <3>2, <3>4
      <4> QED
        BY <3>3, <4>1, <4>2 DEF UnchangedField
    <3>5. CASE n + 1 # Len(c)
      <4>1. q \in Seq(Names) /\ InObjects(b, a, q)
        <5>1. p \in Seq(Names) /\ k \in Names
          BY <2>3, <3>1, ThroughKey
        <5> QED
          BY <3>2, <3>5, <5>1
      <4>2. Len(q) \in 0..Len(q) /\ SubSeq(q, 1, Len(q)) = q
        BY <4>1, PrefixFacts
      <4>3. Common(b, a, q)
        BY <4>1, <4>2 DEF InObjects
      <4> QED
        BY <3>3, <4>3 DEF Common
    <3> QED
      BY <3>4, <3>5
  <2> QED
    BY <2>2, <2>3
<1>2. \A path \in DOMAIN d : Right(b, a, d, path)
  BY DEF Walk
<1>3. \A g \in G \cup {Without(f, k)} : \E p : FrameOf(b, a, g, p)
  BY FramesLeft
<1> QED
  BY <1>1, <1>2, <1>3 DEF Walk

(***************************************************************************)
(* Any other key is a change, and its path is in the map with its values   *)
(* from then on (diff.go:102).  A later change with the same path replaces *)
(* it by a change.                                                         *)
(***************************************************************************)
LEMMA VisitChanged ==
  ASSUME NEW b, NEW a, Pair(b, a), NEW G, NEW f, NEW d, Walk(b, a, G \cup {f}, d),
         NEW k \in f.seen, NEW x, x = At(f.before, <<k>>), NEW y, y = At(f.after, <<k>>),
         ~BothObjects(x, y), ~UnchangedField(x, y),
         NEW e, e = Put(d, Join(f.prefix, k), [before |-> ValueOrNil(x), after |-> ValueOrNil(y)])
  PROVE  Walk(b, a, G \cup {Without(f, k)}, e)
<1>1. PICK path : path = Join(f.prefix, k)
  OBVIOUS
<1>2. PICK v : v = [before |-> ValueOrNil(x), after |-> ValueOrNil(y)]
  OBVIOUS
<1>3. /\ DOMAIN e = DOMAIN d \cup {path} /\ e[path] = v
      /\ \A other \in DOMAIN d : other # path => e[other] = d[other]
  BY <1>1, <1>2 DEF Put
<1>4. ASSUME NEW p, FrameOf(b, a, f, p)
      PROVE  /\ Append(p, k) \in Changes(b, a)
             /\ v = Values(b, a, Append(p, k))
             /\ NoEmptyKey(b, a) => path = FlattenSeq(Append(p, k))
  <2>1. PICK q : q = Append(p, k)
    OBVIOUS
  <2>2. /\ k \in Names /\ q \in DOMAIN b \cup DOMAIN a
        /\ x = At(b, q) /\ y = At(a, q)
        /\ NoEmptyKey(b, a) => path = FlattenSeq(q)
    BY <1>1, <1>4, <2>1, Visited
  <2>3. p \in Seq(Names) /\ InObjects(b, a, p)
    BY <1>4 DEF FrameOf
  <2>4. q # << >> /\ Len(q) = Len(p) + 1 /\ q \in Seq(Names)
    BY <2>1, <2>2, <2>3
  <2>5. ~Common(b, a, q)
    BY <2>2 DEF Common
  <2>6. At(b, q) # At(a, q)
    <3>1. SUFFICES ASSUME At(b, q) = At(a, q) PROVE FALSE
      OBVIOUS
    <3>2. x # Absent \/ y # Absent
      BY <2>2, AtPresent DEF Pair
    <3> QED
      BY <2>2, <3>1, <3>2 DEF UnchangedField
  <2>7. ASSUME NEW i \in 0..Len(q) - 1 PROVE Common(b, a, SubSeq(q, 1, i))
    <3>1. i \in 0..Len(p)
      BY <2>3, <2>4
    <3>2. SubSeq(q, 1, i) = SubSeq(p, 1, i)
      BY <2>1, <2>2, <2>3, <3>1
    <3> QED
      BY <2>3, <3>1, <3>2 DEF InObjects
  <2>8. q \in Changes(b, a)
    BY <2>2, <2>4, <2>5, <2>6, <2>7 DEF Changes
  <2> QED
    BY <1>2, <2>1, <2>2, <2>8 DEF Values
<1>5. ASSUME NEW c \in Changes(b, a), ~Pending(b, a, G \cup {Without(f, k)}, c)
      PROVE  Recorded(b, a, e, c)
  <2>1. CASE Recorded(b, a, d, c)
    BY <1>3, <2>1 DEF Recorded
  <2>2. CASE ~Recorded(b, a, d, c)
    <3>1. Pending(b, a, G \cup {f}, c)
      BY <2>2 DEF Walk
    <3>2. PICK n \in 0..Len(c) - 1 : PendingIn(b, a, f, c, n) /\ c[n + 1] = k
      <4>1. PendingAfter(b, a, G, f, k, c)
        BY <3>1, StillPending
      <4> QED
        BY <1>5, <4>1 DEF PendingAfter
    <3>3. PICK p, q : p = SubSeq(c, 1, n) /\ q = SubSeq(c, 1, n + 1)
      OBVIOUS
    <3>4. /\ q = Append(p, k)
          /\ n + 1 # Len(c) => InObjects(b, a, q)
          /\ n + 1 = Len(c) => q = c
      BY <3>2, <3>3, ThroughKey
    <3>5. FrameOf(b, a, f, p)
      BY <3>2, <3>3 DEF PendingIn
    <3>6. q \in Changes(b, a) /\ (NoEmptyKey(b, a) => path = FlattenSeq(q))
      BY <1>4, <3>4, <3>5
    <3>7. n + 1 = Len(c)
      <4>1. SUFFICES ASSUME InObjects(b, a, q) PROVE FALSE
        BY <3>4
      <4>2. q \in Seq(Names) /\ ~Common(b, a, q)
        BY <3>6, ChangeFacts
      <4>3. Len(q) \in 0..Len(q) /\ SubSeq(q, 1, Len(q)) = q
        BY <4>2, PrefixFacts
      <4> QED
        BY <4>1, <4>2, <4>3 DEF InObjects
    <3> QED
      BY <1>3, <3>4, <3>6, <3>7 DEF Recorded
  <2> QED
    BY <2>1, <2>2
<1>6. ASSUME NEW other \in DOMAIN e
      PROVE  Right(b, a, e, other)
  <2>1. CASE other = path
    <3>1. PICK p : FrameOf(b, a, f, p)
      BY DEF Walk
    <3>2. /\ Append(p, k) \in Changes(b, a)
          /\ v = Values(b, a, Append(p, k))
          /\ NoEmptyKey(b, a) => path = FlattenSeq(Append(p, k))
      BY <1>4, <3>1
    <3> QED
      BY <1>3, <2>1, <3>2 DEF Right
  <2>2. CASE other # path
    <3>1. other \in DOMAIN d /\ e[other] = d[other]
      BY <1>3, <2>2
    <3>2. Right(b, a, d, other)
      BY <3>1 DEF Walk
    <3> QED
      BY <3>1, <3>2 DEF Right
  <2> QED
    BY <2>1, <2>2
<1>7. \A g \in G \cup {Without(f, k)} : \E p : FrameOf(b, a, g, p)
  BY FramesLeft
<1> QED
  BY <1>5, <1>6, <1>7 DEF Walk

(***************************************************************************)
(* A frame that has no key left has nothing pending.                       *)
(***************************************************************************)
LEMMA ReturnWalk ==
  ASSUME NEW b, NEW a, NEW G, NEW f, NEW d, Walk(b, a, G \cup {f}, d), f.seen = {}
  PROVE  Walk(b, a, G, d)
<1>1. \A n, c : ~PendingIn(b, a, f, c, n)
  BY DEF PendingIn
<1>2. ASSUME NEW c, Pending(b, a, G \cup {f}, c) PROVE Pending(b, a, G, c)
  BY <1>1, <1>2 DEF Pending
<1> QED
  BY <1>2 DEF Walk

(***************************************************************************)
(* To begin with, every change is pending at the outermost call            *)
(* (diff.go:39-52).                                                        *)
(***************************************************************************)
LEMMA StartWalk ==
  ASSUME NEW b, NEW a, Pair(b, a)
  PROVE  Walk(b, a, {Frame(EmptyString, b, a)}, << >>)
<1>1. << >> \in Seq(Names) /\ At(b, << >>) = b /\ At(a, << >>) = a
  BY Root DEF Pair
<1>2. InObjects(b, a, << >>)
  <2>1. Common(b, a, << >>)
    BY <1>1, CommonObjects DEF Pair
  <2>2. \A i \in 0..Len(<< >>) : SubSeq(<< >>, 1, i) = << >>
    OBVIOUS
  <2> QED
    BY <2>1, <2>2 DEF InObjects
<1>3. PICK f : f = Frame(EmptyString, b, a)
  OBVIOUS
<1>4. FrameOf(b, a, f, << >>) /\ f.seen = Below(b, a, << >>)
  <2>1. NoEmptyKey(b, a) => EmptyString = PathOf(<< >>)
    BY DEF PathOf
  <2>2. /\ FrameOf(b, a, Frame(EmptyString, At(b, << >>), At(a, << >>)), << >>)
        /\ Frame(EmptyString, At(b, << >>), At(a, << >>)).seen = Below(b, a, << >>)
    BY <1>1, <1>2, <2>1, NewFrame
  <2> QED
    BY <1>1, <1>3, <2>2
<1>5. ASSUME NEW c \in Changes(b, a)
      PROVE  Pending(b, a, {f}, c)
  <2>1. 0 \in 0..Len(c) - 1
    BY ChangeFacts
  <2>2. PICK n : n = 0
    OBVIOUS
  <2>3. /\ n + 1 \in 0..Len(c) /\ c[n + 1] \in Names
        /\ SubSeq(c, 1, n + 1) = Append(SubSeq(c, 1, n), c[n + 1])
    BY <2>1, <2>2, ThroughKey
  <2>4. SubSeq(c, 1, n) = << >>
    BY <2>1, <2>2, ChangeFacts, PrefixFacts
  <2>5. SubSeq(c, 1, n + 1) \in DOMAIN b \cup DOMAIN a
    BY <2>3, ChangeFacts
  <2>6. PendingIn(b, a, f, c, n)
    BY <1>4, <2>3, <2>4, <2>5 DEF PendingIn, Below
  <2> QED
    BY <2>1, <2>2, <2>6 DEF Pending
<1>6. DOMAIN << >> = {}
  OBVIOUS
<1>7. Walk(b, a, {f}, << >>)
  BY <1>4, <1>5, <1>6 DEF Walk
<1> QED
  BY <1>3, <1>7

(***************************************************************************)
(* Two objects without a change between them are equal: the shortest       *)
(* position at which they differ would be one.                             *)
(***************************************************************************)
LEMMA SameTree ==
  ASSUME NEW b, NEW a, Pair(b, a), Changes(b, a) = {}
  PROVE  a = b
<1>1. /\ \A v \in {b, a} : v = [q \in DOMAIN v |-> v[q]] /\ DOMAIN v \subseteq Seq(Names)
      /\ \A v \in {b, a} : \A q \in DOMAIN v : v[q] \in Nodes
      /\ \A v \in {b, a} : \A q \in DOMAIN v : \A i \in 0..Len(q) : SubSeq(q, 1, i) \in DOMAIN v
  BY DEF Pair, IsTree
<1>2. SUFFICES ASSUME NEW q \in DOMAIN b \cup DOMAIN a,
                      q \notin DOMAIN b \/ q \notin DOMAIN a \/ b[q] # a[q]
               PROVE  FALSE
  BY <1>1
<1>3. q \in Seq(Names) /\ Len(q) \in Nat
  BY <1>1
<1> DEFINE T == { n \in 0..Len(q) : ~Common(b, a, SubSeq(q, 1, n)) }
<1>4. ~Common(b, a, q)
  <2>1. SUFFICES ASSUME HasObject(b, q), HasObject(a, q) PROVE FALSE
    BY <1>3, CommonObjects DEF Pair
  <2>2. \A node \in Nodes : node.kind = "object" => node = [kind |-> "object"]
    BY DEF Nodes
  <2>3. b[q] = [kind |-> "object"] /\ a[q] = [kind |-> "object"]
    BY <1>1, <2>1, <2>2 DEF HasObject
  <2> QED
    BY <1>2, <2>1, <2>3 DEF HasObject
<1>5. Len(q) \in T
  <2>1. SubSeq(q, 1, Len(q)) = q /\ Len(q) \in 0..Len(q)
    BY <1>3, PrefixFacts
  <2> QED
    BY <1>4, <2>1
<1>6. PICK n \in T : \A m \in T : n <= m
  <2>1. T \in SUBSET Nat /\ T # {}
    BY <1>5
  <2> HIDE DEF T
  <2> QED
    BY <2>1, Least
<1>7. n \in 0..Len(q) /\ ~Common(b, a, SubSeq(q, 1, n))
  OBVIOUS
<1>8. \A i \in 0..n - 1 : Common(b, a, SubSeq(q, 1, i))
  BY <1>3, <1>6, <1>7
<1>9. PICK c, r : c = SubSeq(q, 1, n) /\ r = SubSeq(q, n + 1, Len(q))
  OBVIOUS
<1>10. /\ c \in Seq(Names) /\ Len(c) = n
       /\ \A i \in 0..n : SubSeq(c, 1, i) = SubSeq(q, 1, i)
  BY <1>3, <1>7, <1>9, PrefixFacts
<1>11. r \in Seq(Names) /\ c \o r = q
  <2>1. n \in Nat /\ n <= Len(q)
    BY <1>3, <1>7
  <2>2. r \in Seq(Names)
    BY <1>3, <1>9, <2>1
  <2>3. SubSeq(q, 1, n) \o SubSeq(q, n + 1, Len(q)) = SubSeq(q, 1, Len(q))
    BY <1>3, <2>1, ConcatAdjacentSubSeq
  <2>4. SubSeq(q, 1, Len(q)) = q
    BY <1>3, SubSeqFull
  <2> QED
    BY <1>9, <2>2, <2>3, <2>4
<1>12. c \in DOMAIN b \cup DOMAIN a
  BY <1>1, <1>7, <1>9
<1>13. c # << >>
  <2>1. Common(b, a, << >>)
    <3>1. << >> \in Seq(Names)
      OBVIOUS
    <3> QED
      BY <3>1, CommonObjects DEF Pair
  <2> QED
    BY <1>7, <1>9, <2>1
<1>14. At(b, c) # At(a, c)
  <2>1. SUFFICES ASSUME At(b, c) = At(a, c) PROVE FALSE
    OBVIOUS
  <2>2. IsTree(b) /\ IsTree(a)
    BY DEF Pair
  <2>3. SameAt(b, a, c \o r)
    BY <1>10, <1>11, <2>1, <2>2, SameBelow
  <2> QED
    BY <1>2, <1>11, <2>3 DEF SameAt
<1>15. \A i \in 0..Len(c) - 1 : Common(b, a, SubSeq(c, 1, i))
  <2>1. \A i \in 0..n - 1 : i \in 0..n
    BY <1>7
  <2> QED
    BY <1>8, <1>10, <2>1
<1>16. c \in Changes(b, a)
  BY <1>7, <1>9, <1>12, <1>13, <1>14, <1>15 DEF Changes
<1> QED
  BY <1>16

(***************************************************************************)
(* When no frame is left, the map is what DiffExact says.                  *)
(***************************************************************************)
LEMMA EndWalk ==
  ASSUME NEW b, NEW a, Pair(b, a), NEW d, Walk(b, a, {}, d)
  PROVE  /\ DOMAIN d = {} <=> a = b
         /\ NoEmptyKey(b, a) =>
              /\ DOMAIN d = { FlattenSeq(p) : p \in Changes(b, a) }
              /\ \A path \in DOMAIN d : \E p \in Changes(b, a) :
                   FlattenSeq(p) = path /\ d[path] = Values(b, a, p)
<1>1. \A c \in Changes(b, a) : Recorded(b, a, d, c)
  BY DEF Walk, Pending
<1>2. \A path \in DOMAIN d : Right(b, a, d, path)
  BY DEF Walk
<1>3. ASSUME DOMAIN d = {} PROVE a = b
  <2>1. Changes(b, a) = {}
    BY <1>1, <1>3 DEF Recorded
  <2> QED
    BY <2>1, SameTree
<1>4. ASSUME a = b PROVE DOMAIN d = {}
  <2>1. Changes(b, a) = {}
    BY <1>4 DEF Changes
  <2> QED
    BY <1>2, <2>1 DEF Right
<1>5. ASSUME NoEmptyKey(b, a)
      PROVE  /\ DOMAIN d = { FlattenSeq(p) : p \in Changes(b, a) }
             /\ \A path \in DOMAIN d : \E p \in Changes(b, a) :
                   FlattenSeq(p) = path /\ d[path] = Values(b, a, p)
  <2>1. \A path \in DOMAIN d : \E p \in Changes(b, a) :
          FlattenSeq(p) = path /\ d[path] = Values(b, a, p)
    BY <1>2, <1>5 DEF Right
  <2>2. \A p \in Changes(b, a) : FlattenSeq(p) \in DOMAIN d
    BY <1>1, <1>5 DEF Recorded
  <2> QED
    BY <2>1, <2>2
<1> QED
  BY <1>3, <1>4, <1>5

(***************************************************************************)
(* The frames as a set.                                                    *)
(***************************************************************************)
Els(s) == { s[i] : i \in 1..Len(s) }

(***************************************************************************)
(* A stack of frames as a set: the last frame, and the others.             *)
(***************************************************************************)
LEMMA LastFrame ==
  ASSUME NEW S, NEW s \in Seq(S), s # << >>
  PROVE  /\ Front(s) \in Seq(S) /\ Els(s) = Els(Front(s)) \cup {Last(s)}
         /\ Len(s) # 1 => Front(s) # << >>
         /\ Len(s) = 1 => Els(Front(s)) = {}
<1>1. PICK n \in Nat : n = Len(s) - 1
  <2>1. Len(s) \in Nat /\ Len(s) # 0
    BY EmptySeq
  <2> QED
    BY <2>1
<1>2. PICK t : t = SubSeq(s, 1, n)
  OBVIOUS
<1>3. Len(s) = n + 1 /\ n \in 0..Len(s)
  BY <1>1
<1>4. t \in Seq(S) /\ Len(t) = n /\ \A i \in 1..n : t[i] = s[i]
  BY <1>2, <1>3, PrefixFacts
<1>5. Front(s) = t /\ Last(s) = s[n + 1]
  BY <1>1, <1>2, <1>3 DEF Front, Last
<1>6. 1..n + 1 = 1..n \cup {n + 1}
  BY <1>1
<1>7. Els(s) = Els(t) \cup {s[n + 1]}
  BY <1>3, <1>4, <1>6 DEF Els
<1>8. Len(s) # 1 => t # << >>
  BY <1>3, <1>4
<1>9. Len(s) = 1 => Els(t) = {}
  BY <1>3, <1>4 DEF Els
<1> QED
  BY <1>4, <1>5, <1>7, <1>8, <1>9

Extends(S, s, e) ==
  /\ Append(s, e) \in Seq(S \cup {e}) /\ Append(s, e) # << >>
  /\ Els(Append(s, e)) = Els(s) \cup {e}

(***************************************************************************)
(* A stack of frames as a set: one more frame.                             *)
(***************************************************************************)
LEMMA FrameAdded ==
  ASSUME NEW S, NEW s \in Seq(S), NEW e
  PROVE  Extends(S, s, e)
<1>1. PICK t : t = Append(s, e)
  OBVIOUS
<1>2. s \in Seq(S \cup {e})
  BY SeqMonotonic
<1>3. t \in Seq(S \cup {e}) /\ t # << >>
  BY <1>1, <1>2
<1>4. /\ Len(s) \in Nat /\ Len(t) = Len(s) + 1 /\ t[Len(s) + 1] = e
      /\ \A i \in 1..Len(s) : t[i] = s[i]
  BY <1>1
<1>5. 1..Len(s) + 1 = 1..Len(s) \cup {Len(s) + 1}
  BY <1>4
<1>6. Els(t) = Els(s) \cup {e}
  BY <1>4, <1>5 DEF Els
<1> QED
  BY <1>1, <1>3, <1>6 DEF Extends

(***************************************************************************)
(* The diff is built by a walk over both snapshots.                        *)
(***************************************************************************)
DiffInv ==
  /\ step \in {"diff", "built"} => Pair(B, A)
  /\ step = "diff" => /\ frames # << >> /\ \E S : frames \in Seq(S)
                      /\ Walk(B, A, Els(frames), diff)
  /\ step = "built" => Walk(B, A, {}, diff)

(***************************************************************************)
(* Both snapshots are normalized to objects (diff.go:54-73).               *)
(***************************************************************************)
LEMMA Normalized ==
  ASSUME NEW s, IsTree(s)
  PROVE  IsTree(normalizeToObject(s)) /\ HasObject(normalizeToObject(s), << >>)
<1>1. CASE Kind(s) = "object"
  BY <1>1 DEF normalizeToObject, Kind, HasObject, IsTree
<1>2. CASE Kind(s) # "object"
  <2>1. Obj(<< >>) = [p \in {<< >>} |-> [kind |-> "object"]]
    BY DEF Obj, Tree
  <2>2. PICK v : v = Obj(<< >>)
    OBVIOUS
  <2>3. DOMAIN v = {<< >>} /\ v[<< >>] = [kind |-> "object"] /\ v = [p \in DOMAIN v |-> v[p]]
    BY <2>1, <2>2
  <2>4. [kind |-> "object"] \in Nodes
    BY DEF Nodes
  <2>5. << >> \in Seq(Names) /\ \A i \in 0..Len(<< >>) : SubSeq(<< >>, 1, i) = << >>
    OBVIOUS
  <2>6. IsTree(v)
    BY <2>3, <2>4, <2>5 DEF IsTree
  <2>7. HasObject(v, << >>)
    BY <2>3 DEF HasObject
  <2> QED
    BY <1>2, <2>2, <2>6, <2>7 DEF normalizeToObject
<1> QED
  BY <1>1, <1>2

(***************************************************************************)
(* computeDiff establishes the invariant.                                  *)
(***************************************************************************)
LEMMA DiffStart ==
  ASSUME NEW b \in Snapshots, NEW a \in Snapshots, computeDiff(b, a)
  PROVE  DiffInv'
<1>1. step' \in {"diff", "refused"}
  BY DEF computeDiff
<1>2. CASE step' = "refused"
  BY <1>2 DEF DiffInv
<1>3. CASE step' = "diff"
  <2>1. PICK x, y, f : /\ x = normalizeToObject(b) /\ y = normalizeToObject(a)
                       /\ f = Frame(EmptyString, x, y)
    OBVIOUS
  <2>2. frames' = <<f>> /\ diff' = << >> /\ B' = x /\ A' = y
    BY <1>3, <2>1 DEF computeDiff, B, A
  <2>3. Pair(x, y)
    BY <2>1, DiffConstants, Normalized DEF Pair
  <2>4. Walk(x, y, {f}, << >>)
    BY <2>1, <2>3, StartWalk
  <2>5. Els(<<f>>) = {f} /\ <<f>> \in Seq({f}) /\ <<f>> # << >>
    BY DEF Els
  <2> QED
    BY <1>3, <2>2, <2>3, <2>4, <2>5 DEF DiffInv
<1> QED
  BY <1>1, <1>2, <1>3

(***************************************************************************)
(* A step of collectDiff preserves the invariant.                          *)
(***************************************************************************)
LEMMA DiffStep ==
  ASSUME DiffInv, collectDiff
  PROVE  DiffInv'
<1>1. PICK b, a, d : b = B /\ a = A /\ d = diff
  OBVIOUS
<1>2. step = "diff" /\ B' = b /\ A' = a /\ Pair(b, a)
  BY <1>1 DEF collectDiff, Return, Visit, B, A, DiffInv
<1>3. PICK S, s : s = frames /\ s \in Seq(S)
  BY <1>2 DEF DiffInv
<1>4. PICK G, f : G = Els(Front(s)) /\ f = Last(s)
  OBVIOUS
<1>5. /\ s # << >> /\ Front(s) \in Seq(S) /\ Els(s) = G \cup {f}
      /\ Len(s) # 1 => Front(s) # << >>
      /\ Len(s) = 1 => G = {}
  BY <1>2, <1>3, <1>4, LastFrame DEF DiffInv
<1>6. Walk(b, a, G \cup {f}, d)
  BY <1>1, <1>2, <1>3, <1>5 DEF DiffInv
<1>7. CASE Return
  <2>1. f.seen = {} /\ frames' = Front(s) /\ diff' = d
        /\ step' = IF Len(s) = 1 THEN "built" ELSE "diff"
    BY <1>1, <1>2, <1>3, <1>4, <1>7 DEF Return
  <2>2. Walk(b, a, G, d)
    BY <1>6, <2>1, ReturnWalk
  <2>3. CASE Len(s) = 1
    <3>1. step' = "built"
      BY <2>1, <2>3
    <3>2. G = {}
      BY <1>5, <2>3
    <3> QED
      BY <1>2, <2>1, <2>2, <3>1, <3>2 DEF DiffInv
  <2>4. CASE Len(s) # 1
    <3>1. step' = "diff"
      BY <2>1, <2>4
    <3> QED
      BY <1>2, <1>4, <1>5, <2>1, <2>2, <2>4, <3>1 DEF DiffInv
  <2> QED
    BY <2>3, <2>4
<1>8. ASSUME NEW k \in f.seen, Visit(k)
      PROVE  DiffInv'
  <2>1. PICK t, g, x, y, h : /\ t = Front(s) /\ g = Without(f, k)
                             /\ x = At(f.before, <<k>>) /\ y = At(f.after, <<k>>)
                             /\ h = Frame(Join(f.prefix, k), x, y)
    OBVIOUS
  <2>2. step' = "diff"
        /\ frames' = (IF BothObjects(x, y) THEN Append(Append(t, g), h) ELSE Append(t, g))
        /\ diff' = (IF BothObjects(x, y) \/ UnchangedField(x, y)
                      THEN d
                      ELSE Put(d, Join(f.prefix, k),
                               [before |-> ValueOrNil(x), after |-> ValueOrNil(y)]))
    BY <1>1, <1>2, <1>3, <1>4, <1>8, <2>1 DEF Visit, Without
  <2>3. PICK u : u = Append(t, g)
    OBVIOUS
  <2>4. u \in Seq(S \cup {g}) /\ u # << >> /\ Els(u) = G \cup {g}
    <3>1. t \in Seq(S) /\ Els(t) = G
      BY <1>4, <1>5, <2>1
    <3>2. Extends(S, t, g)
      BY <3>1, FrameAdded
    <3> QED
      BY <2>3, <3>1, <3>2 DEF Extends
  <2>5. CASE BothObjects(x, y)
    <3>1. PICK w : w = Append(u, h)
      OBVIOUS
    <3>2. w \in Seq((S \cup {g}) \cup {h}) /\ w # << >> /\ Els(w) = (G \cup {g}) \cup {h}
      <4>1. Extends(S \cup {g}, u, h)
        BY <2>4, FrameAdded
      <4> QED
        BY <2>4, <3>1, <4>1 DEF Extends
    <3>3. Walk(b, a, (G \cup {g}) \cup {h}, d)
      BY <1>2, <1>6, <1>8, <2>1, <2>5, VisitObjects
    <3>4. frames' = w /\ diff' = d
      BY <2>2, <2>3, <2>5, <3>1
    <3> QED
      BY <1>2, <2>2, <3>2, <3>3, <3>4 DEF DiffInv
  <2>6. CASE ~BothObjects(x, y) /\ UnchangedField(x, y)
    <3>1. Walk(b, a, G \cup {g}, d)
      BY <1>2, <1>6, <1>8, <2>1, <2>6, VisitUnchanged
    <3>2. frames' = u /\ diff' = d
      BY <2>2, <2>3, <2>6
    <3> QED
      BY <1>2, <2>2, <2>4, <3>1, <3>2 DEF DiffInv
  <2>7. CASE ~BothObjects(x, y) /\ ~UnchangedField(x, y)
    <3>1. PICK e : e = Put(d, Join(f.prefix, k), [before |-> ValueOrNil(x), after |-> ValueOrNil(y)])
      OBVIOUS
    <3>2. Walk(b, a, G \cup {g}, e)
      BY <1>2, <1>6, <1>8, <2>1, <2>7, <3>1, VisitChanged
    <3>3. frames' = u /\ diff' = e
      BY <2>2, <2>3, <2>7, <3>1
    <3> QED
      BY <1>2, <2>2, <2>4, <3>2, <3>3 DEF DiffInv
  <2> QED
    BY <2>5, <2>6, <2>7
<1> QED
  BY <1>3, <1>4, <1>7, <1>8 DEF collectDiff

(***************************************************************************)
(* Whatever the snapshots, and in whatever order the keys of a map are     *)
(* visited, a finished diff has a path for every change and values of a    *)
(* change under every path, and it is empty exactly if nothing changed     *)
(* (diff.go:39-52, 75-104).                                                *)
(***************************************************************************)
THEOREM DiffIsExact == Spec => []DiffExact
<1>1. Init => DiffInv
  BY DEF Init, DiffInv
<1>2. DiffInv /\ [Next]_vars => DiffInv'
  <2> SUFFICES ASSUME DiffInv, [Next]_vars PROVE DiffInv'
    OBVIOUS
  <2>1. CASE RecordChange
    <3>1. ASSUME NEW b \in Snapshots, NEW a \in Snapshots, computeDiff(b, a) PROVE DiffInv'
      BY <3>1, DiffStart
    <3> QED
      BY <2>1, <3>1, DiffStep DEF RecordChange
  <2>2. ASSUME NEW backend, NEW args, NEW ts, Record(backend, args, ts) PROVE DiffInv'
    <3>1. step' = "stored"
      BY <2>2 DEF Record, Store
    <3> QED
      BY <3>1 DEF DiffInv
  <2>3. CASE AlterRow
    <3>1. UNCHANGED diffVars /\ step = "stored"
      BY <2>3 DEF AlterRow, Alter
    <3> QED
      BY <3>1 DEF DiffInv, diffVars
  <2>4. CASE UNCHANGED vars
    BY <2>4 DEF vars, diffVars, DiffInv, B, A
  <2> QED
    BY <2>1, <2>2, <2>3, <2>4 DEF Next
<1>3. DiffInv => DiffExact
  <2> SUFFICES ASSUME DiffInv, step = "built" PROVE DiffExact
    BY DEF DiffExact
  <2>1. PICK b, a, d : b = B /\ a = A /\ d = diff
    OBVIOUS
  <2>2. Pair(b, a) /\ Walk(b, a, {}, d)
    BY <2>1 DEF DiffInv
  <2>3. /\ DOMAIN d = {} <=> a = b
        /\ NoEmptyKey(b, a) =>
             /\ DOMAIN d = { FlattenSeq(p) : p \in Changes(b, a) }
             /\ \A path \in DOMAIN d : \E p \in Changes(b, a) :
                  FlattenSeq(p) = path /\ d[path] = Values(b, a, p)
    BY <2>2, EndWalk
  <2> QED
    BY <2>1, <2>3 DEF DiffExact, NoEmptyKey, Values
<1> QED
  BY <1>1, <1>2, <1>3, PTL DEF Spec
=============================================================================
