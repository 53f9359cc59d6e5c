------------------------ MODULE ChainIntegrityProofs ------------------------
(***************************************************************************)
(* What Verify says about damaged tables, proved for any number of Records *)
(* and of damages.                                                         *)
(*                                                                         *)
(* verifyChain scans a sequence of rows.  The first half of the module     *)
(* restates what it reports in terms of the set of rows it was given, with *)
(* no sequence: which rows are sound, and which is the first that is not.  *)
(* The second half proves the invariant of the damaged table that the      *)
(* properties follow from.                                                 *)
(***************************************************************************)
EXTENDS ChainIntegrity, EntryTableProofs

(***************************************************************************)
(* Rows of one chain, and those among them that a scan from 1 returns.     *)
(***************************************************************************)
ChainRows(es, c) ==
  /\ IsFiniteSet(es)
  /\ \A e \in es : e.chain = c /\ e.id \in Int
  /\ \A e, f \in es : e.id = f.id => e = f

ScanRows(es, c) == es \in SUBSET Entry /\ ChainRows(es, c)

\* The hash that Verify expects in prevHash: that of the row below.
HashBelow(es, e) == LastEntry({ f \in es : f.id < e.id }, e.chain).hash

\* Verify's two checks of a row.
Sound(es, e) == e.prevHash = HashBelow(es, e) /\ Recompute(e) = e.hash

\* b is the row at which Verify stops.
FirstUnsound(es, b) ==
  /\ b \in es
  /\ ~Sound(es, b)
  /\ \A f \in es : f.id < b.id => Sound(es, f)

\* What Verify reports of a row that fails a check.
Report(es, b) ==
  [valid |-> FALSE, empty |-> FALSE, brokenAt |-> b.id,
   expected |-> IF b.prevHash = HashBelow(es, b) THEN Recompute(b) ELSE HashBelow(es, b),
   actual   |-> IF b.prevHash = HashBelow(es, b) THEN b.hash ELSE b.prevHash]

UpTo(es, n) == { e \in es : e.id <= n }

\* A table within its constraints.
Table(R) ==
  /\ R \in SUBSET Row /\ IsFiniteSet(R)
  /\ \A e, f \in R : Conflicts(e, f) => e = f

-----------------------------------------------------------------------------
(***************************************************************************)
(* The lowest and the highest of some rows.  This stands in for induction: *)
(* what holds of a row whenever it holds of the rows below it holds of all *)
(* rows, or there would be a lowest one of which it does not.              *)
(***************************************************************************)
LEMMA LowestAndHighest ==
  ASSUME NEW es, NEW c, ChainRows(es, c), es # {}
  PROVE  /\ \E e \in es : \A f \in es : e.id <= f.id
         /\ \E e \in es : \A f \in es : f.id <= e.id
<1>1. PICK key : key = [e \in es |-> e.id]
  OBVIOUS
<1>2. PICK rank : rank = Rank(es, key)
  OBVIOUS
<1>3. PICK n : n = Cardinality(es)
  OBVIOUS
<1>4. /\ IsFiniteSet(es) /\ key \in [es -> Int]
      /\ \A e, f \in es : key[e] = key[f] => e = f
  BY <1>1 DEF ChainRows
<1>5. /\ n \in Nat
      /\ \A e \in es : rank[e] \in 1..n
      /\ \A e, f \in es : rank[e] < rank[f] => key[e] < key[f]
      /\ \A e, f \in es : rank[e] = rank[f] => e = f
      /\ \A k \in 1..n : \E e \in es : rank[e] = k
  BY <1>2, <1>3, <1>4, RankFacts
<1>6. 1 \in 1..n /\ n \in 1..n
  BY <1>5
<1>7. PICK low \in es, high \in es : rank[low] = 1 /\ rank[high] = n
  BY <1>5, <1>6
<1>8. \A e \in es : key[low] <= key[e] /\ key[e] <= key[high]
  <2> SUFFICES ASSUME NEW e \in es PROVE key[low] <= key[e] /\ key[e] <= key[high]
    OBVIOUS
  <2>1. rank[e] = 1 \/ rank[low] < rank[e]
    BY <1>5, <1>7
  <2>2. rank[e] = n \/ rank[e] < rank[high]
    BY <1>5, <1>7
  <2>3. key[low] \in Int /\ key[e] \in Int /\ key[high] \in Int
    BY <1>4
  <2>4. key[low] <= key[e]
    BY <1>5, <1>7, <2>1, <2>3
  <2>5. key[e] <= key[high]
    BY <1>5, <1>7, <2>2, <2>3
  <2> QED
    BY <2>4, <2>5
<1> QED
  BY <1>1, <1>7, <1>8

(***************************************************************************)
(* GetLastEntry returns the highest row.                                   *)
(***************************************************************************)
LEMMA LastOfRows ==
  ASSUME NEW es, NEW c, ChainRows(es, c)
  PROVE  /\ es = {} => LastEntry(es, c) = NoTail
         /\ \A e \in es : (\A f \in es : f.id <= e.id)
                            => LastEntry(es, c) = [id |-> e.id, hash |-> e.hash]
<1>1. OfChain(es, c) = es
  BY DEF OfChain, ChainRows
<1>2. ASSUME NEW e \in es, \A f \in es : f.id <= e.id
      PROVE  LastEntry(es, c) = [id |-> e.id, hash |-> e.hash]
  <2> DEFINE g == CHOOSE g \in es : \A f \in es : f.id <= g.id
  <2>1. g \in es /\ \A f \in es : f.id <= g.id
    BY <1>2
  <2>2. LastEntry(es, c) = [id |-> g.id, hash |-> g.hash]
    BY <1>1 DEF LastEntry
  <2> HIDE DEF g
  <2>3. g.id = e.id
    BY <1>2, <2>1 DEF ChainRows
  <2>4. g = e
    BY <2>1, <2>3 DEF ChainRows
  <2> QED
    BY <2>2, <2>4
<1> QED
  BY <1>1, <1>2 DEF LastEntry

(***************************************************************************)
(* Some of the rows of a chain are rows of the chain.                      *)
(***************************************************************************)
LEMMA SomeRows ==
  ASSUME NEW es, NEW c, ChainRows(es, c), NEW fs \in SUBSET es
  PROVE  ChainRows(fs, c)
<1>1. IsFiniteSet(fs)
  BY FS_Subset DEF ChainRows
<1> QED
  BY <1>1 DEF ChainRows

(***************************************************************************)
(* The scan compares the prevHash of each row with the hash of the row     *)
(* below it in the table.                                                  *)
(***************************************************************************)
LEMMA ScanExpectsBelow ==
  ASSUME NEW es, NEW c, ScanRows(es, c), NEW rs, rs = Ordered(es), NEW i \in DOMAIN rs
  PROVE  ExpectPrev(rs, i) = HashBelow(es, rs[i])
<1>1. /\ rs \in Seq(Entry)
      /\ \A j \in DOMAIN rs : rs[j] \in es
      /\ \A j, k \in DOMAIN rs : j < k => rs[j].id < rs[k].id
      /\ \A e \in es : \E j \in DOMAIN rs : rs[j] = e
  BY OrderedFacts DEF ScanRows, ChainRows, Lists
<1>2. DOMAIN rs = 1..Len(rs) /\ Len(rs) \in Nat
  BY <1>1
<1>3. \A j \in DOMAIN rs : rs[j].id \in Nat /\ rs[j].chain = c
  BY <1>1 DEF ScanRows, ChainRows, Entry
<1>4. PICK below : below = { f \in es : f.id < rs[i].id }
  OBVIOUS
<1>5. ChainRows(below, c)
  BY <1>4, SomeRows DEF ScanRows
<1>6. HashBelow(es, rs[i]) = LastEntry(below, c).hash
  BY <1>3, <1>4 DEF HashBelow
<1>7. \A j, k \in DOMAIN rs : rs[j].id < rs[k].id => j < k
  <2> SUFFICES ASSUME NEW j \in DOMAIN rs, NEW k \in DOMAIN rs, rs[j].id < rs[k].id, ~(j < k)
               PROVE  FALSE
    OBVIOUS
  <2>1. k = j \/ k < j
    BY <1>2
  <2> QED
    BY <1>1, <1>3, <2>1
<1>8. CASE i = 1
  <2>1. below = {}
    <3> SUFFICES ASSUME NEW f \in below PROVE FALSE
      OBVIOUS
    <3>1. PICK j \in DOMAIN rs : rs[j] = f
      BY <1>1, <1>4
    <3>2. j < i
      BY <1>4, <1>7, <3>1
    <3> QED
      BY <1>2, <1>8, <3>2
  <2>2. LastEntry(below, c) = NoTail
    BY <1>5, <2>1, LastOfRows
  <2> QED
    BY <1>6, <1>8, <2>2 DEF ExpectPrev, NoTail
<1>9. CASE i > 1
  <2>1. i - 1 \in DOMAIN rs /\ i - 1 < i
    BY <1>2, <1>9
  <2>2. PICK e : e = rs[i - 1]
    OBVIOUS
  <2>3. e \in below
    BY <1>1, <1>4, <2>1, <2>2
  <2>4. \A f \in below : f.id <= e.id
    <3> SUFFICES ASSUME NEW f \in below PROVE f.id <= e.id
      OBVIOUS
    <3>1. PICK j \in DOMAIN rs : rs[j] = f
      BY <1>1, <1>4
    <3>2. j < i
      BY <1>4, <1>7, <3>1
    <3>3. j = i - 1 \/ j < i - 1
      BY <1>2, <3>2
    <3>4. rs[j].id \in Nat /\ rs[i - 1].id \in Nat
      BY <1>3, <2>1
    <3> QED
      BY <1>1, <2>1, <2>2, <3>1, <3>3, <3>4
  <2>5. LastEntry(below, c) = [id |-> e.id, hash |-> e.hash]
    BY <1>5, <2>3, <2>4, LastOfRows
  <2> QED
    BY <1>6, <1>9, <2>2, <2>5 DEF ExpectPrev
<1> QED
  BY <1>2, <1>8, <1>9

(***************************************************************************)
(* What Verify reports of the rows of a chain, without its scan: valid if  *)
(* every row is sound, and otherwise the lowest row that is not.           *)
(***************************************************************************)
LEMMA VerdictOnRows ==
  ASSUME NEW es, NEW c, ScanRows(es, c)
  PROVE  /\ (\A e \in es : Sound(es, e)) => verifyChain(Ordered(es)) = ValidResult
         /\ \A b : FirstUnsound(es, b) => verifyChain(Ordered(es)) = Report(es, b)
         /\ (\A e \in es : Sound(es, e)) \/ \E b : FirstUnsound(es, b)
<1>1. PICK rs : rs = Ordered(es)
  OBVIOUS
<1>2. /\ rs \in Seq(Entry)
      /\ \A j \in DOMAIN rs : rs[j] \in es
      /\ \A j, k \in DOMAIN rs : j < k => rs[j].id < rs[k].id
      /\ \A e \in es : \E j \in DOMAIN rs : rs[j] = e
  BY <1>1, OrderedFacts DEF ScanRows, ChainRows, Lists
<1>3. DOMAIN rs = 1..Len(rs) /\ Len(rs) \in Nat
  BY <1>2
<1>4. \A i \in DOMAIN rs : ExpectPrev(rs, i) = HashBelow(es, rs[i])
  BY <1>1, ScanExpectsBelow
<1>5. \A i \in DOMAIN rs : LinkOK(rs, i) <=> rs[i].prevHash = HashBelow(es, rs[i])
  BY <1>4 DEF LinkOK
<1>6. \A i \in DOMAIN rs : i \in BrokenRows(rs) <=> ~Sound(es, rs[i])
  BY <1>5 DEF BrokenRows, Sound
<1>7. (\A e \in es : Sound(es, e)) => verifyChain(rs) = ValidResult
  <2> SUFFICES ASSUME \A e \in es : Sound(es, e) PROVE verifyChain(rs) = ValidResult
    OBVIOUS
  <2>1. BrokenRows(rs) = {}
    <3>1. BrokenRows(rs) \subseteq DOMAIN rs
      BY DEF BrokenRows
    <3> QED
      BY <1>2, <1>6, <3>1
  <2> QED
    BY <2>1 DEF verifyChain
<1>8. ASSUME NEW b, FirstUnsound(es, b) PROVE verifyChain(rs) = Report(es, b)
  <2>1. b \in es /\ ~Sound(es, b) /\ \A f \in es : f.id < b.id => Sound(es, f)
    BY <1>8 DEF FirstUnsound
  <2>2. PICK i \in DOMAIN rs : rs[i] = b
    BY <1>2, <2>1
  <2> DEFINE k == CHOOSE k \in BrokenRows(rs) : \A j \in BrokenRows(rs) : k <= j
  <2>3. i \in BrokenRows(rs)
    BY <1>6, <2>1, <2>2
  <2>4. \A j \in BrokenRows(rs) : i <= j /\ j \in DOMAIN rs
    <3> SUFFICES ASSUME NEW j \in BrokenRows(rs) PROVE i <= j /\ j \in DOMAIN rs
      OBVIOUS
    <3>1. j \in DOMAIN rs
      BY DEF BrokenRows
    <3>2. ~(j < i)
      BY <1>2, <1>6, <2>1, <2>2, <3>1
    <3> QED
      BY <1>3, <3>1, <3>2
  <2>5. k \in BrokenRows(rs) /\ \A j \in BrokenRows(rs) : k <= j
    BY <2>3, <2>4
  <2>6. k = i
    <3> HIDE DEF k
    <3> QED
      BY <1>3, <2>3, <2>4, <2>5
  <2>7. verifyChain(rs) =
          [valid |-> FALSE, empty |-> FALSE, brokenAt |-> rs[k].id,
           expected |-> IF LinkOK(rs, k) THEN Recompute(rs[k]) ELSE ExpectPrev(rs, k),
           actual   |-> IF LinkOK(rs, k) THEN rs[k].hash ELSE rs[k].prevHash]
    BY <2>3 DEF verifyChain
  <2> HIDE DEF k
  <2> QED
    BY <1>4, <1>5, <2>2, <2>6, <2>7 DEF Report
<1>9. (\A e \in es : Sound(es, e)) \/ \E b : FirstUnsound(es, b)
  <2> SUFFICES ASSUME ~(\A e \in es : Sound(es, e)) PROVE \E b : FirstUnsound(es, b)
    OBVIOUS
  <2>1. PICK bad : bad = { e \in es : ~Sound(es, e) }
    OBVIOUS
  <2>2. bad # {} /\ ChainRows(bad, c)
    BY <2>1, SomeRows DEF ScanRows
  <2>3. PICK b \in bad : \A f \in bad : b.id <= f.id
    BY <2>2, LowestAndHighest
  <2>4. \A f \in es : f.id \in Nat
    BY DEF ScanRows, Entry
  <2>5. \A f \in es : f.id < b.id => Sound(es, f)
    BY <2>1, <2>3, <2>4
  <2> QED
    BY <2>1, <2>3, <2>5 DEF FirstUnsound
<1> QED
  BY <1>1, <1>7, <1>8, <1>9

(***************************************************************************)
(* Verify of a prefix sees of each of its rows what Verify of the whole    *)
(* chain sees.                                                             *)
(***************************************************************************)
LEMMA PrefixSeesTheSame ==
  ASSUME NEW es, NEW c, ScanRows(es, c), NEW n \in Int
  PROVE  /\ ScanRows(UpTo(es, n), c)
         /\ \A e \in UpTo(es, n) : /\ HashBelow(UpTo(es, n), e) = HashBelow(es, e)
                                   /\ Sound(UpTo(es, n), e) <=> Sound(es, e)
                                   /\ Report(UpTo(es, n), e) = Report(es, e)
         /\ \A b : b \in UpTo(es, n) /\ FirstUnsound(es, b) => FirstUnsound(UpTo(es, n), b)
<1>1. UpTo(es, n) \subseteq es /\ \A e \in es : e.id \in Nat
  BY DEF UpTo, ScanRows, Entry
<1>2. ASSUME NEW e \in UpTo(es, n)
      PROVE  HashBelow(UpTo(es, n), e) = HashBelow(es, e)
  <2>1. { f \in UpTo(es, n) : f.id < e.id } = { f \in es : f.id < e.id }
    <3>1. e.id \in Nat /\ e.id <= n
      BY <1>1 DEF UpTo
    <3>2. \A f \in es : f.id < e.id => f \in UpTo(es, n)
      BY <1>1, <3>1 DEF UpTo
    <3> QED
      BY <1>1, <3>2
  <2> QED
    BY <2>1 DEF HashBelow
<1>3. \A e \in UpTo(es, n) : /\ Sound(UpTo(es, n), e) <=> Sound(es, e)
                             /\ Report(UpTo(es, n), e) = Report(es, e)
  BY <1>2 DEF Sound, Report
<1>4. ASSUME NEW b, b \in UpTo(es, n), FirstUnsound(es, b)
      PROVE  FirstUnsound(UpTo(es, n), b)
  BY <1>1, <1>3, <1>4 DEF FirstUnsound
<1>5. ScanRows(UpTo(es, n), c)
  BY <1>1, SomeRows DEF ScanRows
<1> QED
  BY <1>2, <1>3, <1>4, <1>5

-----------------------------------------------------------------------------
(***************************************************************************)
(* Verify of a table within its constraints.                               *)
(***************************************************************************)

(***************************************************************************)
(* The signed column represents every EntryID below the middle of the      *)
(* unsigned range as itself.                                               *)
(***************************************************************************)
LEMMA ColumnHolds ==
  /\ 2^(IDBits - 1) \in Nat
  /\ \A n \in Nat : n < 2^(IDBits - 1) => toPgEntryID(n) = n
<1>1. PICK b : b = IDBits
  OBVIOUS
<1>2. b \in Nat /\ b - 1 \in Nat
  BY <1>1, IntegrityConstants
<1> DEFINE A == 1..(b - 1)
           B == 1..b
<1>3. /\ IsFiniteSet(A) /\ Cardinality(A) = b - 1
      /\ IsFiniteSet(B) /\ Cardinality(B) = b
  BY <1>2, FS_Interval
<1>4. SUBSET A \in SUBSET (SUBSET B)
  BY <1>2
<1> HIDE DEF A, B
<1>5. /\ IsFiniteSet(SUBSET A) /\ Cardinality(SUBSET A) = 2^(b - 1)
      /\ IsFiniteSet(SUBSET B) /\ Cardinality(SUBSET B) = 2^b
  BY <1>3, FS_SUBSET
<1>6. Cardinality(SUBSET A) <= Cardinality(SUBSET B)
  BY <1>4, <1>5, FS_Subset
<1>7. 2^(b - 1) \in Nat /\ 2^b \in Nat
  BY <1>5, FS_CardinalityType
<1>8. PICK h, w : h = 2^(b - 1) /\ w = 2^b
  OBVIOUS
<1>9. h \in Nat /\ w \in Nat /\ h <= w
  BY <1>5, <1>6, <1>7, <1>8
<1>10. \A n \in Nat : n < h => n % w = n
  BY <1>9
<1>11. \A n \in Nat : n < h => Signed(n, b) = n
  BY <1>8, <1>10 DEF Signed
<1> QED
  BY <1>1, <1>8, <1>9, <1>11 DEF toPgEntryID

(***************************************************************************)
(* Every position is an integer, and one of 1 and above an EntryID.        *)
(***************************************************************************)
LEMMA Positive ==
  ASSUME NEW e \in Row
  PROVE  e.id \in Int /\ (e.id >= 1 => e \in Entry)
<1>1. e.id \in Int
  BY IntegrityConstants DEF Row, Column
<1>2. ASSUME e.id >= 1 PROVE e \in Entry
  <2>1. e.id \in Nat
    BY <1>1, <1>2
  <2> QED
    BY <2>1 DEF Row, Entry
<1> QED
  BY <1>1, <1>2

(***************************************************************************)
(* The rows of a chain, those that Verify scans, and its tail.             *)
(***************************************************************************)
LEMMA ChainOfTable ==
  ASSUME NEW R, Table(R), NEW c
  PROVE  /\ ChainRows(OfChain(R, c), c)
         /\ ScanRows(Scanned(R, c), c)
         /\ OfChain(R, c) = {} => LastEntry(R, c) = NoTail
         /\ OfChain(R, c) # {} =>
              \E e \in OfChain(R, c) : /\ \A f \in OfChain(R, c) : f.id <= e.id
                                       /\ LastEntry(R, c) = [id |-> e.id, hash |-> e.hash]
<1>1. PICK es : es = OfChain(R, c)
  OBVIOUS
<1>2. es \subseteq R /\ es \in SUBSET R /\ \A e \in es : e.chain = c
  BY <1>1 DEF OfChain
<1>3. IsFiniteSet(es)
  BY <1>2, FS_Subset DEF Table
<1>4. ChainRows(es, c)
  BY <1>2, <1>3, Positive DEF Table, ChainRows, Conflicts
<1>5. ScanRows(Scanned(R, c), c)
  <2>1. PICK ss : ss = Scanned(R, c)
    OBVIOUS
  <2>2. ss \in SUBSET es /\ ss \in SUBSET Entry
    BY <1>1, <1>2, <2>1, Positive DEF Scanned, Table
  <2>3. ChainRows(ss, c)
    BY <1>4, <2>2, SomeRows
  <2> QED
    BY <2>1, <2>2, <2>3 DEF ScanRows
<1>6. OfChain(es, c) = es
  BY <1>2 DEF OfChain
<1>7. LastEntry(R, c) = LastEntry(es, c)
  BY <1>1, <1>6 DEF LastEntry
<1>8. es # {} => \E e \in es : /\ \A f \in es : f.id <= e.id
                               /\ LastEntry(es, c) = [id |-> e.id, hash |-> e.hash]
  BY <1>4, LowestAndHighest, LastOfRows
<1> QED
  BY <1>1, <1>4, <1>5, <1>7, <1>8, LastOfRows

(***************************************************************************)
(* Verify of the whole chain and of each prefix scan the rows they are     *)
(* meant to, which are those at 1 and above.                               *)
(***************************************************************************)
LEMMA VerifyScans ==
  ASSUME NEW R, Table(R), NEW c
  PROVE  /\ OfChain(R, c) = {} => VerifyTable(R, c, 0) = EmptyResult
         /\ OfChain(R, c) # {} => VerifyTable(R, c, 0) = verifyChain(Ordered(Scanned(R, c)))
         /\ \A to \in 1..2^(IDBits - 1) - 1 :
              VerifyTable(R, c, to) = verifyChain(Ordered(UpTo(Scanned(R, c), to)))
<1>1. PICK es, ss : es = OfChain(R, c) /\ ss = Scanned(R, c)
  OBVIOUS
<1>2. PICK half : half = 2^(IDBits - 1)
  OBVIOUS
<1>3. half \in Nat /\ \A n \in Nat : n < half => toPgEntryID(n) = n
  BY <1>2, ColumnHolds
<1>4. ss \subseteq es /\ \A e \in es : e.id \in Int /\ (e \in ss <=> e.id >= 1)
  BY <1>1, ChainOfTable DEF Scanned, ChainRows
<1>5. \A n \in Int : VerifyRows(R, c, 1, n) = verifyChain(Ordered(UpTo(ss, n)))
  <2> SUFFICES ASSUME NEW n \in Int
               PROVE  VerifyRows(R, c, 1, n) = verifyChain(Ordered(UpTo(ss, n)))
    OBVIOUS
  <2>1. { e \in es : 1 <= e.id /\ e.id <= n } = UpTo(ss, n)
    BY <1>4 DEF UpTo
  <2>2. (IF 1 < 1 THEN 1 ELSE 1) = 1
    OBVIOUS
  <2> QED
    BY <1>1, <2>1, <2>2 DEF VerifyRows, ListEntriesInRange
<1>6. es = {} => VerifyTable(R, c, 0) = EmptyResult
  BY <1>1 DEF VerifyTable
<1>7. ASSUME es # {} PROVE VerifyTable(R, c, 0) = verifyChain(Ordered(ss))
  <2>1. PICK e \in es : /\ \A f \in es : f.id <= e.id
                        /\ LastEntry(R, c) = [id |-> e.id, hash |-> e.hash]
    BY <1>1, <1>7, ChainOfTable
  <2>2. LastEntry(R, c).id = e.id /\ e.id \in Int
    BY <1>4, <2>1
  <2>3. VerifyTable(R, c, 0) = VerifyRows(R, c, 1, e.id)
    BY <1>1, <1>7, <2>2 DEF VerifyTable
  <2>4. UpTo(ss, e.id) = ss
    BY <1>4, <2>1 DEF UpTo
  <2> QED
    BY <1>5, <2>2, <2>3, <2>4
<1>8. ASSUME NEW to \in 1..half - 1
      PROVE  VerifyTable(R, c, to) = verifyChain(Ordered(UpTo(ss, to)))
  <2>1. to \in Nat /\ to \in Int /\ to # 0 /\ toPgEntryID(to) = to
    BY <1>3
  <2>2. VerifyTable(R, c, to) = VerifyRows(R, c, 1, to)
    BY <2>1 DEF VerifyTable
  <2> QED
    BY <1>5, <2>1, <2>2
<1> QED
  BY <1>1, <1>2, <1>6, <1>7, <1>8

(***************************************************************************)
(* What Verify of a whole chain reports.                                   *)
(***************************************************************************)
LEMMA VerifyVerdict ==
  ASSUME NEW R, Table(R), NEW c, NEW ss, ss = Scanned(R, c)
  PROVE  /\ VerifyTable(R, c, 0).valid <=> \A e \in ss : Sound(ss, e)
         /\ ~VerifyTable(R, c, 0).valid =>
              \E b : FirstUnsound(ss, b) /\ VerifyTable(R, c, 0) = Report(ss, b)
<1>1. ScanRows(ss, c)
  BY ChainOfTable
<1>2. EmptyResult.valid = TRUE /\ ValidResult.valid = TRUE
  BY DEF EmptyResult, ValidResult
<1>3. \A b : Report(ss, b).valid = FALSE
  BY DEF Report
<1>4. CASE OfChain(R, c) = {}
  <2>1. ss = {}
    BY <1>4 DEF Scanned
  <2> QED
    BY <1>2, <1>4, <2>1, VerifyScans
<1>5. CASE OfChain(R, c) # {}
  <2>1. VerifyTable(R, c, 0) = verifyChain(Ordered(ss))
    BY <1>5, VerifyScans
  <2>2. CASE \A e \in ss : Sound(ss, e)
    BY <1>1, <1>2, <2>1, <2>2, VerdictOnRows
  <2>3. CASE ~(\A e \in ss : Sound(ss, e))
    <3>1. PICK b : FirstUnsound(ss, b)
      BY <1>1, <2>3, VerdictOnRows
    <3>2. VerifyTable(R, c, 0) = Report(ss, b)
      BY <1>1, <2>1, <3>1, VerdictOnRows
    <3> QED
      BY <1>3, <2>3, <3>1, <3>2
  <2> QED
    BY <2>2, <2>3
<1> QED
  BY <1>4, <1>5

(***************************************************************************)
(* Whether a chain is intact depends on its own rows only, and an intact   *)
(* chain has none at 0 or below.                                           *)
(***************************************************************************)
LEMMA SameRowsSameLedger ==
  ASSUME NEW S, NEW R, NEW c, OfChain(S, c) = OfChain(R, c)
  PROVE  /\ Ledger(S, c) => Ledger(R, c)
         /\ LastEntry(S, c) = LastEntry(R, c)
         /\ \A n : VerifyRows(S, c, 1, n) = VerifyRows(R, c, 1, n)
  BY DEF Ledger, ChainIntact, Fills, LastEntry, VerifyRows, ListEntriesInRange

\* The lemmas about intact chains apply to the rows of that chain.
LEMMA IntactRows ==
  ASSUME NEW R, Table(R), NEW c, Ledger(R, c), NEW es, es = OfChain(R, c)
  PROVE  /\ es \in SUBSET Entry
         /\ OfChain(es, c) = OfChain(R, c)
         /\ Ledger(es, c)
         /\ LastEntry(es, c) = LastEntry(R, c)
<1>1. OfChain(es, c) = OfChain(R, c)
  BY DEF OfChain
<1>2. \A e \in es : e \in Row /\ e.id >= 1
  BY DEF Table, Ledger, ChainIntact, OfChain
<1>3. es \in SUBSET Entry
  BY <1>2, Positive
<1> QED
  BY <1>1, <1>3, SameRowsSameLedger

-----------------------------------------------------------------------------
(***************************************************************************)
(* The invariant of the damaged table.  A row that has its own hash can    *)
(* only have the bytes of an entry that Record wrote because the hash      *)
(* column only ever holds hashes of recorded entries and a value that is   *)
(* no entry's hash.                                                        *)
(***************************************************************************)

\* A position within reach of k Records.
Reached(n, k) == \E p \in Positions \cup {0} : p <= n /\ n <= p + k

RowsInv ==
  /\ rows \subseteq Row
  /\ IsFiniteSet(rows)
  /\ \A e, f \in rows : Conflicts(e, f) => e = f
  /\ \A e \in rows : Reached(e.id, records) /\ e.hash \in SomeHashes

GenuineInv ==
  /\ genuine \subseteq Row
  /\ \A g \in genuine : g.hash = Recompute(g)

UntouchedInv == \A c \in Chains : c \notin hit => Ledger(rows, c)

Inv == TypeOK /\ RowsInv /\ GenuineInv /\ UntouchedInv

\* The constraints of the table.
LEMMA TableOfInv ==
  ASSUME Inv
  PROVE  Table(rows)
  BY DEF Inv, RowsInv, Table

(***************************************************************************)
(* A position within reach is one of the column's, and the next one is     *)
(* within reach of one more Record.                                        *)
(***************************************************************************)
LEMMA ReachedFacts ==
  ASSUME NEW n \in Int, NEW k \in Nat, Reached(n, k)
  PROVE  /\ Reached(n, k + 1) /\ Reached(n + 1, k + 1)
         /\ k <= MaxRecords => n \in Column
<1>1. PICK p \in Positions \cup {0} : p <= n /\ n <= p + k
  BY DEF Reached
<1>2. p \in Int /\ MaxRecords \in Nat
  BY IntegrityConstants
<1>3. Reached(n, k + 1)
  <2>1. p <= n /\ n <= p + (k + 1)
    BY <1>1, <1>2
  <2> QED
    BY <2>1 DEF Reached
<1>4. Reached(n + 1, k + 1)
  <2>1. p <= n + 1 /\ n + 1 <= p + (k + 1)
    BY <1>1, <1>2
  <2> QED
    BY <2>1 DEF Reached
<1>5. ASSUME k <= MaxRecords PROVE n \in Column
  <2>1. n \in p..p + MaxRecords
    BY <1>1, <1>2, <1>5
  <2> QED
    BY <2>1 DEF Column
<1> QED
  BY <1>3, <1>4, <1>5

(***************************************************************************)
(* A value that the hash column may come to hold is a hash.                *)
(***************************************************************************)
LEMMA SomeHashesType ==
  ASSUME Inv
  PROVE  SomeHashes \subseteq Hash /\ GenesisPrevHash \in Hash
<1>1. \A g \in genuine : g.hash \in Hash
  BY DEF Inv, GenuineInv, Row
<1>2. Garbled \in Hash
  <2>1. PICK T : T = SUBSET Fields
    OBVIOUS
  <2>2. {} \in T
    BY <2>1
  <2>3. << {} >> \in Seq(T)
    BY <2>2
  <2> QED
    BY <2>1, <2>3 DEF Garbled, Hash
<1>3. GenesisPrevHash \in Hash
  BY DEF GenesisPrevHash, Hash
<1> QED
  BY <1>1, <1>2, <1>3 DEF SomeHashes

(***************************************************************************)
(* Every action keeps the invariant.                                       *)
(***************************************************************************)
LEMMA InitInv ==
  ASSUME Init
  PROVE  Inv
<1>1. TypeOK
  BY IntegrityConstants DEF Init, TypeOK
<1>2. RowsInv
  BY FS_EmptySet DEF Init, RowsInv
<1>3. GenuineInv
  BY DEF Init, GenuineInv
<1>4. UntouchedInv
  BY EmptyLedger DEF Init, UntouchedInv
<1> QED
  BY <1>1, <1>2, <1>3, <1>4 DEF Inv

\* A Record keeps the invariant, also on top of damage.
LEMMA RecordKeeps ==
  ASSUME Inv, NEW c \in Chains, NEW x \in Contents, Record(c, x)
  PROVE  Inv'
<1>1. PICK e : e = NextEntry(c, x)
  OBVIOUS
<1>2. PICK L : L = LastEntry(rows, c)
  OBVIOUS
<1>3. /\ records < MaxRecords
      /\ \A f \in rows : ~Conflicts(e, f)
      /\ rows' = rows \cup {e}
      /\ genuine' = genuine \cup {e}
      /\ records' = records + 1
      /\ hit' = hit /\ damages' = damages
  BY <1>1 DEF Record
<1>4. /\ rows \subseteq Row /\ genuine \subseteq Row /\ IsFiniteSet(rows)
      /\ hit \subseteq Chains /\ damages \in 0..MaxDamages
      /\ records \in Nat /\ records' \in 0..MaxRecords /\ MaxRecords \in Nat
  BY <1>3, IntegrityConstants DEF Inv, TypeOK, RowsInv
<1>t. Table(rows)
  BY TableOfInv
<1>5. /\ L.id \in Int /\ L.hash \in Hash
      /\ Reached(L.id, records)
  <2>1. CASE OfChain(rows, c) = {}
    <3>1. L = NoTail
      BY <1>2, <1>t, <2>1, ChainOfTable
    <3>2. L.id = 0 /\ L.hash \in Hash
      BY <3>1 DEF NoTail, GenesisPrevHash, Hash
    <3>3. Reached(0, records)
      BY <1>4 DEF Reached
    <3> QED
      BY <3>2, <3>3
  <2>2. CASE OfChain(rows, c) # {}
    <3>1. PICK f \in OfChain(rows, c) : L = [id |-> f.id, hash |-> f.hash]
      BY <1>2, <1>t, <2>2, ChainOfTable
    <3>2. f \in rows
      BY DEF OfChain
    <3>3. f.id \in Int /\ f.hash \in Hash /\ Reached(f.id, records)
      BY <1>4, <3>2, Positive DEF Inv, RowsInv, Row
    <3> QED
      BY <3>1, <3>3
  <2> QED
    BY <2>1, <2>2
<1>6. e = NewEntry(c, L.id + 1, x, L.hash)
  BY <1>1, <1>2 DEF NextEntry
<1>8. PICK n : n = L.id + 1
  OBVIOUS
<1>r. n \in Int /\ Reached(n, records') /\ n \in Column
  <2>1. n \in Int /\ records' \in Nat /\ records' <= MaxRecords
    BY <1>4, <1>5, <1>8
  <2>2. Reached(n, records')
    BY <1>3, <1>4, <1>5, <1>8, ReachedFacts
  <2> QED
    BY <2>1, <2>2, ReachedFacts
<1>7. /\ e \in Row /\ e.chain = c /\ e.id = n /\ e.hash = Recompute(e)
  <2>1. ComputeHash(c, n, x, L.hash) \in Hash
    BY <1>5, <1>r, NewEntryType
  <2> QED
    BY <1>5, <1>6, <1>8, <1>r, <2>1 DEF NewEntry, Recompute, Row
<1>9. TypeOK'
  BY <1>3, <1>4, <1>7 DEF TypeOK
<1>10. RowsInv'
  <2>1. IsFiniteSet(rows')
    BY <1>3, <1>4, FS_AddElement
  <2>2. \A f, g \in rows' : Conflicts(f, g) => f = g
    BY <1>3 DEF Inv, RowsInv, Conflicts
  <2>3. SomeHashes' = SomeHashes \cup {e.hash}
    BY <1>3 DEF SomeHashes
  <2>4. \A f \in rows' : f.hash \in SomeHashes'
    BY <1>3, <2>3 DEF Inv, RowsInv
  <2>5. \A f \in rows : Reached(f.id, records')
    BY <1>3, <1>4, Positive, ReachedFacts DEF Inv, RowsInv
  <2>6. \A f \in rows' : Reached(f.id, records')
    BY <1>3, <1>7, <1>r, <2>5
  <2>7. rows' \subseteq Row
    BY <1>3, <1>4, <1>7
  <2> QED
    BY <2>1, <2>2, <2>4, <2>6, <2>7 DEF RowsInv
<1>11. GenuineInv'
  BY <1>3, <1>4, <1>7 DEF Inv, GenuineInv
<1>12. UntouchedInv'
  <2> SUFFICES ASSUME NEW d \in Chains, d \notin hit PROVE Ledger(rows', d)
    BY <1>3 DEF UntouchedInv
  <2>1. PICK S : S = rows
    OBVIOUS
  <2>2. Ledger(S, d)
    BY <2>1 DEF Inv, UntouchedInv
  <2>3. CASE d = c
    <3>1. PICK es : es = OfChain(S, d)
      OBVIOUS
    <3>2. /\ es \in SUBSET Entry /\ Ledger(es, d)
          /\ LastEntry(es, d) = LastEntry(S, d) /\ OfChain(es, d) = OfChain(S, d)
      BY <1>t, <2>1, <2>2, <3>1, IntactRows
    <3>3. e = NewEntry(d, LastEntry(es, d).id + 1, x, LastEntry(es, d).hash)
      BY <1>2, <1>6, <2>1, <2>3, <3>2
    <3>4. Ledger(es \cup {e}, d)
      BY <3>2, <3>3, AppendKeepsLedger
    <3>5. OfChain(es \cup {e}, d) = OfChain(S \cup {e}, d)
      BY <3>1 DEF OfChain
    <3>6. Ledger(S \cup {e}, d)
      BY <3>4, <3>5, SameRowsSameLedger
    <3> QED
      BY <1>3, <2>1, <3>6
  <2>4. CASE d # c
    <3>1. Ledger(S \cup {e}, d)
      BY <1>7, <2>2, <2>4, OtherChain
    <3> QED
      BY <1>3, <2>1, <3>1
  <2> QED
    BY <2>3, <2>4
<1> QED
  BY <1>9, <1>10, <1>11, <1>12 DEF Inv

(***************************************************************************)
(* What a row may become: an entry at a position that can be reached, with *)
(* a hash that an entry has or none can have, in a chain marked as hit.    *)
(***************************************************************************)
LEMMA DamageKeeps ==
  ASSUME Inv, NEW e \in rows, NEW new, NEW where \in SUBSET Chains, Damage(e, new, where),
         e.chain \in where,
         NEW d, new \subseteq {d},
         d \in new => /\ d \in Row /\ d.chain \in where
                      /\ Reached(d.id, records) /\ d.hash \in SomeHashes
  PROVE  Inv'
<1>1. /\ damages < MaxDamages
      /\ \A b \in new, f \in rows \ {e} : ~Conflicts(b, f)
      /\ rows' = (rows \ {e}) \cup new
      /\ hit' = hit \cup where
      /\ damages' = damages + 1
      /\ genuine' = genuine /\ records' = records
  BY DEF Damage
<1>2. /\ rows \subseteq Row /\ genuine \subseteq Row /\ IsFiniteSet(rows)
      /\ hit \subseteq Chains /\ damages \in 0..MaxDamages /\ MaxDamages \in Nat
      /\ records \in 0..MaxRecords
  BY IntegrityConstants DEF Inv, TypeOK, RowsInv
<1>3. rows' \subseteq Row
  BY <1>1, <1>2
<1>4. TypeOK'
  BY <1>1, <1>2, <1>3 DEF TypeOK
<1>5. RowsInv'
  <2>1. IsFiniteSet(rows')
    <3>1. rows' \in SUBSET (rows \cup {d})
      BY <1>1
    <3>2. IsFiniteSet(rows \cup {d})
      BY <1>2, FS_AddElement
    <3> QED
      BY <3>1, <3>2, FS_Subset
  <2>2. \A f, g \in rows' : Conflicts(f, g) => f = g
    BY <1>1 DEF Inv, RowsInv, Conflicts
  <2>3. SomeHashes' = SomeHashes
    BY <1>1 DEF SomeHashes
  <2>4. \A f \in rows' : Reached(f.id, records') /\ f.hash \in SomeHashes'
    BY <1>1, <2>3 DEF Inv, RowsInv
  <2> QED
    BY <1>3, <2>1, <2>2, <2>4 DEF RowsInv
<1>6. GenuineInv'
  BY <1>1 DEF Inv, GenuineInv
<1>7. UntouchedInv'
  <2> SUFFICES ASSUME NEW c \in Chains, c \notin hit, c \notin where PROVE Ledger(rows', c)
    BY <1>1 DEF UntouchedInv
  <2>1. PICK S, R : S = rows /\ R = rows'
    OBVIOUS
  <2>2. OfChain(S, c) = OfChain(R, c)
    BY <1>1, <2>1 DEF OfChain
  <2>3. Ledger(S, c)
    BY <2>1 DEF Inv, UntouchedInv
  <2>4. Ledger(R, c)
    BY <2>2, <2>3, SameRowsSameLedger
  <2> QED
    BY <2>1, <2>4
<1> QED
  BY <1>4, <1>5, <1>6, <1>7 DEF Inv

\* Every step keeps the invariant.
LEMMA NextKeeps ==
  ASSUME Inv, Next
  PROVE  Inv'
<1>1. ASSUME NEW c \in Chains, NEW x \in Contents, Record(c, x) PROVE Inv'
  BY <1>1, RecordKeeps
<1>2. ASSUME NEW e \in rows,
             \/ \E x \in Contents : AlterContent(e, x)
             \/ \E h \in SomeHashes \cup {GenesisPrevHash} : AlterPrevHash(e, h)
             \/ \E h \in SomeHashes : AlterHash(e, h)
             \/ \E c \in Chains : MoveToChain(e, c)
             \/ \E n \in Positions : MoveToPosition(e, n)
             \/ LoseRow(e)
      PROVE  Inv'
  <2>1. /\ e \in Row /\ e.chain \in Chains /\ {e.chain} \in SUBSET Chains
        /\ e.id \in Column /\ Reached(e.id, records) /\ e.hash \in SomeHashes
    BY DEF Inv, RowsInv, Row
  <2>2. SomeHashes \subseteq Hash /\ GenesisPrevHash \in Hash
    BY SomeHashesType
  <2>3. ASSUME NEW x \in Contents, AlterContent(e, x) PROVE Inv'
    <3>1. PICK d : d = [e EXCEPT !.content = x]
      OBVIOUS
    <3>2. d \in Row /\ d.chain = e.chain /\ d.id = e.id /\ d.hash = e.hash
      BY <2>1, <3>1 DEF Row
    <3>3. Damage(e, {d}, {e.chain})
      BY <2>3, <3>1 DEF AlterContent
    <3> QED
      BY <2>1, <3>2, <3>3, DamageKeeps
  <2>4. ASSUME NEW h \in SomeHashes \cup {GenesisPrevHash}, AlterPrevHash(e, h) PROVE Inv'
    <3>1. PICK d : d = [e EXCEPT !.prevHash = h]
      OBVIOUS
    <3>2. d \in Row /\ d.chain = e.chain /\ d.id = e.id /\ d.hash = e.hash
      BY <2>1, <2>2, <3>1 DEF Row
    <3>3. Damage(e, {d}, {e.chain})
      BY <2>4, <3>1 DEF AlterPrevHash
    <3> QED
      BY <2>1, <3>2, <3>3, DamageKeeps
  <2>5. ASSUME NEW h \in SomeHashes, AlterHash(e, h) PROVE Inv'
    <3>1. PICK d : d = [e EXCEPT !.hash = h]
      OBVIOUS
    <3>2. d \in Row /\ d.chain = e.chain /\ d.id = e.id /\ d.hash = h
      BY <2>1, <2>2, <3>1 DEF Row
    <3>3. Damage(e, {d}, {e.chain})
      BY <2>5, <3>1 DEF AlterHash
    <3> QED
      BY <2>1, <3>2, <3>3, DamageKeeps
  <2>6. ASSUME NEW c \in Chains, MoveToChain(e, c) PROVE Inv'
    <3>1. PICK d : d = [e EXCEPT !.chain = c]
      OBVIOUS
    <3>2. d \in Row /\ d.chain = c /\ d.id = e.id /\ d.hash = e.hash
      BY <2>1, <3>1 DEF Row
    <3>3. Damage(e, {d}, {e.chain, c})
      BY <2>6, <3>1 DEF MoveToChain
    <3>4. {e.chain, c} \in SUBSET Chains
      BY <2>1
    <3> QED
      BY <2>1, <3>2, <3>3, <3>4, DamageKeeps
  <2>7. ASSUME NEW n \in Positions, MoveToPosition(e, n) PROVE Inv'
    <3>1. PICK d : d = [e EXCEPT !.id = n]
      OBVIOUS
    <3>2. n \in Int /\ records \in Nat /\ records <= MaxRecords
      BY IntegrityConstants DEF Inv, TypeOK
    <3>3. n <= n /\ n <= n + records
      BY <3>2
    <3>4. Reached(n, records)
      BY <3>3 DEF Reached
    <3>5. n \in Column
      BY <3>2, <3>4, ReachedFacts
    <3>6. d \in Row /\ d.chain = e.chain /\ d.id = n /\ d.hash = e.hash
      BY <2>1, <3>1, <3>5 DEF Row
    <3>7. Damage(e, {d}, {e.chain})
      BY <2>7, <3>1 DEF MoveToPosition
    <3> QED
      BY <2>1, <3>4, <3>6, <3>7, DamageKeeps
  <2>8. ASSUME LoseRow(e) PROVE Inv'
    <3>1. Damage(e, {}, {e.chain})
      BY <2>8 DEF LoseRow
    <3>2. {} \subseteq {e} /\ e \notin {}
      OBVIOUS
    <3> QED
      BY <2>1, <3>1, <3>2, DamageKeeps
  <2> QED
    BY <1>2, <2>3, <2>4, <2>5, <2>6, <2>7, <2>8
<1> QED
  BY <1>1, <1>2 DEF Next

\* A stuttering step keeps the invariant.
LEMMA StutterKeeps ==
  ASSUME Inv, UNCHANGED vars
  PROVE  Inv'
<1>1. /\ rows' = rows /\ genuine' = genuine /\ hit' = hit
      /\ records' = records /\ damages' = damages
  BY DEF vars
<1>2. SomeHashes' = SomeHashes
  BY <1>1 DEF SomeHashes
<1>3. RowsInv'
  BY <1>1, <1>2 DEF Inv, RowsInv
<1>4. TypeOK' /\ GenuineInv' /\ UntouchedInv'
  BY <1>1 DEF Inv, TypeOK, GenuineInv, UntouchedInv
<1> QED
  BY <1>3, <1>4 DEF Inv

(***************************************************************************)
(* The invariant holds throughout.                                         *)
(***************************************************************************)
THEOREM InvHolds == Spec => []Inv
<1>1. Init => Inv
  BY InitInv
<1>2. Inv /\ [Next]_vars => Inv'
  BY NextKeeps, StutterKeeps
<1> QED
  BY <1>1, <1>2, PTL DEF Spec

(***************************************************************************)
(* TypeOK: Record and every damage leave rows of the right shape.          *)
(***************************************************************************)
THEOREM TypeCorrect == Spec => []TypeOK
<1>1. Inv => TypeOK
  BY DEF Inv
<1> QED
  BY <1>1, InvHolds, PTL

-----------------------------------------------------------------------------
(***************************************************************************)
(* Rows that have the hash of their own fields, and the same hash, have    *)
(* the same bytes.                                                         *)
(***************************************************************************)
LEMMA SameHashSameBytes ==
  ASSUME NEW e \in Row, NEW g \in Row, e.hash = Recompute(e), g.hash = Recompute(g),
         g.hash = e.hash
  PROVE  SameBytes(e, g)
<1>1. PICK c, n, z, h : c = e.chain /\ n = e.id /\ z = e.content /\ h = e.prevHash
  OBVIOUS
<1>2. PICK d, m, y, k : d = g.chain /\ m = g.id /\ y = g.content /\ k = g.prevHash
  OBVIOUS
<1>3. /\ c \in Chains /\ n \in Int /\ z \in Contents /\ h \in Hash
      /\ d \in Chains /\ m \in Int /\ y \in Contents /\ k \in Hash
  BY <1>1, <1>2, Positive DEF Row
<1>4. ComputeHash(c, n, z, h) = ComputeHash(d, m, y, k)
  BY <1>1, <1>2 DEF Recompute
<1>5. Text(c, n, z) = Text(d, m, y) /\ h = k
  BY <1>3, <1>4, HashInjective
<1> QED
  BY <1>1, <1>2, <1>5 DEF SameBytes

(***************************************************************************)
(* Nobody's hash is not the hash of any fields.                            *)
(***************************************************************************)
LEMMA GarbledIsNoHash ==
  ASSUME NEW e \in Row
  PROVE  Recompute(e) # Garbled
<1>1. PICK c, n, z, h : c = e.chain /\ n = e.id /\ z = e.content /\ h = e.prevHash
  OBVIOUS
<1>2. c \in Chains /\ n \in Int /\ z \in Contents /\ h \in Hash
  BY <1>1, Positive DEF Row
<1>3. PICK T, p : T = SUBSET Fields /\ p = Text(c, n, z)
  OBVIOUS
<1>4. p \in T /\ h \in Seq(T)
  BY <1>2, <1>3, TextType DEF Hash
<1>5. p # {}
  BY <1>3, OwnInText
<1>6. PICK a : a = Append(h, p)
  OBVIOUS
<1>7. Len(a) = Len(h) + 1 /\ a[Len(h) + 1] = p /\ Len(h) \in Nat
  BY <1>4, <1>6, AppendProperties
<1>8. SUFFICES ASSUME a = << {} >> PROVE FALSE
  BY <1>1, <1>3, <1>6 DEF Recompute, ComputeHash, Garbled
<1>9. Len(a) = 1 /\ a[1] = {}
  BY <1>8
<1>10. Len(h) + 1 = 1
  BY <1>7, <1>9
<1> QED
  BY <1>5, <1>7, <1>9, <1>10

(***************************************************************************)
(* A row that has the hash of its own fields has the bytes of an entry     *)
(* that Record wrote, and no other row has.                                *)
(***************************************************************************)
LEMMA OwnHashMeansGenuine ==
  ASSUME Inv, NEW e \in rows
  PROVE  Recompute(e) = e.hash <=> \E g \in genuine : SameBytes(e, g)
<1>1. e \in Row /\ e.hash \in SomeHashes
  BY DEF Inv, RowsInv
<1>2. \A g \in genuine : g \in Row /\ g.hash = Recompute(g)
  BY DEF Inv, GenuineInv
<1>3. ASSUME Recompute(e) = e.hash PROVE \E g \in genuine : SameBytes(e, g)
  <2>1. PICK g \in genuine : g.hash = e.hash
    BY <1>1, <1>3, GarbledIsNoHash DEF SomeHashes
  <2> QED
    BY <1>1, <1>2, <1>3, <2>1, SameHashSameBytes
<1>4. ASSUME NEW g \in genuine, SameBytes(e, g) PROVE Recompute(e) = e.hash
  BY <1>2, <1>4 DEF SameBytes, Recompute, ComputeHash
<1> QED
  BY <1>3, <1>4

(***************************************************************************)
(* Rows of a chain are as recorded exactly when Verify finds them sound.   *)
(***************************************************************************)
LEMMA AllSoundMeansAsRecorded ==
  ASSUME Inv, NEW es \in SUBSET rows
  PROVE  AsRecorded(es) <=> \A e \in es : Sound(es, e)
<1>1. \A e \in es : Recompute(e) = e.hash <=> \E g \in genuine : SameBytes(e, g)
  BY OwnHashMeansGenuine
<1> QED
  BY <1>1 DEF AsRecorded, Sound, HashBelow

(***************************************************************************)
(* ValidMeansAsRecorded: whatever was damaged and recorded, in whatever    *)
(* order, and whichever entries read alike, the rows that Verify accepts   *)
(* have the bytes of entries that Record wrote, each on top of the one     *)
(* below it.                                                               *)
(***************************************************************************)
THEOREM ValidAlwaysMeansAsRecorded == Spec => []ValidMeansAsRecorded
<1>1. ASSUME Inv PROVE ValidMeansAsRecorded
  <2> SUFFICES ASSUME NEW c \in Chains, Valid(c) PROVE AsRecorded(Scanned(rows, c))
    BY DEF ValidMeansAsRecorded
  <2>1. PICK R, ss : R = rows /\ ss = Scanned(R, c)
    OBVIOUS
  <2>2. Table(R)
    BY <1>1, <2>1, TableOfInv
  <2>3. VerifyTable(R, c, 0).valid
    BY <2>1 DEF Valid, Verify
  <2>4. \A e \in ss : Sound(ss, e)
    BY <2>1, <2>2, <2>3, VerifyVerdict
  <2>5. ss \in SUBSET rows
    BY <2>1 DEF Scanned, OfChain
  <2>6. AsRecorded(ss)
    BY <1>1, <2>4, <2>5, AllSoundMeansAsRecorded
  <2> QED
    BY <2>1, <2>6
<1> QED
  BY <1>1, InvHolds, PTL

(***************************************************************************)
(* BrokenAtFirstDamage: the row Verify reports is the lowest it scans that *)
(* has not the bytes of the entry recorded there.                          *)
(***************************************************************************)
THEOREM BrokenAlwaysAtFirstDamage == Spec => []BrokenAtFirstDamage
<1>1. ASSUME Inv PROVE BrokenAtFirstDamage
  <2> SUFFICES ASSUME NEW c \in Chains, ~Verify(c, 0).valid
               PROVE  /\ AsRecorded({ e \in Scanned(rows, c) : e.id <= Verify(c, 0).brokenAt - 1 })
                      /\ ~AsRecorded({ e \in Scanned(rows, c) : e.id <= Verify(c, 0).brokenAt })
    BY DEF BrokenAtFirstDamage
  <2>1. PICK R, ss : R = rows /\ ss = Scanned(R, c)
    OBVIOUS
  <2>2. Table(R) /\ ScanRows(ss, c)
    BY <1>1, <2>1, TableOfInv, ChainOfTable
  <2>3. Verify(c, 0) = VerifyTable(R, c, 0)
    BY <2>1 DEF Verify
  <2>4. PICK b : FirstUnsound(ss, b) /\ VerifyTable(R, c, 0) = Report(ss, b)
    BY <2>1, <2>2, <2>3, VerifyVerdict
  <2>5. Verify(c, 0).brokenAt = b.id
    BY <2>3, <2>4 DEF Report
  <2>6. b \in ss /\ ~Sound(ss, b) /\ \A f \in ss : f.id < b.id => Sound(ss, f)
    BY <2>4 DEF FirstUnsound
  <2>7. b.id \in Nat /\ b.id - 1 \in Int /\ \A f \in ss : f.id \in Nat
    BY <2>2, <2>6 DEF ScanRows, Entry
  <2>8. /\ UpTo(ss, b.id - 1) \in SUBSET rows
        /\ UpTo(ss, b.id) \in SUBSET rows
    BY <2>1 DEF UpTo, Scanned, OfChain
  <2>9. AsRecorded(UpTo(ss, b.id - 1))
    <3>1. \A f \in UpTo(ss, b.id - 1) : Sound(ss, f)
      BY <2>6, <2>7 DEF UpTo
    <3>2. \A f \in UpTo(ss, b.id - 1) : Sound(UpTo(ss, b.id - 1), f)
      BY <2>2, <2>7, <3>1, PrefixSeesTheSame
    <3> QED
      BY <1>1, <2>8, <3>2, AllSoundMeansAsRecorded
  <2>10. ~AsRecorded(UpTo(ss, b.id))
    <3>1. b \in UpTo(ss, b.id)
      BY <2>6, <2>7 DEF UpTo
    <3>2. ~Sound(UpTo(ss, b.id), b)
      BY <2>2, <2>6, <2>7, <3>1, PrefixSeesTheSame
    <3> QED
      BY <1>1, <2>8, <3>1, <3>2, AllSoundMeansAsRecorded
  <2> QED
    BY <2>1, <2>5, <2>9, <2>10 DEF UpTo
<1> QED
  BY <1>1, InvHolds, PTL

(***************************************************************************)
(* DamageContained: a chain that no damage has touched is intact and so    *)
(* found valid, whatever happened to the other chains of the table.        *)
(***************************************************************************)
THEOREM DamageAlwaysContained == Spec => []DamageContained
<1>1. ASSUME Inv PROVE DamageContained
  <2> SUFFICES ASSUME NEW c \in Chains, c \notin hit PROVE Valid(c)
    BY DEF DamageContained
  <2>1. PICK R, es : R = rows /\ es = OfChain(R, c)
    OBVIOUS
  <2>2. Table(R) /\ Ledger(R, c)
    BY <1>1, <2>1, TableOfInv DEF Inv, UntouchedInv
  <2>3. CASE es = {}
    <3>1. VerifyTable(R, c, 0) = EmptyResult
      BY <2>1, <2>2, <2>3, VerifyScans
    <3> QED
      BY <2>1, <3>1 DEF Valid, Verify, EmptyResult, ValidResult
  <2>4. CASE es # {}
    <3>1. /\ es \in SUBSET Entry /\ Ledger(es, c) /\ OfChain(es, c) = OfChain(R, c)
      BY <2>1, <2>2, IntactRows
    <3>2. PICK e \in es : LastEntry(R, c) = [id |-> e.id, hash |-> e.hash]
      BY <2>1, <2>2, <2>4, ChainOfTable
    <3>3. LastEntry(R, c).id = e.id /\ e.id \in Nat
      BY <3>1, <3>2 DEF Entry
    <3>4. VerifyTable(R, c, 0) = VerifyRows(R, c, 1, e.id)
      BY <2>1, <2>4, <3>3 DEF VerifyTable
    <3>5. VerifyRows(es, c, 1, e.id).valid = TRUE
      <4>1. 1 \in Nat /\ 1 <= 1 /\ e.id \in Nat
        BY <3>3
      <4> QED
        BY <3>1, <4>1, VerifyIntactChain
    <3>6. VerifyRows(es, c, 1, e.id) = VerifyRows(R, c, 1, e.id)
      BY <3>1, SameRowsSameLedger
    <3> QED
      BY <2>1, <3>4, <3>5, <3>6 DEF Valid, Verify
  <2> QED
    BY <2>3, <2>4
<1> QED
  BY <1>1, InvHolds, PTL

(***************************************************************************)
(* PrefixesAgree: for every upper bound that the column can hold, Verify   *)
(* of the prefix stops where Verify of the whole chain does, if the prefix *)
(* reaches that row, and accepts the prefix otherwise.                     *)
(***************************************************************************)
THEOREM PrefixesAlwaysAgree == Spec => []PrefixesAgree
<1>1. ASSUME Inv PROVE PrefixesAgree
  <2> SUFFICES ASSUME NEW c \in Chains, NEW to \in 1..2^(IDBits - 1) - 1
               PROVE  IF Verify(c, 0).valid \/ to < Verify(c, 0).brokenAt
                        THEN Verify(c, to).valid
                        ELSE Verify(c, to) = Verify(c, 0)
    BY DEF PrefixesAgree
  <2>1. PICK R, es : R = rows /\ es = Scanned(R, c)
    OBVIOUS
  <2>2. PICK us : us = UpTo(es, to)
    OBVIOUS
  <2>3. Table(R) /\ ScanRows(es, c) /\ to \in Int /\ to \in Nat
    BY <1>1, <2>1, TableOfInv, ChainOfTable, ColumnHolds
  <2>4. /\ ScanRows(us, c)
        /\ \A e \in us : (Sound(us, e) <=> Sound(es, e)) /\ Report(us, e) = Report(es, e)
        /\ \A b : b \in us /\ FirstUnsound(es, b) => FirstUnsound(us, b)
    BY <2>2, <2>3, PrefixSeesTheSame
  <2>5. Verify(c, to) = verifyChain(Ordered(us)) /\ Verify(c, 0) = VerifyTable(R, c, 0)
    BY <2>1, <2>2, <2>3, VerifyScans DEF Verify
  <2>6. us \subseteq es /\ \A e \in es : e \in us <=> e.id <= to
    BY <2>2 DEF UpTo
  <2>7. (\A e \in us : Sound(us, e)) => Verify(c, to).valid
    BY <2>4, <2>5, VerdictOnRows DEF ValidResult
  <2>8. CASE Verify(c, 0).valid
    <3>1. \A e \in es : Sound(es, e)
      BY <2>1, <2>3, <2>5, <2>8, VerifyVerdict
    <3> QED
      BY <2>4, <2>6, <2>7, <2>8, <3>1
  <2>9. CASE ~Verify(c, 0).valid
    <3>1. PICK b : FirstUnsound(es, b) /\ Verify(c, 0) = Report(es, b)
      BY <2>1, <2>3, <2>5, <2>9, VerifyVerdict
    <3>2. b \in es /\ \A f \in es : f.id < b.id => Sound(es, f)
      BY <3>1 DEF FirstUnsound
    <3>3. Verify(c, 0).brokenAt = b.id /\ b.id \in Nat /\ \A f \in es : f.id \in Nat
      BY <2>3, <3>1, <3>2 DEF Report, ScanRows, Entry
    <3>4. ASSUME to < b.id PROVE Verify(c, to).valid
      <4>1. \A f \in us : f.id < b.id
        BY <2>3, <2>6, <3>3, <3>4
      <4> QED
        BY <2>4, <2>6, <2>7, <3>2, <4>1
    <3>5. ASSUME ~(to < b.id) PROVE Verify(c, to) = Verify(c, 0)
      <4>1. b \in us
        BY <2>3, <2>6, <3>2, <3>3, <3>5
      <4>2. FirstUnsound(us, b) /\ Report(us, b) = Report(es, b)
        BY <2>4, <3>1, <4>1
      <4> QED
        BY <2>4, <2>5, <3>1, <4>2, VerdictOnRows
    <3> QED
      BY <2>9, <3>3, <3>4, <3>5
  <2> QED
    BY <2>8, <2>9
<1> QED
  BY <1>1, InvHolds, PTL

(***************************************************************************)
(* A new row above the rows of a chain changes nothing of what Verify sees *)
(* of them.                                                                *)
(***************************************************************************)
LEMMA NewRowHidesNothing ==
  ASSUME NEW es, NEW c, NEW e, ChainRows(es, c), NEW n \in Int, e.id = n,
         \A f \in es : f.id < n, NEW f \in es, ~Sound(es, f)
  PROVE  ~Sound(es \cup {e}, f)
<1>1. { g \in es \cup {e} : g.id < f.id } = { g \in es : g.id < f.id }
  <2>1. e.id \in Int /\ f.id \in Int /\ f.id < e.id
    BY DEF ChainRows
  <2>2. ~(e.id < f.id)
    BY <2>1
  <2> QED
    BY <2>2
<1> QED
  BY <1>1 DEF Sound, HashBelow

(***************************************************************************)
(* RecordHidesNothing: a chain that Verify rejects is rejected after every *)
(* Record, to it or to another chain.                                      *)
(***************************************************************************)
THEOREM RecordNeverHides == Spec => RecordHidesNothing
<1>1. ASSUME Inv, Inv', Next, records' # records, NEW d \in Chains, ~Valid(d)
      PROVE  ~VerifyTable(rows', d, 0).valid
  <2>1. PICK c \in Chains, x \in Contents : Record(c, x)
    <3>1. ASSUME NEW e, NEW new, NEW where, Damage(e, new, where) PROVE FALSE
      BY <1>1, <3>1 DEF Damage
    <3> QED
      BY <1>1, <3>1 DEF Next, AlterContent, AlterPrevHash, AlterHash, MoveToChain,
         MoveToPosition, LoseRow
  <2>2. PICK R, Q, L, e : /\ R = rows /\ Q = rows' /\ L = LastEntry(R, c)
                          /\ e = NewEntry(c, L.id + 1, x, L.hash)
    OBVIOUS
  <2>3. Q = R \cup {e} /\ e.chain = c /\ e.id = L.id + 1
    BY <2>1, <2>2 DEF Record, NextEntry, NewEntry
  <2>4. Table(R)
    BY <1>1, <2>2, TableOfInv
  <2>5. Table(Q)
    <3>1. (Inv => Table(rows))'
      BY TableOfInv, PTL
    <3> QED
      BY <1>1, <2>2, <3>1 DEF Table
  <2>6. PICK es, qs : es = Scanned(R, d) /\ qs = Scanned(Q, d)
    OBVIOUS
  <2>7. ScanRows(es, d) /\ \A f \in es : f \in OfChain(R, d)
    BY <2>4, <2>6, ChainOfTable DEF Scanned
  <2>8. ~VerifyTable(R, d, 0).valid
    BY <1>1, <2>2 DEF Valid, Verify
  <2>9. PICK b \in es : ~Sound(es, b)
    BY <2>4, <2>6, <2>8, VerifyVerdict
  <2>10. b \in qs /\ ~Sound(qs, b)
    <3>1. CASE qs = es
      BY <2>9, <3>1
    <3>2. CASE qs # es
      <4>1. d = c /\ qs = es \cup {e}
        BY <2>3, <2>6, <3>2 DEF Scanned, OfChain
      <4>2. PICK m \in OfChain(R, c) : /\ \A f \in OfChain(R, c) : f.id <= m.id
                                      /\ L = [id |-> m.id, hash |-> m.hash]
        BY <2>2, <2>4, <2>7, <2>9, <4>1, ChainOfTable
      <4>3. ChainRows(OfChain(R, c), c)
        BY <2>4, ChainOfTable
      <4>4. \A f \in OfChain(R, c) : f.id \in Int
        BY <4>3 DEF ChainRows
      <4>5. PICK n : n = L.id + 1
        OBVIOUS
      <4>6. n \in Int /\ e.id = n /\ \A f \in es : f.id < n
        BY <2>3, <2>7, <4>1, <4>2, <4>4, <4>5
      <4>7. ChainRows(es, d)
        BY <2>7 DEF ScanRows
      <4> QED
        BY <2>9, <4>1, <4>6, <4>7, NewRowHidesNothing
    <3> QED
      BY <3>1, <3>2
  <2>11. ~VerifyTable(Q, d, 0).valid
    BY <2>5, <2>6, <2>10, VerifyVerdict
  <2> QED
    BY <2>2, <2>11
<1>2. Inv /\ Inv' /\ [Next]_vars
        => [records' # records =>
              \A c \in Chains : ~Valid(c) => ~VerifyTable(rows', c, 0).valid]_vars
  BY <1>1 DEF vars
<1> QED
  BY <1>2, InvHolds, PTL DEF Spec, RecordHidesNothing

-----------------------------------------------------------------------------
(***************************************************************************)
(* A hash that covers another one is equal to it or was computed from a    *)
(* hash that covers it.                                                    *)
(***************************************************************************)
LEMMA CoveredByPrevHash ==
  ASSUME NEW S, NEW h \in Seq(S), NEW p \in S, NEW g \in Seq(S), Covers(Append(h, p), g)
  PROVE  g = Append(h, p) \/ Covers(h, g)
<1>1. PICK a : a = Append(h, p)
  OBVIOUS
<1>2. /\ a \in Seq(S) /\ Len(a) = Len(h) + 1 /\ Len(h) \in Nat /\ Len(g) \in Nat
      /\ \A i \in 1..Len(h) : a[i] = h[i]
  BY <1>1, AppendProperties
<1>3. Len(g) <= Len(a) /\ SubSeq(a, 1, Len(g)) = g
  BY <1>1 DEF Covers
<1>4. \A i \in 1..Len(g) : g[i] = a[i]
  <2>1. \A i \in 1..Len(g) : a[i] \in S
    BY <1>2, <1>3
  <2>2. \A i \in 1..Len(g) : SubSeq(a, 1, Len(g))[i] = a[i]
    BY <1>2, <2>1, SubSeqProperties
  <2> QED
    BY <1>3, <2>2
<1>5. CASE Len(g) = Len(a)
  <2>1. g = a
    BY <1>2, <1>4, <1>5, SeqEqual
  <2> QED
    BY <1>1, <2>1
<1>6. CASE Len(g) <= Len(h)
  <2>1. \A i \in 1..Len(g) : h[i] \in S /\ g[i] = h[i]
    BY <1>2, <1>4, <1>6
  <2>2. PICK q : q = SubSeq(h, 1, Len(g))
    OBVIOUS
  <2>3. q \in Seq(S) /\ Len(q) = Len(g) /\ \A i \in 1..Len(g) : q[i] = h[i]
    BY <1>2, <2>1, <2>2, SubSeqProperties
  <2>4. q = g
    BY <2>1, <2>3, SeqEqual
  <2> QED
    BY <1>6, <2>2, <2>4 DEF Covers
<1>7. Len(g) = Len(a) \/ Len(g) <= Len(h)
  <2>1. PICK m, n : m = Len(g) /\ n = Len(h)
    OBVIOUS
  <2>2. m \in Nat /\ n \in Nat /\ m <= n + 1 /\ Len(a) = n + 1
    BY <1>2, <1>3, <2>1
  <2>3. m = n + 1 \/ m <= n
    BY <2>2
  <2> QED
    BY <2>1, <2>2, <2>3
<1> QED
  BY <1>5, <1>6, <1>7

(***************************************************************************)
(* InteriorRemovalDetected: a chain that Verify accepts still has the      *)
(* bytes of every entry that one of its rows was recorded on top of,       *)
(* however many rows were lost, moved away and moved back.                 *)
(***************************************************************************)
THEOREM InteriorRemovalAlwaysDetected == Spec => []InteriorRemovalDetected
<1>1. ASSUME Inv PROVE InteriorRemovalDetected
  <2> SUFFICES ASSUME NEW c \in Chains, Valid(c), NEW g \in genuine,
                      ~(\A e \in Scanned(rows, c) :
                          Covers(e.hash, g.hash) =>
                            \E f \in Scanned(rows, c) : f.id <= e.id /\ SameBytes(f, g))
               PROVE  FALSE
    BY DEF InteriorRemovalDetected
  <2>1. PICK R, ss : R = rows /\ ss = Scanned(R, c)
    OBVIOUS
  <2>2. Table(R) /\ ScanRows(ss, c) /\ ChainRows(ss, c)
    BY <1>1, <2>1, TableOfInv, ChainOfTable DEF ScanRows
  <2>3. \A e \in ss : Sound(ss, e)
    BY <2>1, <2>2, VerifyVerdict DEF Valid, Verify
  <2>4. PICK bad : bad = { e \in ss : /\ Covers(e.hash, g.hash)
                                      /\ \A f \in ss : ~(f.id <= e.id /\ SameBytes(f, g)) }
    OBVIOUS
  <2>5. bad # {} /\ ChainRows(bad, c)
    BY <2>1, <2>2, <2>4, SomeRows
  <2>6. PICK e \in bad : \A f \in bad : e.id <= f.id
    BY <2>5, LowestAndHighest
  <2>7. Covers(e.hash, g.hash) /\ \A f \in ss : ~(f.id <= e.id /\ SameBytes(f, g))
    BY <2>4, <2>6
  <2>8. e \in ss /\ e \in Row /\ e.chain = c /\ e.id \in Int
    BY <2>1, <2>2, <2>4, <2>6, Positive DEF ChainRows, Table, Scanned, OfChain
  <2>9. g \in Row /\ g.hash = Recompute(g)
    BY <1>1 DEF Inv, GenuineInv
  <2>10. e.hash = Recompute(e) /\ e.prevHash = HashBelow(ss, e)
    BY <2>3, <2>8 DEF Sound
  <2>11. PICK p, q : p = Text(e.chain, e.id, e.content) /\ q = Text(g.chain, g.id, g.content)
    OBVIOUS
  <2>12. e.hash = Append(e.prevHash, p) /\ g.hash = Append(g.prevHash, q)
    BY <2>9, <2>10, <2>11 DEF Recompute, ComputeHash
  <2>13. PICK T : T = SUBSET Fields
    OBVIOUS
  <2>14. /\ p \in T /\ q \in T
         /\ e.prevHash \in Seq(T) /\ g.prevHash \in Seq(T) /\ g.hash \in Seq(T)
    <3>1. /\ e.chain \in Chains /\ e.id \in Int /\ e.content \in Contents
          /\ g.chain \in Chains /\ g.id \in Int /\ g.content \in Contents
      BY <2>8, <2>9, Positive DEF Row
    <3>2. p \in T /\ q \in T
      BY <2>11, <2>13, <3>1, TextType
    <3> QED
      BY <2>8, <2>9, <2>13, <3>2 DEF Row, Hash
  <2>15. g.hash # e.hash
    <3>1. ~SameBytes(e, g)
      BY <2>7, <2>8
    <3> QED
      BY <2>8, <2>9, <2>10, <3>1, SameHashSameBytes
  <2>16. Covers(e.prevHash, g.hash)
    BY <2>7, <2>12, <2>14, <2>15, CoveredByPrevHash
  <2>17. PICK below : below = { f \in ss : f.id < e.id }
    OBVIOUS
  <2>18. ChainRows(below, c) /\ e.prevHash = LastEntry(below, c).hash
    BY <2>2, <2>8, <2>10, <2>17, SomeRows DEF HashBelow
  <2>19. CASE below = {}
    <3>1. LastEntry(below, c) = NoTail
      BY <2>18, <2>19, LastOfRows
    <3>2. e.prevHash = << >>
      BY <2>18, <3>1 DEF NoTail, GenesisPrevHash
    <3>3. Len(g.hash) <= 0
      BY <2>16, <3>2 DEF Covers
    <3>4. Len(g.hash) = Len(g.prevHash) + 1 /\ Len(g.prevHash) \in Nat
      BY <2>12, <2>14, AppendProperties
    <3> QED
      BY <3>3, <3>4
  <2>20. CASE below # {}
    <3>1. PICK f \in below : \A k \in below : k.id <= f.id
      BY <2>18, <2>20, LowestAndHighest
    <3>2. LastEntry(below, c) = [id |-> f.id, hash |-> f.hash]
      BY <2>18, <3>1, LastOfRows
    <3>3. Covers(f.hash, g.hash)
      BY <2>16, <2>18, <3>2
    <3>4. f \in ss /\ f.id < e.id /\ f.id \in Int /\ \A k \in ss : k.id \in Int
      BY <2>2, <2>17, <3>1 DEF ChainRows
    <3>5. \A k \in ss : ~(k.id <= f.id /\ SameBytes(k, g))
      BY <2>7, <2>8, <3>4
    <3>6. f \in bad
      BY <2>4, <3>3, <3>4, <3>5
    <3> QED
      BY <2>6, <2>8, <3>4, <3>6
  <2> QED
    BY <2>19, <2>20
<1> QED
  BY <1>1, InvHolds, PTL
=============================================================================
