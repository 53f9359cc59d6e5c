-------------------------- MODULE EntryTableProofs --------------------------
(***************************************************************************)
(* Lemmas about the entries of a hash chain and the scan of Verify, and    *)
(* about tables of entries: what GetLastEntry returns on an intact chain,  *)
(* what a new entry on top of it preserves, and why an entry on top of a   *)
(* stale tail meets the primary key.                                       *)
(***************************************************************************)
EXTENDS EntryTable, SequenceTheorems, FiniteSetTheorems, TLAPS

(***************************************************************************)
(* What Append does to a sequence, index by index.                         *)
(***************************************************************************)
LEMMA AppendFacts ==
  ASSUME NEW S, NEW s \in Seq(S), NEW e \in S
  PROVE  /\ Append(s, e) \in Seq(S)
         /\ DOMAIN Append(s, e) = DOMAIN s \cup {Len(s) + 1}
         /\ Append(s, e)[Len(s) + 1] = e
         /\ \A i \in DOMAIN s : Append(s, e)[i] = s[i]
         /\ \A i \in DOMAIN s : i \in Nat /\ i < Len(s) + 1
         /\ Len(s) \in Nat
  BY AppendProperties

(***************************************************************************)
(* ComputeHash of typed arguments is a hash, so NewEntry is an entry.      *)
(***************************************************************************)
LEMMA TextType ==
  ASSUME NEW c \in Chains, NEW n \in Int, NEW z \in Contents
  PROVE  Text(c, n, z) \in SUBSET Fields
<1>1. <<c, n, z>> \in Fields
  BY DEF Fields
<1>2. \A same \in Collisions : same \subseteq Fields
  BY CollisionsAreClasses
<1>3. ASSUME <<c, n, z>> \in UNION Collisions
      PROVE  Alike[<<c, n, z>>] \in Collisions
  BY <1>3 DEF Alike
<1>4. DOMAIN Alike = UNION Collisions
  BY DEF Alike
<1> QED
  BY <1>1, <1>2, <1>3, <1>4 DEF Text

\* The fields themselves are among what reads like them (hash.go:78-87).
LEMMA OwnInText ==
  ASSUME NEW c, NEW n, NEW z
  PROVE  <<c, n, z>> \in Text(c, n, z)
<1>1. PICK f : f = <<c, n, z>>
  OBVIOUS
<1>2. ASSUME f \in UNION Collisions PROVE f \in Alike[f]
  BY <1>2 DEF Alike
<1>3. DOMAIN Alike = UNION Collisions
  BY DEF Alike
<1> QED
  BY <1>1, <1>2, <1>3 DEF Text

\* The type of what Record appends.
LEMMA NewEntryType ==
  ASSUME NEW c \in Chains, NEW n \in Int, NEW z \in Contents, NEW h \in Hash
  PROVE  /\ ComputeHash(c, n, z, h) \in Hash
         /\ n \in Nat => NewEntry(c, n, z, h) \in Entry
<1>1. ComputeHash(c, n, z, h) \in Hash
  BY TextType, AppendProperties DEF ComputeHash, Hash
<1> QED
  BY <1>1 DEF NewEntry, Entry

(***************************************************************************)
(* Equal hashes are hashes of the same text on top of the same             *)
(* predecessor.  This is where SHA-256 is taken to be collision free.      *)
(***************************************************************************)
LEMMA HashInjective ==
  ASSUME NEW c \in Chains, NEW d \in Chains, NEW n \in Int, NEW m \in Int,
         NEW z \in Contents, NEW y \in Contents, NEW h \in Hash, NEW g \in Hash,
         ComputeHash(c, n, z, h) = ComputeHash(d, m, y, g)
  PROVE  Text(c, n, z) = Text(d, m, y) /\ h = g
<1> DEFINE T == SUBSET Fields
<1>1. PICK p, q : p = Text(c, n, z) /\ q = Text(d, m, y)
  OBVIOUS
<1>2. p \in T /\ q \in T /\ h \in Seq(T) /\ g \in Seq(T)
  BY <1>1, TextType DEF Hash
<1>3. Append(h, p) = Append(g, q)
  BY <1>1 DEF ComputeHash
<1> HIDE DEF T
<1>4. /\ Len(Append(h, p)) = Len(h) + 1 /\ Len(Append(g, q)) = Len(g) + 1
      /\ Len(h) \in Nat /\ Len(g) \in Nat
  BY <1>2, AppendProperties
<1>5. Len(h) = Len(g)
  BY <1>3, <1>4
<1>6. p = q
  BY <1>2, <1>3, <1>5, AppendProperties
<1>7. h = g
  <2>1. \A i \in 1..Len(h) : h[i] = g[i]
    BY <1>2, <1>3, <1>5, AppendProperties
  <2> QED
    BY <1>2, <1>5, <2>1, SeqEqual
<1> QED
  BY <1>1, <1>6, <1>7

(***************************************************************************)
(* Where no two entries read alike, a text is that of one entry.           *)
(***************************************************************************)
LEMMA TextOfOneEntry ==
  ASSUME Collisions = {}, NEW c, NEW d, NEW n, NEW m, NEW z, NEW y,
         Text(c, n, z) = Text(d, m, y)
  PROVE  c = d /\ n = m /\ z = y
<1>1. PICK p, q : p = <<c, n, z>> /\ q = <<d, m, y>>
  OBVIOUS
<1>2. DOMAIN Alike = {}
  BY DEF Alike
<1>3. Text(c, n, z) = {p} /\ Text(d, m, y) = {q}
  BY <1>1, <1>2 DEF Text
<1>4. p = q
  BY <1>3
<1> QED
  BY <1>1, <1>4

(***************************************************************************)
(* Verify reports a chain as valid exactly when no row fails a check.      *)
(***************************************************************************)
LEMMA ValidMeansNoneBroken ==
  ASSUME NEW rs
  PROVE  verifyChain(rs).valid <=> BrokenRows(rs) = {}
  BY DEF verifyChain, ValidResult

-----------------------------------------------------------------------------
(***************************************************************************)
(* The inductive form of ChainIntact: the positions of the chain are 1..m  *)
(* for some m.  (ChainIntact alone says that no position below an entry is *)
(* missing; that there is a last one would take an induction.)             *)
(***************************************************************************)
Fills(S, c, m) ==
  /\ \A e \in OfChain(S, c) : e.id \in 1..m
  /\ \A i \in 1..m : \E e \in OfChain(S, c) : e.id = i

Ledger(S, c) == ChainIntact(S, c) /\ \E m \in Nat : Fills(S, c, m)

\* T is what GetLastEntry returned at some time, S having grown since.
OldTail(S, c, T) ==
  T = NoTail \/ \E e \in OfChain(S, c) : T = [id |-> e.id, hash |-> e.hash]

(***************************************************************************)
(* A chain without rows.                                                   *)
(***************************************************************************)
LEMMA EmptyLedger ==
  ASSUME NEW c
  PROVE  Ledger({}, c) /\ LastEntry({}, c) = NoTail
<1>1. OfChain({}, c) = {}
  BY DEF OfChain
<1>2. Fills({}, c, 0)
  BY <1>1 DEF Fills
<1> QED
  BY <1>1, <1>2 DEF Ledger, ChainIntact, LastEntry

(***************************************************************************)
(* GetLastEntry on an intact chain: the last position, with the hash of    *)
(* the one entry there.                                                    *)
(***************************************************************************)
LEMMA LastOfLedger ==
  ASSUME NEW S \in SUBSET Entry, NEW c, Ledger(S, c)
  PROVE  /\ LastEntry(S, c) \in [id : Nat, hash : Hash]
         /\ Fills(S, c, LastEntry(S, c).id)
         /\ OldTail(S, c, LastEntry(S, c))
         /\ OfChain(S, c) = {} => LastEntry(S, c) = NoTail
         /\ \A e \in OfChain(S, c) :
              e.id = LastEntry(S, c).id => LastEntry(S, c) = [id |-> e.id, hash |-> e.hash]
<1>1. PICK m \in Nat : Fills(S, c, m)
  BY DEF Ledger
<1>2. \A e \in OfChain(S, c) : e \in Entry /\ e.id \in Nat /\ e.hash \in Hash
  BY DEF OfChain, Entry
<1>3. \A e, f \in OfChain(S, c) : e.id = f.id => e = f
  BY DEF Ledger, ChainIntact
<1>4. CASE OfChain(S, c) = {}
  <2>1. m = 0
    BY <1>1, <1>4 DEF Fills
  <2>2. LastEntry(S, c) = NoTail
    BY <1>4 DEF LastEntry
  <2>3. NoTail \in [id : Nat, hash : Hash] /\ NoTail.id = 0
    BY DEF NoTail, GenesisPrevHash, Hash
  <2> QED
    BY <1>1, <1>4, <2>1, <2>2, <2>3 DEF OldTail
<1>5. CASE OfChain(S, c) # {}
  <2> DEFINE e == CHOOSE e \in OfChain(S, c) : \A f \in OfChain(S, c) : f.id <= e.id
  <2>1. m \in 1..m
    BY <1>1, <1>5 DEF Fills
  <2>2. PICK g \in OfChain(S, c) : g.id = m
    BY <1>1, <2>1 DEF Fills
  <2>3. \A f \in OfChain(S, c) : f.id <= g.id
    BY <1>1, <1>2, <2>2 DEF Fills
  <2>4. e \in OfChain(S, c) /\ \A f \in OfChain(S, c) : f.id <= e.id
    BY <2>3
  <2>5. e.id = m
    BY <1>1, <1>2, <2>2, <2>4 DEF Fills
  <2>6. LastEntry(S, c) = [id |-> e.id, hash |-> e.hash]
    BY <1>5 DEF LastEntry
  <2> HIDE DEF e
  <2> QED
    BY <1>1, <1>2, <1>3, <1>5, <2>4, <2>5, <2>6 DEF OldTail
<1> QED
  BY <1>4, <1>5

(***************************************************************************)
(* A tail stays an old tail while the table grows.                         *)
(***************************************************************************)
LEMMA OldTailGrows ==
  ASSUME NEW S, NEW R, S \subseteq R, NEW c, NEW T, OldTail(S, c, T)
  PROVE  OldTail(R, c, T)
  BY DEF OldTail, OfChain

\* A tail that was read has the type of a tail.
LEMMA OldTailType ==
  ASSUME NEW S \in SUBSET Entry, NEW c, NEW T, OldTail(S, c, T)
  PROVE  T \in [id : Nat, hash : Hash]
<1>1. NoTail \in [id : Nat, hash : Hash]
  BY DEF NoTail, GenesisPrevHash, Hash
<1>2. \A e \in OfChain(S, c) : [id |-> e.id, hash |-> e.hash] \in [id : Nat, hash : Hash]
  BY DEF OfChain, Entry
<1> QED
  BY <1>1, <1>2 DEF OldTail

(***************************************************************************)
(* The primary key at work: if no row is at the position after an old tail *)
(* then the old tail is the current one.                                   *)
(***************************************************************************)
LEMMA FreshMeansCurrent ==
  ASSUME NEW S \in SUBSET Entry, NEW c, Ledger(S, c), NEW T, OldTail(S, c, T),
         \A f \in OfChain(S, c) : f.id # T.id + 1
  PROVE  T = LastEntry(S, c)
<1> DEFINE L == LastEntry(S, c)
<1>1. L \in [id : Nat, hash : Hash] /\ Fills(S, c, L.id)
  BY LastOfLedger
<1>2. T \in [id : Nat, hash : Hash]
  BY OldTailType
<1> HIDE DEF L
<1>3. ~(T.id < L.id)
  BY <1>1, <1>2 DEF Fills
<1>4. CASE T = NoTail
  <2>1. L.id = 0
    BY <1>1, <1>3, <1>4 DEF NoTail
  <2>2. OfChain(S, c) = {}
    BY <1>1, <2>1 DEF Fills
  <2> QED
    BY <1>4, <2>2, LastOfLedger
<1>5. ASSUME NEW e \in OfChain(S, c), T = [id |-> e.id, hash |-> e.hash]
      PROVE  T = LastEntry(S, c)
  <2>1. e.id <= L.id /\ e.id \in Nat
    BY <1>1 DEF Fills
  <2>2. e.id = L.id
    BY <1>1, <1>3, <1>5, <2>1
  <2> QED
    BY <1>5, <2>2, LastOfLedger DEF L
<1> QED
  BY <1>4, <1>5 DEF OldTail

(***************************************************************************)
(* An entry on top of the tail keeps its chain intact and is its new tail. *)
(***************************************************************************)
LEMMA AppendKeepsLedger ==
  ASSUME NEW S \in SUBSET Entry, NEW c \in Chains, Ledger(S, c), NEW z \in Contents, NEW e,
         e = NewEntry(c, LastEntry(S, c).id + 1, z, LastEntry(S, c).hash)
  PROVE  /\ e \in Entry
         /\ Ledger(S \cup {e}, c)
         /\ LastEntry(S \cup {e}, c) = [id |-> e.id, hash |-> e.hash]
<1> DEFINE L == LastEntry(S, c)
           R == S \cup {e}
<1>1. L \in [id : Nat, hash : Hash] /\ Fills(S, c, L.id) /\ OldTail(S, c, L)
  BY LastOfLedger
<1>2. /\ e \in Entry /\ e.chain = c /\ e.id = L.id + 1 /\ e.prevHash = L.hash
      /\ e.hash = Recompute(e)
  BY <1>1, NewEntryType DEF NewEntry, Recompute
<1>3. OfChain(R, c) = OfChain(S, c) \cup {e}
  BY <1>2 DEF OfChain
<1>4. \A f \in OfChain(S, c) : f.id \in Nat /\ f.id < e.id
  BY <1>1, <1>2 DEF Fills
<1> HIDE DEF L
<1>5. Fills(R, c, e.id)
  <2> HIDE DEF R
  <2>1. \A f \in OfChain(R, c) : f.id \in 1..e.id
    BY <1>1, <1>2, <1>3, <1>4 DEF Fills
  <2>2. \A i \in 1..e.id : \E f \in OfChain(R, c) : f.id = i
    BY <1>1, <1>2, <1>3 DEF Fills
  <2> QED
    BY <2>1, <2>2 DEF Fills
<1>6. ChainIntact(R, c)
  <2>1. \A f, g \in OfChain(R, c) : f.id = g.id => f = g
    BY <1>1, <1>2, <1>3, <1>4 DEF Ledger, ChainIntact
  <2>2. ASSUME NEW f \in OfChain(S, c)
        PROVE  /\ f.id >= 1
               /\ f.hash = Recompute(f)
               /\ f.id = 1 => f.prevHash = GenesisPrevHash
               /\ f.id > 1 => \E g \in OfChain(R, c) :
                                 g.id = f.id - 1 /\ f.prevHash = g.hash
    BY <1>3 DEF Ledger, ChainIntact
  <2>3. e.id = 1 => e.prevHash = GenesisPrevHash
    <3> SUFFICES ASSUME e.id = 1 PROVE L.hash = GenesisPrevHash
      BY <1>2
    <3>1. L.id = 0
      BY <1>1, <1>2
    <3>2. OfChain(S, c) = {}
      BY <1>1, <3>1 DEF Fills
    <3> QED
      BY <3>2, LastOfLedger DEF NoTail, L
  <2>4. e.id > 1 => \E g \in OfChain(R, c) : g.id = e.id - 1 /\ e.prevHash = g.hash
    <3> SUFFICES ASSUME e.id > 1
                 PROVE  \E g \in OfChain(R, c) : g.id = e.id - 1 /\ e.prevHash = g.hash
      OBVIOUS
    <3>1. L # NoTail
      BY <1>1, <1>2 DEF NoTail
    <3>2. PICK g \in OfChain(S, c) : L = [id |-> g.id, hash |-> g.hash]
      BY <1>1, <3>1 DEF OldTail
    <3>3. g \in OfChain(R, c) /\ g.id = L.id /\ g.hash = L.hash
      BY <1>3, <3>2
    <3> QED
      BY <1>1, <1>2, <3>3
  <2>5. e.id >= 1
    BY <1>1, <1>2
  <2> QED
    BY <1>2, <1>3, <2>1, <2>2, <2>3, <2>4, <2>5 DEF ChainIntact
<1>n. e.id \in Nat
  BY <1>1, <1>2
<1>7. Ledger(R, c) /\ R \in SUBSET Entry
  <2>1. R \in SUBSET Entry
    BY <1>2
  <2> HIDE DEF R
  <2> QED
    BY <1>n, <1>5, <1>6, <2>1 DEF Ledger
<1> HIDE DEF R
<1>8. e \in OfChain(R, c) /\ LastEntry(R, c).id \in Nat /\ Fills(R, c, LastEntry(R, c).id)
  BY <1>3, <1>7, LastOfLedger
<1>9. LastEntry(R, c).id = e.id
  <2>1. e.id \in 1..LastEntry(R, c).id
    BY <1>8 DEF Fills
  <2>2. ASSUME e.id < LastEntry(R, c).id PROVE FALSE
    <3>1. LastEntry(R, c).id \in 1..LastEntry(R, c).id
      BY <1>n, <1>8, <2>2
    <3>2. PICK f \in OfChain(R, c) : f.id = LastEntry(R, c).id
      BY <1>8, <3>1 DEF Fills
    <3> QED
      BY <1>n, <1>5, <1>8, <2>2, <3>2 DEF Fills
  <2> QED
    BY <1>n, <1>8, <2>1, <2>2
<1> QED
  BY <1>2, <1>7, <1>8, <1>9, LastOfLedger DEF R

(***************************************************************************)
(* An entry of one chain changes nothing about another chain.              *)
(***************************************************************************)
LEMMA OtherChain ==
  ASSUME NEW S, NEW e, NEW d, e.chain # d
  PROVE  /\ Ledger(S, d) => Ledger(S \cup {e}, d)
         /\ LastEntry(S \cup {e}, d) = LastEntry(S, d)
<1>1. OfChain(S \cup {e}, d) = OfChain(S, d)
  BY DEF OfChain
<1> QED
  BY <1>1 DEF Ledger, ChainIntact, Fills, LastEntry

-----------------------------------------------------------------------------
(***************************************************************************)
(* The queries of the read methods.                                        *)
(***************************************************************************)

\* The number of each element of X in the order of the keys.
Rank(X, key) == [x \in X |-> Cardinality({ y \in X : key[y] <= key[x] })]

(***************************************************************************)
(* Counting the elements of a finite set up to each of them numbers them,  *)
(* from 1 to the size of the set, in the order of their keys.              *)
(***************************************************************************)
LEMMA RankFacts ==
  ASSUME NEW X, IsFiniteSet(X), NEW key \in [X -> Int],
         \A x, y \in X : key[x] = key[y] => x = y,
         NEW rank, rank = Rank(X, key)
  PROVE  /\ Cardinality(X) \in Nat
         /\ \A x \in X : rank[x] \in 1..Cardinality(X)
         /\ \A x, y \in X : rank[x] < rank[y] => key[x] < key[y]
         /\ \A x, y \in X : rank[x] = rank[y] => x = y
         /\ \A k \in 1..Cardinality(X) : \E x \in X : rank[x] = k
<1> DEFINE n        == Cardinality(X)
           Below(x) == { y \in X : key[y] <= key[x] }
<1>1. n \in Nat
  BY FS_CardinalityType
<1>2. \A x \in X : key[x] \in Int /\ rank[x] = Cardinality(Below(x))
  BY DEF Rank
<1>3. ASSUME NEW x \in X
      PROVE  IsFiniteSet(Below(x)) /\ rank[x] \in 1..n
  <2>1. IsFiniteSet(Below(x)) /\ Cardinality(Below(x)) <= n
    BY FS_Subset
  <2>2. Cardinality(Below(x)) \in Nat
    BY <2>1, FS_CardinalityType
  <2>3. x \in Below(x)
    BY <1>2
  <2>4. Cardinality(Below(x)) # 0
    BY <2>1, <2>3, FS_EmptySet
  <2> QED
    BY <1>1, <1>2, <2>1, <2>2, <2>4
<1>4. ASSUME NEW x \in X, NEW y \in X, key[x] < key[y]
      PROVE  rank[x] < rank[y]
  <2>1. Below(x) \subseteq Below(y) \ {y}
    BY <1>2, <1>4
  <2>2. y \in Below(y) /\ IsFiniteSet(Below(y)) /\ rank[y] \in 1..n /\ rank[x] \in 1..n
    <3>1. y \in Below(y)
      BY <1>2
    <3> HIDE DEF Below, n
    <3> QED
      BY <1>3, <3>1
  <2>3. IsFiniteSet(Below(y) \ {y}) /\ Cardinality(Below(y) \ {y}) = rank[y] - 1
    BY <1>2, <2>2, FS_RemoveElement
  <2>4. rank[x] <= rank[y] - 1
    <3>1. PICK A, B : A = Below(x) /\ B = Below(y) \ {y}
      OBVIOUS
    <3>2. Cardinality(A) <= Cardinality(B)
      BY <2>1, <2>3, <3>1, FS_Subset
    <3> QED
      BY <1>2, <2>3, <3>1, <3>2
  <2> QED
    BY <1>1, <2>2, <2>4
<1> HIDE DEF n, Below
<1>5. \A x, y \in X : rank[x] < rank[y] => key[x] < key[y]
  <2> SUFFICES ASSUME NEW x \in X, NEW y \in X, rank[x] < rank[y], ~(key[x] < key[y])
               PROVE  FALSE
    OBVIOUS
  <2>1. rank[x] \in 1..n /\ rank[y] \in 1..n
    BY <1>3
  <2>2. CASE key[x] = key[y]
    BY <1>1, <2>1, <2>2
  <2>3. CASE key[y] < key[x]
    <3>1. rank[y] < rank[x]
      BY <1>4, <2>3
    <3> QED
      BY <1>1, <2>1, <3>1
  <2> QED
    BY <1>2, <2>2, <2>3
<1>6. \A x, y \in X : rank[x] = rank[y] => x = y
  <2> SUFFICES ASSUME NEW x \in X, NEW y \in X, rank[x] = rank[y] PROVE x = y
    OBVIOUS
  <2>1. rank[x] \in 1..n /\ rank[y] \in 1..n
    BY <1>3
  <2>2. ~(key[x] < key[y]) /\ ~(key[y] < key[x])
    BY <1>1, <1>4, <2>1
  <2> QED
    BY <1>2, <2>2
<1>7. rank \in [X -> 1..n]
  BY <1>3 DEF Rank
<1>8. rank \in Injection(X, 1..n)
  BY <1>6, <1>7 DEF Injection, IsInjective
<1>9. rank \in Surjection(X, 1..n)
  <2>1. IsFiniteSet(1..n) /\ Cardinality(1..n) = n
    BY <1>1, FS_Interval
  <2> QED
    BY <1>8, <2>1, FS_Injection DEF n
<1>10. \A k \in 1..n : \E x \in X : rank[x] = k
  BY <1>9 DEF Surjection
<1> QED
  BY <1>1, <1>3, <1>5, <1>6, <1>10 DEF n

\* rs lists the entries es, each once, in the order of their positions.
Lists(rs, es) ==
  /\ rs \in Seq(Entry)
  /\ \A i \in DOMAIN rs : rs[i] \in es
  /\ \A i, j \in DOMAIN rs : i < j => rs[i].id < rs[j].id
  /\ \A e \in es : \E i \in DOMAIN rs : rs[i] = e

(***************************************************************************)
(* ORDER BY entry_id ASC over entries whose positions differ lists each of *)
(* them once, in the order of their positions.                             *)
(***************************************************************************)
LEMMA OrderedFacts ==
  ASSUME NEW es \in SUBSET Entry, IsFiniteSet(es), \A e, f \in es : e.id = f.id => e = f
  PROVE  Lists(Ordered(es), es)
<1> DEFINE n        == Cardinality(es)
           Below(e) == { f \in es : f.id <= e.id }
           nth      == [k \in 1..n |-> CHOOSE e \in es : Cardinality(Below(e)) = k]
<1>1. PICK key : key = [e \in es |-> e.id]
  OBVIOUS
<1>2. PICK rank : rank = Rank(es, key)
  OBVIOUS
<1>3. key \in [es -> Int] /\ \A e, f \in es : key[e] = key[f] => e = f
  BY <1>1 DEF Entry
<1>4. /\ n \in Nat
      /\ \A e \in es : rank[e] \in 1..n
      /\ \A e, f \in es : rank[e] < rank[f] => key[e] < key[f]
      /\ \A e, f \in es : rank[e] = rank[f] => e = f
      /\ \A k \in 1..n : \E e \in es : rank[e] = k
  BY <1>2, <1>3, RankFacts
<1>5. ASSUME NEW e \in es PROVE rank[e] = Cardinality(Below(e)) /\ key[e] = e.id
  <2>1. { f \in es : key[f] <= key[e] } = Below(e)
    BY <1>1
  <2> QED
    BY <1>1, <1>2, <2>1 DEF Rank
<1>6. ASSUME NEW k \in 1..n
      PROVE  nth[k] \in es /\ rank[nth[k]] = k
  <2>1. \E e \in es : Cardinality(Below(e)) = k
    BY <1>4, <1>5
  <2>2. nth[k] \in es /\ Cardinality(Below(nth[k])) = k
    BY <2>1
  <2> QED
    BY <1>5, <2>2
<1>7. Ordered(es) = SubSeq(nth, 1, n)
  BY DEF Ordered
<1> HIDE DEF n, nth, Below
<1>8. ASSUME NEW e \in es PROVE nth[rank[e]] = e
  BY <1>4, <1>6
<1>9. /\ Ordered(es) \in Seq(Entry) /\ Len(Ordered(es)) = n
      /\ \A i \in 1..n : Ordered(es)[i] = nth[i]
  <2>1. \A i \in 1..n : nth[i] \in Entry
    BY <1>6
  <2>2. /\ SubSeq(nth, 1, n) \in Seq(Entry)
        /\ Len(SubSeq(nth, 1, n)) = IF 1 <= n THEN n - 1 + 1 ELSE 0
        /\ \A i \in 1..(n - 1 + 1) : SubSeq(nth, 1, n)[i] = nth[1 + i - 1]
    BY <1>4, <2>1, SubSeqProperties
  <2> QED
    BY <1>4, <1>7, <2>2
<1>10. DOMAIN Ordered(es) = 1..n
  BY <1>9
<1>11. \A i \in DOMAIN Ordered(es) : Ordered(es)[i] \in es
  BY <1>6, <1>9, <1>10
<1>12. \A i, j \in DOMAIN Ordered(es) : i < j => Ordered(es)[i].id < Ordered(es)[j].id
  BY <1>4, <1>5, <1>6, <1>9, <1>10
<1>13. \A e \in es : \E i \in DOMAIN Ordered(es) : Ordered(es)[i] = e
  BY <1>4, <1>8, <1>9, <1>10
<1> QED
  BY <1>9, <1>11, <1>12, <1>13 DEF Lists

(***************************************************************************)
(* An intact chain that has a last position is finite.                     *)
(***************************************************************************)
LEMMA LedgerFinite ==
  ASSUME NEW S \in SUBSET Entry, NEW c, Ledger(S, c)
  PROVE  IsFiniteSet(OfChain(S, c))
<1>1. PICK m \in Nat : Fills(S, c, m)
  BY DEF Ledger
<1> DEFINE pos == [e \in OfChain(S, c) |-> e.id]
<1>2. pos \in [OfChain(S, c) -> 1..m]
  BY <1>1 DEF Fills
<1>3. \A e, f \in OfChain(S, c) : pos[e] = pos[f] => e = f
  BY DEF Ledger, ChainIntact
<1> HIDE DEF pos
<1>4. pos \in Injection(OfChain(S, c), 1..m)
  BY <1>2, <1>3 DEF Injection, IsInjective
<1>5. IsFiniteSet(1..m)
  BY <1>1, FS_Interval
<1> QED
  BY <1>4, <1>5, FS_Injection

(***************************************************************************)
(* A scan of the entries of an intact chain up to some bound finds no row  *)
(* that fails a check.                                                     *)
(***************************************************************************)
LEMMA ScanIntactChain ==
  ASSUME NEW S \in SUBSET Entry, NEW c, Ledger(S, c), NEW to \in Nat, NEW rs,
         Lists(rs, { e \in OfChain(S, c) : 1 <= e.id /\ e.id <= to })
  PROVE  verifyChain(rs).valid = TRUE
<1>1. PICK es : es = { e \in OfChain(S, c) : 1 <= e.id /\ e.id <= to }
  OBVIOUS
<1>2. es \subseteq OfChain(S, c) /\ es \in SUBSET Entry
  BY <1>1 DEF OfChain
<1>4. \A e \in OfChain(S, c) : e.id \in Nat /\ e.id >= 1 /\ (e.id <= to => e \in es)
  BY <1>1 DEF Ledger, ChainIntact, OfChain, Entry
<1>5. /\ rs \in Seq(Entry)
      /\ \A i \in DOMAIN rs : rs[i] \in es
      /\ \A i, j \in DOMAIN rs : i < j => rs[i].id < rs[j].id
      /\ \A e \in es : \E i \in DOMAIN rs : rs[i] = e
  BY <1>1 DEF Lists
<1>6. DOMAIN rs = 1..Len(rs) /\ Len(rs) \in Nat
  BY <1>5
<1>7. \A e \in es : e.id <= to
  BY <1>1
<1>8. ASSUME NEW i \in DOMAIN rs
      PROVE  LinkOK(rs, i) /\ Recompute(rs[i]) = rs[i].hash
  <2>1. rs[i] \in OfChain(S, c) /\ rs[i] \in es /\ rs[i].id \in Nat /\ rs[i].id >= 1
    BY <1>2, <1>4, <1>5
  <2>2. /\ rs[i].hash = Recompute(rs[i])
        /\ rs[i].id = 1 => rs[i].prevHash = GenesisPrevHash
        /\ rs[i].id > 1 => \E f \in OfChain(S, c) :
                              f.id = rs[i].id - 1 /\ rs[i].prevHash = f.hash
    BY <2>1 DEF Ledger, ChainIntact
  <2>3. CASE rs[i].id = 1
    <3>1. ASSUME i > 1 PROVE FALSE
      <4>1. i - 1 \in DOMAIN rs /\ i - 1 < i
        BY <1>6, <3>1
      <4>2. rs[i - 1].id < 1 /\ rs[i - 1].id \in Nat /\ rs[i - 1].id >= 1
        BY <1>2, <1>4, <1>5, <2>3, <4>1
      <4> QED
        BY <4>2
    <3> QED
      BY <2>2, <2>3, <3>1 DEF LinkOK, ExpectPrev
  <2>4. CASE rs[i].id > 1
    <3>1. PICK f \in OfChain(S, c) : f.id = rs[i].id - 1 /\ rs[i].prevHash = f.hash
      BY <2>2, <2>4
    <3>2. f \in es /\ f.id < rs[i].id /\ f.id \in Nat
      <4>1. rs[i].id <= to
        BY <1>7, <2>1
      <4> QED
        BY <1>4, <2>1, <3>1, <4>1
    <3>3. PICK j \in DOMAIN rs : rs[j] = f
      BY <1>5, <3>2
    <3>4. j < i
      <4>1. j # i /\ ~(i < j)
        <5>1. CASE i = j
          BY <2>1, <3>2, <3>3, <5>1
        <5>2. CASE i < j
          <6>1. rs[i].id < rs[j].id
            BY <1>5, <5>2
          <6> QED
            BY <2>1, <3>2, <3>3, <6>1
        <5> QED
          BY <5>1, <5>2
      <4> QED
        BY <1>6, <4>1
    <3>5. j = i - 1
      <4> SUFFICES ASSUME j < i - 1 PROVE FALSE
        BY <1>6, <3>4
      <4>1. i - 1 \in DOMAIN rs
        BY <1>6
      <4>2. rs[j].id < rs[i - 1].id /\ rs[i - 1].id < rs[i].id
        BY <1>5, <1>6, <4>1
      <4>3. rs[i - 1].id \in Nat
        BY <1>2, <1>4, <1>5, <4>1
      <4> QED
        BY <2>1, <3>1, <3>2, <3>3, <4>2, <4>3
    <3>6. i > 1
      BY <1>6, <3>4
    <3> QED
      BY <2>2, <3>1, <3>3, <3>5, <3>6 DEF LinkOK, ExpectPrev
  <2> QED
    BY <2>1, <2>3, <2>4
<1>9. BrokenRows(rs) = {}
  BY <1>8 DEF BrokenRows
<1> QED
  BY <1>9 DEF verifyChain, ValidResult

(***************************************************************************)
(* A Verify that starts at the first entry of an intact chain finds it     *)
(* valid, whatever its upper bound, even one that was looked up before the *)
(* chain grew.                                                             *)
(***************************************************************************)
LEMMA VerifyIntactChain ==
  ASSUME NEW S \in SUBSET Entry, NEW c, Ledger(S, c), NEW from \in Nat, from <= 1, NEW to \in Nat
  PROVE  VerifyRows(S, c, from, to).valid = TRUE
<1>1. PICK es : es = { e \in OfChain(S, c) : 1 <= e.id /\ e.id <= to }
  OBVIOUS
<1>2. es \in SUBSET Entry /\ IsFiniteSet(es)
  <2>1. OfChain(S, c) \subseteq Entry /\ es \in SUBSET OfChain(S, c)
    BY <1>1 DEF OfChain
  <2>2. IsFiniteSet(OfChain(S, c))
    BY LedgerFinite
  <2> QED
    BY <2>1, <2>2, FS_Subset
<1>3. \A e, f \in es : e.id = f.id => e = f
  BY <1>1 DEF Ledger, ChainIntact
<1>4. Lists(Ordered(es), es)
  BY <1>2, <1>3, OrderedFacts
<1>5. verifyChain(Ordered(es)).valid = TRUE
  BY <1>1, <1>4, ScanIntactChain
<1>6. VerifyRows(S, c, from, to) = verifyChain(Ordered(es))
  <2>1. (IF from < 1 THEN 1 ELSE from) = 1
    OBVIOUS
  <2> QED
    BY <1>1, <2>1 DEF VerifyRows, ListEntriesInRange
<1> QED
  BY <1>5, <1>6

(***************************************************************************)
(* Only the lookup of the tail reports a chain as empty.                   *)
(***************************************************************************)
LEMMA VerifyRowsNotEmpty ==
  ASSUME NEW S, NEW c, NEW from, NEW to
  PROVE  VerifyRows(S, c, from, to).empty = FALSE
  BY DEF VerifyRows, verifyChain, ValidResult

\* out is rs, cut at limit where there is one and rs is not shorter.
Limited(rs, limit, out) ==
  \/ ~(limit > 0 /\ Len(rs) > limit) /\ out = rs
  \/ limit > 0 /\ Len(rs) >= limit /\ out = SubSeq(rs, 1, limit)

(***************************************************************************)
(* A list cut at a limit has every entry, or as many as the limit and only *)
(* earlier ones.                                                           *)
(***************************************************************************)
LEMMA LimitedList ==
  ASSUME NEW es, NEW rs, Lists(rs, es), NEW limit \in Int, NEW out,
         Limited(rs, limit, out)
  PROVE  /\ \A i, j \in DOMAIN out : i < j => out[i].id < out[j].id
         /\ \A e \in es :
              \/ \E i \in DOMAIN out : out[i] = e
              \/ /\ limit > 0 /\ Len(out) = limit
                 /\ \A i \in DOMAIN out : out[i].id < e.id
<1>3. /\ rs \in Seq(Entry)
      /\ \A i \in DOMAIN rs : rs[i] \in es
      /\ \A i, j \in DOMAIN rs : i < j => rs[i].id < rs[j].id
      /\ \A e \in es : \E i \in DOMAIN rs : rs[i] = e
  BY DEF Lists
<1>6. DOMAIN rs = 1..Len(rs) /\ Len(rs) \in Nat
  BY <1>3
<1>7. CASE out = rs
  BY <1>3, <1>7
<1>8. CASE limit > 0 /\ Len(rs) >= limit /\ out = SubSeq(rs, 1, limit)
  <2>1. \A i \in 1..limit : rs[i] \in Entry
    BY <1>3, <1>6, <1>8
  <2>2. Len(out) = limit /\ out \in Seq(Entry) /\ \A i \in 1..limit : out[i] = rs[i]
    BY <1>8, <2>1, SubSeqProperties
  <2>3. DOMAIN out = 1..limit
    BY <2>2
  <2>4. ASSUME NEW e \in es, \A i \in DOMAIN out : out[i] # e, NEW i \in DOMAIN out
        PROVE  out[i].id < e.id
    <3>1. PICK j \in DOMAIN rs : rs[j] = e
      BY <1>3
    <3>2. j > limit
      <4> SUFFICES ASSUME ~(j > limit) PROVE FALSE
        OBVIOUS
      <4>1. j \in 1..limit
        BY <1>6, <1>8
      <4>2. out[j] = e /\ j \in DOMAIN out
        BY <2>2, <2>3, <3>1, <4>1
      <4> QED
        BY <2>4, <4>2
    <3>3. i \in DOMAIN rs /\ i < j
      BY <1>6, <1>8, <2>3, <3>2
    <3> QED
      BY <1>3, <2>2, <2>3, <3>1, <3>3
  <2>5. \A i, j \in DOMAIN out : i < j => out[i].id < out[j].id
    BY <1>3, <1>6, <1>8, <2>2, <2>3
  <2> QED
    BY <1>8, <2>2, <2>4, <2>5
<1> QED
  BY <1>7, <1>8 DEF Limited

(***************************************************************************)
(* The matches in order of their positions, all of them or the first ones  *)
(* up to a positive limit.                                                 *)
(***************************************************************************)
ListsMatches(S, c, match, limit, out) ==
  /\ \A i, j \in DOMAIN out : i < j => out[i].id < out[j].id
  /\ \A e \in OfChain(S, c) :
       e.content \in match =>
         \/ \E i \in DOMAIN out : out[i] = e
         \/ /\ limit > 0 /\ Len(out) = limit
            /\ \A i \in DOMAIN out : out[i].id < e.id

\* Query lists the matches among the entries of an intact chain.
LEMMA QueryIntactChain ==
  ASSUME NEW S \in SUBSET Entry, NEW c, Ledger(S, c), NEW match, NEW limit \in Int,
         NEW out, out = QueryEntries(S, c, match, limit)
  PROVE  ListsMatches(S, c, match, limit, out)
<1>1. PICK es : es = { e \in OfChain(S, c) : e.content \in match }
  OBVIOUS
<1>2. es \in SUBSET Entry /\ IsFiniteSet(es)
  <2>1. OfChain(S, c) \subseteq Entry /\ es \in SUBSET OfChain(S, c)
    BY <1>1 DEF OfChain
  <2>2. IsFiniteSet(OfChain(S, c))
    BY LedgerFinite
  <2> QED
    BY <2>1, <2>2, FS_Subset
<1>3. \A e, f \in es : e.id = f.id => e = f
  BY <1>1 DEF Ledger, ChainIntact
<1>4. PICK rs : rs = Ordered(es)
  OBVIOUS
<1>5. Lists(rs, es)
  BY <1>2, <1>3, <1>4, OrderedFacts
<1>6. Limited(rs, limit, out)
  <2>1. out = IF limit > 0 /\ Len(rs) > limit THEN SubSeq(rs, 1, limit) ELSE rs
    BY <1>1, <1>4 DEF QueryEntries
  <2>2. Len(rs) \in Nat
    BY <1>5 DEF Lists
  <2> QED
    BY <2>1, <2>2 DEF Limited
<1>7. /\ \A i, j \in DOMAIN out : i < j => out[i].id < out[j].id
      /\ \A e \in es : \/ \E i \in DOMAIN out : out[i] = e
                       \/ /\ limit > 0 /\ Len(out) = limit
                          /\ \A i \in DOMAIN out : out[i].id < e.id
  BY <1>5, <1>6, LimitedList
<1> QED
  BY <1>1, <1>7 DEF ListsMatches
=============================================================================
