----------------------------- MODULE KHashProofs -----------------------------
(***************************************************************************)
(* Proofs about KHash: the table of khash.h counts its buckets right, its  *)
(* resize in place loses nothing, and it implements TokenMap, for every    *)
(* hash function, every set of keys and every size of the table.           *)
(***************************************************************************)
EXTENDS KHash, NaturalFacts

IsPower(n) == \E p \in Nat : n = 2 ^ p

Resizing == pc \in {"rehash", "kick"}

NewSize == Cardinality(DOMAIN new)

\* The buckets that have an element: those of the old table that have not been
\* reached, and those of the new one that have been filled.
Live == {i \in DOMAIN flags : flags[i] = "live"}
Moved == {i \in DOMAIN new : new[i] = "live"}
Held == Live \cup Moved
Used == {i \in DOMAIN flags : flags[i] # "empty"}

\* The buckets that the arrays of keys and values have.
Space == IF Resizing THEN NewSize ELSE nBuckets

\* Probing for the key comes to bucket i, and meets no empty bucket before.
Reached(f, key, i, n) ==
    \E s \in Nat : /\ s < n
                   /\ Probe(key, s, n) = i
                   /\ \A t \in 0 .. (s - 1) : f[Probe(key, t, n)] # "empty"

-----------------------------------------------------------------------------
(* The inductive invariant *)

TableTyped ==
    /\ pc \in {"idle", "rehash", "kick", "insert"}
    /\ nBuckets \in Nat /\ size \in Nat /\ nOccupied \in Nat
    /\ nBuckets = 0 \/ (nBuckets >= 4 /\ IsPower(nBuckets))
    /\ upperBound = UpperBound(nBuckets)
    /\ flags \in [Buckets(nBuckets) -> {"empty", "live", "deleted"}]
    /\ keys \in [Buckets(Space) -> Keys \cup {NoKey}]
    /\ vals \in [Buckets(Space) -> Tokens \cup {NoToken}]
    /\ IF pc = "idle" THEN call = Nothing ELSE call \in [key : Keys, val : Tokens]
    /\ IF pc = "kick" THEN hand \in [key : Keys, val : Tokens] ELSE hand = Nothing

\* What kh_resize has done so far.
ResizeTyped ==
    IF Resizing
    THEN /\ NewSize \in Nat /\ NewSize >= 4 /\ IsPower(NewSize) /\ nBuckets <= NewSize
         /\ new \in [Buckets(NewSize) -> {"empty", "live"}]
         /\ size < UpperBound(NewSize)
         /\ j \in 0 .. nBuckets
         /\ pc = "kick" => j < nBuckets /\ flags[j] # "live"
         /\ \A i \in 0 .. (j - 1) : flags[i] # "live"
         /\ Live \cap Moved = {}
    ELSE new = <<>>

\* An element for each key, and none lost.
ElementsUnique ==
    /\ \A a \in Held : keys[a] \in Keys /\ vals[a] \in Tokens
    /\ \A a, b \in Held : keys[a] = keys[b] => a = b
    /\ pc = "kick" => \A a \in Held : keys[a] # hand.key
    /\ size = Cardinality(Held) + IF pc = "kick" THEN 1 ELSE 0

\* The counter that decides on a resize is right between two of them.
OccupiedCounted ==
    ~Resizing => /\ nOccupied = Cardinality(Used)
                 /\ nOccupied <= upperBound
                 /\ pc = "insert" => nOccupied < upperBound

\* Look-up finds what is there.
ElementsReached ==
    IF Resizing
    THEN \A i \in Moved : Reached(new, keys[i], i, NewSize)
    ELSE \A i \in Live : Reached(flags, keys[i], i, nBuckets)

Inv == TableTyped /\ ResizeTyped /\ ElementsUnique /\ OccupiedCounted /\ ElementsReached

-----------------------------------------------------------------------------
(* Probing *)

LEMMA ProbeInTable ==
    ASSUME NEW key \in Keys, NEW n \in Nat, n > 0, NEW s \in Nat
    PROVE  Probe(key, s, n) \in Buckets(n)
<1>1. (s * (s + 1)) \div 2 \in Nat
  BY Triangle
<1>2. Hash(key) \in Nat
  BY HashAssumption
<1> QED
  BY <1>1, <1>2 DEF Probe, Buckets

\* The steps get longer and longer, and still come to every bucket: the size
\* of the table is a power of two.
LEMMA ProbeReaches ==
    ASSUME NEW key \in Keys, NEW n \in Nat, IsPower(n), NEW i \in Buckets(n)
    PROVE  \E s \in Nat : s < n /\ Probe(key, s, n) = i
<1>1. PICK p \in Nat : n = 2 ^ p
  BY DEF IsPower
<1>2. Hash(key) \in Nat
  BY HashAssumption
<1>3. i \in 0 .. (2 ^ p - 1)
  BY <1>1 DEF Buckets
<1>4. PICK s \in 0 .. (2 ^ p - 1) : Triangular(Hash(key), s, 2 ^ p) = i
  BY <1>2, <1>3, TriangularReaches
<1>5. s \in Nat /\ s < n
  BY <1>1, <1>4
<1> QED
  BY <1>1, <1>4, <1>5 DEF Triangular, Probe

\* The loops of kh_get and kh_put that are back at their first bucket have
\* made the steps that Steps says.
LEMMA ProbeReturns ==
    ASSUME NEW key \in Keys, NEW n \in Nat, IsPower(n)
    PROVE  /\ \A s \in Steps(n) \ {0} : Probe(key, s, n) # Probe(key, 0, n)
           /\ Probe(key, 2 * n - 1, n) = Probe(key, 0, n)
<1>1. PICK p \in Nat : n = 2 ^ p
  BY DEF IsPower
<1>2. Hash(key) \in Nat
  BY HashAssumption
<1>3. \A s \in Steps(n) \ {0} : s \in 1 .. (2 * 2 ^ p - 2)
  BY <1>1 DEF Steps
<1>4. /\ \A s \in 1 .. (2 * 2 ^ p - 2) :
            Triangular(Hash(key), s, 2 ^ p) # Triangular(Hash(key), 0, 2 ^ p)
      /\ Triangular(Hash(key), 2 * 2 ^ p - 1, 2 ^ p) = Triangular(Hash(key), 0, 2 ^ p)
  BY <1>2, TriangularReturns
<1> QED
  BY <1>1, <1>3, <1>4 DEF Triangular, Probe

\* The least and the largest number of a set.
LEMMA MinOfNaturals ==
    ASSUME NEW T \in SUBSET Nat, T # {}
    PROVE  Min(T) \in T /\ \A t \in T : Min(T) <= t
BY LeastNatural DEF Min

LEMMA MaxOfNaturals ==
    ASSUME NEW T \in SUBSET Nat, T # {}, NEW b \in Nat, \A t \in T : t <= b
    PROVE  Max(T) \in T /\ \A t \in T : Max(T) >= t
<1>1. \E m \in T : \A t \in T : m >= t
  <2>1. PICK m \in T : \A t \in T : t <= m
    BY GreatestNatural
  <2> QED
    BY <2>1
<1> QED
  BY <1>1 DEF Max

\* The arithmetic of the load factor 0.77: there is an empty bucket in a table
\* that is filled to the bound.
LEMMA BoundLeavesRoom ==
    ASSUME NEW n \in Nat, n >= 4
    PROVE  UpperBound(n) \in Nat /\ UpperBound(n) < n
BY DEF UpperBound

\* A full table is enlarged: the test of kh_resize whether the new size is
\* large enough never fails.
LEMMA ResizeHasRoom ==
    ASSUME TableTyped, size <= UpperBound(nBuckets)
    PROVE  /\ size < UpperBound(NewBuckets)
           /\ NewBuckets \in Nat /\ NewBuckets >= 4 /\ nBuckets <= NewBuckets
           /\ IsPower(NewBuckets)
<1>1. nBuckets \in Nat /\ size \in Nat
  BY DEF TableTyped
<1>2. CASE nBuckets > 2 * size
  <2>1. NewBuckets = nBuckets
    BY <1>2 DEF NewBuckets
  <2>2. nBuckets >= 4 /\ IsPower(nBuckets)
    BY <1>1, <1>2 DEF TableTyped
  <2> QED
    BY <1>1, <1>2, <2>1, <2>2 DEF UpperBound
<1>3. CASE ~(nBuckets > 2 * size) /\ nBuckets = 0
  <2>1. NewBuckets = 4
    BY <1>3 DEF NewBuckets
  <2>2. 2 ^ 2 = 4
    <3>1. 2 ^ (0 + 1) = 2 * 2 ^ 0 /\ 2 ^ (1 + 1) = 2 * 2 ^ 1 /\ 0 + 1 = 1 /\ 1 + 1 = 2
      BY PowerDoubles
    <3> QED
      BY <3>1, PowerZero
  <2>3. IsPower(4)
    BY <2>2 DEF IsPower
  <2> QED
    BY <1>1, <1>3, <2>1, <2>3 DEF UpperBound
<1>4. CASE ~(nBuckets > 2 * size) /\ nBuckets # 0
  <2>1. NewBuckets = 2 * nBuckets
    BY <1>4 DEF NewBuckets
  <2>2. nBuckets >= 4 /\ IsPower(nBuckets)
    BY <1>4 DEF TableTyped
  <2>3. IsPower(2 * nBuckets)
    <3>1. PICK p \in Nat : nBuckets = 2 ^ p
      BY <2>2 DEF IsPower
    <3>2. p + 1 \in Nat /\ 2 * nBuckets = 2 ^ (p + 1)
      BY <3>1, PowerDoubles
    <3> QED
      BY <3>2 DEF IsPower
  <2> QED
    BY <1>1, <1>4, <2>1, <2>2, <2>3 DEF UpperBound
<1> QED
  BY <1>2, <1>3, <1>4

LEMMA BucketsFinite ==
    ASSUME NEW n \in Nat
    PROVE  /\ IsFiniteSet(Buckets(n)) /\ Cardinality(Buckets(n)) = n
           /\ \A T \in SUBSET Buckets(n) : IsFiniteSet(T) /\ Cardinality(T) \in Nat
<1>1. IsFiniteSet(Buckets(n)) /\ Cardinality(Buckets(n)) = n
  <2>1. n - 1 \in Int /\ (n = 0 <=> 0 > n - 1) /\ (n - 1) - 0 + 1 = n
    OBVIOUS
  <2>2. IsFiniteSet(0 .. (n - 1)) /\ Cardinality(0 .. (n - 1)) = IF 0 > n - 1 THEN 0 ELSE (n - 1) - 0 + 1
    BY <2>1, FS_Interval
  <2> QED
    BY <2>1, <2>2 DEF Buckets
<1> QED
  BY <1>1, FS_Subset, FS_CardinalityType

\* A table that is not filled has an empty bucket.
LEMMA SomeBucketFree ==
    ASSUME NEW n \in Nat, NEW T \in SUBSET Buckets(n), Cardinality(T) < n
    PROVE  /\ IsFiniteSet(T) /\ Cardinality(T) \in Nat
           /\ \E i \in Buckets(n) : i \notin T
<1>1. IsFiniteSet(Buckets(n)) /\ Cardinality(Buckets(n)) = n
  BY BucketsFinite
<1>2. IsFiniteSet(T) /\ Cardinality(T) \in Nat
  BY <1>1, FS_Subset, FS_CardinalityType
<1>3. T # Buckets(n)
  BY <1>1, <1>2
<1> QED
  BY <1>2, <1>3

-----------------------------------------------------------------------------
(* Look-up *)

\* Between two resizes the table has an empty bucket.
LEMMA TableHasRoom ==
    ASSUME Inv, ~Resizing
    PROVE  /\ nBuckets \in Nat /\ DOMAIN flags = Buckets(nBuckets)
           /\ DOMAIN keys = Buckets(nBuckets) /\ DOMAIN vals = Buckets(nBuckets)
           /\ Moved = {} /\ Held = Live /\ Live \subseteq Used /\ Used \subseteq Buckets(nBuckets)
           /\ nBuckets # 0 => /\ nBuckets >= 4 /\ IsPower(nBuckets)
                              /\ \E i \in Buckets(nBuckets) : flags[i] = "empty"
<1>1. /\ nBuckets \in Nat
      /\ nBuckets = 0 \/ (nBuckets >= 4 /\ IsPower(nBuckets))
      /\ flags \in [Buckets(nBuckets) -> {"empty", "live", "deleted"}]
      /\ DOMAIN keys = Buckets(nBuckets) /\ DOMAIN vals = Buckets(nBuckets)
  BY DEF Inv, TableTyped, Space
<1>2. new = <<>>
  BY DEF Inv, ResizeTyped
<1>3. Moved = {}
  BY <1>2 DEF Moved
<1>4. Live \subseteq Used /\ Used \subseteq Buckets(nBuckets)
  BY <1>1 DEF Live, Used
<1>5. ASSUME nBuckets # 0 PROVE \E i \in Buckets(nBuckets) : flags[i] = "empty"
  <2>1. nOccupied = Cardinality(Used) /\ nOccupied <= UpperBound(nBuckets) /\ nOccupied \in Nat
    BY DEF Inv, OccupiedCounted, TableTyped
  <2>2. Cardinality(Used) < nBuckets
    BY <1>1, <1>5, <2>1, BoundLeavesRoom
  <2>3. \E i \in Buckets(nBuckets) : i \notin Used
    BY <1>1, <1>4, <2>2, SomeBucketFree
  <2> QED
    BY <1>1, <2>3 DEF Used
<1>6. Held = Live
  BY <1>3 DEF Held
<1> QED
  BY <1>1, <1>3, <1>4, <1>5, <1>6

\* The loops of kh_get and kh_put end, at the first bucket that stops them.
LEMMA LoopEnds ==
    ASSUME Inv, ~Resizing, nBuckets # 0, NEW key \in Keys
    PROVE  /\ StepsTo(key) \in Nat
           /\ Probe(key, StepsTo(key), nBuckets) \in Buckets(nBuckets)
           /\ Stops(key, Probe(key, StepsTo(key), nBuckets))
           /\ \A t \in Nat : t < StepsTo(key) =>
                 /\ Probe(key, t, nBuckets) \in Buckets(nBuckets)
                 /\ ~Stops(key, Probe(key, t, nBuckets))
<1> DEFINE stops == {s \in Steps(nBuckets) : Stops(key, Probe(key, s, nBuckets))}
<1>1. nBuckets \in Nat /\ nBuckets >= 4 /\ IsPower(nBuckets)
  BY TableHasRoom
<1>2. PICK i \in Buckets(nBuckets) : flags[i] = "empty"
  BY TableHasRoom
<1>3. PICK s \in Nat : s < nBuckets /\ Probe(key, s, nBuckets) = i
  BY <1>1, ProbeReaches
<1>4. s \in stops
  BY <1>1, <1>2, <1>3 DEF Stops, Steps
<1>5. stops \in SUBSET Nat
  BY <1>1 DEF Steps
<1>6. StepsTo(key) = Min(stops)
  BY <1>4 DEF StepsTo
<1>7. Min(stops) \in stops /\ \A t \in stops : Min(stops) <= t
  <2> HIDE DEF stops
  <2> QED
    BY <1>4, <1>5, MinOfNaturals
<1>8. ASSUME NEW t \in Nat, t < Min(stops)
      PROVE  Probe(key, t, nBuckets) \in Buckets(nBuckets) /\ ~Stops(key, Probe(key, t, nBuckets))
  <2>1. t \in Steps(nBuckets)
    BY <1>1, <1>7, <1>8 DEF Steps
  <2>2. t \notin stops
    <3> HIDE DEF stops
    <3>1. Min(stops) \in Nat
      BY <1>5, <1>7
    <3> QED
      BY <1>7, <1>8, <3>1
  <2> QED
    BY <1>1, <2>1, <2>2, ProbeInTable
<1>9. Min(stops) \in Nat /\ Stops(key, Probe(key, Min(stops), nBuckets))
  BY <1>5, <1>7
<1>10. Probe(key, Min(stops), nBuckets) \in Buckets(nBuckets)
  BY <1>1, <1>9, ProbeInTable
<1> HIDE DEF stops
<1> QED
  BY <1>6, <1>8, <1>9, <1>10

\* They end at the bucket of the key if there is one, and at an empty bucket if
\* there is not.
LEMMA LookUp ==
    ASSUME Inv, ~Resizing, nBuckets # 0, NEW key \in Keys
    PROVE  /\ \A b \in Live : keys[b] = key => Probe(key, StepsTo(key), nBuckets) = b
           /\ (\A b \in Live : keys[b] # key) =>
                 flags[Probe(key, StepsTo(key), nBuckets)] = "empty"
<1> DEFINE st == StepsTo(key)
           P(s) == Probe(key, s, nBuckets)
<1>1. /\ st \in Nat /\ P(st) \in Buckets(nBuckets) /\ Stops(key, P(st))
      /\ \A t \in Nat : t < st => P(t) \in Buckets(nBuckets) /\ ~Stops(key, P(t))
  BY LoopEnds
<1>2. DOMAIN flags = Buckets(nBuckets) /\ Held = Live
  BY TableHasRoom
<1>3. flags[P(st)] = "empty" \/ (P(st) \in Live /\ keys[P(st)] = key)
  BY <1>1, <1>2 DEF Stops, Live
<1>4. ASSUME NEW b \in Live, keys[b] = key PROVE P(st) = b
  <2>1. PICK s \in Nat : /\ s < nBuckets /\ P(s) = b
                         /\ \A t \in 0 .. (s - 1) : flags[P(t)] # "empty"
    BY <1>4 DEF Inv, ElementsReached, Reached
  <2>2. Stops(key, P(s))
    BY <1>4, <2>1 DEF Stops, Live
  <2>3. st <= s
    BY <1>1, <2>1, <2>2
  <2>4. CASE st = s
    BY <2>1, <2>4
  <2>5. CASE st < s
    <3>1. flags[P(st)] # "empty"
      BY <1>1, <2>1, <2>5
    <3>2. P(st) \in Live /\ keys[P(st)] = key
      BY <1>3, <3>1
    <3> HIDE DEF st, P
    <3> QED
      BY <1>2, <1>4, <3>2 DEF Inv, ElementsUnique
  <2> QED
    BY <1>1, <2>1, <2>3, <2>4, <2>5
<1> QED
  BY <1>3, <1>4

\* kh_get.
LEMMA GetFinds ==
    ASSUME Inv, ~Resizing, NEW key \in Keys
    PROVE  \/ /\ \A b \in Live : keys[b] # key
              /\ Get(key) = nBuckets
           \/ /\ Get(key) \in Live /\ keys[Get(key)] = key /\ Get(key) # nBuckets
<1> DEFINE i == Probe(key, StepsTo(key), nBuckets)
<1>0. nBuckets \in Nat /\ DOMAIN flags = Buckets(nBuckets)
  BY TableHasRoom
<1>1. CASE nBuckets = 0
  <2>1. Live = {}
    BY <1>0, <1>1 DEF Live, Buckets
  <2> QED
    BY <1>1, <2>1 DEF Get
<1>2. CASE nBuckets # 0 /\ \A b \in Live : keys[b] # key
  <2>1. flags[i] = "empty"
    BY <1>2, LookUp
  <2> QED
    BY <1>2, <2>1 DEF Get
<1>3. CASE nBuckets # 0 /\ \E b \in Live : keys[b] = key
  <2>1. PICK b \in Live : keys[b] = key
    BY <1>3
  <2>2. i = b /\ Stops(key, i)
    BY <1>3, <2>1, LookUp, LoopEnds
  <2>3. flags[b] = "live" /\ b \in Buckets(nBuckets)
    BY <1>0 DEF Live
  <2>4. b # nBuckets
    BY <1>0, <2>3 DEF Buckets
  <2>5. Get(key) = b
    BY <1>3, <2>2, <2>3 DEF Get
  <2> QED
    BY <2>1, <2>4, <2>5
<1> QED
  BY <1>1, <1>2, <1>3

\* kh_put chooses the bucket of the key, or one that is not in use and that
\* probing for the key will reach.
LEMMA PlaceFits ==
    ASSUME Inv, ~Resizing, nBuckets # 0, NEW key \in Keys
    PROVE  /\ Place(key) \in Buckets(nBuckets)
           /\ \/ /\ Place(key) \in Live /\ keys[Place(key)] = key
              \/ /\ \A b \in Live : keys[b] # key
                 /\ flags[Place(key)] # "live"
                 /\ Reached(flags, key, Place(key), nBuckets)
<1> DEFINE st == StepsTo(key)
           P(s) == Probe(key, s, nBuckets)
           i == P(st)
           site == Site(key, st)
           deleted == {s \in 0 .. (st - 1) : flags[P(s)] = "deleted"}
<1>0. nBuckets \in Nat /\ DOMAIN flags = Buckets(nBuckets) /\ nBuckets >= 4 /\ IsPower(nBuckets)
  BY TableHasRoom
<1>1. /\ st \in Nat /\ i \in Buckets(nBuckets) /\ Stops(key, i)
      /\ \A t \in Nat : t < st => P(t) \in Buckets(nBuckets) /\ ~Stops(key, P(t))
  BY LoopEnds
<1>2. Place(key) = IF site # nBuckets /\ flags[i] = "empty" THEN site ELSE i
  BY <1>1 DEF Place
<1>3. CASE \E b \in Live : keys[b] = key
  <2>1. PICK b \in Live : keys[b] = key
    BY <1>3
  <2>2. i = b /\ flags[b] = "live"
    BY <2>1, LookUp DEF Live
  <2>3. Place(key) = b
    BY <1>2, <2>2
  <2> QED
    BY <1>1, <2>1, <2>2, <2>3
<1>4. CASE \A b \in Live : keys[b] # key
  <2>1. flags[i] = "empty"
    BY <1>4, LookUp
  <2>2. \A t \in Nat : t < st => flags[P(t)] # "empty"
    BY <1>1 DEF Stops
  <2>3. CASE deleted = {}
    <3>1. site = nBuckets
      BY <2>3 DEF Site
    <3>2. Place(key) = i
      BY <1>2, <3>1
    <3>3. st < nBuckets
      <4>1. PICK e \in Nat : e < nBuckets /\ P(e) = i
        BY <1>0, <1>1, ProbeReaches
      <4>2. st <= e
        BY <1>1, <2>1, <2>2, <4>1
      <4> QED
        BY <1>0, <1>1, <4>1, <4>2
    <3>4. Reached(flags, key, i, nBuckets)
      BY <1>1, <2>2, <3>3 DEF Reached
    <3> QED
      BY <1>1, <1>4, <2>1, <3>2, <3>4
  <2>4. CASE deleted # {}
    <3> DEFINE m == Max(deleted)
    <3>1. deleted \in SUBSET Nat /\ \A t \in deleted : t <= st
      BY <1>1
    <3>2. m \in deleted
      <4> HIDE DEF deleted
      <4> QED
        BY <1>1, <2>4, <3>1, MaxOfNaturals
    <3>3. site = P(m)
      BY <2>4 DEF Site
    <3>4. m \in Nat /\ m < st /\ flags[P(m)] = "deleted"
      BY <1>1, <3>2
    <3>5. P(m) \in Buckets(nBuckets)
      BY <1>1, <3>4
    <3>6. P(m) # nBuckets
      BY <1>0, <3>5 DEF Buckets
    <3>7. Place(key) = P(m)
      BY <1>2, <2>1, <3>3, <3>6
    <3>8. st < nBuckets
      <4>1. PICK e \in Nat : e < nBuckets /\ P(e) = i
        BY <1>0, <1>1, ProbeReaches
      <4>2. st <= e
        BY <1>1, <2>1, <2>2, <4>1
      <4> QED
        BY <1>0, <1>1, <4>1, <4>2
    <3>9. Reached(flags, key, P(m), nBuckets)
      <4> HIDE DEF m, st
      <4>1. m < nBuckets /\ \A t \in 0 .. (m - 1) : t \in Nat /\ t < st
        BY <1>0, <1>1, <3>4, <3>8
      <4> QED
        BY <2>2, <3>4, <4>1 DEF Reached
    <3> QED
      BY <1>4, <3>4, <3>5, <3>7, <3>9
  <2> QED
    BY <2>3, <2>4
<1> QED
  BY <1>3, <1>4

-----------------------------------------------------------------------------
(* Resize *)

\* What is known of a table in the middle of a resize.
LEMMA ResizeFacts ==
    ASSUME Inv, Resizing
    PROVE  /\ nBuckets \in Nat /\ NewSize \in Nat /\ nBuckets <= NewSize /\ NewSize >= 4
           /\ IsPower(NewSize) /\ size < UpperBound(NewSize) /\ size \in Nat
           /\ flags \in [Buckets(nBuckets) -> {"empty", "live", "deleted"}]
           /\ new \in [Buckets(NewSize) -> {"empty", "live"}]
           /\ keys \in [Buckets(NewSize) -> Keys \cup {NoKey}]
           /\ vals \in [Buckets(NewSize) -> Tokens \cup {NoToken}]
           /\ Buckets(nBuckets) \subseteq Buckets(NewSize)
           /\ Held \subseteq Buckets(NewSize) /\ IsFiniteSet(Held) /\ Cardinality(Held) \in Nat
<1>1. /\ nBuckets \in Nat /\ NewSize \in Nat /\ nBuckets <= NewSize /\ NewSize >= 4
      /\ IsPower(NewSize) /\ size < UpperBound(NewSize) /\ size \in Nat
      /\ flags \in [Buckets(nBuckets) -> {"empty", "live", "deleted"}]
      /\ new \in [Buckets(NewSize) -> {"empty", "live"}]
      /\ keys \in [Buckets(NewSize) -> Keys \cup {NoKey}]
      /\ vals \in [Buckets(NewSize) -> Tokens \cup {NoToken}]
  BY DEF Inv, TableTyped, ResizeTyped, Space
<1>2. Buckets(nBuckets) \subseteq Buckets(NewSize)
  BY <1>1 DEF Buckets
<1>3. Held \subseteq Buckets(NewSize)
  BY <1>1, <1>2 DEF Held, Live, Moved
<1> QED
  BY <1>1, <1>2, <1>3, BucketsFinite

\* The inner loop of kh_resize ends at an empty bucket that look-up will reach.
LEMMA NewPlaceFits ==
    ASSUME Inv, pc = "kick"
    PROVE  /\ hand.key \in Keys
           /\ NewPlace(hand.key) \in Buckets(NewSize)
           /\ new[NewPlace(hand.key)] = "empty"
           /\ Reached(new, hand.key, NewPlace(hand.key), NewSize)
<1> DEFINE key == hand.key
           n == NewSize
           P(s) == Probe(key, s, n)
           free == {s \in Steps(n) : new[P(s)] = "empty"}
           m == Min(free)
<1>1. Resizing
  BY DEF Resizing
<1>2. /\ n \in Nat /\ n >= 4 /\ IsPower(n) /\ size < UpperBound(n) /\ size \in Nat
      /\ new \in [Buckets(n) -> {"empty", "live"}]
      /\ Held \subseteq Buckets(n) /\ IsFiniteSet(Held) /\ Cardinality(Held) \in Nat
  BY <1>1, ResizeFacts
<1>3. key \in Keys
  BY DEF Inv, TableTyped
<1>4. size = Cardinality(Held) + 1
  BY DEF Inv, ElementsUnique
<1>5. \E i \in Buckets(n) : new[i] = "empty"
  <2>1. Cardinality(Held) < n
    BY <1>2, <1>4, BoundLeavesRoom
  <2>2. PICK i \in Buckets(n) : i \notin Held
    BY <1>2, <2>1, SomeBucketFree
  <2>3. i \notin Moved
    BY <2>2 DEF Held
  <2> QED
    BY <1>2, <2>3 DEF Moved
<1>6. PICK i \in Buckets(n) : new[i] = "empty"
  BY <1>5
<1>7. PICK s \in Nat : s < n /\ P(s) = i
  BY <1>2, <1>3, ProbeReaches
<1>8. s \in free
  BY <1>2, <1>6, <1>7 DEF Steps
<1>9. free \in SUBSET Nat
  BY <1>2 DEF Steps
<1>10. m \in free /\ \A t \in free : m <= t
  <2> HIDE DEF free
  <2> QED
    BY <1>8, <1>9, MinOfNaturals
<1>11. m \in Nat /\ new[P(m)] = "empty" /\ m < n
  BY <1>2, <1>7, <1>8, <1>9, <1>10
<1>12. \A t \in 0 .. (m - 1) : new[P(t)] # "empty"
  <2> TAKE t \in 0 .. (m - 1)
  <2> HIDE DEF m
  <2>1. t \in Nat /\ t < m /\ t \in Steps(n)
    BY <1>2, <1>11 DEF Steps
  <2>2. t \notin free
    <3> HIDE DEF free
    <3> QED
      BY <1>10, <1>11, <2>1
  <2> QED
    BY <2>1, <2>2
<1>13. NewPlace(key) = P(m)
  BY DEF NewPlace, NewSize
<1>14. P(m) \in Buckets(n)
  BY <1>2, <1>3, <1>11, ProbeInTable
<1>15. Reached(new, key, P(m), n)
  <2> HIDE DEF m
  <2> QED
    BY <1>11, <1>12 DEF Reached
<1> QED
  BY <1>3, <1>11, <1>13, <1>14, <1>15

\* Probing for a key is not stopped earlier when more buckets are in use.
LEMMA ReachedStays ==
    ASSUME NEW f, NEW g, NEW key \in Keys, NEW i, NEW n \in Nat, n > 0,
           Reached(f, key, i, n),
           \A b \in Buckets(n) : f[b] # "empty" => g[b] # "empty"
    PROVE  Reached(g, key, i, n)
<1>1. PICK s \in Nat : /\ s < n /\ Probe(key, s, n) = i
                       /\ \A t \in 0 .. (s - 1) : f[Probe(key, t, n)] # "empty"
  BY DEF Reached
<1>2. \A t \in 0 .. (s - 1) : g[Probe(key, t, n)] # "empty"
  <2> TAKE t \in 0 .. (s - 1)
  <2>1. t \in Nat
    BY <1>1
  <2>2. Probe(key, t, n) \in Buckets(n)
    BY <2>1, ProbeInTable
  <2> QED
    BY <1>1, <2>2
<1> QED
  BY <1>1, <1>2 DEF Reached

-----------------------------------------------------------------------------
(* Every step preserves the invariant *)

LEMMA InitInv == Init => Inv
<1> SUFFICES ASSUME Init PROVE Inv
  OBVIOUS
<1> USE DEF Init
<1>1. ~Resizing /\ Space = 0
  BY DEF Resizing, Space
<1>2. Buckets(0) = {}
  BY DEF Buckets
<1>3. Live = {} /\ Moved = {} /\ Used = {}
  BY DEF Live, Moved, Used
<1>4. Held = {}
  BY <1>3 DEF Held
<1>5. UpperBound(0) = 0
  BY DEF UpperBound
<1>6. \A S : <<>> \in [{} -> S]
  OBVIOUS
<1>7. TableTyped
  BY <1>1, <1>2, <1>5, <1>6 DEF TableTyped
<1>8. ResizeTyped
  BY <1>1 DEF ResizeTyped
<1>9. ElementsUnique
  BY <1>4, FS_EmptySet DEF ElementsUnique
<1>10. OccupiedCounted
  BY <1>3, FS_EmptySet DEF OccupiedCounted
<1>11. ElementsReached
  BY <1>1, <1>3 DEF ElementsReached
<1> QED
  BY <1>7, <1>8, <1>9, <1>10, <1>11 DEF Inv

LEMMA PutStep ==
    ASSUME Inv, NEW key \in Keys, NEW token \in Tokens, Put(key, token)
    PROVE  Inv' /\ Held' = Held /\ (\A a \in Held : keys'[a] = keys[a] /\ vals'[a] = vals[a])
<1> DEFINE n == NewBuckets
<1>1. /\ pc = "idle" /\ nBuckets' = nBuckets /\ size' = size /\ nOccupied' = nOccupied
      /\ upperBound' = upperBound /\ flags' = flags /\ hand' = hand
      /\ call' = [key |-> key, val |-> token]
  BY DEF Put
<1>2. ~Resizing
  BY <1>1 DEF Resizing
<1>3. /\ nBuckets \in Nat /\ DOMAIN flags = Buckets(nBuckets)
      /\ DOMAIN keys = Buckets(nBuckets) /\ DOMAIN vals = Buckets(nBuckets)
      /\ Moved = {} /\ Held = Live /\ Live \subseteq Used /\ Used \subseteq Buckets(nBuckets)
  BY <1>2, TableHasRoom
<1>4. /\ nOccupied = Cardinality(Used) /\ nOccupied <= upperBound /\ upperBound = UpperBound(nBuckets)
      /\ nOccupied \in Nat /\ size \in Nat /\ size = Cardinality(Held)
  <2>1. Held \in SUBSET Buckets(nBuckets)
    BY <1>3
  <2>2. Cardinality(Held) \in Nat
    BY <1>3, <2>1, BucketsFinite
  <2> QED
    BY <1>1, <1>2, <2>2 DEF Inv, OccupiedCounted, TableTyped, ElementsUnique
<1>5. size <= nOccupied
  <2>1. IsFiniteSet(Used)
    BY <1>3, BucketsFinite
  <2> QED
    BY <1>3, <1>4, <2>1, FS_Subset
<1>6. upperBound \in Nat
  BY <1>3, <1>4 DEF UpperBound
<1>7. /\ size < UpperBound(n) /\ n \in Nat /\ n >= 4 /\ nBuckets <= n /\ IsPower(n)
  <2>1. TableTyped /\ size <= UpperBound(nBuckets)
    BY <1>4, <1>5, <1>6 DEF Inv
  <2> QED
    BY <2>1, ResizeHasRoom
<1>8. Live' = Live /\ Used' = Used
  BY <1>1 DEF Live, Used
<1>9. CASE nOccupied >= upperBound
  <2>1. /\ pc' = "rehash" /\ j' = 0
        /\ new' = [i \in Buckets(n) |-> "empty"]
        /\ keys' = Enlarged(keys, n, NoKey) /\ vals' = Enlarged(vals, n, NoToken)
    BY <1>7, <1>9 DEF Put
  <2>2. Resizing'
    BY <2>1 DEF Resizing
  <2>3. NewSize' = n
    BY <1>7, <2>1, BucketsFinite DEF NewSize
  <2>4. Space' = n
    BY <2>2, <2>3 DEF Space
  <2>5. Moved' = {}
    BY <2>1 DEF Moved
  <2>6. Held' = Held
    BY <1>3, <1>8, <2>5 DEF Held
  <2>7. Buckets(nBuckets) \subseteq Buckets(n)
    BY <1>3, <1>7 DEF Buckets
  <2>8. \A a \in Held : keys'[a] = keys[a] /\ vals'[a] = vals[a]
    BY <1>3, <2>1, <2>7 DEF Enlarged
  <2>9. TableTyped'
    <3>1. /\ keys \in [Buckets(nBuckets) -> Keys \cup {NoKey}]
          /\ vals \in [Buckets(nBuckets) -> Tokens \cup {NoToken}]
      BY <1>2 DEF Inv, TableTyped, Space
    <3>2. /\ keys' \in [Buckets(n) -> Keys \cup {NoKey}]
          /\ vals' \in [Buckets(n) -> Tokens \cup {NoToken}]
      BY <2>1, <3>1 DEF Enlarged
    <3> QED
      BY <1>1, <2>1, <2>4, <3>2 DEF Inv, TableTyped
  <2>10. ResizeTyped'
    <3> HIDE DEF n
    <3>1. new' \in [Buckets(n) -> {"empty", "live"}]
      BY <2>1
    <3> QED
      BY <1>1, <1>3, <1>7, <2>1, <2>2, <2>3, <2>5, <3>1 DEF ResizeTyped
  <2>11. ElementsUnique'
    BY <1>1, <2>1, <2>6, <2>8 DEF Inv, ElementsUnique
  <2>12. OccupiedCounted'
    BY <2>2 DEF OccupiedCounted
  <2>13. ElementsReached'
    BY <2>2, <2>5 DEF ElementsReached
  <2> QED
    BY <2>6, <2>8, <2>9, <2>10, <2>11, <2>12, <2>13 DEF Inv
<1>10. CASE ~(nOccupied >= upperBound)
  <2>1. pc' = "insert" /\ keys' = keys /\ vals' = vals /\ new' = new /\ j' = j
    BY <1>10 DEF Put
  <2>2. ~Resizing' /\ Space' = Space
    BY <1>1, <1>2, <2>1 DEF Resizing, Space
  <2>3. Moved' = Moved /\ Held' = Held
    BY <1>8, <2>1 DEF Moved, Held
  <2>4. TableTyped'
    BY <1>1, <2>1, <2>2 DEF Inv, TableTyped
  <2>5. ResizeTyped'
    BY <1>2, <2>1, <2>2 DEF Inv, ResizeTyped
  <2>6. ElementsUnique'
    BY <1>1, <2>1, <2>3 DEF Inv, ElementsUnique
  <2>7. OccupiedCounted'
    BY <1>1, <1>4, <1>6, <1>8, <1>10 DEF OccupiedCounted
  <2>8. ElementsReached'
    BY <1>1, <1>2, <1>8, <2>1, <2>2 DEF Inv, ElementsReached, Reached
  <2> QED
    BY <2>1, <2>3, <2>4, <2>5, <2>6, <2>7, <2>8 DEF Inv
<1> QED
  BY <1>9, <1>10

\* The element of the next bucket is taken in hand, if it has one.
LEMMA RehashNextStep ==
    ASSUME Inv, RehashNext
    PROVE  /\ Inv'
           /\ \/ /\ pc' = "kick" /\ j \in Held /\ Held' = Held \ {j}
                 /\ hand' = [key |-> keys[j], val |-> vals[j]]
                 /\ \A a \in Held' : keys'[a] = keys[a] /\ vals'[a] = vals[a]
              \/ UNCHANGED <<pc, Held, keys, vals, hand>>
<1>1. /\ pc = "rehash" /\ j # nBuckets /\ nBuckets' = nBuckets /\ size' = size
      /\ nOccupied' = nOccupied /\ upperBound' = upperBound /\ call' = call /\ new' = new
  BY DEF RehashNext
<1>2. Resizing /\ NewSize' = NewSize /\ Moved' = Moved
  BY <1>1 DEF Resizing, NewSize, Moved
<1>3. /\ nBuckets \in Nat /\ NewSize \in Nat /\ nBuckets <= NewSize /\ NewSize >= 4
      /\ flags \in [Buckets(nBuckets) -> {"empty", "live", "deleted"}]
      /\ new \in [Buckets(NewSize) -> {"empty", "live"}]
      /\ keys \in [Buckets(NewSize) -> Keys \cup {NoKey}]
      /\ vals \in [Buckets(NewSize) -> Tokens \cup {NoToken}]
      /\ Buckets(nBuckets) \subseteq Buckets(NewSize)
      /\ IsFiniteSet(Held) /\ Cardinality(Held) \in Nat
  BY <1>2, ResizeFacts
<1>4. /\ j \in 0 .. nBuckets /\ Live \cap Moved = {}
      /\ \A i \in 0 .. (j - 1) : flags[i] # "live"
  BY <1>2 DEF Inv, ResizeTyped
<1>5. j \in Buckets(nBuckets) /\ j \in Nat
  BY <1>1, <1>3, <1>4 DEF Buckets
<1>6. CASE flags[j] = "live"
  <2>1. /\ pc' = "kick" /\ j' = j /\ hand' = [key |-> keys[j], val |-> vals[j]]
        /\ flags' = [flags EXCEPT ![j] = "deleted"]
        /\ keys' = [keys EXCEPT ![j] = NoKey] /\ vals' = [vals EXCEPT ![j] = NoToken]
    BY <1>6 DEF RehashNext
  <2>2. Resizing' /\ Space' = Space
    BY <1>2, <2>1 DEF Resizing, Space
  <2>3. j \in Live /\ Live' = Live \ {j}
    BY <1>3, <1>5, <1>6, <2>1 DEF Live
  <2>4. j \in Held /\ j \notin Moved /\ Held' = Held \ {j}
    BY <1>2, <1>4, <2>3 DEF Held
  <2>5. \A a \in Held' : keys'[a] = keys[a] /\ vals'[a] = vals[a]
    <3>1. Held' \subseteq DOMAIN keys /\ Held' \subseteq DOMAIN vals
      BY <1>2, <1>3, <2>4, ResizeFacts
    <3> QED
      BY <2>1, <2>4, <3>1
  <2>6. keys[j] \in Keys /\ vals[j] \in Tokens
    BY <2>4 DEF Inv, ElementsUnique
  <2>7. TableTyped'
    BY <1>1, <2>1, <2>2, <2>6 DEF Inv, TableTyped
  <2>8. ResizeTyped'
    <3>1. pc' = "kick" => j' < nBuckets' /\ flags'[j'] # "live"
      BY <1>1, <1>3, <1>5, <2>1 DEF Buckets
    <3>2. \A i \in 0 .. (j' - 1) : flags'[i] # "live"
      <4> TAKE i \in 0 .. (j' - 1)
      <4>1. i \in Buckets(nBuckets) /\ flags[i] # "live" /\ i # j
        BY <1>3, <1>4, <1>5, <2>1 DEF Buckets
      <4> QED
        BY <1>3, <2>1, <4>1
    <3>3. (Live \cap Moved)' = {}
      BY <1>2, <1>4, <2>3
    <3> QED
      BY <1>1, <1>2, <2>1, <2>2, <3>1, <3>2, <3>3 DEF Inv, ResizeTyped
  <2>9. ElementsUnique'
    <3>1. Cardinality(Held') = Cardinality(Held) - 1
      BY <1>3, <2>4, FS_RemoveElement
    <3>2. size = Cardinality(Held)
      BY <1>1, <1>3 DEF Inv, ElementsUnique
    <3>3. size' = Cardinality(Held') + 1
      BY <1>1, <1>3, <3>1, <3>2
    <3>4. \A a \in Held' : a \in Held /\ a # j
      BY <2>4
    <3>5. \A a \in Held' : keys'[a] # hand'.key
      BY <2>1, <2>4, <2>5, <3>4 DEF Inv, ElementsUnique
    <3> QED
      BY <2>1, <2>5, <3>3, <3>4, <3>5 DEF Inv, ElementsUnique
  <2>10. OccupiedCounted'
    BY <2>2 DEF OccupiedCounted
  <2>11. ElementsReached'
    <3>1. \A i \in Moved' : i \in Moved /\ keys'[i] = keys[i]
      BY <1>2, <2>5 DEF Held
    <3> QED
      BY <1>1, <1>2, <2>2, <3>1 DEF Inv, ElementsReached
  <2> QED
    BY <2>1, <2>4, <2>5, <2>7, <2>8, <2>9, <2>10, <2>11 DEF Inv
<1>7. CASE flags[j] # "live"
  <2>1. /\ pc' = pc /\ j' = j + 1 /\ hand' = hand /\ flags' = flags
        /\ keys' = keys /\ vals' = vals
    BY <1>7 DEF RehashNext
  <2>2. Resizing' /\ Space' = Space /\ Live' = Live /\ Held' = Held
    BY <1>1, <1>2, <2>1 DEF Resizing, Space, Live, Held
  <2>3. TableTyped'
    BY <1>1, <2>1, <2>2 DEF Inv, TableTyped
  <2>4. ResizeTyped'
    <3>1. j' \in 0 .. nBuckets'
      BY <1>1, <1>3, <1>5, <2>1 DEF Buckets
    <3>2. \A i \in 0 .. (j' - 1) : flags'[i] # "live"
      BY <1>4, <1>5, <1>7, <2>1
    <3> QED
      BY <1>1, <1>2, <2>1, <2>2, <3>1, <3>2 DEF Inv, ResizeTyped
  <2>5. ElementsUnique'
    BY <1>1, <2>1, <2>2 DEF Inv, ElementsUnique
  <2>6. OccupiedCounted'
    BY <2>2 DEF OccupiedCounted
  <2>7. ElementsReached'
    BY <1>1, <1>2, <2>1, <2>2 DEF Inv, ElementsReached
  <2> QED
    BY <2>1, <2>2, <2>3, <2>4, <2>5, <2>6, <2>7 DEF Inv
<1> QED
  BY <1>6, <1>7

\* The element in hand gets its bucket, and the one that was there is in hand.
LEMMA KickOutStep ==
    ASSUME Inv, KickOut
    PROVE  /\ Inv'
           /\ \E i \in Buckets(NewSize) :
                 /\ Held' = Held \cup {i}
                 /\ keys'[i] = hand.key /\ vals'[i] = hand.val
                 /\ \A a \in Held \ {i} : keys'[a] = keys[a] /\ vals'[a] = vals[a]
                 /\ \/ i \in Held /\ pc' = "kick" /\ hand' = [key |-> keys[i], val |-> vals[i]]
                    \/ i \notin Held /\ pc' = "rehash"
<1> DEFINE i == NewPlace(hand.key)
           kicks == i < nBuckets /\ flags[i] = "live"
<1>1. /\ pc = "kick" /\ nBuckets' = nBuckets /\ size' = size
      /\ nOccupied' = nOccupied /\ upperBound' = upperBound /\ call' = call
      /\ new' = [new EXCEPT ![i] = "live"]
      /\ keys' = [keys EXCEPT ![i] = hand.key] /\ vals' = [vals EXCEPT ![i] = hand.val]
  BY DEF KickOut
<1>2. IF kicks
      THEN /\ hand' = [key |-> keys[i], val |-> vals[i]] /\ pc' = pc /\ j' = j
           /\ flags' = [flags EXCEPT ![i] = "deleted"]
      ELSE /\ hand' = Nothing /\ pc' = "rehash" /\ j' = j + 1 /\ flags' = flags
  BY DEF KickOut
<1>3. /\ hand.key \in Keys /\ i \in Buckets(NewSize) /\ new[i] = "empty"
      /\ Reached(new, hand.key, i, NewSize)
  BY <1>1, NewPlaceFits
<1> HIDE DEF i
<1>4. Resizing /\ Resizing'
  BY <1>1, <1>2 DEF Resizing
<1>5. /\ nBuckets \in Nat /\ NewSize \in Nat /\ nBuckets <= NewSize /\ NewSize >= 4
      /\ flags \in [Buckets(nBuckets) -> {"empty", "live", "deleted"}]
      /\ new \in [Buckets(NewSize) -> {"empty", "live"}]
      /\ keys \in [Buckets(NewSize) -> Keys \cup {NoKey}]
      /\ vals \in [Buckets(NewSize) -> Tokens \cup {NoToken}]
      /\ Buckets(nBuckets) \subseteq Buckets(NewSize) /\ Held \subseteq Buckets(NewSize)
      /\ IsFiniteSet(Held) /\ Cardinality(Held) \in Nat
  BY <1>4, ResizeFacts
<1>6. NewSize' = NewSize /\ Space' = Space
  BY <1>1, <1>4, <1>5 DEF NewSize, Space
<1>7. /\ j \in 0 .. nBuckets /\ Live \cap Moved = {} /\ j < nBuckets /\ flags[j] # "live"
      /\ \A b \in 0 .. (j - 1) : flags[b] # "live"
  BY <1>1, <1>4 DEF Inv, ResizeTyped
<1>8. i \notin Moved /\ Moved' = Moved \cup {i}
  BY <1>1, <1>3, <1>5 DEF Moved
<1>9. kicks <=> i \in Live
  BY <1>3, <1>5 DEF Live, Buckets
<1>10. Live' = Live \ {i} /\ flags' \in [Buckets(nBuckets) -> {"empty", "live", "deleted"}]
  <2>1. CASE kicks
    BY <1>2, <1>5, <2>1 DEF Live
  <2>2. CASE ~kicks
    BY <1>2, <1>5, <1>9, <2>2 DEF Live
  <2> QED
    BY <2>1, <2>2
<1>11. kicks <=> i \in Held
  BY <1>8, <1>9 DEF Held
<1>12. Held' = Held \cup {i}
  BY <1>8, <1>10 DEF Held
<1>13. /\ keys'[i] = hand.key /\ vals'[i] = hand.val
       /\ \A a \in Held \ {i} : keys'[a] = keys[a] /\ vals'[a] = vals[a]
  BY <1>1, <1>3, <1>5
<1>14. /\ \A a \in Held : keys[a] \in Keys /\ vals[a] \in Tokens
       /\ \A a, b \in Held : keys[a] = keys[b] => a = b
       /\ \A a \in Held : keys[a] # hand.key
       /\ size = Cardinality(Held) + 1
       /\ hand \in [key : Keys, val : Tokens]
  BY <1>1 DEF Inv, ElementsUnique, TableTyped
<1>15. TableTyped'
  <2>1. /\ keys' \in [Buckets(NewSize) -> Keys \cup {NoKey}]
        /\ vals' \in [Buckets(NewSize) -> Tokens \cup {NoToken}]
    BY <1>1, <1>5, <1>14
  <2>2. IF pc' = "kick" THEN hand' \in [key : Keys, val : Tokens] ELSE hand' = Nothing
    BY <1>1, <1>2, <1>11, <1>14
  <2>3. pc' \in {"kick", "rehash"}
    BY <1>1, <1>2
  <2> QED
    BY <1>1, <1>4, <1>6, <1>10, <2>1, <2>2, <2>3 DEF Inv, TableTyped, Space
<1>16. ResizeTyped'
  <2>1. new' \in [Buckets(NewSize) -> {"empty", "live"}]
    BY <1>1, <1>5
  <2>2. j' \in 0 .. nBuckets /\ (pc' = "kick" => j' = j)
    BY <1>1, <1>2, <1>5, <1>7
  <2>3. \A b \in Buckets(nBuckets) : flags[b] # "live" => flags'[b] # "live"
    BY <1>2, <1>5
  <2>4. j \in Buckets(nBuckets) /\ \A b \in 0 .. (j' - 1) : b \in Buckets(nBuckets) /\ flags[b] # "live"
    <3>1. \A b \in 0 .. (j' - 1) : b \in 0 .. (j - 1) \/ b = j
      BY <1>2, <1>5, <1>7
    <3> QED
      BY <1>5, <1>7, <3>1 DEF Buckets
  <2>5. (Live \cap Moved)' = {}
    BY <1>7, <1>8, <1>10
  <2> QED
    BY <1>1, <1>4, <1>6, <1>7, <2>1, <2>2, <2>3, <2>4, <2>5 DEF Inv, ResizeTyped
<1>17. ElementsUnique'
  <2>1. \A a \in Held' : keys'[a] \in Keys /\ vals'[a] \in Tokens
    BY <1>12, <1>13, <1>14
  <2>2. \A a, b \in Held' : keys'[a] = keys'[b] => a = b
    BY <1>12, <1>13, <1>14
  <2>3. pc' = "kick" => \A a \in Held' : keys'[a] # hand'.key
    BY <1>1, <1>2, <1>11, <1>12, <1>13, <1>14
  <2>4. size' = Cardinality(Held') + IF pc' = "kick" THEN 1 ELSE 0
    <3>1. Cardinality(Held') = IF i \in Held THEN Cardinality(Held) ELSE Cardinality(Held) + 1
      BY <1>5, <1>12, FS_AddElement
    <3> QED
      BY <1>1, <1>2, <1>5, <1>11, <1>14, <3>1
  <2> QED
    BY <2>1, <2>2, <2>3, <2>4 DEF ElementsUnique
<1>18. OccupiedCounted'
  BY <1>4 DEF OccupiedCounted
<1>19. ElementsReached'
  <2>1. \A b \in Buckets(NewSize) : new[b] # "empty" => new'[b] # "empty"
    BY <1>1, <1>5
  <2>2. Reached(new', hand.key, i, NewSize)
    BY <1>3, <1>5, <2>1, ReachedStays
  <2>3. ASSUME NEW b \in Moved PROVE Reached(new', keys[b], b, NewSize)
    <3>1. keys[b] \in Keys /\ Reached(new, keys[b], b, NewSize)
      BY <1>4, <1>14 DEF Inv, ElementsReached, Held
    <3> QED
      BY <1>5, <2>1, <3>1, ReachedStays
  <2>4. \A b \in Moved : keys'[b] = keys[b]
    BY <1>8, <1>13 DEF Held
  <2> QED
    BY <1>4, <1>6, <1>8, <1>13, <2>2, <2>3, <2>4 DEF ElementsReached
<1> QED
  BY <1>1, <1>2, <1>3, <1>11, <1>12, <1>13, <1>15, <1>16, <1>17, <1>18, <1>19 DEF Inv

\* All elements are in the new table.
LEMMA RehashEndsStep ==
    ASSUME Inv, RehashEnds
    PROVE  Inv' /\ UNCHANGED <<Held, keys, vals, hand>> /\ pc' = "insert"
<1>1. /\ pc = "rehash" /\ j = nBuckets /\ nBuckets' = NewSize /\ flags' = new
      /\ nOccupied' = size /\ upperBound' = UpperBound(NewSize)
      /\ new' = <<>> /\ j' = 0 /\ pc' = "insert"
      /\ size' = size /\ keys' = keys /\ vals' = vals /\ call' = call /\ hand' = hand
  BY DEF RehashEnds, NewSize
<1>2. Resizing /\ ~Resizing'
  BY <1>1 DEF Resizing
<1>3. /\ nBuckets \in Nat /\ NewSize \in Nat /\ nBuckets <= NewSize /\ NewSize >= 4
      /\ IsPower(NewSize) /\ size < UpperBound(NewSize) /\ size \in Nat
      /\ flags \in [Buckets(nBuckets) -> {"empty", "live", "deleted"}]
      /\ new \in [Buckets(NewSize) -> {"empty", "live"}]
      /\ keys \in [Buckets(NewSize) -> Keys \cup {NoKey}]
      /\ vals \in [Buckets(NewSize) -> Tokens \cup {NoToken}]
      /\ Cardinality(Held) \in Nat
  BY <1>2, ResizeFacts
<1>4. Live = {}
  <2>1. \A i \in 0 .. (nBuckets - 1) : flags[i] # "live"
    BY <1>1, <1>2 DEF Inv, ResizeTyped
  <2> QED
    BY <1>3, <2>1 DEF Live, Buckets
<1>5. Space' = NewSize
  BY <1>1, <1>2 DEF Space
<1>6. Live' = Moved /\ Used' = Moved /\ Moved' = {}
  BY <1>1, <1>3 DEF Live, Moved, Used
<1>7. Held' = Held /\ Held = Moved
  BY <1>4, <1>6 DEF Held
<1>8. size = Cardinality(Held)
  BY <1>1, <1>3 DEF Inv, ElementsUnique
<1>9. TableTyped'
  <2>1. flags' \in [Buckets(NewSize) -> {"empty", "live", "deleted"}]
    BY <1>1, <1>3
  <2> QED
    BY <1>1, <1>3, <1>5, <2>1 DEF Inv, TableTyped
<1>10. ResizeTyped'
  BY <1>1, <1>2 DEF ResizeTyped
<1>11. ElementsUnique'
  BY <1>1, <1>7 DEF Inv, ElementsUnique
<1>12. OccupiedCounted'
  <2>1. UpperBound(NewSize) \in Nat
    BY <1>3, BoundLeavesRoom
  <2> QED
    BY <1>1, <1>3, <1>6, <1>7, <1>8, <2>1 DEF OccupiedCounted
<1>13. ElementsReached'
  BY <1>1, <1>2, <1>6 DEF Inv, ElementsReached
<1> QED
  BY <1>1, <1>7, <1>9, <1>10, <1>11, <1>12, <1>13 DEF Inv

\* The key that kh_put was called with gets its bucket.
LEMMA InsertStep ==
    ASSUME Inv, Insert
    PROVE  /\ Inv'
           /\ call \in [key : Keys, val : Tokens] /\ call' = Nothing /\ pc = "insert" /\ pc' = "idle"
           /\ \E x : /\ Held' = Held \cup {x}
                     /\ keys'[x] = call.key /\ vals'[x] = call.val
                     /\ \A a \in Held \ {x} :
                           keys'[a] = keys[a] /\ vals'[a] = vals[a] /\ keys[a] # call.key
                     /\ x \in Held => keys[x] = call.key
<1> DEFINE x == Place(call.key)
<1>1. /\ pc = "insert" /\ pc' = "idle" /\ call' = Nothing /\ nBuckets' = nBuckets
      /\ upperBound' = upperBound /\ new' = new /\ j' = j /\ hand' = hand
      /\ keys' = [keys EXCEPT ![x] = call.key] /\ vals' = [vals EXCEPT ![x] = call.val]
      /\ flags' = [flags EXCEPT ![x] = "live"]
      /\ size' = IF flags[x] = "live" THEN size ELSE size + 1
      /\ nOccupied' = IF flags[x] = "empty" THEN nOccupied + 1 ELSE nOccupied
  BY DEF Insert, resizing
<1>2. ~Resizing /\ ~Resizing' /\ Space = nBuckets /\ Space' = nBuckets
  BY <1>1 DEF Resizing, Space
<1>3. /\ call \in [key : Keys, val : Tokens] /\ size \in Nat /\ nOccupied \in Nat
      /\ upperBound = UpperBound(nBuckets) /\ nBuckets \in Nat
      /\ nBuckets = 0 \/ nBuckets >= 4
      /\ flags \in [Buckets(nBuckets) -> {"empty", "live", "deleted"}]
      /\ keys \in [Buckets(nBuckets) -> Keys \cup {NoKey}]
      /\ vals \in [Buckets(nBuckets) -> Tokens \cup {NoToken}]
  BY <1>1, <1>2 DEF Inv, TableTyped
<1>4. nOccupied = Cardinality(Used) /\ nOccupied < upperBound
  BY <1>1, <1>2 DEF Inv, OccupiedCounted
<1>5. nBuckets # 0 /\ upperBound \in Nat
  BY <1>3, <1>4 DEF UpperBound
<1>6. /\ Moved = {} /\ Held = Live /\ Live \subseteq Used /\ Used \subseteq Buckets(nBuckets)
  BY <1>2, TableHasRoom
<1>7. /\ x \in Buckets(nBuckets)
      /\ \/ /\ x \in Live /\ keys[x] = call.key
         \/ /\ \A b \in Live : keys[b] # call.key
            /\ flags[x] # "live"
            /\ Reached(flags, call.key, x, nBuckets)
  BY <1>2, <1>3, <1>5, PlaceFits
<1> HIDE DEF x
<1>8. x \in Live <=> flags[x] = "live"
  BY <1>3, <1>7 DEF Live
<1>9. Live' = Live \cup {x} /\ Used' = Used \cup {x} /\ Moved' = {}
  BY <1>1, <1>3, <1>6, <1>7 DEF Live, Used, Moved
<1>10. Held' = Held \cup {x} /\ Held' = Live'
  BY <1>6, <1>9 DEF Held
<1>11. /\ keys'[x] = call.key /\ vals'[x] = call.val
       /\ \A a \in Held \ {x} : keys'[a] = keys[a] /\ vals'[a] = vals[a]
  BY <1>1, <1>3, <1>6, <1>7
<1>12. /\ \A a \in Held : keys[a] \in Keys /\ vals[a] \in Tokens
       /\ \A a, b \in Held : keys[a] = keys[b] => a = b
  BY DEF Inv, ElementsUnique
<1>13. \A a \in Held \ {x} : keys[a] # call.key
  BY <1>6, <1>7, <1>12
<1>14. x \in Held => keys[x] = call.key
  BY <1>6, <1>7, <1>8
<1>15. /\ IsFiniteSet(Held) /\ Cardinality(Held) \in Nat /\ size = Cardinality(Held)
       /\ IsFiniteSet(Used) /\ Cardinality(Used) \in Nat
  <2>1. Held \in SUBSET Buckets(nBuckets) /\ Used \in SUBSET Buckets(nBuckets)
    BY <1>6
  <2>2. /\ IsFiniteSet(Held) /\ Cardinality(Held) \in Nat
        /\ IsFiniteSet(Used) /\ Cardinality(Used) \in Nat
    BY <1>3, <2>1, BucketsFinite
  <2> QED
    BY <1>1, <2>2 DEF Inv, ElementsUnique
<1>16. size' = Cardinality(Held') /\ size' \in Nat
  <2>1. Cardinality(Held \cup {x}) = IF x \in Held THEN Cardinality(Held) ELSE Cardinality(Held) + 1
    BY <1>15, FS_AddElement
  <2>2. x \in Held <=> flags[x] = "live"
    BY <1>6, <1>8
  <2> QED
    BY <1>1, <1>3, <1>10, <1>15, <2>1, <2>2
<1>17. nOccupied' = Cardinality(Used') /\ nOccupied' \in Nat /\ nOccupied' <= upperBound
  <2>1. x \in Used <=> flags[x] # "empty"
    BY <1>3, <1>7 DEF Used
  <2>2. Cardinality(Used \cup {x}) = IF x \in Used THEN Cardinality(Used) ELSE Cardinality(Used) + 1
    BY <1>15, FS_AddElement
  <2> QED
    BY <1>1, <1>3, <1>4, <1>5, <1>9, <2>1, <2>2
<1>18. TableTyped'
  <2>1. /\ flags' \in [Buckets(nBuckets) -> {"empty", "live", "deleted"}]
        /\ keys' \in [Buckets(nBuckets) -> Keys \cup {NoKey}]
        /\ vals' \in [Buckets(nBuckets) -> Tokens \cup {NoToken}]
    BY <1>1, <1>3
  <2> QED
    BY <1>1, <1>2, <1>16, <1>17, <2>1 DEF Inv, TableTyped
<1>19. ResizeTyped'
  BY <1>1, <1>2 DEF Inv, ResizeTyped
<1>20. ElementsUnique'
  <2>1. \A a \in Held' : keys'[a] \in Keys /\ vals'[a] \in Tokens
    BY <1>3, <1>10, <1>11, <1>12
  <2>2. \A a, b \in Held' : keys'[a] = keys'[b] => a = b
    BY <1>10, <1>11, <1>12, <1>13
  <2> QED
    BY <1>1, <1>16, <2>1, <2>2 DEF ElementsUnique
<1>21. OccupiedCounted'
  BY <1>1, <1>17 DEF OccupiedCounted
<1>22. ElementsReached'
  <2>1. \A b \in Buckets(nBuckets) : flags[b] # "empty" => flags'[b] # "empty"
    BY <1>1, <1>3
  <2>2. \A a \in Live : keys[a] \in Keys /\ Reached(flags, keys[a], a, nBuckets)
    BY <1>2, <1>6, <1>12 DEF Inv, ElementsReached
  <2>3. \A a \in Live : Reached(flags', keys[a], a, nBuckets)
    BY <1>3, <1>5, <2>1, <2>2, ReachedStays
  <2>4. Reached(flags, call.key, x, nBuckets)
    BY <1>7, <2>2
  <2>5. Reached(flags', call.key, x, nBuckets)
    BY <1>3, <1>5, <2>1, <2>4, ReachedStays
  <2> QED
    BY <1>1, <1>2, <1>6, <1>9, <1>11, <2>3, <2>5 DEF ElementsReached
<1> QED
  BY <1>1, <1>3, <1>10, <1>11, <1>13, <1>14, <1>18, <1>19, <1>20, <1>21, <1>22 DEF Inv

\* The element of the key is taken out, if there is one.
LEMMA TakeOutStep ==
    ASSUME Inv, NEW key \in Keys, TakeOut(key)
    PROVE  /\ Inv' /\ pc' = pc /\ pc = "idle" /\ call' = call
           /\ \/ /\ \A a \in Held : keys[a] # key
                 /\ result' = NoToken
                 /\ UNCHANGED <<Held, keys, vals>>
              \/ \E k \in Held : /\ keys[k] = key /\ result' = vals[k]
                                 /\ Held' = Held \ {k}
                                 /\ \A a \in Held' : keys'[a] = keys[a] /\ vals'[a] = vals[a]
<1> DEFINE k == Get(key)
<1>1. /\ pc = "idle" /\ pc' = pc /\ call' = call /\ nBuckets' = nBuckets /\ nOccupied' = nOccupied
      /\ upperBound' = upperBound /\ new' = new /\ j' = j /\ hand' = hand
      /\ result' = IF k # nBuckets THEN vals[k] ELSE NoToken
      /\ flags' = IF k # nBuckets THEN [flags EXCEPT ![k] = "deleted"] ELSE flags
      /\ keys' = IF k # nBuckets THEN [keys EXCEPT ![k] = NoKey] ELSE keys
      /\ vals' = IF k # nBuckets THEN [vals EXCEPT ![k] = NoToken] ELSE vals
      /\ size' = IF k # nBuckets THEN size - 1 ELSE size
  BY DEF TakeOut, resizing
<1>2. ~Resizing /\ ~Resizing' /\ Space = nBuckets /\ Space' = nBuckets
  BY <1>1 DEF Resizing, Space
<1>3. /\ size \in Nat /\ nBuckets \in Nat
      /\ flags \in [Buckets(nBuckets) -> {"empty", "live", "deleted"}]
      /\ keys \in [Buckets(nBuckets) -> Keys \cup {NoKey}]
      /\ vals \in [Buckets(nBuckets) -> Tokens \cup {NoToken}]
  BY <1>2 DEF Inv, TableTyped
<1>4. /\ Moved = {} /\ Held = Live /\ Live \subseteq Used /\ Used \subseteq Buckets(nBuckets)
  BY <1>2, TableHasRoom
<1>5. \/ (\A b \in Live : keys[b] # key) /\ k = nBuckets
      \/ k \in Live /\ keys[k] = key /\ k # nBuckets
  BY <1>2, GetFinds
<1> HIDE DEF k
<1>6. CASE k = nBuckets
  <2>1. /\ UNCHANGED <<flags, keys, vals, size>> /\ result' = NoToken
    BY <1>1, <1>6
  <2>2. Live' = Live /\ Used' = Used /\ Moved' = Moved
    BY <1>1, <2>1 DEF Live, Used, Moved
  <2>3. Held' = Held
    BY <2>2 DEF Held
  <2>4. TableTyped' /\ ResizeTyped'
    BY <1>1, <1>2, <2>1 DEF Inv, TableTyped, ResizeTyped
  <2>5. ElementsUnique' /\ OccupiedCounted'
    BY <1>1, <1>2, <2>1, <2>2, <2>3 DEF Inv, ElementsUnique, OccupiedCounted
  <2>6. ElementsReached'
    BY <1>1, <1>2, <2>1, <2>2 DEF Inv, ElementsReached, Reached
  <2> QED
    BY <1>1, <1>4, <1>5, <1>6, <2>1, <2>3, <2>4, <2>5, <2>6 DEF Inv
<1>7. CASE k # nBuckets
  <2>1. /\ k \in Live /\ keys[k] = key /\ result' = vals[k] /\ size' = size - 1
        /\ flags' = [flags EXCEPT ![k] = "deleted"]
        /\ keys' = [keys EXCEPT ![k] = NoKey] /\ vals' = [vals EXCEPT ![k] = NoToken]
    BY <1>1, <1>5, <1>7
  <2>2. k \in Buckets(nBuckets) /\ k \in Held
    BY <1>4, <2>1
  <2>3. Live' = Live \ {k} /\ Used' = Used /\ Moved' = {}
    BY <1>1, <1>3, <1>4, <2>1, <2>2 DEF Live, Used, Moved
  <2>4. Held' = Held \ {k}
    BY <1>4, <2>3 DEF Held
  <2>5. \A a \in Held' : keys'[a] = keys[a] /\ vals'[a] = vals[a]
    BY <1>3, <1>4, <2>1, <2>4
  <2>6. IsFiniteSet(Held) /\ Cardinality(Held) \in Nat /\ size = Cardinality(Held)
    <3>1. Held \in SUBSET Buckets(nBuckets)
      BY <1>4
    <3>2. IsFiniteSet(Held) /\ Cardinality(Held) \in Nat
      BY <1>3, <3>1, BucketsFinite
    <3> QED
      BY <1>1, <3>2 DEF Inv, ElementsUnique
  <2>7. size' = Cardinality(Held') /\ size' \in Nat
    <3>1. IsFiniteSet(Held') /\ Cardinality(Held') = Cardinality(Held) - 1
      BY <2>2, <2>4, <2>6, FS_RemoveElement
    <3>2. Cardinality(Held') \in Nat
      BY <3>1, FS_CardinalityType
    <3> QED
      BY <2>1, <2>6, <3>1, <3>2
  <2>8. TableTyped'
    <3>1. /\ flags' \in [Buckets(nBuckets) -> {"empty", "live", "deleted"}]
          /\ keys' \in [Buckets(nBuckets) -> Keys \cup {NoKey}]
          /\ vals' \in [Buckets(nBuckets) -> Tokens \cup {NoToken}]
      BY <1>3, <2>1
    <3> QED
      BY <1>1, <1>2, <2>7, <3>1 DEF Inv, TableTyped
  <2>9. ResizeTyped'
    BY <1>1, <1>2 DEF Inv, ResizeTyped
  <2>10. ElementsUnique'
    BY <1>1, <2>4, <2>5, <2>7 DEF Inv, ElementsUnique
  <2>11. OccupiedCounted'
    BY <1>1, <1>2, <2>3 DEF Inv, OccupiedCounted
  <2>12. ElementsReached'
    <3>1. \A b \in Buckets(nBuckets) : flags[b] # "empty" => flags'[b] # "empty"
      BY <1>3, <2>1
    <3>2. nBuckets > 0
      BY <1>3, <2>2 DEF Buckets
    <3>3. \A a \in Live : keys[a] \in Keys /\ Reached(flags, keys[a], a, nBuckets)
      BY <1>2, <1>4 DEF Inv, ElementsReached, ElementsUnique
    <3>4. \A a \in Live : Reached(flags', keys[a], a, nBuckets)
      BY <1>3, <3>1, <3>2, <3>3, ReachedStays
    <3> QED
      BY <1>1, <1>2, <1>4, <2>3, <2>4, <2>5, <3>4 DEF ElementsReached
  <2> QED
    BY <1>1, <2>1, <2>2, <2>4, <2>5, <2>8, <2>9, <2>10, <2>11, <2>12 DEF Inv
<1> QED
  BY <1>6, <1>7

LEMMA InvStep == Inv /\ [Next]_vars => Inv'
<1> SUFFICES ASSUME Inv, [Next]_vars PROVE Inv'
  OBVIOUS
<1>1. CASE UNCHANGED vars
  BY <1>1 DEF vars, table, resizing, Inv, TableTyped, ResizeTyped, ElementsUnique, OccupiedCounted,
     ElementsReached, Reached, Resizing, NewSize, Space, Held, Live, Moved, Used
<1> QED
  BY <1>1, PutStep, RehashNextStep, KickOutStep, RehashEndsStep, InsertStep, TakeOutStep
  DEF Next, Step

LEMMA TableInvariant == Spec => []Inv
BY InitInv, InvStep, PTL DEF Spec

-----------------------------------------------------------------------------
(* Theorems *)

\* The table counts its live and its used buckets right, after any calls of
\* kh_put and kh_del, and never runs out of empty buckets: probing and the
\* kick-out process always find a bucket that stops them.
THEOREM CountersExact == Spec => []Accounting
<1>1. Inv => Accounting
  <2> SUFFICES ASSUME Inv PROVE Accounting
    OBVIOUS
  <2>1. ASSUME pc \in {"idle", "insert"}, nBuckets > 0
        PROVE  /\ size = Cardinality(Live) /\ nOccupied = Cardinality(Used)
               /\ \E i \in DOMAIN flags : flags[i] = "empty"
    <3>1. ~Resizing /\ pc # "kick" /\ nBuckets # 0
      BY <2>1 DEF Resizing
    <3>2. Held = Live /\ Live \in SUBSET Buckets(nBuckets) /\ nBuckets \in Nat
      BY <3>1, TableHasRoom
    <3>3. Cardinality(Held) \in Nat
      BY <3>2, BucketsFinite
    <3>4. size = Cardinality(Live)
      BY <3>1, <3>2, <3>3 DEF Inv, ElementsUnique
    <3>5. nOccupied = Cardinality(Used)
      BY <3>1 DEF Inv, OccupiedCounted
    <3> QED
      BY <3>1, <3>4, <3>5, TableHasRoom
  <2>2. ASSUME pc = "kick" PROVE \E i \in DOMAIN new : new[i] = "empty"
    <3>1. Resizing
      BY <2>2 DEF Resizing
    <3>2. DOMAIN new = Buckets(NewSize)
      BY <3>1, ResizeFacts
    <3> QED
      BY <2>2, <3>2, NewPlaceFits
  <2> QED
    BY <2>1, <2>2 DEF Accounting, Live, Used
<1> QED
  BY <1>1, TableInvariant, PTL

Element(i) == [key |-> keys[i], val |-> vals[i]]
InHand == IF pc = "kick" THEN {hand} ELSE {}

\* The elements are in the buckets that are held, and in hand.
ElementsInPlace ==
    /\ Elements = {Element(i) : i \in Held} \cup InHand
    /\ \A e, f \in Elements : e.key = f.key => e = f
    /\ Elements \subseteq [key : Keys, val : Tokens]

LEMMA ElementsAre == Inv => ElementsInPlace
<1> SUFFICES ASSUME Inv PROVE ElementsInPlace
  OBVIOUS
<1>1. Held \subseteq DOMAIN keys
  <2>1. CASE Resizing
    BY <2>1, ResizeFacts
  <2>2. CASE ~Resizing
    BY <2>2, TableHasRoom
  <2> QED
    BY <2>1, <2>2
<1>2. {b \in DOMAIN keys : \/ b \in DOMAIN flags /\ flags[b] = "live"
                           \/ b \in DOMAIN new /\ new[b] = "live"} = Held
  BY <1>1 DEF Held, Live, Moved
<1>3. {hand} \ {Nothing} = InHand
  <2>1. CASE pc = "kick"
    <3>1. hand.key \in Keys
      BY <2>1, NewPlaceFits
    <3>2. hand # Nothing
      BY <3>1, HashAssumption DEF Nothing
    <3> QED
      BY <2>1, <3>2 DEF InHand
  <2>2. CASE pc # "kick"
    BY <2>2 DEF InHand, Inv, TableTyped
  <2> QED
    BY <2>1, <2>2
<1>4. Elements = {Element(i) : i \in Held} \cup InHand
  BY <1>2, <1>3 DEF Elements, Element
<1>5. /\ \A a \in Held : keys[a] \in Keys /\ vals[a] \in Tokens
      /\ \A a, b \in Held : keys[a] = keys[b] => a = b
      /\ pc = "kick" => \A a \in Held : keys[a] # hand.key
      /\ pc = "kick" => hand \in [key : Keys, val : Tokens]
  BY DEF Inv, ElementsUnique, TableTyped
<1>6. \A e, f \in Elements : e.key = f.key => e = f
  BY <1>4, <1>5 DEF Element, InHand
<1>7. Elements \subseteq [key : Keys, val : Tokens]
  BY <1>4, <1>5 DEF Element, InHand
<1> QED
  BY <1>4, <1>6, <1>7 DEF ElementsInPlace

LEMMA ElementsAreNext == Inv' => ElementsInPlace'
BY ElementsAre, PTL

\* No key is in the table twice, and the rehash in place loses no element,
\* whatever it kicks out and in whichever order.
THEOREM ResizeLosesNothing == Spec => []NothingLost
<1>1. Inv => NothingLost
  <2> SUFFICES ASSUME Inv PROVE Cardinality(Elements) = size
    BY ElementsAre DEF NothingLost, ElementsInPlace
  <2> DEFINE S == {Element(i) : i \in Held}
             f == [i \in Held |-> Element(i)]
  <2>1. /\ Elements = S \cup InHand
        /\ \A a, b \in Held : keys[a] = keys[b] => a = b
        /\ pc = "kick" => \A a \in Held : keys[a] # hand.key
        /\ size = Cardinality(Held) + IF pc = "kick" THEN 1 ELSE 0
    BY ElementsAre DEF Inv, ElementsUnique, ElementsInPlace
  <2>2. IsFiniteSet(Held) /\ Cardinality(Held) \in Nat
    <3>1. CASE Resizing
      BY <3>1, ResizeFacts
    <3>2. CASE ~Resizing
      <4>1. Held \in SUBSET Buckets(nBuckets) /\ nBuckets \in Nat
        BY <3>2, TableHasRoom
      <4> QED
        BY <4>1, BucketsFinite
    <3> QED
      BY <3>1, <3>2
  <2>3. f \in Bijection(Held, S)
    <3>1. \A a, b \in Held : f[a] = f[b] => a = b
      BY <2>1 DEF Element
    <3>2. f \in [Held -> S] /\ \A e \in S : \E a \in Held : f[a] = e
      OBVIOUS
    <3> HIDE DEF f, S
    <3> QED
      BY <3>1, <3>2 DEF Bijection, Injection, Surjection, IsInjective
  <2>4. IsFiniteSet(S) /\ Cardinality(S) = Cardinality(Held)
    <3> HIDE DEF f, S
    <3>1. ExistsBijection(Held, S)
      BY <2>3 DEF ExistsBijection
    <3> QED
      BY <2>2, <3>1, FS_Bijection
  <2>5. CASE pc = "kick"
    <3>1. hand \notin S
      BY <2>1, <2>5 DEF Element
    <3>2. Elements = S \cup {hand}
      BY <2>1, <2>5 DEF InHand
    <3> HIDE DEF S
    <3> QED
      BY <2>1, <2>2, <2>4, <2>5, <3>1, <3>2, FS_AddElement
  <2>6. CASE pc # "kick"
    <3>1. Elements = S
      BY <2>1, <2>6 DEF InHand
    <3> HIDE DEF S
    <3> QED
      BY <2>1, <2>2, <2>4, <2>6, <3>1
  <2> QED
    BY <2>5, <2>6
<1> QED
  BY <1>1, TableInvariant, PTL

-----------------------------------------------------------------------------
(* Refinement of TokenMap *)

\* What a set of elements is as a map.
MapOf(E) == [k \in {e.key : e \in E} |-> (CHOOSE e \in E : e.key = k).val]

LEMMA ContentsIsMap == Contents = MapOf(Elements) /\ Contents' = MapOf(Elements')
BY DEF Contents, MapOf

LEMMA MapOfElement ==
    ASSUME NEW E, \A e, f \in E : e.key = f.key => e = f, NEW e \in E
    PROVE  e.key \in DOMAIN MapOf(E) /\ MapOf(E)[e.key] = e.val
<1>1. e.key \in {f.key : f \in E}
  OBVIOUS
<1>2. (CHOOSE f \in E : f.key = e.key) = e
  OBVIOUS
<1> QED
  BY <1>1, <1>2 DEF MapOf

\* One element in place of those with its key.
LEMMA MapOfAdded ==
    ASSUME NEW E, \A e, f \in E : e.key = f.key => e = f, NEW c,
           NEW F, F = {e \in E : e.key # c.key} \cup {c}
    PROVE  MapOf(F) = [k \in DOMAIN MapOf(E) \cup {c.key} |->
                          IF k = c.key THEN c.val ELSE MapOf(E)[k]]
<1>1. \A e, f \in F : e.key = f.key => e = f
  OBVIOUS
<1>2. {e.key : e \in F} = {e.key : e \in E} \cup {c.key}
  OBVIOUS
<1>3. DOMAIN MapOf(F) = {e.key : e \in F} /\ DOMAIN MapOf(E) = {e.key : e \in E}
  BY DEF MapOf
<1>4. ASSUME NEW k \in DOMAIN MapOf(F)
      PROVE  MapOf(F)[k] = IF k = c.key THEN c.val ELSE MapOf(E)[k]
  <2>1. PICK e \in F : k = e.key
    BY <1>3
  <2>2. MapOf(F)[k] = e.val
    BY <1>1, <2>1, MapOfElement
  <2>3. CASE k = c.key
    <3>1. e = c
      BY <1>1, <2>1, <2>3
    <3> QED
      BY <2>2, <2>3, <3>1
  <2>4. CASE k # c.key
    <3>1. e \in E
      BY <2>1, <2>4
    <3> QED
      BY <2>1, <2>2, <2>4, <3>1, MapOfElement
  <2> QED
    BY <2>3, <2>4
<1>5. MapOf(F) = [k \in DOMAIN MapOf(F) |-> MapOf(F)[k]]
  BY DEF MapOf
<1> QED
  BY <1>2, <1>3, <1>4, <1>5

\* Some of the elements are gone.
LEMMA MapOfFewer ==
    ASSUME NEW E, \A e, f \in E : e.key = f.key => e = f, NEW F, F \subseteq E
    PROVE  MapOf(F) = [k \in {e.key : e \in F} |-> MapOf(E)[k]]
<1>1. \A e, f \in F : e.key = f.key => e = f
  OBVIOUS
<1>2. DOMAIN MapOf(F) = {e.key : e \in F}
  BY DEF MapOf
<1>3. ASSUME NEW k \in DOMAIN MapOf(F) PROVE MapOf(F)[k] = MapOf(E)[k]
  <2>1. PICK e \in F : k = e.key
    BY <1>2
  <2> QED
    BY <1>1, <2>1, MapOfElement
<1>4. MapOf(F) = [k \in DOMAIN MapOf(F) |-> MapOf(F)[k]]
  BY DEF MapOf
<1> QED
  BY <1>2, <1>3, <1>4

\* A step of the table is a step of the map, or changes nothing of it.
LEMMA MapStep ==
    ASSUME Inv, [Next]_vars
    PROVE  [Map!Next]_(Map!vars)
<1>0. Inv' /\ Contents = MapOf(Elements) /\ Contents' = MapOf(Elements')
  BY InvStep, ContentsIsMap
<1>1. /\ Elements = {Element(i) : i \in Held} \cup InHand
      /\ \A e, f \in Elements : e.key = f.key => e = f
      /\ Elements' = {Element(i)' : i \in Held'} \cup InHand'
  BY <1>0, ElementsAre, ElementsAreNext DEF ElementsInPlace
<1>2. ASSUME NEW key \in Keys, NEW token \in Tokens, Put(key, token)
      PROVE  Map!CallPut(key, token)
  <2>1. /\ Held' = Held
        /\ \A a \in Held : keys'[a] = keys[a] /\ vals'[a] = vals[a]
    BY <1>2, PutStep
  <2>2. /\ pc = "idle" /\ pc' # "kick" /\ call' = [key |-> key, val |-> token] /\ result' = result
    BY <1>2 DEF Put
  <2>3. Elements' = Elements
    BY <1>1, <2>1, <2>2 DEF Element, InHand
  <2>4. call = Nothing
    BY <2>2 DEF Inv, TableTyped
  <2> QED
    BY <1>0, <2>2, <2>3, <2>4 DEF Map!CallPut, Map!Nothing, Nothing
<1>3. ASSUME NEW key \in Keys, TakeOut(key) PROVE Map!TakeOut(key)
  <2>1. /\ pc' = pc /\ pc = "idle" /\ call' = call
        /\ \/ /\ \A a \in Held : keys[a] # key
              /\ result' = NoToken
              /\ UNCHANGED <<Held, keys, vals>>
           \/ \E k \in Held : /\ keys[k] = key /\ result' = vals[k]
                              /\ Held' = Held \ {k}
                              /\ \A a \in Held' : keys'[a] = keys[a] /\ vals'[a] = vals[a]
    BY <1>3, TakeOutStep
  <2>2. Elements = {Element(i) : i \in Held} /\ Elements' = {Element(i)' : i \in Held'}
    BY <1>1, <2>1 DEF InHand
  <2>3. Elements' = {e \in Elements : e.key # key}
    <3>1. CASE /\ \A a \in Held : keys[a] # key
               /\ UNCHANGED <<Held, keys, vals>>
      BY <2>2, <3>1 DEF Element
    <3>2. ASSUME NEW k \in Held, keys[k] = key, Held' = Held \ {k},
                 \A a \in Held' : keys'[a] = keys[a] /\ vals'[a] = vals[a]
          PROVE  Elements' = {e \in Elements : e.key # key}
      <4>1. \A a \in Held : keys[a] # key <=> a \in Held'
        BY <3>2 DEF Inv, ElementsUnique
      <4>2. \A a \in Held' : a \in Held /\ Element(a)' = Element(a)
        BY <3>2 DEF Element
      <4>3. \A a \in Held : Element(a).key = keys[a]
        BY DEF Element
      <4> QED
        BY <2>2, <4>1, <4>2, <4>3
    <3> QED
      BY <2>1, <3>1, <3>2
  <2>4. Contents' = [k \in DOMAIN Contents \ {key} |-> Contents[k]]
    <3> DEFINE E == Elements
               F == Elements'
    <3>1. (\A e, f \in E : e.key = f.key => e = f) /\ F = {e \in E : e.key # key}
      BY <1>1, <2>3
    <3> HIDE DEF E, F
    <3>2. F \subseteq E /\ {e.key : e \in F} = {e.key : e \in E} \ {key}
      BY <3>1
    <3>3. MapOf(F) = [k \in {e.key : e \in F} |-> MapOf(E)[k]]
      BY <3>1, <3>2, MapOfFewer
    <3>4. DOMAIN MapOf(E) = {e.key : e \in E}
      BY DEF MapOf
    <3>5. Contents = MapOf(E) /\ Contents' = MapOf(F)
      BY <1>0 DEF E, F
    <3> QED
      BY <3>2, <3>3, <3>4, <3>5
  <2>5. result' = IF key \in DOMAIN Contents THEN Contents[key] ELSE NoToken
    <3>1. DOMAIN Contents = {e.key : e \in Elements}
      BY <1>0 DEF MapOf
    <3>2. \A a \in Held : Element(a) \in Elements /\ Element(a).key = keys[a] /\ Element(a).val = vals[a]
      BY <2>2 DEF Element
    <3>3. ASSUME NEW k \in Held, keys[k] = key, result' = vals[k]
          PROVE  key \in DOMAIN Contents /\ result' = Contents[key]
      BY <1>0, <1>1, <3>2, <3>3, MapOfElement
    <3>4. ASSUME \A a \in Held : keys[a] # key PROVE key \notin DOMAIN Contents
      BY <2>2, <3>1, <3>2, <3>4
    <3> QED
      BY <2>1, <3>3, <3>4
  <2>6. call = Nothing
    BY <2>1 DEF Inv, TableTyped
  <2> QED
    BY <2>1, <2>4, <2>5, <2>6 DEF Map!TakeOut, Map!Nothing, Nothing
<1>4. ASSUME RehashNext PROVE UNCHANGED Map!vars
  <2>1. call' = call /\ result' = result /\ pc = "rehash"
    BY <1>4 DEF RehashNext
  <2>2. \/ /\ pc' = "kick" /\ j \in Held /\ Held' = Held \ {j}
           /\ hand' = [key |-> keys[j], val |-> vals[j]]
           /\ \A a \in Held' : keys'[a] = keys[a] /\ vals'[a] = vals[a]
        \/ UNCHANGED <<pc, Held, keys, vals, hand>>
    BY <1>4, RehashNextStep
  <2>3. Elements' = Elements
    <3>1. CASE /\ pc' = "kick" /\ j \in Held /\ Held' = Held \ {j}
               /\ hand' = [key |-> keys[j], val |-> vals[j]]
               /\ \A a \in Held' : keys'[a] = keys[a] /\ vals'[a] = vals[a]
      <4>1. InHand = {} /\ InHand' = {Element(j)}
        BY <2>1, <3>1 DEF InHand, Element
      <4>2. \A a \in Held' : Element(a)' = Element(a)
        BY <3>1 DEF Element
      <4>3. Held = Held' \cup {j}
        BY <3>1
      <4> QED
        BY <1>1, <4>1, <4>2, <4>3
    <3>2. CASE UNCHANGED <<pc, Held, keys, vals, hand>>
      BY <1>1, <3>2 DEF Element, InHand
    <3> QED
      BY <2>2, <3>1, <3>2
  <2> QED
    BY <1>0, <2>1, <2>3 DEF Map!vars
<1>5. ASSUME KickOut PROVE UNCHANGED Map!vars
  <2>1. call' = call /\ result' = result /\ pc = "kick"
    BY <1>5 DEF KickOut
  <2>2. PICK i \in Buckets(NewSize) :
           /\ Held' = Held \cup {i}
           /\ keys'[i] = hand.key /\ vals'[i] = hand.val
           /\ \A a \in Held \ {i} : keys'[a] = keys[a] /\ vals'[a] = vals[a]
           /\ \/ i \in Held /\ pc' = "kick" /\ hand' = [key |-> keys[i], val |-> vals[i]]
              \/ i \notin Held /\ pc' = "rehash"
    BY <1>5, KickOutStep
  <2>3. hand \in [key : Keys, val : Tokens]
    BY <2>1 DEF Inv, TableTyped
  <2>4. Element(i)' = hand /\ InHand = {hand}
    BY <2>1, <2>2, <2>3 DEF Element, InHand
  <2>5. \A a \in Held \ {i} : Element(a)' = Element(a)
    BY <2>2 DEF Element
  <2>6. InHand' = IF i \in Held THEN {Element(i)} ELSE {}
    BY <2>2 DEF InHand, Element
  <2>7. Elements' = Elements
    BY <1>1, <2>2, <2>4, <2>5, <2>6
  <2> QED
    BY <1>0, <2>1, <2>7 DEF Map!vars
<1>6. ASSUME RehashEnds PROVE UNCHANGED Map!vars
  <2>1. call' = call /\ result' = result /\ pc = "rehash"
    BY <1>6 DEF RehashEnds
  <2>2. UNCHANGED <<Held, keys, vals, hand>> /\ pc' = "insert"
    BY <1>6, RehashEndsStep
  <2>3. Elements' = Elements
    BY <1>1, <2>1, <2>2 DEF Element, InHand
  <2> QED
    BY <1>0, <2>1, <2>3 DEF Map!vars
<1>7. ASSUME Insert PROVE Map!Put
  <2>1. /\ call \in [key : Keys, val : Tokens] /\ call' = Nothing /\ pc = "insert" /\ pc' = "idle"
    BY <1>7, InsertStep
  <2>2. PICK x : /\ Held' = Held \cup {x}
                 /\ keys'[x] = call.key /\ vals'[x] = call.val
                 /\ \A a \in Held \ {x} :
                       keys'[a] = keys[a] /\ vals'[a] = vals[a] /\ keys[a] # call.key
                 /\ x \in Held => keys[x] = call.key
    BY <1>7, InsertStep
  <2>3. Elements = {Element(i) : i \in Held} /\ Elements' = {Element(i)' : i \in Held'}
    BY <1>1, <2>1 DEF InHand
  <2>4. /\ Element(x)' = call
        /\ \A a \in Held \ {x} : Element(a)' = Element(a)
        /\ \A a \in Held : Element(a).key # call.key <=> a # x
    BY <2>1, <2>2 DEF Element
  <2>5. Elements' = {e \in Elements : e.key # call.key} \cup {call}
    BY <2>2, <2>3, <2>4
  <2>6. Contents' = [k \in DOMAIN Contents \cup {call.key} |->
                        IF k = call.key THEN call.val ELSE Contents[k]]
    BY <1>0, <1>1, <2>5, MapOfAdded
  <2>7. result' = result /\ call # Nothing
    <3>1. call.key # NoKey
      BY <2>1, HashAssumption
    <3> QED
      BY <1>7, <3>1 DEF Insert, Nothing
  <2> QED
    BY <2>1, <2>6, <2>7 DEF Map!Put, Map!Nothing, Nothing
<1>8. ASSUME UNCHANGED vars PROVE UNCHANGED Map!vars
  BY <1>8 DEF vars, table, resizing, Map!vars, Contents, Elements
<1> QED
  BY <1>2, <1>3, <1>4, <1>5, <1>6, <1>7, <1>8 DEF Next, Step, Map!Next

\* The table of khash.h is the map that the processing unit takes it for, for
\* every hash function: what was put under a key, and nothing else, is found
\* and taken out, however many resizes come between.
THEOREM TableImplementsMap == Spec => ImplementsMap
<1>1. Init => Map!Init
  <2> SUFFICES ASSUME Init PROVE Map!Init
    OBVIOUS
  <2>1. Elements = {}
    BY DEF Init, Elements
  <2>2. Contents = <<>>
    BY <2>1 DEF Contents
  <2> QED
    BY <2>2 DEF Init, Map!Init, Map!Nothing, Nothing
<1>2. Inv /\ [Next]_vars => [Map!Next]_(Map!vars)
  BY MapStep
<1> QED
  BY <1>1, <1>2, TableInvariant, PTL DEF Spec, ImplementsMap, Map!Spec
=============================================================================
