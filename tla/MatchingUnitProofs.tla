------------------------- MODULE MatchingUnitProofs -------------------------
(***************************************************************************)
(* Proofs about MatchingUnit (service/src/matching_unit.c) for every size  *)
(* of the table, every width of the words and every set of tokens, however *)
(* many of their keys collide.                                             *)
(*                                                                         *)
(* Inv is inductive: a chain never holds a key twice, because a token is   *)
(* added only after a search for its key has failed; so the entry that a   *)
(* search finds when the pair is made is the one that is found again when  *)
(* the pair has left and the entry is removed.                             *)
(***************************************************************************)
EXTENDS MatchingUnit, NaturalFacts, SequenceTheorems

\* The inductive invariant.
Inv == TypeOK /\ TableSearchable /\ PairIsOfTable

Keys == {TokenToKey(t) : t \in Incoming}
EntrySet == [key : Keys, value : Incoming]

-----------------------------------------------------------------------------
(* Keys and buckets *)

\* key_to_index is an index of the table.
LEMMA KeyHasBucket ==
    ASSUME NEW key \in Keys
    PROVE  KeyToIndex(key) \in Buckets
<1>1. PICK t \in Incoming : key = TokenToKey(t)
  BY DEF Keys
<1>2. t.tag \in Int /\ t.destination \in Int
  BY IncomingAssumption
<1>3. key.tag + key.destination \in Int
  <2>1. key.tag = t.tag /\ key.destination = t.destination \div 16
    BY <1>1 DEF TokenToKey, DestinationToAddress
  <2> QED
    BY <1>2, <2>1
<1>4. TagSpace \in Nat /\ TagSpace > 0
  <2>1. AreaBits + IterationBits \in Nat
    BY WidthAssumption
  <2> QED
    BY <2>1, PowerPositive DEF TagSpace
<1>5. (key.tag + key.destination) % TagSpace \in Int
  BY <1>3, <1>4
<1> QED
  BY <1>5, TableAssumption DEF KeyToIndex, Buckets

-----------------------------------------------------------------------------
(* Chains *)

\* The search of a chain returns the place of an entry with the key, or 0 if
\* there is none.
LEMMA FindFacts ==
    ASSUME NEW chain \in Seq(EntrySet), NEW key
    PROVE  /\ Find(chain, key) \in 0 .. Len(chain)
           /\ Find(chain, key) = 0 <=> \A n \in 1 .. Len(chain) : chain[n].key # key
           /\ Find(chain, key) # 0 => chain[Find(chain, key)].key = key
<1> DEFINE I == {n \in 1 .. Len(chain) : chain[n].key = key}
<1>0. Len(chain) \in Nat
  OBVIOUS
<1>1. Find(chain, key) = IF I # {} THEN Min(I) ELSE 0
  BY DEF Find, SelectInSeq
<1>2. I # {} => Min(I) \in I
  <2> SUFFICES ASSUME I # {} PROVE Min(I) \in I
    OBVIOUS
  <2>1. \E m \in I : \A k \in I : m <= k
    <3>1. I \in SUBSET Nat
      BY <1>0
    <3> HIDE DEF I
    <3> QED
      BY <3>1, LeastNatural
  <2> HIDE DEF I
  <2> QED
    BY <2>1 DEF Min
<1> QED
  BY <1>0, <1>1, <1>2

\* Unlinking an entry.
LEMMA RemoveAtFacts ==
    ASSUME NEW S, NEW s \in Seq(S), NEW i \in 1 .. Len(s)
    PROVE  /\ RemoveAt(s, i) \in Seq(S)
           /\ Len(RemoveAt(s, i)) = Len(s) - 1
           /\ \A k \in 1 .. (Len(s) - 1) :
                 RemoveAt(s, i)[k] = IF k < i THEN s[k] ELSE s[k + 1]
<1> DEFINE a == SubSeq(s, 1, i - 1)
           b == SubSeq(s, i + 1, Len(s))
<1>0. Len(s) \in Nat /\ i \in Nat
  OBVIOUS
<1>1. a \in Seq(S) /\ Len(a) = i - 1 /\ \A k \in 1 .. (i - 1) : a[k] = s[k]
  BY <1>0, SubSeqProperties
<1>2. /\ b \in Seq(S) /\ Len(b) = Len(s) - i
      /\ \A k \in 1 .. (Len(s) - i) : b[k] = s[i + k]
  BY <1>0, SubSeqProperties
<1>3. RemoveAt(s, i) = a \o b
  BY DEF RemoveAt
<1> HIDE DEF a, b
<1>4. a \o b \in Seq(S) /\ Len(a \o b) = Len(s) - 1
  <2>1. a \o b \in Seq(S) /\ Len(a \o b) = Len(a) + Len(b)
    BY <1>1, <1>2, ConcatProperties
  <2> QED
    BY <1>0, <1>1, <1>2, <2>1
<1>5. \A k \in 1 .. (Len(s) - 1) : (a \o b)[k] = IF k < i THEN s[k] ELSE s[k + 1]
  <2> TAKE k \in 1 .. (Len(s) - 1)
  <2>1. CASE k < i
    BY <1>0, <1>1, <1>2, <2>1
  <2>2. CASE k >= i
    <3>1. (a \o b)[k] = b[k - (i - 1)]
      BY <1>0, <1>1, <1>2, <2>2
    <3>2. k - (i - 1) \in 1 .. (Len(s) - i) /\ i + (k - (i - 1)) = k + 1
      BY <1>0, <2>2
    <3> QED
      BY <1>0, <1>2, <2>2, <3>1, <3>2
  <2>3. k < i \/ k >= i
    BY <1>0
  <2> QED
    BY <1>0, <2>1, <2>2, <2>3
<1> QED
  BY <1>3, <1>4, <1>5

\* Linking an entry in at the head of a chain.
LEMMA PrependFacts ==
    ASSUME NEW S, NEW s \in Seq(S), NEW x \in S
    PROVE  /\ <<x>> \o s \in Seq(S)
           /\ Len(<<x>> \o s) = Len(s) + 1
           /\ (<<x>> \o s)[1] = x
           /\ \A k \in 2 .. (Len(s) + 1) : (<<x>> \o s)[k] = s[k - 1]
<1>1. <<x>> \in Seq(S) /\ Len(<<x>>) = 1 /\ <<x>>[1] = x
  OBVIOUS
<1> QED
  BY <1>1, ConcatProperties

-----------------------------------------------------------------------------
(* The table *)

\* Entries are the entries of all chains.
LEMMA EntriesAre ==
    /\ \A e : e \in Entries <=> \E i \in Buckets : \E n \in DOMAIN table[i] : e = table[i][n]
    /\ \A e : e \in Entries' <=> \E i \in Buckets : \E n \in DOMAIN table'[i] : e = table'[i][n]
BY DEF Entries, ToSet

\* A chain with a key that is searched for.
LEMMA ChainOfKey ==
    ASSUME TypeOK, NEW key \in Keys
    PROVE  /\ KeyToIndex(key) \in Buckets
           /\ table[KeyToIndex(key)] \in Seq(EntrySet)
<1>1. KeyToIndex(key) \in Buckets
  BY KeyHasBucket
<1> QED
  BY <1>1 DEF TypeOK, EntrySet, Keys

\* The search fails exactly when no entry of the table has the key.
LEMMA SearchIsComplete ==
    ASSUME TypeOK, TableSearchable, NEW key \in Keys
    PROVE  Find(table[KeyToIndex(key)], key) = 0 <=> \A e \in Entries : e.key # key
<1> DEFINE k == KeyToIndex(key)
<1>1. k \in Buckets /\ table[k] \in Seq(EntrySet)
  BY ChainOfKey
<1>2. DOMAIN table[k] = 1 .. Len(table[k])
  BY <1>1
<1>3. Find(table[k], key) = 0 <=> \A n \in DOMAIN table[k] : table[k][n].key # key
  BY <1>1, <1>2, FindFacts
<1>4. ASSUME NEW i \in Buckets, NEW n \in DOMAIN table[i], table[i][n].key = key
      PROVE  i = k
  BY <1>4 DEF TableSearchable
<1> HIDE DEF k
<1>5. (\A e \in Entries : e.key # key) <=> \A n \in DOMAIN table[k] : table[k][n].key # key
  BY <1>1, <1>4, EntriesAre
<1> QED
  BY <1>3, <1>5 DEF k

\* add_to_waiting_table for a key that is not in the table.
LEMMA AddToTable ==
    ASSUME TypeOK, TableSearchable, NEW t \in Incoming,
           Find(table[KeyToIndex(TokenToKey(t))], TokenToKey(t)) = 0,
           table' = AddToWaitingTable(TokenToKey(t), t)
    PROVE  /\ table' \in [Buckets -> Seq(EntrySet)]
           /\ TableSearchable'
           /\ Entries' = Entries \cup {[key |-> TokenToKey(t), value |-> t]}
<1> DEFINE key == TokenToKey(t)
           k == KeyToIndex(key)
           new == [key |-> key, value |-> t]
           old == table[k]
<1>1. key \in Keys /\ new \in EntrySet
  BY DEF Keys, EntrySet
<1>2. k \in Buckets /\ old \in Seq(EntrySet)
  BY <1>1, ChainOfKey
<1>3. table \in [Buckets -> Seq(EntrySet)]
  BY DEF TypeOK, EntrySet, Keys
<1>4. table' = [table EXCEPT ![k] = <<new>> \o old]
  BY DEF AddToWaitingTable
<1>5. \A n \in 1 .. Len(old) : old[n].key # key
  BY <1>2, FindFacts
<1>6. new.key = key /\ new.value = t
  OBVIOUS
<1>7. key = TokenToKey(t) /\ k = KeyToIndex(key)
  OBVIOUS
<1> HIDE DEF key, k, new, old
<1>8. /\ <<new>> \o old \in Seq(EntrySet)
      /\ Len(<<new>> \o old) = Len(old) + 1
      /\ (<<new>> \o old)[1] = new
      /\ \A n \in 2 .. (Len(old) + 1) : (<<new>> \o old)[n] = old[n - 1]
  BY <1>1, <1>2, PrependFacts
<1>9. table' \in [Buckets -> Seq(EntrySet)]
  BY <1>3, <1>4, <1>8
<1>10. /\ table'[k] = <<new>> \o old
       /\ \A i \in Buckets : i # k => table'[i] = table[i]
  BY <1>2, <1>3, <1>4
<1>11. /\ DOMAIN old = 1 .. Len(old) /\ Len(old) \in Nat
       /\ DOMAIN table'[k] = 1 .. (Len(old) + 1)
  BY <1>2, <1>8, <1>10
<1>12. ASSUME NEW n \in DOMAIN table'[k]
       PROVE  \/ n = 1 /\ table'[k][n] = new
              \/ n - 1 \in DOMAIN old /\ table'[k][n] = old[n - 1]
  <2>1. n = 1 \/ n \in 2 .. (Len(old) + 1)
    BY <1>11
  <2>2. n \in 2 .. (Len(old) + 1) => n - 1 \in 1 .. Len(old)
    BY <1>11
  <2> QED
    BY <1>8, <1>10, <1>11, <2>1, <2>2
<1>13. \A i \in Buckets : \A n \in DOMAIN table'[i] :
          /\ KeyToIndex(table'[i][n].key) = i
          /\ TokenToKey(table'[i][n].value) = table'[i][n].key
  <2> TAKE i \in Buckets
  <2>1. CASE i = k
    BY <1>2, <1>6, <1>7, <1>12, <2>1 DEF TableSearchable, old
  <2>2. CASE i # k
    BY <1>10, <2>2 DEF TableSearchable
  <2> QED
    BY <2>1, <2>2
<1>14. \A i \in Buckets : \A m, n \in DOMAIN table'[i] :
          table'[i][m].key = table'[i][n].key => m = n
  <2> TAKE i \in Buckets
  <2>1. CASE i = k
    <3> SUFFICES ASSUME NEW m \in DOMAIN table'[k], NEW n \in DOMAIN table'[k],
                        table'[k][m].key = table'[k][n].key
                 PROVE  m = n
      BY <2>1
    <3>1. m \in Int /\ n \in Int
      BY <1>11
    <3>2. CASE m = 1 \/ n = 1
      BY <1>5, <1>6, <1>11, <1>12, <3>1, <3>2
    <3>3. CASE m # 1 /\ n # 1
      <4>1. /\ m - 1 \in DOMAIN old /\ table'[k][m] = old[m - 1]
            /\ n - 1 \in DOMAIN old /\ table'[k][n] = old[n - 1]
        BY <1>12, <3>3
      <4>2. m - 1 = n - 1
        BY <1>2, <4>1 DEF TableSearchable, old
      <4> QED
        BY <3>1, <4>2
    <3> QED
      BY <3>2, <3>3
  <2>2. CASE i # k
    BY <1>10, <2>2 DEF TableSearchable
  <2> QED
    BY <2>1, <2>2
<1>15. TableSearchable'
  BY <1>13, <1>14 DEF TableSearchable
<1>16. Entries' = Entries \cup {new}
  <2>1. ASSUME NEW e \in Entries' PROVE e \in Entries \cup {new}
    <3>0. PICK i \in Buckets : \E n \in DOMAIN table'[i] : e = table'[i][n]
      BY <2>1, EntriesAre
    <3>1. PICK n \in DOMAIN table'[i] : e = table'[i][n]
      BY <3>0
    <3>2. CASE i = k
      BY <1>2, <1>12, <3>1, <3>2, EntriesAre DEF old
    <3>3. CASE i # k
      BY <1>10, <3>1, <3>3, EntriesAre
    <3> QED
      BY <3>2, <3>3
  <2>2. ASSUME NEW e \in Entries PROVE e \in Entries'
    <3>0. PICK i \in Buckets : \E n \in DOMAIN table[i] : e = table[i][n]
      BY <2>2, EntriesAre
    <3>1. PICK n \in DOMAIN table[i] : e = table[i][n]
      BY <3>0
    <3>2. CASE i = k
      <4>1. n \in 1 .. Len(old) /\ e = old[n]
        BY <1>11, <3>1, <3>2 DEF old
      <4>2. n + 1 \in 2 .. (Len(old) + 1) /\ (n + 1) - 1 = n
        BY <1>11, <4>1
      <4>3. n + 1 \in DOMAIN table'[k] /\ table'[k][n + 1] = e
        BY <1>8, <1>10, <1>11, <4>1, <4>2
      <4> QED
        BY <1>2, <4>3, EntriesAre
    <3>3. CASE i # k
      BY <1>10, <3>1, <3>3, EntriesAre
    <3> QED
      BY <3>2, <3>3
  <2>3. new \in Entries'
    <3>1. 1 \in DOMAIN table'[k] /\ table'[k][1] = new
      BY <1>8, <1>10, <1>11
    <3> QED
      BY <1>2, <3>1, EntriesAre
  <2> QED
    BY <2>1, <2>2, <2>3
<1> QED
  BY <1>9, <1>15, <1>16 DEF new, key

\* remove_from_waiting_table for a key that is in the table.
LEMMA RemoveFromTable ==
    ASSUME TypeOK, TableSearchable, NEW key \in Keys,
           Find(table[KeyToIndex(key)], key) # 0,
           table' = RemoveFromWaitingTable(key)
    PROVE  /\ table' \in [Buckets -> Seq(EntrySet)]
           /\ TableSearchable'
           /\ Entries' = {e \in Entries : e.key # key}
<1> DEFINE k == KeyToIndex(key)
           old == table[k]
           at == Find(old, key)
<1>1. k \in Buckets /\ old \in Seq(EntrySet)
  BY ChainOfKey
<1>2. table \in [Buckets -> Seq(EntrySet)]
  BY DEF TypeOK, EntrySet, Keys
<1>3. table' = [table EXCEPT ![k] = RemoveAt(old, at)]
  BY DEF RemoveFromWaitingTable
<1>4. at \in 1 .. Len(old) /\ old[at].key = key
  BY <1>1, FindFacts
<1>5. k = KeyToIndex(key)
  OBVIOUS
<1> HIDE DEF k, old, at
<1>6. /\ RemoveAt(old, at) \in Seq(EntrySet)
      /\ Len(RemoveAt(old, at)) = Len(old) - 1
      /\ \A n \in 1 .. (Len(old) - 1) :
            RemoveAt(old, at)[n] = IF n < at THEN old[n] ELSE old[n + 1]
  BY <1>1, <1>4, RemoveAtFacts
<1>7. table' \in [Buckets -> Seq(EntrySet)]
  BY <1>2, <1>3, <1>6
<1>8. /\ table'[k] = RemoveAt(old, at)
      /\ \A i \in Buckets : i # k => table'[i] = table[i]
  BY <1>1, <1>2, <1>3
<1>9. /\ DOMAIN old = 1 .. Len(old) /\ Len(old) \in Nat
      /\ DOMAIN table'[k] = 1 .. (Len(old) - 1)
  BY <1>1, <1>6, <1>8
\* Where the entry behind the n-th of the new chain was.
<1> DEFINE Was(n) == IF n < at THEN n ELSE n + 1
<1>10. \A n \in DOMAIN table'[k] :
          /\ Was(n) \in DOMAIN old /\ Was(n) # at
          /\ table'[k][n] = old[Was(n)]
  BY <1>4, <1>6, <1>8, <1>9
<1>11. \A m, n \in DOMAIN table'[k] : Was(m) = Was(n) => m = n
  BY <1>4, <1>9
<1>12. \A n \in DOMAIN old : n # at => \E m \in DOMAIN table'[k] : Was(m) = n
  <2> SUFFICES ASSUME NEW n \in DOMAIN old, n # at
               PROVE  \E m \in DOMAIN table'[k] : Was(m) = n
    OBVIOUS
  <2>1. CASE n < at
    BY <1>4, <1>9, <2>1
  <2>2. CASE n > at
    <3>1. n - 1 \in DOMAIN table'[k] /\ Was(n - 1) = n
      BY <1>4, <1>9, <2>2
    <3> QED
      BY <3>1
  <2> QED
    BY <1>4, <1>9, <2>1, <2>2
<1> HIDE DEF Was
<1>13. \A i \in Buckets : \A n \in DOMAIN table'[i] :
          /\ KeyToIndex(table'[i][n].key) = i
          /\ TokenToKey(table'[i][n].value) = table'[i][n].key
  <2> TAKE i \in Buckets
  <2>1. CASE i = k
    BY <1>1, <1>10, <2>1 DEF TableSearchable, old
  <2>2. CASE i # k
    BY <1>8, <2>2 DEF TableSearchable
  <2> QED
    BY <2>1, <2>2
<1>14. \A i \in Buckets : \A m, n \in DOMAIN table'[i] :
          table'[i][m].key = table'[i][n].key => m = n
  <2> TAKE i \in Buckets
  <2>1. CASE i = k
    BY <1>1, <1>10, <1>11, <2>1 DEF TableSearchable, old
  <2>2. CASE i # k
    BY <1>8, <2>2 DEF TableSearchable
  <2> QED
    BY <2>1, <2>2
<1>15. TableSearchable'
  BY <1>13, <1>14 DEF TableSearchable
<1>16. \A n \in DOMAIN old : n # at => old[n].key # key
  BY <1>1, <1>4, <1>9 DEF TableSearchable, old
<1>17. \A i \in Buckets : i # k => \A n \in DOMAIN table[i] : table[i][n].key # key
  BY <1>5 DEF TableSearchable
<1>18. Entries' = {e \in Entries : e.key # key}
  <2>1. ASSUME NEW e \in Entries' PROVE e \in Entries /\ e.key # key
    <3>0. PICK i \in Buckets : \E n \in DOMAIN table'[i] : e = table'[i][n]
      BY <2>1, EntriesAre
    <3>1. PICK n \in DOMAIN table'[i] : e = table'[i][n]
      BY <3>0
    <3>2. CASE i = k
      BY <1>1, <1>10, <1>16, <3>1, <3>2, EntriesAre DEF old
    <3>3. CASE i # k
      BY <1>8, <1>17, <3>1, <3>3, EntriesAre
    <3> QED
      BY <3>2, <3>3
  <2>2. ASSUME NEW e \in Entries, e.key # key PROVE e \in Entries'
    <3>0. PICK i \in Buckets : \E n \in DOMAIN table[i] : e = table[i][n]
      BY <2>2, EntriesAre
    <3>1. PICK n \in DOMAIN table[i] : e = table[i][n]
      BY <3>0
    <3>2. CASE i = k
      <4>1. n \in DOMAIN old /\ e = old[n] /\ n # at
        BY <1>4, <2>2, <3>1, <3>2 DEF old
      <4>2. PICK m \in DOMAIN table'[k] : Was(m) = n
        BY <1>12, <4>1
      <4> QED
        BY <1>1, <1>10, <4>1, <4>2, EntriesAre
    <3>3. CASE i # k
      BY <1>8, <3>1, <3>3, EntriesAre
    <3> QED
      BY <3>2, <3>3
  <2> QED
    BY <2>1, <2>2
<1> QED
  BY <1>7, <1>15, <1>18

-----------------------------------------------------------------------------
(* Inv is inductive *)

LEMMA InitInv == Init => Inv
<1> SUFFICES ASSUME Init PROVE Inv
  OBVIOUS
<1>1. \A i \in Buckets : table[i] = <<>>
  BY DEF Init
<1>2. TypeOK
  BY <1>1 DEF Init, TypeOK, NoPair
<1>3. TableSearchable /\ PairIsOfTable
  BY <1>1 DEF Init, TableSearchable, PairIsOfTable
<1> QED
  BY <1>2, <1>3 DEF Inv

\* The two tokens of a pair, in whichever order.
LEMMA PairTokens ==
    ASSUME NEW t, NEW u
    PROVE  LET p == ReadyTokenPair(t, u)
           IN  /\ {p.token_1, p.token_2} = {t, u}
               /\ p = [token_1 |-> p.token_1, token_2 |-> p.token_2]
BY DEF ReadyTokenPair

\* A search that succeeds finds the partner: an entry of the table, the only one
\* with that key.
LEMMA PartnerFound ==
    ASSUME TypeOK, TableSearchable, NEW key \in Keys,
           Find(table[KeyToIndex(key)], key) # 0
    PROVE  LET chain == table[KeyToIndex(key)]
               e == chain[Find(chain, key)]
           IN  /\ e \in Entries /\ e \in EntrySet
               /\ e.key = key /\ TokenToKey(e.value) = key
               /\ \A f \in Entries : f.key = key => f = e
<1> DEFINE k == KeyToIndex(key)
           chain == table[k]
           at == Find(chain, key)
<1>1. k \in Buckets /\ chain \in Seq(EntrySet)
  BY ChainOfKey
<1>2. at \in 1 .. Len(chain) /\ chain[at].key = key
  BY <1>1, FindFacts
<1>3. at \in DOMAIN chain
  BY <1>1, <1>2
<1>4. chain[at] \in Entries /\ chain[at] \in EntrySet
  BY <1>1, <1>3, EntriesAre
<1>5. TokenToKey(chain[at].value) = key
  BY <1>1, <1>2, <1>3 DEF TableSearchable
<1>6. ASSUME NEW f \in Entries, f.key = key PROVE f = chain[at]
  <2>1. PICK i \in Buckets : \E n \in DOMAIN table[i] : f = table[i][n]
    BY EntriesAre
  <2>2. PICK n \in DOMAIN table[i] : f = table[i][n]
    BY <2>1
  <2>3. i = k
    BY <1>6, <2>2 DEF TableSearchable
  <2>4. n = at
    BY <1>1, <1>2, <1>3, <1>6, <2>2, <2>3 DEF TableSearchable
  <2> QED
    BY <2>2, <2>3, <2>4
<1> QED
  BY <1>2, <1>4, <1>5, <1>6

LEMMA EntriesTyped ==
    ASSUME TypeOK
    PROVE  Entries \subseteq EntrySet
<1> SUFFICES ASSUME NEW e \in Entries PROVE e \in EntrySet
  OBVIOUS
<1>1. PICK i \in Buckets : \E n \in DOMAIN table[i] : e = table[i][n]
  BY EntriesAre
<1>2. PICK n \in DOMAIN table[i] : e = table[i][n]
  BY <1>1
<1>3. table[i] \in Seq(EntrySet)
  BY DEF TypeOK, EntrySet, Keys
<1> QED
  BY <1>2, <1>3

\* The removal of the partner finds it: its key is a key, and is in the table.
LEMMA RemovalFinds ==
    ASSUME Inv, pc = "pair"
    PROVE  /\ TokenToKey(pair.token_1) \in Keys
           /\ Find(table[KeyToIndex(TokenToKey(pair.token_1))], TokenToKey(pair.token_1)) # 0
<1>1. PICK e \in Entries : e.key = TokenToKey(pair.token_1)
  BY DEF Inv, PairIsOfTable
<1>2. TokenToKey(pair.token_1) \in Keys
  BY <1>1, EntriesTyped DEF Inv, EntrySet
<1> QED
  BY <1>1, <1>2, SearchIsComplete DEF Inv

LEMMA InvStep == Inv /\ [Next]_vars => Inv'
<1> SUFFICES ASSUME Inv, [Next]_vars PROVE Inv'
  OBVIOUS
<1>0. TypeOK /\ TableSearchable /\ PairIsOfTable
  BY DEF Inv
<1>0a. table \in [Buckets -> Seq(EntrySet)]
  BY <1>0 DEF TypeOK, EntrySet, Keys
<1>1. CASE UNCHANGED vars
  BY <1>0, <1>1 DEF vars, Inv, TypeOK, TableSearchable, PairIsOfTable, Entries
<1>2. ASSUME NEW t \in Incoming, ReceiveUnmatched(t) PROVE Inv'
  <2>1. UNCHANGED table /\ pc' = "forward" /\ pair' = [token_1 |-> t, token_2 |-> NoToken]
    BY <1>2 DEF ReceiveUnmatched
  <2> QED
    BY <1>0, <2>1 DEF Inv, TypeOK, TableSearchable, PairIsOfTable
<1>3. ASSUME NEW t \in Incoming, ReceiveFirst(t) PROVE Inv'
  <2>1. /\ Find(table[KeyToIndex(TokenToKey(t))], TokenToKey(t)) = 0
        /\ table' = AddToWaitingTable(TokenToKey(t), t)
        /\ pc' = pc /\ pair' = pair /\ pc = "receive"
    BY <1>3 DEF ReceiveFirst
  <2>2. table' \in [Buckets -> Seq(EntrySet)] /\ TableSearchable'
    BY <1>0, <2>1, AddToTable
  <2> QED
    BY <1>0, <2>1, <2>2 DEF Inv, TypeOK, PairIsOfTable, EntrySet, Keys
<1>4. ASSUME NEW t \in Incoming, ReceiveSecond(t) PROVE Inv'
  <2> DEFINE key == TokenToKey(t)
             chain == table[KeyToIndex(key)]
             e == chain[Find(chain, key)]
  <2>1. /\ Find(chain, key) # 0
        /\ pair' = ReadyTokenPair(t, e.value)
        /\ pc' = "pair" /\ table' = table
    BY <1>4 DEF ReceiveSecond
  <2>2. key \in Keys
    BY DEF Keys
  <2>3. e \in Entries /\ e \in EntrySet /\ e.key = key /\ TokenToKey(e.value) = key
    BY <1>0, <2>1, <2>2, PartnerFound
  <2>4. key = TokenToKey(t)
    OBVIOUS
  <2> HIDE DEF key, chain, e
  <2>5. e.value \in Incoming
    BY <2>3 DEF EntrySet
  <2>6. /\ {pair'.token_1, pair'.token_2} = {t, e.value}
        /\ pair' = [token_1 |-> pair'.token_1, token_2 |-> pair'.token_2]
    BY <2>1, PairTokens
  <2>7. pair'.token_1 \in {t, e.value} /\ pair'.token_2 \in {t, e.value}
    BY <2>6
  <2>8. TypeOK'
    BY <1>0, <2>1, <2>5, <2>6, <2>7 DEF TypeOK
  <2>9. TableSearchable'
    BY <1>0, <2>1 DEF TableSearchable
  <2>10. PairIsOfTable'
    <3>1. TokenToKey(pair'.token_1) = key /\ TokenToKey(pair'.token_2) = key
      BY <2>3, <2>4, <2>7
    <3>2. Entries' = Entries
      BY <2>1 DEF Entries
    <3>3. e.value \in {pair'.token_1, pair'.token_2}
      BY <2>6
    <3> QED
      BY <2>3, <3>1, <3>2, <3>3 DEF PairIsOfTable
  <2> QED
    BY <2>8, <2>9, <2>10 DEF Inv
<1>5. ASSUME NEW t \in Incoming, ReceiveUnhandled(t) PROVE Inv'
  BY <1>1, <1>5 DEF ReceiveUnhandled
<1>6. CASE Forward
  BY <1>0, <1>6 DEF Forward, Inv, TypeOK, TableSearchable, PairIsOfTable, NoPair
<1>7. CASE SendPair
  <2>1. pc = "pair" /\ pc' = "receive" /\ pair' = NoPair
        /\ table' = RemoveFromWaitingTable(TokenToKey(pair.token_1))
    BY <1>7 DEF SendPair
  <2>2. table' \in [Buckets -> Seq(EntrySet)] /\ TableSearchable'
    BY <1>0, <2>1, RemovalFinds, RemoveFromTable
  <2> QED
    BY <2>1, <2>2 DEF Inv, TypeOK, PairIsOfTable, EntrySet, Keys, NoPair
<1> QED
  BY <1>1, <1>2, <1>3, <1>4, <1>5, <1>6, <1>7 DEF Next, Receive

LEMMA MatchingUnitInvariant == Spec => []Inv
BY InitInv, InvStep, PTL DEF Spec

\* The table of matching_unit.c holds tokens under their keys, whatever tokens
\* arrive.
THEOREM TableTyped == Spec => []TypeOK
<1>1. Inv => TypeOK
  BY DEF Inv
<1> QED
  BY <1>1, MatchingUnitInvariant, PTL

\* Every entry of the hash table stays where a search for its key finds it, and
\* finds it only, for every size of the table and every pattern of collisions.
THEOREM SearchFindsTheToken == Spec => []TableSearchable
<1>1. Inv => TableSearchable
  BY DEF Inv
<1> QED
  BY <1>1, MatchingUnitInvariant, PTL

\* A pair that is being sent is of one instruction and iteration, and the entry
\* that remove_from_waiting_table is going to unlink exists and is one of the two.
THEOREM PairBelongsTogether == Spec => []PairIsOfTable
<1>1. Inv => PairIsOfTable
  BY DEF Inv
<1> QED
  BY <1>1, MatchingUnitInvariant, PTL

-----------------------------------------------------------------------------
(* Refinement of MatchingStore *)

\* What waits while no pair is under way.
LEMMA WaitingIsEntries ==
    /\ pc # "pair" => WaitingTokens = {e.value : e \in Entries}
    /\ pc' # "pair" => WaitingTokens' = {e.value : e \in Entries'}
BY DEF WaitingTokens

\* The keys of the store are those of the table.
LEMMA SameKey == \A t : Store!Key(t) = TokenToKey(t)
BY DEF Store!Key, TokenToKey, DestinationToAddress, Store!DestinationToAddress

\* So are its matching functions, which differ from one another.
LEMMA SameMatchingFunction ==
    /\ \A d : Store!DestinationToMatchingFunction(d) = DestinationToMatchingFunction(d)
    /\ Store!MATCHING_ONE = MATCHING_ONE /\ Store!MATCHING_ANY = MATCHING_ANY
    /\ Store!MATCHING_BOTH = MATCHING_BOTH
    /\ MATCHING_BOTH \notin {MATCHING_ONE, MATCHING_ANY}
BY DEF Store!DestinationToMatchingFunction, DestinationToMatchingFunction,
       Store!MATCHING_ONE, Store!MATCHING_BOTH, Store!MATCHING_ANY,
       MATCHING_ONE, MATCHING_BOTH, MATCHING_ANY

\* The partners of a token in the store are the values of the entries with its key.
LEMMA PartnersAre ==
    ASSUME TypeOK, TableSearchable, pc # "pair", NEW t
    PROVE  Store!Partners(WaitingTokens, t) = {e.value : e \in {f \in Entries : f.key = TokenToKey(t)}}
<1>1. \A e \in Entries : TokenToKey(e.value) = e.key
  <2> TAKE e \in Entries
  <2>1. PICK i \in Buckets : \E n \in DOMAIN table[i] : e = table[i][n]
    BY EntriesAre
  <2> QED
    BY <2>1 DEF TableSearchable
<1> QED
  BY <1>1, WaitingIsEntries, SameKey DEF Store!Partners

\* A step of the matching unit is a step of the store or changes nothing of it.
LEMMA StoreStep ==
    ASSUME Inv, Next
    PROVE  [Store!Next]_(Store!storeVars)
<1> DEFINE out == IF pc = "receive" THEN <<>> ELSE <<pair>>
<1>0. TypeOK /\ TableSearchable /\ PairIsOfTable
  BY DEF Inv
<1>1. ASSUME NEW t \in Incoming, ReceiveUnmatched(t) PROVE Store!Accept(t)
  <2>1. /\ pc = "receive" /\ pc' = "forward" /\ table' = table
        /\ pair' = [token_1 |-> t, token_2 |-> NoToken]
        /\ DestinationToMatchingFunction(t.destination) \in {MATCHING_ONE, MATCHING_ANY}
    BY <1>1 DEF ReceiveUnmatched
  <2>2. Store!Passes(t) /\ ~Store!MustMatch(t)
    BY <2>1, SameMatchingFunction DEF Store!Passes, Store!MustMatch
  <2>3. WaitingTokens' = WaitingTokens
    BY <2>1 DEF WaitingTokens, Entries
  <2>4. /\ Store!StoreAfter(WaitingTokens, t) = WaitingTokens
        /\ Store!SentAfter(WaitingTokens, t) = << [token_1 |-> t, token_2 |-> NoToken] >>
    BY <2>2 DEF Store!StoreAfter, Store!SentAfter
  <2> QED
    BY <2>1, <2>3, <2>4 DEF Store!Accept
<1>2. ASSUME NEW t \in Incoming, ReceiveFirst(t) PROVE Store!Accept(t)
  <2> DEFINE new == [key |-> TokenToKey(t), value |-> t]
  <2>1. /\ pc = "receive" /\ pc' = "receive"
        /\ DestinationToMatchingFunction(t.destination) = MATCHING_BOTH
        /\ Find(table[KeyToIndex(TokenToKey(t))], TokenToKey(t)) = 0
        /\ table' = AddToWaitingTable(TokenToKey(t), t)
    BY <1>2 DEF ReceiveFirst
  <2>2. Store!MustMatch(t) /\ ~Store!Passes(t)
    BY <2>1, SameMatchingFunction DEF Store!Passes, Store!MustMatch
  <2>3. TokenToKey(t) \in Keys
    BY DEF Keys
  <2>4. \A e \in Entries : e.key # TokenToKey(t)
    BY <1>0, <2>1, <2>3, SearchIsComplete
  <2>5. Store!Partners(WaitingTokens, t) = {}
    BY <1>0, <2>1, <2>4, PartnersAre
  <2>6. Entries' = Entries \cup {new}
    BY <1>0, <2>1, AddToTable
  <2>7. WaitingTokens' = WaitingTokens \cup {t}
    <3>1. new.value = t
      OBVIOUS
    <3> HIDE DEF new
    <3> QED
      BY <2>1, <2>6, <3>1, WaitingIsEntries
  <2>8. /\ Store!StoreAfter(WaitingTokens, t) = WaitingTokens \cup {t}
        /\ Store!SentAfter(WaitingTokens, t) = <<>>
    BY <2>2, <2>5 DEF Store!StoreAfter, Store!SentAfter
  <2> QED
    BY <2>1, <2>7, <2>8 DEF Store!Accept
<1>3. ASSUME NEW t \in Incoming, ReceiveSecond(t) PROVE Store!Accept(t)
  <2> DEFINE key == TokenToKey(t)
             chain == table[KeyToIndex(key)]
             e == chain[Find(chain, key)]
  <2>1. /\ pc = "receive" /\ pc' = "pair" /\ table' = table
        /\ DestinationToMatchingFunction(t.destination) = MATCHING_BOTH
        /\ Find(chain, key) # 0
        /\ pair' = ReadyTokenPair(t, e.value)
    BY <1>3 DEF ReceiveSecond
  <2>2. Store!MustMatch(t) /\ ~Store!Passes(t)
    BY <2>1, SameMatchingFunction DEF Store!Passes, Store!MustMatch
  <2>3. key \in Keys
    BY DEF Keys
  <2>4. /\ e \in Entries /\ e.key = key /\ TokenToKey(e.value) = key
        /\ \A f \in Entries : f.key = key => f = e
    BY <1>0, <2>1, <2>3, PartnerFound
  <2>5. key = TokenToKey(t)
    OBVIOUS
  <2> HIDE DEF key, chain, e
  <2>6. Store!Partners(WaitingTokens, t) = {e.value}
    <3>1. {f \in Entries : f.key = TokenToKey(t)} = {e}
      BY <2>4, <2>5
    <3> QED
      BY <1>0, <2>1, <3>1, PartnersAre
  <2>7. pair' = Store!PairOf(t, e.value)
    BY <2>1
    DEF ReadyTokenPair, Store!PairOf, INPUT_ONE, Store!INPUT_ONE,
        DestinationToInput, Store!DestinationToInput
  <2>8. /\ Store!StoreAfter(WaitingTokens, t) = WaitingTokens \ {e.value}
        /\ Store!SentAfter(WaitingTokens, t) = << pair' >>
    <3>1. (CHOOSE u \in {e.value} : TRUE) = e.value
      OBVIOUS
    <3> QED
      BY <2>2, <2>6, <2>7, <3>1 DEF Store!StoreAfter, Store!SentAfter
  <2>9. TokenToKey(pair'.token_1) = key
    <3>1. pair'.token_1 \in {t, e.value}
      BY <2>1, PairTokens
    <3> QED
      BY <2>4, <2>5, <3>1
  <2>10. WaitingTokens' = WaitingTokens \ {e.value}
    <3>1. WaitingTokens' = {f.value : f \in {f \in Entries : f.key # key}}
      BY <2>1, <2>9 DEF WaitingTokens, Entries
    <3>2. WaitingTokens = {f.value : f \in Entries}
      BY <2>1, WaitingIsEntries
    <3>3. \A f \in Entries : f.key = TokenToKey(f.value)
      <4> TAKE f \in Entries
      <4>1. PICK i \in Buckets : \E n \in DOMAIN table[i] : f = table[i][n]
        BY EntriesAre
      <4> QED
        BY <1>0, <4>1 DEF TableSearchable
    <3>4. \A f \in Entries : f.value = e.value <=> f.key = key
      BY <2>4, <3>3
    <3> QED
      BY <3>1, <3>2, <3>4
  <2> QED
    BY <2>1, <2>8, <2>10 DEF Store!Accept
<1>4. ASSUME NEW t \in Incoming, ReceiveUnhandled(t) PROVE UNCHANGED Store!storeVars
  BY <1>4 DEF ReceiveUnhandled, vars, Store!storeVars, WaitingTokens, Entries
<1>5. CASE Forward
  <2>1. pc = "forward" /\ pc' = "receive" /\ table' = table
    BY <1>5 DEF Forward
  <2>2. WaitingTokens' = WaitingTokens
    BY <2>1 DEF WaitingTokens, Entries
  <2>3. Store!Send
    BY <2>1, <2>2 DEF Store!Send
  <2> QED
    BY <2>3 DEF Store!Next
<1>6. CASE SendPair
  <2>1. pc = "pair" /\ pc' = "receive"
        /\ table' = RemoveFromWaitingTable(TokenToKey(pair.token_1))
    BY <1>6 DEF SendPair
  <2>2. Entries' = {e \in Entries : e.key # TokenToKey(pair.token_1)}
    BY <1>0, <2>1, RemovalFinds, RemoveFromTable
  <2>3. WaitingTokens' = WaitingTokens
    BY <2>1, <2>2 DEF WaitingTokens
  <2>4. Store!Send
    BY <2>1, <2>3 DEF Store!Send
  <2> QED
    BY <2>4 DEF Store!Next
<1> QED
  BY <1>1, <1>2, <1>3, <1>4, <1>5, <1>6 DEF Next, Receive, Store!Next

\* The chained hash table of matching_unit.c implements the matching store, for
\* every size of the table and every set of tokens: no token is lost, paired
\* twice or paired with one of another instruction or iteration.
THEOREM TableImplementsStore == Spec => ImplementsMatchingStore
<1>1. Init => Store!Init
  <2> SUFFICES ASSUME Init PROVE Store!Init
    OBVIOUS
  <2>1. Entries = {}
    BY DEF Init, Entries, ToSet
  <2>2. WaitingTokens = {}
    BY <2>1 DEF WaitingTokens
  <2> QED
    BY <2>2 DEF Init, Store!Init
<1>2. Inv /\ [Next]_vars => [Store!Next]_(Store!storeVars)
  <2>1. ASSUME UNCHANGED vars PROVE UNCHANGED Store!storeVars
    BY <2>1 DEF vars, Store!storeVars, WaitingTokens, Entries
  <2> QED
    BY <2>1, StoreStep
<1> QED
  BY <1>1, <1>2, MatchingUnitInvariant, PTL DEF Spec, ImplementsMatchingStore, Store!Spec
=============================================================================
