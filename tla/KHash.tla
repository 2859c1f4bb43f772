------------------------------- MODULE KHash -------------------------------
(***************************************************************************)
(* The hash table of service/src/khash.h as processing_unit.c uses it:     *)
(* kh_put with the assignment of the value, and kh_get with kh_del.  Open  *)
(* addressing with triangular probing, deleted buckets that are reused,    *)
(* and a resize that rehashes in place by kicking out what is in the way.  *)
(*                                                                         *)
(* The two loops of kh_resize are steps of their own.  Memory is not       *)
(* exhausted.  What an empty or deleted bucket holds is never read, so the *)
(* model forgets it.                                                       *)
(***************************************************************************)
EXTENDS Integers, FiniteSets, FiniteSetsExt, Functions, TLC

CONSTANTS Keys, Tokens,
          Hash(_),     \* kh_int64_hash_func
          NoToken, NoKey

ASSUME HashAssumption ==
    /\ \A key \in Keys : Hash(key) \in Nat
    /\ NoKey \notin Keys

VARIABLES nBuckets, size, nOccupied, upperBound,
          flags,   \* of each bucket: empty, live or deleted
          keys, vals,
          pc,      \* idle, or where kh_put is: rehash, kick, insert
          call,    \* the arguments of kh_put
          new,     \* flags of the table that kh_resize makes
          j,       \* bucket of the old table that kh_resize looks at
          hand,    \* key and value that are being moved
          result   \* what the last look-up has found

table == <<nBuckets, size, nOccupied, upperBound, flags, keys, vals>>
resizing == <<new, j, hand>>
vars == <<table, pc, call, resizing, result>>

Nothing == [key |-> NoKey, val |-> NoToken]

\* kh_init.
Init ==
    /\ nBuckets = 0 /\ size = 0 /\ nOccupied = 0 /\ upperBound = 0
    /\ flags = <<>> /\ keys = <<>> /\ vals = <<>>
    /\ pc = "idle"
    /\ call = Nothing
    /\ new = <<>> /\ j = 0 /\ hand = Nothing
    /\ result = NoToken

-----------------------------------------------------------------------------
(* Probing *)

Buckets(n) == 0 .. (n - 1)

\* The bucket after so many steps, each one longer than the last.
Probe(key, step, n) == (Hash(key) + (step * (step + 1)) \div 2) % n

\* Probing is back at the first bucket after 2 * n - 1 steps.
Steps(n) == 0 .. (2 * n - 2)

\* The loops of kh_get and kh_put end here.
Stops(key, i) == flags[i] = "empty" \/ (flags[i] = "live" /\ keys[i] = key)

\* The number of steps after which they end, or back at the first bucket.
StepsTo(key) ==
    LET stops == {s \in Steps(nBuckets) : Stops(key, Probe(key, s, nBuckets))}
    IN  IF stops = {} THEN 2 * nBuckets - 1 ELSE Min(stops)

\* kh_get: the bucket of the key, or nBuckets.
Get(key) ==
    LET i == Probe(key, StepsTo(key), nBuckets)
    IN  IF nBuckets # 0 /\ Stops(key, i) /\ flags[i] = "live" THEN i ELSE nBuckets

\* The last deleted bucket that kh_put passes in so many steps, or nBuckets.
Site(key, steps) ==
    LET deleted == {s \in 0 .. (steps - 1) : flags[Probe(key, s, nBuckets)] = "deleted"}
    IN  IF deleted = {} THEN nBuckets ELSE Probe(key, Max(deleted), nBuckets)

\* Mutant: the key is not looked for behind a deleted bucket.
PlaceFirstDeleted(key) ==
    LET steps == StepsTo(key)
        site == Site(key, steps)
    IN  IF site # nBuckets THEN site ELSE Probe(key, steps, nBuckets)

\* The bucket kh_put chooses: that of the key, a deleted one, or an empty one.
Place(key) ==
    LET steps == StepsTo(key)
        site == Site(key, steps)
        i == Probe(key, steps, nBuckets)
    IN  IF site # nBuckets /\ (~Stops(key, i) \/ flags[i] = "empty") THEN site ELSE i

-----------------------------------------------------------------------------
(* kh_put *)

\* n * 0.77 + 0.5, rounded down.
UpperBound(n) == (77 * n + 50) \div 100

\* kroundup32 of one more or one less than a power of two.
NewBuckets ==
    IF nBuckets > 2 * size THEN nBuckets ELSE IF nBuckets = 0 THEN 4 ELSE 2 * nBuckets

\* An enlarged array.
Enlarged(f, n, value) == [i \in Buckets(n) |-> IF i \in DOMAIN f THEN f[i] ELSE value]

Put(key, token) ==
    LET n == NewBuckets
    IN  /\ pc = "idle"
        /\ call' = [key |-> key, val |-> token]
        /\ IF nOccupied >= upperBound /\ size < UpperBound(n)
           THEN /\ pc' = "rehash"
                /\ new' = [i \in Buckets(n) |-> "empty"]
                /\ j' = 0
                /\ keys' = Enlarged(keys, n, NoKey)
                /\ vals' = Enlarged(vals, n, NoToken)
           ELSE /\ pc' = "insert"
                /\ UNCHANGED <<keys, vals, new, j>>
        /\ UNCHANGED <<nBuckets, size, nOccupied, upperBound, flags, hand, result>>

\* Mutant: the loop does not get past an unused bucket.
RehashStays ==
    /\ pc = "rehash" /\ j # nBuckets
    /\ IF flags[j] = "live"
       THEN /\ hand' = [key |-> keys[j], val |-> vals[j]]
            /\ flags' = [flags EXCEPT ![j] = "deleted"]
            /\ keys' = [keys EXCEPT ![j] = NoKey]
            /\ vals' = [vals EXCEPT ![j] = NoToken]
            /\ pc' = "kick"
       ELSE UNCHANGED <<flags, keys, vals, hand, pc>>
    /\ UNCHANGED <<nBuckets, size, nOccupied, upperBound, call, new, j, result>>

\* The next bucket of the old table: its element is taken in hand.
RehashNext ==
    /\ pc = "rehash" /\ j # nBuckets
    /\ IF flags[j] = "live"
       THEN /\ hand' = [key |-> keys[j], val |-> vals[j]]
            /\ flags' = [flags EXCEPT ![j] = "deleted"]
            /\ keys' = [keys EXCEPT ![j] = NoKey]
            /\ vals' = [vals EXCEPT ![j] = NoToken]
            /\ pc' = "kick"
            /\ UNCHANGED j
       ELSE /\ j' = j + 1
            /\ UNCHANGED <<flags, keys, vals, hand, pc>>
    /\ UNCHANGED <<nBuckets, size, nOccupied, upperBound, call, new, result>>

\* The first empty bucket of the new table for a key.
NewPlace(key) ==
    LET n == Cardinality(DOMAIN new)
    IN  Probe(key, Min({s \in Steps(n) : new[Probe(key, s, n)] = "empty"}), n)

\* Mutant: the values are not swapped.
KickOutKeysOnly ==
    LET i == NewPlace(hand.key)
        kicks == i < nBuckets /\ flags[i] = "live"
    IN  /\ pc = "kick"
        /\ new' = [new EXCEPT ![i] = "live"]
        /\ keys' = [keys EXCEPT ![i] = hand.key]
        /\ vals' = [vals EXCEPT ![i] = hand.val]
        /\ hand' = IF kicks THEN [hand EXCEPT !.key = keys[i]] ELSE Nothing
        /\ flags' = IF kicks THEN [flags EXCEPT ![i] = "deleted"] ELSE flags
        /\ pc' = IF kicks THEN "kick" ELSE "rehash"
        /\ j' = IF kicks THEN j ELSE j + 1
        /\ UNCHANGED <<nBuckets, size, nOccupied, upperBound, call, result>>

\* The element in hand goes to its place in the new table; one of the old table
\* that is there is in hand next.
KickOut ==
    LET i == NewPlace(hand.key)
        kicks == i < nBuckets /\ flags[i] = "live"
    IN  /\ pc = "kick"
        /\ new' = [new EXCEPT ![i] = "live"]
        /\ keys' = [keys EXCEPT ![i] = hand.key]
        /\ vals' = [vals EXCEPT ![i] = hand.val]
        /\ IF kicks
           THEN /\ hand' = [key |-> keys[i], val |-> vals[i]]
                /\ flags' = [flags EXCEPT ![i] = "deleted"]
                /\ UNCHANGED <<pc, j>>
           ELSE /\ hand' = Nothing
                /\ pc' = "rehash"
                /\ j' = j + 1
                /\ UNCHANGED flags
        /\ UNCHANGED <<nBuckets, size, nOccupied, upperBound, call, result>>

\* The new flags replace the old ones.
RehashEnds ==
    LET n == Cardinality(DOMAIN new)
    IN  /\ pc = "rehash" /\ j = nBuckets
        /\ nBuckets' = n
        /\ flags' = new
        /\ nOccupied' = size
        /\ upperBound' = UpperBound(n)
        /\ new' = <<>> /\ j' = 0
        /\ pc' = "insert"
        /\ UNCHANGED <<size, keys, vals, call, hand, result>>

\* Mutant: a reused bucket counts as occupied once more.
InsertCountsReused ==
    LET x == Place(call.key)
    IN  /\ pc = "insert"
        /\ pc' = "idle"
        /\ call' = Nothing
        /\ keys' = [keys EXCEPT ![x] = call.key]
        /\ vals' = [vals EXCEPT ![x] = call.val]
        /\ flags' = [flags EXCEPT ![x] = "live"]
        /\ size' = IF flags[x] = "live" THEN size ELSE size + 1
        /\ nOccupied' = IF flags[x] = "live" THEN nOccupied ELSE nOccupied + 1
        /\ UNCHANGED <<nBuckets, upperBound, resizing, result>>

\* The rest of kh_put, and the assignment of the value.
Insert ==
    LET x == Place(call.key)
    IN  /\ pc = "insert"
        /\ pc' = "idle"
        /\ call' = Nothing
        /\ keys' = [keys EXCEPT ![x] = call.key]
        /\ vals' = [vals EXCEPT ![x] = call.val]
        /\ flags' = [flags EXCEPT ![x] = "live"]
        /\ size' = IF flags[x] = "live" THEN size ELSE size + 1
        /\ nOccupied' = IF flags[x] = "empty" THEN nOccupied + 1 ELSE nOccupied
        /\ UNCHANGED <<nBuckets, upperBound, resizing, result>>

\* kh_get, kh_value and kh_del.
TakeOut(key) ==
    LET k == Get(key)
        found == k # nBuckets
    IN  /\ pc = "idle"
        /\ result' = IF found THEN vals[k] ELSE NoToken
        /\ flags' = IF found THEN [flags EXCEPT ![k] = "deleted"] ELSE flags
        /\ keys' = IF found THEN [keys EXCEPT ![k] = NoKey] ELSE keys
        /\ vals' = IF found THEN [vals EXCEPT ![k] = NoToken] ELSE vals
        /\ size' = IF found THEN size - 1 ELSE size
        /\ UNCHANGED <<nBuckets, nOccupied, upperBound, pc, call, resizing>>

Step == RehashNext \/ KickOut \/ RehashEnds \/ Insert

Next ==
    \/ Step
    \/ \E key \in Keys : TakeOut(key) \/ \E token \in Tokens : Put(key, token)

Spec == Init /\ [][Next]_vars
FairSpec == Spec /\ WF_vars(Step)

-----------------------------------------------------------------------------
(* Properties *)

\* The elements, wherever they are in the middle of a resize.
Elements ==
    {[key |-> keys[i], val |-> vals[i]] :
        i \in {b \in DOMAIN keys : \/ b \in DOMAIN flags /\ flags[b] = "live"
                                   \/ b \in DOMAIN new /\ new[b] = "live"}}
    \cup ({hand} \ {Nothing})

\* size and nOccupied count the live and the used buckets, and there is always
\* an empty one, in the middle of a resize in the new table: without it the
\* loops of kh_put and kh_resize would not end.
Accounting ==
    /\ pc \in {"idle", "insert"} /\ nBuckets > 0 =>
          /\ size = Cardinality({i \in DOMAIN flags : flags[i] = "live"})
          /\ nOccupied = Cardinality({i \in DOMAIN flags : flags[i] # "empty"})
          /\ \E i \in DOMAIN flags : flags[i] = "empty"
    /\ pc = "kick" => \E i \in DOMAIN new : new[i] = "empty"

\* No key is in the table twice, and a resize that is under way has lost none
\* of the elements.
NothingLost ==
    LET elements == Elements
    IN  /\ Cardinality(elements) = size
        /\ \A e, f \in elements : e.key = f.key => e = f

\* Every call of kh_put returns: the kick-out process ends.
PutReturns == []<>(pc = "idle")

\* The table is the map that the processing unit takes it for.
Contents ==
    LET elements == Elements
    IN  [k \in {e.key : e \in elements} |-> (CHOOSE e \in elements : e.key = k).val]
Map == INSTANCE TokenMap WITH map <- Contents
ImplementsMap == Map!Spec
=============================================================================
