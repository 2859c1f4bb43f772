---------------------------- MODULE MatchingUnit ----------------------------
(***************************************************************************)
(* service/src/matching_unit.c: tokens wait for their partner in a hash    *)
(* table of chains.  table[i] is the chain of bucket i, first entry first; *)
(* an EMPTY bucket is the empty chain.  The unit is one process and the    *)
(* table is its own; what breaks an iteration of its loop is queue_add,    *)
(* which may block: a pair leaves before its first token is removed from   *)
(* the table.                                                              *)
(***************************************************************************)
EXTENDS MachineTypes, SequencesExt

CONSTANTS TableSize,  \* SIZE_MATCHING_STORE
          Incoming,   \* tokens that may arrive
          NoToken     \* token_2 of a pair that the code leaves uninitialised

ASSUME TableAssumption == TableSize \in Nat \ {0}

\* Tokens are made of words of the machine.
ASSUME IncomingAssumption ==
    /\ Incoming \subseteq [destination : 0 .. (DestinationSpace - 1),
                            data : Data, tag : 0 .. (TagSpace - 1)]
    /\ NoToken \notin Incoming

VARIABLES table,  \* token_waiting_table->table
          pc,     \* "receive", or blocked in one of the two calls of queue_add
          pair    \* ready_token_pair, while it is being sent

vars == <<table, pc, pair>>

Buckets == 0 .. (TableSize - 1)
NoPair == [token_1 |-> NoToken, token_2 |-> NoToken]

\* token_to_key.
TokenToKey(token) ==
    [tag |-> token.tag, destination |-> DestinationToAddress(token.destination)]

\* key_to_index: the sum is a 64-bit word.
KeyToIndex(key) == ((key.tag + key.destination) % TagSpace) % TableSize

\* ready_token_pair_from_tokens.
ReadyTokenPair(token_1, token_2) ==
    IF DestinationToInput(token_1.destination) = INPUT_ONE
    THEN [token_1 |-> token_1, token_2 |-> token_2]
    ELSE [token_1 |-> token_2, token_2 |-> token_1]

\* The place of a key in its chain, 0 if it is not there.
Find(chain, key) == SelectInSeq(chain, LAMBDA e : e.key = key)

\* Mutant: the bucket of another key is used.
AddToWaitingTableElsewhere(key, token) ==
    [table EXCEPT ![(KeyToIndex(key) + 1) % TableSize] = <<[key |-> key, value |-> token]>> \o @]

\* Mutant: the key of the new entry is not set.
AddToWaitingTableNoKey(key, token) ==
    [table EXCEPT ![KeyToIndex(key)] = <<[key |-> NoToken, value |-> token]>> \o @]

\* add_to_waiting_table: the new entry is the first of its chain.
AddToWaitingTable(key, token) ==
    [table EXCEPT ![KeyToIndex(key)] = <<[key |-> key, value |-> token]>> \o @]

\* Mutant: the first entry of the chain is unlinked, whatever its key.
RemoveFirstOfChain(key) == [table EXCEPT ![KeyToIndex(key)] = Tail(@)]

\* remove_from_waiting_table: the first entry with the key is unlinked.
RemoveFromWaitingTable(key) ==
    [table EXCEPT ![KeyToIndex(key)] = RemoveAt(@, Find(@, key))]

-----------------------------------------------------------------------------

Init ==
    /\ table = [i \in Buckets |-> <<>>]
    /\ pc = "receive"
    /\ pair = NoPair

\* A token that needs no partner; token_2 keeps whatever the stack holds.
ReceiveUnmatched(t) ==
    /\ pc = "receive"
    /\ DestinationToMatchingFunction(t.destination) \in {MATCHING_ONE, MATCHING_ANY}
    /\ pair' = [token_1 |-> t, token_2 |-> NoToken]
    /\ pc' = "forward"
    /\ UNCHANGED table

\* A token whose partner is not there waits in the table.
ReceiveFirst(t) ==
    LET key == TokenToKey(t)
    IN  /\ pc = "receive"
        /\ DestinationToMatchingFunction(t.destination) = MATCHING_BOTH
        /\ Find(table[KeyToIndex(key)], key) = 0
        /\ table' = AddToWaitingTable(key, t)
        /\ UNCHANGED <<pc, pair>>

\* Mutant: the partner is taken from the head of the chain.
ReceiveSecondTakesHead(t) ==
    LET key == TokenToKey(t)
        chain == table[KeyToIndex(key)]
    IN  /\ pc = "receive"
        /\ DestinationToMatchingFunction(t.destination) = MATCHING_BOTH
        /\ Find(chain, key) # 0
        /\ pair' = ReadyTokenPair(t, chain[1].value)
        /\ pc' = "pair"
        /\ UNCHANGED table

\* A token whose partner waits is paired with it; the partner stays in the
\* table until the pair is on the queue.
ReceiveSecond(t) ==
    LET key == TokenToKey(t)
        chain == table[KeyToIndex(key)]
    IN  /\ pc = "receive"
        /\ DestinationToMatchingFunction(t.destination) = MATCHING_BOTH
        /\ Find(chain, key) # 0
        /\ pair' = ReadyTokenPair(t, chain[Find(chain, key)].value)
        /\ pc' = "pair"
        /\ UNCHANGED table

\* Matching function 3: no branch of the code handles it (a DEBUG build stops).
ReceiveUnhandled(t) ==
    /\ pc = "receive"
    /\ DestinationToMatchingFunction(t.destination) = 3
    /\ UNCHANGED vars

\* queue_add of the first branch returns.
Forward ==
    /\ pc = "forward"
    /\ pc' = "receive"
    /\ pair' = NoPair
    /\ UNCHANGED table

\* queue_add of the second branch returns, and the partner is removed.
SendPair ==
    /\ pc = "pair"
    /\ table' = RemoveFromWaitingTable(TokenToKey(pair.token_1))
    /\ pc' = "receive"
    /\ pair' = NoPair

Receive(t) ==
    \/ ReceiveUnmatched(t)
    \/ ReceiveFirst(t)
    \/ ReceiveSecond(t)
    \/ ReceiveUnhandled(t)

Next == Forward \/ SendPair \/ \E t \in Incoming : Receive(t)

Spec == Init /\ [][Next]_vars

-----------------------------------------------------------------------------
(* Properties *)

Entries == UNION {ToSet(table[i]) : i \in Buckets}

\* Type invariant of matching_unit.c.
TypeOK ==
    /\ table \in [Buckets -> Seq([key : {TokenToKey(t) : t \in Incoming}, value : Incoming])]
    /\ pc \in {"receive", "forward", "pair"}
    /\ pair \in [token_1 : Incoming \cup {NoToken}, token_2 : Incoming \cup {NoToken}]

\* The table of matching_unit.c is searchable: an entry is in the bucket of its
\* key, under the key of its token, and no two entries of a chain have one key.
\* So the first hit of a search is the only one, and remove_from_waiting_table
\* unlinks the token that was paired.
TableSearchable ==
    \A i \in Buckets :
        /\ \A n \in DOMAIN table[i] :
              /\ KeyToIndex(table[i][n].key) = i
              /\ TokenToKey(table[i][n].value) = table[i][n].key
        /\ \A m, n \in DOMAIN table[i] :
              table[i][m].key = table[i][n].key => m = n

\* While a pair is being sent, its two tokens belong together (the first two
\* assertions of ready_token_pair_from_tokens), one of them is the entry that
\* will be removed, and the requirement of remove_from_waiting_table, that the
\* key exists, holds.
PairIsOfTable ==
    pc = "pair" =>
        /\ TokenToKey(pair.token_1) = TokenToKey(pair.token_2)
        /\ \E e \in Entries : /\ e.key = TokenToKey(pair.token_1)
                              /\ e.value \in {pair.token_1, pair.token_2}

\* The refinement mapping: the partner of a pair under way has left.
WaitingTokens ==
    {e.value : e \in {e \in Entries : pc = "pair" => e.key # TokenToKey(pair.token_1)}}

Store == INSTANCE MatchingStore
            WITH waiting <- WaitingTokens,
                 outgoing <- IF pc = "receive" THEN <<>> ELSE <<pair>>

\* The hash table implements the matching store, collisions included: a token
\* waits under its key until its partner comes, and then leaves with it once.
ImplementsMatchingStore == Store!Spec
=============================================================================
