--------------------------- MODULE MatchingStore ---------------------------
(***************************************************************************)
(* What the matching unit promises: a store of waiting tokens, at most one *)
(* for each key (tag and instruction address).  A token that must be       *)
(* matched leaves with its partner as soon as both are there; a token that *)
(* need not be matched passes; nothing else leaves.                        *)
(*                                                                         *)
(* MatchingUnit.tla, the chained hash table of service/src/matching_unit.c *)
(* is shown to implement this specification, and Machine.tla uses its      *)
(* operators for the matching stage of the ring.                           *)
(***************************************************************************)
EXTENDS MachineTypes

CONSTANTS Incoming,  \* tokens that may arrive
          NoToken    \* the second half of a pair that nobody has filled

VARIABLES waiting,  \* the tokens that wait for their partner
          outgoing  \* the pair being sent, as a sequence of at most one

storeVars == <<waiting, outgoing>>

Key(t) == [tag |-> t.tag, destination |-> DestinationToAddress(t.destination)]

Partners(w, t) == {u \in w : Key(u) = Key(t)}

\* Mutant: the token that came last is the first of the pair.
PairInOrderOfArrival(t, u) == [token_1 |-> u, token_2 |-> t]

\* The token for input one comes first.
PairOf(t, u) == IF DestinationToInput(t.destination) = INPUT_ONE
                THEN [token_1 |-> t, token_2 |-> u]
                ELSE [token_1 |-> u, token_2 |-> t]

Passes(t) == DestinationToMatchingFunction(t.destination) \in {MATCHING_ONE, MATCHING_ANY}
MustMatch(t) == DestinationToMatchingFunction(t.destination) = MATCHING_BOTH

\* The store, and what leaves it, after token t arrives at a store w.
StoreAfter(w, t) ==
    IF ~MustMatch(t) THEN w
    ELSE IF Partners(w, t) = {} THEN w \cup {t} ELSE w \ Partners(w, t)

SentAfter(w, t) ==
    IF Passes(t) THEN << [token_1 |-> t, token_2 |-> NoToken] >>
    ELSE IF MustMatch(t) /\ Partners(w, t) # {}
    THEN << PairOf(t, CHOOSE u \in Partners(w, t) : TRUE) >>
    ELSE <<>>

Init == waiting = {} /\ outgoing = <<>>

Accept(t) ==
    /\ outgoing = <<>>
    /\ waiting' = StoreAfter(waiting, t)
    /\ outgoing' = SentAfter(waiting, t)

Send ==
    /\ outgoing # <<>>
    /\ outgoing' = <<>>
    /\ UNCHANGED waiting

Next == Send \/ \E t \in Incoming : Accept(t)

Spec == Init /\ [][Next]_storeVars
=============================================================================
