--------------------------- MODULE MCMatchingUnit ---------------------------
(* MatchingUnit for TLC. *)
EXTENDS MatchingUnit

\* Three instructions, two iterations: six keys over two buckets, so that a
\* chain holds up to three of them, and each may be the first, a middle or the
\* last entry when its partner comes.  One token of each other kind.
MCIncoming ==
    {Token(CreateDestination(a, i, MATCHING_BOTH), 0, tag) :
        a \in 0 .. 2, i \in {INPUT_ONE, INPUT_TWO}, tag \in 0 .. 1}
    \cup {Token(CreateDestination(1, INPUT_TWO, m), 0, 1) : m \in {MATCHING_ONE, MATCHING_ANY, 3}}
=============================================================================
