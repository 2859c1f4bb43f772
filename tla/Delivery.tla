------------------------------ MODULE Delivery ------------------------------
(***************************************************************************)
(* What an assembled image means for the variables of its source: where    *)
(* the tokens of each definition arrive.                                   *)
(***************************************************************************)
EXTENDS Assembler

\* The node of a line; a branch has two DUPs before it.
NodeOf(line) ==
    LET Size(i) == CASE source.lines[i].kind \in {"assign", "out"} -> 1
                     [] source.lines[i].kind = "branch" -> 3
                     [] OTHER -> 0
    IN  FoldLeft(LAMBDA n, i : n + Size(i), 0, [i \in 1 .. line |-> i])

\* The outputs that define a variable, as pairs of a line and an output: 0 for
\* both destinations of an assignment, 1 or 2 for that of a branch.
Outputs(name) ==
    {o \in (DOMAIN source.lines) \X (0 .. 2) :
        LET l == source.lines[o[1]]
        IN  \/ l.kind = "assign" /\ o[2] = 0 /\ l.variable = name
            \/ l.kind = "branch" /\ o[2] # 0 /\ l.variables[o[2]] = name}

IsLater(o, p) == o[1] > p[1] \/ (o[1] = p[1] /\ o[2] > p[2])
LastOutput(name) == CHOOSE o \in Outputs(name) : \A p \in Outputs(name) \ {o} : IsLater(o, p)

\* The uses of a variable, as pairs of a line and a number.
Uses(name) ==
    {u \in (DOMAIN source.lines) \X {1, 2} :
        LET l == source.lines[u[1]]
        IN  /\ l.kind \in {"assign", "out", "branch"}
            /\ l.args[u[2]] = Name(name) /\ l.args[u[2]] # Hole}

\* Where tokens are sent, as pairs of an address and an input.
PlaceOf(word) == <<DestinationToAddress(word), DestinationToInput(word)>>

PlaceOfUse(u) == PlaceOf(DestinationWord(To(NodeOf(u[1]), u[2] - 1)))

\* The words the machine sends the result of an instruction to.
SentTo(inst, output) ==
    CASE output = 1 -> <<inst.destination_1>>
      [] output = 2 -> <<inst.destination_2>>
      [] inst.marker = BOTH_OUTPUT_MARKER -> <<inst.destination_1, inst.destination_2>>
      [] OTHER -> <<inst.destination_1>>

\* Addresses of DUPs that the assembler has added.
Added == {Index(node) : node \in {n \in kept : nodes[n].optimizable}}

\* The places that words lead to, through such DUPs.
RECURSIVE Arrivals(_, _)
Arrivals(words, added) ==
    FlattenSeq([i \in DOMAIN words |->
        IF words[i] = DEV_NULL_DESTINATION THEN <<>>
        ELSE IF DestinationToAddress(words[i]) \in added
        THEN Arrivals(SentTo(image.instructions[DestinationToAddress(words[i]) + 1], 0), added)
        ELSE <<PlaceOf(words[i])>>])

\* Where an output arrives, and how often; how often it should.
ArrivalsOf(o, added) == Arrivals(SentTo(image.instructions[Index(NodeOf(o[1])) + 1], o[2]), added)
Often(place, places) == Len(SelectSeq(places, LAMBDA p : p = place))
PlacesOfUses(name) == {<<u, PlaceOfUse(u)>> : u \in Uses(name)}
Wanted(place, uses) == Cardinality({u \in uses : u[2] = place})

DefinedNames == {name \in DOMAIN variables : name \notin DOMAIN labels}

\* The first input of the first instruction, when that is the word 0.
IsWordZero(place) ==
    place = <<0, INPUT_ONE>> /\ Matching(nodes[Head(Emitted)]) = MATCHING_ONE

\* In the image the last definition of a variable sends one token to each of its
\* uses, through whatever DUPs, and to nothing else; an earlier definition sends
\* no more than that.  The word 0 may be missed.
LastDefinitionDelivers ==
    phase = "done" =>
        LET added == Added
        IN  \A name \in DefinedNames :
                LET uses == PlacesOfUses(name)
                IN  \A o \in Outputs(name) :
                        LET arrivals == ArrivalsOf(o, added)
                        IN  \A place \in ToSet(arrivals) \cup {u[2] : u \in uses} :
                                /\ Often(place, arrivals) <= Wanted(place, uses)
                                /\ o = LastOutput(name) /\ ~IsWordZero(place) =>
                                      Often(place, arrivals) = Wanted(place, uses)
=============================================================================
