----------------------------- MODULE Assembler -----------------------------
(***************************************************************************)
(* service/src/assembler.py: from the statements of a TASS source to a     *)
(* graph of nodes, to the graph without redundant DUPs, to an image.       *)
(*                                                                         *)
(* A statement is a line that has been split into words: an assignment, a  *)
(* special output, a BRR or NTG with two outputs, a label, an export or an *)
(* extern.  A line that is not one of these is not modelled.  An argument  *)
(* is a literal or a name; the name "_" is a placeholder.                  *)
(*                                                                         *)
(* Nodes are numbered from 1 in the order in which they are made; kept     *)
(* are those that optimize_graph leaves.                                   *)
(***************************************************************************)
EXTENDS MachineTypes, SequencesExt, TLC

CONSTANT Sources  \* records of the lines and the images they should give, if known

VARIABLES source,
          phase,      \* parse, connect, extern, optimize, emit, done or error
          at,         \* the line that is parsed, or the node that is connected
          nodes,
          label,      \* the labels that wait for their instruction: none or one
          labels,     \* nodes by label
          variables,  \* nodes that define each variable
          exports, externs,
          kept,
          image,
          parsed      \* history: the nodes as the lines gave them, for the properties

vars == <<source, phase, at, nodes, label, labels, variables, exports, externs, kept, image,
          parsed>>

None == [none |-> TRUE]
Literal(n) == [literal |-> n]
Name(s) == [name |-> s]
Hole == Name("_")
IsLiteral(arg) == "literal" \in DOMAIN arg
IsName(arg) == "name" \in DOMAIN arg

\* The lines of a source.
Assign(variable, opcode, a, b) ==
    [kind |-> "assign", variable |-> variable, opcode |-> opcode, args |-> <<a, b>>]
Branch(first, second, opcode, a, b) ==
    [kind |-> "branch", variables |-> <<first, second>>, opcode |-> opcode, args |-> <<a, b>>]
Out(opcode, a) == [kind |-> "out", opcode |-> opcode, args |-> <<a, None>>]
Other(kind, name) == [kind |-> kind, name |-> name]

SpecialOpcodes == {"OUTD", "OUTS"}
OneInput == SpecialOpcodes \cup {"DUP", "NEG", "NTG", "ITG", "ETG", "RED", "CLS", "HLT",
                                 "LS", "ULK", "RND"}

\* A statement has two arguments, of which some may be None.
ASSUME LinesAssumption ==
    \A s \in Sources :
        /\ Len(s.lines) \in Nat
        /\ \A i \in 1 .. Len(s.lines) : s.lines[i].kind \in {"assign", "branch", "out"} =>
              s.lines[i].args = <<s.lines[i].args[1], s.lines[i].args[2]>>

Node(opcode, inputs, destinations, optimizable) ==
    [opcode |-> opcode, inputs |-> inputs, destinations |-> destinations,
     optimizable |-> optimizable]

To(node, input) == [node |-> node, input |-> input]
DupNode(destinations) == Node("DUP", <<None, None>>, destinations, TRUE)

NoImage == [wellFormed |-> FALSE, constants |-> <<>>, toFix |-> <<>>, externals |-> <<>>,
            exports |-> <<>>, instructions |-> <<>>]

Init ==
    /\ source \in Sources
    /\ phase = "parse" /\ at = 1
    /\ nodes = <<>>
    /\ label = {} /\ labels = <<>>
    /\ variables = <<>>
    /\ exports = {} /\ externs = {}
    /\ kept = {}
    /\ image = NoImage
    /\ parsed = <<>>

-----------------------------------------------------------------------------
(* parse_create_ir_graph, the loop over the lines *)

Line == source.lines[at]

Reading(kind) == phase = "parse" /\ at <= Len(source.lines) /\ Line.kind = kind

\* The line is done, or sys.exit(-1).
NextLine(accepted) ==
    /\ phase' = IF accepted THEN "parse" ELSE "error"
    /\ at' = at + 1
    /\ UNCHANGED <<source, kept, image, parsed>>

\* The node of a statement takes the label that waits.
GiveLabel(node) ==
    /\ label' = {}
    /\ labels' = [l \in DOMAIN labels \cup label |-> IF l \in label THEN node ELSE labels[l]]

DefinitionsOf(defined, name) == IF name \in DOMAIN defined THEN defined[name] ELSE <<>>

\* The dictionary after an assignment to one of its keys.
With(dictionary, key, value) ==
    [k \in DOMAIN dictionary \cup {key} |-> IF k = key THEN value ELSE dictionary[k]]

Define(defined, name, node) == With(defined, name, Append(DefinitionsOf(defined, name), node))

ParseLabel ==
    /\ Reading("label")
    /\ label' = {Line.name}
    /\ NextLine(label = {} /\ Line.name \notin DOMAIN labels)
    /\ UNCHANGED <<nodes, labels, variables, exports, externs>>

ParseExport ==
    /\ Reading("export")
    /\ exports' = exports \cup {Line.name}
    /\ NextLine(Line.name \in DOMAIN labels)
    /\ UNCHANGED <<nodes, label, labels, variables, externs>>

ParseExtern ==
    /\ Reading("extern")
    /\ externs' = externs \cup {Line.name}
    /\ NextLine(TRUE)
    /\ UNCHANGED <<nodes, label, labels, variables, exports>>

\* variable = OPCODE argument argument: a literal is only the second argument,
\* or both of them; MER has none.
ParseAssign ==
    LET node == Len(nodes) + 1
        args == Line.args
    IN  /\ Reading("assign")
        /\ nodes' = Append(nodes, Node(Line.opcode, args, <<None, None>>, FALSE))
        /\ variables' = Define(variables, Line.variable, node)
        /\ GiveLabel(node)
        /\ NextLine(/\ ~(IsLiteral(args[1]) /\ IsName(args[2]))
                    /\ Line.opcode = "MER" => ~IsLiteral(args[1]) /\ ~IsLiteral(args[2]))
        /\ UNCHANGED <<exports, externs>>

\* OUTD argument, OUTS argument.
ParseOut ==
    /\ Reading("out")
    /\ nodes' = Append(nodes, Node(Line.opcode, Line.args, <<None, None>>, FALSE))
    /\ GiveLabel(Len(nodes) + 1)
    /\ NextLine(TRUE)
    /\ UNCHANGED <<variables, exports, externs>>

\* first, second = BRR argument argument, or NTG argument: each output is a DUP
\* of its own.
ParseBranch ==
    LET first == Len(nodes) + 1
        second == Len(nodes) + 2
        outputs == <<To(first, INPUT_ONE), To(second, INPUT_ONE)>>
    IN  /\ Reading("branch")
        /\ nodes' = nodes \o << DupNode(<<None, None>>), DupNode(<<None, None>>),
                                Node(Line.opcode, Line.args, outputs, FALSE) >>
        /\ variables' = Define(Define(variables, Line.variables[1], first),
                               Line.variables[2], second)
        /\ GiveLabel(Len(nodes) + 3)
        /\ NextLine(TRUE)
        /\ UNCHANGED <<exports, externs>>

ParseEnds ==
    /\ phase = "parse" /\ at > Len(source.lines)
    /\ phase' = "connect" /\ at' = 1
    /\ parsed' = nodes
    /\ UNCHANGED <<source, nodes, label, labels, variables, exports, externs, kept, image>>

-----------------------------------------------------------------------------
(* parse_create_ir_graph, the loop over the nodes *)

\* Mutant: the DUP takes the place of the second destination.
AttachOverwrites(g, name, p, d) ==
    LET parent == g.nodes[p]
        dup == Len(g.nodes) + 1
    IN  IF parent.destinations[1] = None
        THEN [g EXCEPT !.nodes[p].destinations[1] = d]
        ELSE IF parent.destinations[2] = None
        THEN [g EXCEPT !.nodes[p].destinations[2] = d]
        ELSE [nodes |-> Append([g.nodes EXCEPT ![p].destinations[2] = To(dup, INPUT_ONE)],
                               DupNode(<<d, None>>)),
              variables |-> With(g.variables, name, <<dup>>)]

\* Node p, which defines the variable, gets one more destination.  When it has
\* two a DUP takes over the second one, and defines the variable from then on.
Attach(g, name, p, d) ==
    LET parent == g.nodes[p]
        dup == Len(g.nodes) + 1
    IN  IF parent.destinations[1] = None
        THEN [g EXCEPT !.nodes[p].destinations[1] = d]
        ELSE IF parent.destinations[2] = None
        THEN [g EXCEPT !.nodes[p].destinations[2] = d]
        ELSE [nodes |-> Append([g.nodes EXCEPT ![p].destinations[2] = To(dup, INPUT_ONE)],
                               DupNode(<<parent.destinations[2], d>>)),
              variables |-> With(g.variables, name, <<dup>>)]

\* So do all the nodes of a list, one after the other.
AttachAll(g, name, definitions, d) ==
    LET attached[i \in 0 .. Len(definitions)] ==
            IF i = 0 THEN g ELSE Attach(attached[i - 1], name, definitions[i], d)
    IN  attached[Len(definitions)]

\* An input that is a variable becomes an edge from each of its definitions;
\* labels stay for later.
ConnectInput(g, node, k) ==
    LET input == g.nodes[node].inputs[k]
        cleared == [g EXCEPT !.nodes[node].inputs[k] = None]
    IN  IF ~IsName(input) THEN g
        ELSE IF input = Hole THEN cleared
        ELSE IF input.name \in DOMAIN labels THEN g
        ELSE AttachAll(cleared, input.name, DefinitionsOf(g.variables, input.name),
                       To(node, k - 1))

\* Mutant: the literal stays.
MoveLiteralNot(node) == node

\* The only literal of an instruction is its first input.
MoveLiteral(node) ==
    IF node.opcode \notin OneInput /\ node.inputs[1] = None
    THEN [node EXCEPT !.inputs = <<node.inputs[2], None>>]
    ELSE node

Connect ==
    LET g == ConnectInput(ConnectInput([nodes |-> nodes, variables |-> variables], at, 1), at, 2)
    IN  /\ phase = "connect" /\ at <= Len(nodes)
        /\ nodes' = [g.nodes EXCEPT ![at] = MoveLiteral(@)]
        /\ variables' = g.variables
        /\ at' = at + 1
        /\ UNCHANGED <<source, phase, label, labels, exports, externs, kept, image, parsed>>

ConnectEnds ==
    /\ phase = "connect" /\ at > Len(nodes)
    /\ phase' = "extern"
    /\ UNCHANGED <<source, at, nodes, label, labels, variables, exports, externs, kept,
                   image, parsed>>

\* The name that a node sends its result to, if it defines an external one.
ExternsOf(node) == {name \in externs : node \in ToSet(DefinitionsOf(variables, name))}

\* The assertion that such a node has no other destination.
CheckExterns ==
    /\ phase = "extern"
    /\ phase' = IF \A node \in DOMAIN nodes :
                     ExternsOf(node) # {} => nodes[node].destinations[1] = None
                THEN "optimize" ELSE "error"
    /\ UNCHANGED <<source, at, nodes, label, labels, variables, exports, externs, kept,
                   image, parsed>>

-----------------------------------------------------------------------------
(* optimize_graph *)

\* The destinations that lead to a node, as pairs of a node and a number.
ParentsOf(node) ==
    {link \in (DOMAIN nodes) \X {1, 2} :
        LET d == nodes[link[1]].destinations[link[2]] IN d # None /\ d.node = node}

\* A DUP that the assembler has added, with one destination and one parent.
IsRedundant(g, node) ==
    /\ nodes[node].optimizable
    /\ g.nodes[node].destinations[2] = None
    /\ Cardinality(ParentsOf(node)) = 1

\* The parents are those before the first removal.
RemoveDup(g, node) ==
    LET link == CHOOSE l \in ParentsOf(node) : TRUE
    IN  [nodes |-> [g.nodes EXCEPT
                       ![link[1]].destinations[link[2]] = g.nodes[node].destinations[1]],
         kept |-> g.kept \ {node}]

\* Mutant: the loop goes over the list that it removes from, and passes over
\* the node behind a removed one.
LookAtSkips(g, node) ==
    IF IsRedundant(g, node) /\ (node - 1) \in g.kept \cup {0} THEN RemoveDup(g, node) ELSE g

LookAt(g, node) == IF IsRedundant(g, node) THEN RemoveDup(g, node) ELSE g

\* The graph after the first n nodes have been looked at.
Optimized(n) ==
    LET after[i \in 0 .. n] ==
            IF i = 0 THEN [nodes |-> nodes, kept |-> DOMAIN nodes] ELSE LookAt(after[i - 1], i)
    IN  after[n]

Optimize ==
    LET g == Optimized(Len(nodes))
    IN  /\ phase = "optimize"
        /\ nodes' = g.nodes
        /\ kept' = g.kept
        /\ phase' = "emit"
        /\ UNCHANGED <<source, at, label, labels, variables, exports, externs, image, parsed>>

-----------------------------------------------------------------------------
(* graph_to_instructions, serialize_instructions and generate_header *)

IsSpecial(node) == nodes[node].opcode \in SpecialOpcodes

EmitNode(list, node) ==
    IF node \in kept /\ ~IsSpecial(node) THEN Append(list, node) ELSE list

\* The nodes that become instructions, in order.
Emitted ==
    LET upTo[n \in 0 .. Len(nodes)] == IF n = 0 THEN <<>> ELSE EmitNode(upTo[n - 1], n)
    IN  upTo[Len(nodes)]

\* The address of the instruction of a node.
Index(node) == Cardinality({n \in kept : n < node /\ ~IsSpecial(n)})

\* Mutant: MER is an instruction with two inputs.
MatchingNoMerge(node) ==
    IF node.opcode \in OneInput \/ node.inputs[1] # None THEN MATCHING_ONE ELSE MATCHING_BOTH

Matching(node) ==
    IF node.opcode = "MER" THEN MATCHING_ANY
    ELSE IF node.opcode \in OneInput \/ node.inputs[1] # None THEN MATCHING_ONE
    ELSE MATCHING_BOTH

DestinationWord(d) ==
    IF d = None THEN DEV_NULL_DESTINATION
    ELSE CASE nodes[d.node].opcode = "OUTD" -> OUTPUTD_DESTINATION
           [] nodes[d.node].opcode = "OUTS" -> OUTPUTS_DESTINATION
           [] OTHER -> CreateDestination(Index(d.node), d.input, Matching(nodes[d.node]))

LiteralWord(input) ==
    IF IsLiteral(input) THEN ToWord(input.literal)
    ELSE IF IsName(input)
    THEN CreateDestination(Index(labels[input.name]), INPUT_ONE, MATCHING_ONE)
    ELSE 0

\* A second destination that is the word 0 does not count as one.
InstructionOf(node) ==
    LET second == DestinationWord(node.destinations[2])
        isBoth == node.destinations[2] # None /\ second # 0
    IN  [opcode |-> node.opcode,
         destination_1 |-> DestinationWord(node.destinations[1]),
         destination_2 |-> second,
         marker |-> IF isBoth THEN BOTH_OUTPUT_MARKER ELSE ONE_OUTPUT_MARKER,
         instruction_literal |->
             CASE Cardinality({k \in {1, 2} : node.inputs[k] # None}) = 0 -> "NONE"
               [] Cardinality({k \in {1, 2} : node.inputs[k] # None}) = 1 -> "ONE"
               [] OTHER -> "TWO",
         literal_1 |-> LiteralWord(node.inputs[1]),
         literal_2 |-> LiteralWord(node.inputs[2])]

\* The destinations of a node that are special outputs, and its label.
ConstantsOf(node) ==
    LET IsOutput(k) == LET d == nodes[node].destinations[k] IN d # None /\ IsSpecial(d.node)
        flags == <<"destination_1", "destination_2">>
        outputs == SelectSeq(<<1, 2>>, IsOutput)
    IN  [i \in DOMAIN outputs |-> [number |-> Index(node), flags |-> {flags[outputs[i]]}]]

LabelsOf(node) ==
    IF IsName(nodes[node].inputs[1])
    THEN << [number |-> Index(node), flags |-> {"literal_1"}] >> ELSE <<>>

ExternalsOf(node) ==
    [i \in 1 .. Cardinality(ExternsOf(node)) |->
        [number |-> Index(node), flags |-> {"destination_1"},
         name |-> CHOOSE name \in ExternsOf(node) : TRUE]]

\* The second input must not be a label, and a label that is used or exported
\* must be that of an instruction.
CanEmit ==
    /\ \A node \in ToSet(Emitted) :
          /\ ~IsName(nodes[node].inputs[2])
          /\ IsName(nodes[node].inputs[1]) => ~IsSpecial(labels[nodes[node].inputs[1].name])
    /\ \A name \in exports : ~IsSpecial(labels[name])

\* The image, with the exports in the order of names.
ImageWith(names) ==
    LET emitted == Emitted
        Listed(Of(_)) == FlattenSeq([i \in DOMAIN emitted |-> Of(emitted[i])])
    IN  [wellFormed |-> TRUE,
         constants |-> Listed(ConstantsOf),
         toFix |-> Listed(LabelsOf),
         externals |-> Listed(ExternalsOf),
         exports |-> [i \in DOMAIN names |->
            [name |-> names[i],
             destination |-> CreateDestination(Index(labels[names[i]]), INPUT_ONE, MATCHING_ONE)]],
         instructions |-> [i \in DOMAIN emitted |-> InstructionOf(nodes[emitted[i]])]]

\* The exports are a set, and come in any order.
Emit ==
    /\ phase = "emit"
    /\ IF CanEmit
       THEN phase' = "done" /\ \E names \in SetToSeqs(exports) : image' = ImageWith(names)
       ELSE phase' = "error" /\ UNCHANGED image
    /\ UNCHANGED <<source, at, nodes, label, labels, variables, exports, externs, kept, parsed>>

Next ==
    \/ ParseLabel \/ ParseExport \/ ParseExtern \/ ParseAssign \/ ParseOut \/ ParseBranch
    \/ ParseEnds \/ Connect \/ ConnectEnds \/ CheckExterns \/ Optimize \/ Emit

Spec == Init /\ [][Next]_vars

-----------------------------------------------------------------------------
(* Properties *)

\* An argument that leaves no literal behind: the code makes edges of it.
IsNoLiteral(arg) == arg = None \/ arg = Hole \/ (IsName(arg) /\ arg.name \notin DOMAIN labels)

\* The statements that mean what they say: a variable as second argument has no
\* literal or label before it and is not one of NTG, and LOD has no literal.
\* The code tests only the first, and only for the numbers of assignments.
ArgumentsFit(x) ==
    LET a == x.inputs[1]
        b == x.inputs[2]
    IN  /\ b \notin {None, Hole} /\ IsNoLiteral(b) => x.opcode \notin OneInput /\ IsNoLiteral(a)
        /\ x.opcode = "LOD" => IsNoLiteral(a) /\ IsNoLiteral(b)

Misfits == {i \in DOMAIN parsed : ~ArgumentsFit(parsed[i])}
MisfitAddresses == {Index(i) : i \in {j \in Misfits \cap kept : ~IsSpecial(j)}}

\* The matching function of each destination in an image agrees with how many
\* tokens the instruction store reads for the instruction there, and where it
\* reads one beside a literal, the token is the first operand, as
\* assembler.py:456 demands ("literals must only be on the second input").
\* What instructions with misfit arguments have of this is the former, unless
\* they are LODs; they do not disturb the others.
OperandsAgree ==
    phase = "done" =>
        \A inst \in ToSet(image.instructions) :
            \A word \in {inst.destination_1, inst.destination_2}
                         \ {OUTPUTD_DESTINATION, OUTPUTS_DESTINATION, DEV_NULL_DESTINATION} :
                LET address == DestinationToAddress(word)
                    target == image.instructions[address + 1]
                    m == DestinationToMatchingFunction(word)
                    fits == address \notin MisfitAddresses
                IN  /\ m = MATCHING_ANY <=> target.opcode = "MER"
                    /\ fits \/ target.opcode # "LOD" =>
                          (m = MATCHING_BOTH <=> ReadsBothTokens(target))
                    /\ fits /\ m = MATCHING_ONE => DestinationToInput(word) = INPUT_ONE

\* optimize_graph removes "any redundant DUP nodes that we added", and no node
\* that is still a destination.
NoRedundantDup ==
    phase \in {"emit", "done"} =>
        \A node \in kept :
            /\ nodes[node].optimizable => nodes[node].destinations[2] # None
            /\ \A k \in {1, 2} : LET d == nodes[node].destinations[k]
                                 IN  d = None \/ d.node \in kept

\* A source of the repository's tests gives the image that was built from it.
AssemblesAsShipped ==
    \A expected \in source.images :
        /\ phase # "error"
        /\ phase = "done" =>
              /\ [image EXCEPT !.exports = <<>>] = [expected EXCEPT !.exports = <<>>]
              /\ ToSet(image.exports) = ToSet(expected.exports)
=============================================================================
