------------------------------ MODULE MCMachine ------------------------------
(***************************************************************************)
(* Machine for TLC, with the images of the repository's tests and a few    *)
(* programs for the parts that those do not reach.                         *)
(***************************************************************************)
EXTENDS Machine, TestImages

LOCAL D(address, input, m) == CreateDestination(address, input, m)
LOCAL ONE == MATCHING_ONE
LOCAL BOTH == MATCHING_BOTH
LOCAL ANY == MATCHING_ANY
LOCAL OUTD == OUTPUTD_DESTINATION
LOCAL OUTS == OUTPUTS_DESTINATION
LOCAL NUL == DEV_NULL_DESTINATION

-----------------------------------------------------------------------------
(* Programs for the parts that those do not reach *)

\* A file whose main function adds 100 to its argument, and that has a
\* privileged instruction.
AddHundred ==
    [Image(<<Ref(2, {"destination_1"})>>, <<>>,
        << Inst("ADD", D(1, 0, BOTH), NUL, 0, "ONE", 100, 0),
           Inst("RTD", NUL, NUL, 0, "NONE", 0, 0),
           Inst("HLT", OUTD, NUL, 0, "ONE", 9, 0) >>)
        EXCEPT !.exports =
            << [name |-> "_main_arg_0_export", destination |-> D(0, 0, ONE)],
               [name |-> "_main_return_location_export", destination |-> D(1, 1, BOTH)] >>]

\* A file that refers to a symbol nobody exports.
Unresolved ==
    [Image(<<>>, <<>>, << Inst("DUP", NUL, NUL, 0, "NONE", 0, 0) >>)
        EXCEPT !.externals = << [number |-> 0, flags |-> {"destination_1"}, name |-> "test"] >>]

MCFiles == 7 :> AddHundred @@ 8 :> Unresolved

\* Load a file, call its main function with argument 5 and print what it
\* returns, or the -1 of a failed load.
LoadAndCall(name, output) ==
    Program(Image(<<Ref(2, {"destination_1"})>>, <<>>,
        << Inst("DUP", D(1, 0, BOTH), NUL, 0, "ONE", name, 0),
           Inst("LOD", D(2, 0, ONE), NUL, 0, "NONE", 0, 0),
           Inst("DUP", OUTD, NUL, 0, "NONE", 0, 0),
           Inst("DUP", D(1, 1, BOTH), NUL, 0, "ONE", 5, 0) >>),
        output)

\* Two calls in progress at once of a function that computes x + 2 * x; each has
\* its own tag area.
TwoCalls ==
    Program(Image(<<Ref(18, {"destination_1"})>>,
                  <<Ref(8, {"literal_1"}), Ref(15, {"literal_1"})>>,
        << Inst("DUP", D(1, 0, BOTH), D(2, 0, ONE), 1, "NONE", 0, 0),
           Inst("ADD", D(3, 0, BOTH), NUL, 0, "NONE", 0, 0),
           Inst("MUL", D(1, 1, BOTH), NUL, 0, "ONE", 2, 0),
           Inst("RTD", NUL, NUL, 0, "NONE", 0, 0),
           Inst("NTG", D(5, 0, ONE), NUL, 1, "ONE", 0, 0),
           Inst("DUP", D(6, 0, ONE), D(7, 0, ONE), 1, "NONE", 0, 0),
           Inst("CTG", D(0, 0, ONE), NUL, 0, "ONE", 10, 0),
           Inst("DUP", D(8, 0, ONE), D(9, 0, ONE), 1, "NONE", 0, 0),
           Inst("CTG", D(3, 1, BOTH), NUL, 0, "ONE", D(14, 1, BOTH), 0),
           Inst("CTG", D(14, 0, BOTH), NUL, 0, "ONE", NO_TAG, 0),
           Inst("NTG", D(11, 0, ONE), NUL, 1, "ONE", 0, 0),
           Inst("DUP", D(12, 0, ONE), D(13, 0, ONE), 1, "NONE", 0, 0),
           Inst("CTG", D(0, 0, ONE), NUL, 0, "ONE", 100, 0),
           Inst("DUP", D(15, 0, ONE), D(16, 0, ONE), 1, "NONE", 0, 0),
           Inst("CTG", D(18, 0, BOTH), NUL, 0, "NONE", 0, 0),
           Inst("CTG", D(3, 1, BOTH), NUL, 0, "ONE", D(17, 1, BOTH), 0),
           Inst("CTG", D(17, 0, BOTH), NUL, 0, "ONE", NO_TAG, 0),
           Inst("CTG", D(18, 1, BOTH), NUL, 0, "NONE", 0, 0),
           Inst("ADD", OUTD, NUL, 0, "NONE", 0, 0) >>),
        <<330>>)

\* Create a file, copy stdin to it, read its second byte, unlink an image, list
\* the directory, try to load the image, close the file, read it once more, and
\* open a file that does not exist.
FileTools ==
    [Program(Image(<<Ref(7, {"destination_1"}), Ref(13, {"destination_1"}), Ref(16, {"destination_1"}),
                    Ref(18, {"destination_1"}), Ref(20, {"destination_1"})>>, <<>>,
        << Inst("DUP", D(1, 0, ONE), NUL, 0, "ONE", 20, 0),
           Inst("OPN", D(2, 0, ONE), NUL, 0, "ONE", 18, 0),
           Inst("AND", D(3, 0, ONE), NUL, 0, "ONE", 0, 0),
           Inst("SDF", D(4, 0, ONE), NUL, 0, "ONE", 8, 0),
           Inst("ADD", D(5, 0, ONE), NUL, 0, "ONE", 8, 0),
           Inst("LSK", D(6, 0, ONE), NUL, 0, "ONE", 1, 0),
           Inst("ADD", D(7, 0, ONE), NUL, 0, "ONE", 7, 0),
           Inst("RED", OUTD, D(8, 0, ONE), 1, "NONE", 0, 0),
           Inst("AND", D(9, 0, ONE), NUL, 0, "ONE", 0, 0),
           Inst("ADD", D(10, 0, ONE), NUL, 0, "ONE", 7, 0),
           Inst("ULK", D(11, 0, ONE), NUL, 0, "NONE", 0, 0),
           Inst("LS", D(12, 0, ONE), NUL, 0, "NONE", 0, 0),
           Inst("ADD", D(13, 0, BOTH), NUL, 0, "ONE", 7, 0),
           Inst("LOD", OUTD, D(15, 0, ONE), 1, "NONE", 0, 0),
           Inst("DUP", D(13, 1, BOTH), NUL, 0, "ONE", 5, 0),
           Inst("ADD", D(16, 0, ONE), NUL, 0, "ONE", 9, 0),
           Inst("CLS", OUTD, D(17, 0, ONE), 1, "NONE", 0, 0),
           Inst("ADD", D(18, 0, ONE), NUL, 0, "ONE", 7, 0),
           Inst("RED", OUTD, D(19, 0, ONE), 1, "NONE", 0, 0),
           Inst("ADD", D(20, 0, ONE), NUL, 0, "ONE", 22, 0),
           Inst("OPN", OUTD, NUL, 0, "ONE", 0, 0) >>),
        <<98, 8, 20, MINUS_ONE, 1, MINUS_ONE, MINUS_ONE>>) EXCEPT !.input = <<97, 98, 99>>]

\* A file that fails the header checks.
Broken == Program([Image(<<>>, <<>>, <<>>) EXCEPT !.wellFormed = FALSE], <<>>)

\* Each token of instruction 1 becomes two: the ring fills up.
Flood ==
    Program(Image(<<>>, <<>>,
        << Inst("DUP", D(1, 0, ONE), NUL, 0, "ONE", 1, 0),
           Inst("DUP", D(1, 0, ONE), D(1, 0, ONE), 1, "NONE", 0, 0) >>),
        <<>>)

-----------------------------------------------------------------------------
(* Trap mode *)

\* The trap handler of os_trap, up to its padding: it answers src ^ src + 1.
ShippedHandler ==
    << Inst("DUP", D(3, 0, BOTH), D(3, 1, BOTH), 1, "NONE", 0, 0),
       Inst("DUP", NUL, NUL, 0, "NONE", 0, 0),
       Inst("DUP", D(5, 1, BOTH), NUL, 0, "NONE", 0, 0),
       Inst("XOR", D(4, 0, ONE), NUL, 0, "NONE", 0, 0),
       Inst("ADD", D(5, 0, BOTH), NUL, 0, "ONE", 1, 0),
       Inst("RTD", NUL, NUL, 0, "NONE", 0, 0) >>

\* One that denies what goes to the output, and one that denies everything.
NoOutputHandler ==
    [ShippedHandler EXCEPT
        ![1] = Inst("DUP", NUL, NUL, 0, "NONE", 0, 0),
        ![2] = Inst("NEQ", D(5, 0, BOTH), NUL, 0, "ONE", Hash(OUTD), 0)]
DenyingHandler == [ShippedHandler EXCEPT ![5].literal_1 = 0]

\* The program behind a handler.
Trapped(handler, p) ==
    LET handled == [code |-> handler, exports |-> <<>>]
    IN  [p EXCEPT !.image = Image(<<>>, <<>>, LoadFile(handled, p.image, TRUE).store.code)]

Silenced(handler, p) == [Trapped(handler, p) EXCEPT !.output = <<>>, !.denied = TRUE]

TrapPrograms == {Trapped(ShippedHandler, p) : p \in {Literals, Branching, Merge}}
                \cup {Silenced(NoOutputHandler, Branching), Silenced(DenyingHandler, Merge)}

\* A handler that denies everything and, before its return, loads a file.
LoadingPrograms ==
    {Silenced(DenyingHandler \o
             << Inst("DUP", D(7, 0, BOTH), NUL, 0, "ONE", 7, 0),
                Inst("LOD", D(5, 0, ONE), NUL, 0, "NONE", 0, 0),
                Inst("DUP", D(7, 1, BOTH), NUL, 0, "ONE", 5, 0) >>,
             Program(Image(<<>>, <<>>, <<>>), <<>>))}

-----------------------------------------------------------------------------

TestPrograms == {Merge, Branching, Branching2, Test, Literals, SingleFunctionCall,
                 BasicLoop, HaltProgram, Operations, MultipleFunctionCalls}
FilePrograms == {StdinRead, InputOperations, SeekProgram, FileTools}
LoaderPrograms == {LoadAndCall(7, <<9, 105>>), LoadAndCall(8, <<MINUS_ONE>>),
                   LoadAndCall(6, <<MINUS_ONE>>), TwoCalls}

\* random() returns area 1 and then 0, the area of the caller; and as
\* many different tags and return locations as a program behind a trap handler
\* draws, none of which is the address of an instruction.
TwoAreas == {<<1, 0>>}
FreshNumbers == {[i \in 1 .. 60 |-> 800 + i]}

\* For MachinePrograms.cfg and MachineTeardown.cfg.
OutputPrograms == TestPrograms \cup LoaderPrograms \cup FilePrograms
TeardownPrograms == {Flood, HaltProgram, Branching, Broken}
=============================================================================
