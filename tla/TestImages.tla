----------------------------- MODULE TestImages -----------------------------
(***************************************************************************)
(* The images that the repository's own assembler and compiler produced    *)
(* for its tests (local-tester/programs, .bin), with the output that the   *)
(* tests expect (.output).  Only the width of the words differs: the       *)
(* special addresses are those of AddressBits, and a string constant is a  *)
(* number.                                                                 *)
(***************************************************************************)
EXTENDS Loader

LOCAL D(address, input, m) == CreateDestination(address, input, m)
LOCAL ONE == MATCHING_ONE
LOCAL BOTH == MATCHING_BOTH
LOCAL ANY == MATCHING_ANY
LOCAL OUTD == OUTPUTD_DESTINATION
LOCAL OUTS == OUTPUTS_DESTINATION
LOCAL NUL == DEV_NULL_DESTINATION

Inst(opcode, destination_1, destination_2, marker, literals, literal_1, literal_2) ==
    [opcode |-> opcode, destination_1 |-> destination_1, destination_2 |-> destination_2,
     marker |-> marker, instruction_literal |-> literals,
     literal_1 |-> literal_1, literal_2 |-> literal_2]

Ref(number, flags) == [number |-> number, flags |-> flags]

Image(constants, toFix, instructions) ==
    [wellFormed |-> TRUE, constants |-> constants, toFix |-> toFix,
     externals |-> <<>>, exports |-> <<>>, instructions |-> instructions]

Program(image, output) ==
    [image |-> image, input |-> <<>>, output |-> output, denied |-> FALSE]

-----------------------------------------------------------------------------
(* programs/assembly and programs/force *)

Merge ==
    Program(Image(<<Ref(2, {"destination_1"}), Ref(5, {"destination_1"})>>,
                  <<>>,
        << Inst("ADD", D(2, 0, ANY), NUL, 0, "TWO", 10, 20),
           Inst("ADD", D(1, 0, ONE), D(2, 1, ANY), 1, "ONE", 10, 0),
           Inst("MER", OUTD, D(4, 0, ONE), 1, "NONE", 0, 0),
           Inst("ADD", D(3, 0, ONE), D(5, 0, ANY), 1, "ONE", 100, 0),
           Inst("ADD", D(5, 1, ANY), NUL, 0, "ONE", 100, 0),
           Inst("MER", OUTD, NUL, 0, "NONE", 0, 0) >>),
        <<30, 130>>)

Branching ==
    Program(Image(<<Ref(3, {"destination_1"}), Ref(4, {"destination_1"})>>,
                  <<>>,
        << Inst("ADD", D(1, 0, ONE), D(2, 0, BOTH), 1, "TWO", 10, 20),
           Inst("LT", D(2, 1, BOTH), NUL, 0, "ONE", 0, 0),
           Inst("BRR", D(3, 0, ONE), D(4, 0, ONE), 1, "NONE", 0, 0),
           Inst("ADD", OUTD, NUL, 0, "ONE", 100, 0),
           Inst("ADD", OUTD, NUL, 0, "ONE", 10000, 0) >>),
        <<10030>>)

Branching2 ==
    Program(Image(<<Ref(0, {"destination_1"}), Ref(1, {"destination_1"}), Ref(11, {"destination_1"})>>,
                  <<>>,
        << Inst("DUP", OUTD, D(2, 0, BOTH), 1, "ONE", 10, 0),
           Inst("DUP", OUTD, D(2, 1, BOTH), 1, "ONE", 100, 0),
           Inst("LT", D(4, 1, BOTH), NUL, 0, "NONE", 0, 0),
           Inst("DUP", D(4, 0, BOTH), NUL, 0, "ONE", 1, 0),
           Inst("BRR", D(6, 1, BOTH), D(9, 1, BOTH), 1, "NONE", 0, 0),
           Inst("DUP", D(6, 0, BOTH), NUL, 0, "ONE", 10000, 0),
           Inst("BRR", D(7, 0, ONE), NUL, 0, "NONE", 0, 0),
           Inst("DUP", D(11, 0, ANY), NUL, 0, "NONE", 0, 0),
           Inst("DUP", D(9, 0, BOTH), NUL, 0, "ONE", 0, 0),
           Inst("BRR", D(10, 0, ONE), NUL, 0, "NONE", 0, 0),
           Inst("DUP", D(11, 1, ANY), NUL, 0, "NONE", 0, 0),
           Inst("MER", OUTD, NUL, 0, "NONE", 0, 0) >>),
        <<10, 100, 10000>>)

Test ==
    Program(Image(<<Ref(2, {"destination_1"}), Ref(4, {"destination_1"}), Ref(5, {"destination_1"}), Ref(6, {"destination_1"}), Ref(7, {"destination_1"}), Ref(8, {"destination_1"})>>,
                  <<>>,
        << Inst("ADD", D(2, 0, BOTH), NUL, 0, "TWO", 10, 20),
           Inst("SUB", D(2, 1, BOTH), NUL, 0, "TWO", 40, 10),
           Inst("LT", OUTD, D(6, 0, ONE), 1, "NONE", 0, 0),
           Inst("ADD", D(4, 0, ONE), D(9, 0, ONE), 1, "TWO", 100, 50),
           Inst("ADD", OUTD, NUL, 0, "ONE", 500, 0),
           Inst("ADD", OUTD, NUL, 0, "ONE", 1242, 0),
           Inst("NEG", OUTD, NUL, 0, "NONE", 0, 0),
           Inst("ADD", OUTD, NUL, 0, "ONE", 10000, 0),
           Inst("ADD", OUTD, NUL, 0, "ONE", 20000, 0),
           Inst("DUP", D(5, 0, ONE), D(10, 0, ONE), 1, "NONE", 0, 0),
           Inst("DUP", D(7, 0, ONE), D(8, 0, ONE), 1, "NONE", 0, 0) >>),
        <<0, 650, 1, 1392, 10150, 20150>>)

Literals ==
    Program(Image(<<Ref(0, {"destination_1"}), Ref(2, {"destination_1"})>>,
                  <<>>,
        << Inst("ADD", OUTD, D(1, 0, ONE), 1, "TWO", 10, ToWord(-100)),
           Inst("ADD", D(2, 0, ONE), NUL, 0, "ONE", 90, 0),
           Inst("ADD", OUTD, NUL, 0, "ONE", 256, 0) >>),
        <<ToWord(-90), 256>>)

SingleFunctionCall ==
    Program(Image(<<Ref(0, {"destination_1"}), Ref(12, {"destination_1"})>>,
                  <<Ref(10, {"literal_1"})>>,
        << Inst("DUP", OUTD, D(1, 0, ONE), 1, "NONE", 0, 0),
           Inst("ADD", D(2, 0, BOTH), NUL, 0, "ONE", 10, 0),
           Inst("RTD", NUL, NUL, 0, "NONE", 0, 0),
           Inst("DUP", D(5, 0, ONE), D(8, 1, BOTH), 1, "ONE", 10, 0),
           Inst("DUP", D(6, 0, BOTH), D(13, 0, ONE), 1, "NONE", 0, 0),
           Inst("NTG", D(4, 0, ONE), D(7, 1, BOTH), 1, "NONE", 0, 0),
           Inst("CTG", D(10, 0, ONE), NUL, 0, "NONE", 0, 0),
           Inst("CTG", D(12, 0, BOTH), NUL, 0, "NONE", 0, 0),
           Inst("CTG", D(9, 0, ONE), NUL, 0, "NONE", 0, 0),
           Inst("DUP", D(0, 0, ONE), NUL, 0, "NONE", 0, 0),
           Inst("CTG", D(2, 1, BOTH), NUL, 0, "ONE", 176, 0),
           Inst("DUP", D(12, 1, BOTH), NUL, 0, "NONE", 0, 0),
           Inst("CTG", OUTD, NUL, 0, "NONE", 0, 0),
           Inst("DUP", D(6, 1, BOTH), D(14, 0, ONE), 1, "NONE", 0, 0),
           Inst("DUP", D(7, 0, BOTH), D(8, 0, BOTH), 1, "NONE", 0, 0) >>),
        <<10, 20>>)

BasicLoop ==
    Program(Image(<<Ref(0, {"destination_1"}), Ref(8, {"destination_2"}), Ref(11, {"destination_1"}), Ref(12, {"destination_1"})>>,
                  <<>>,
        << Inst("ADD", OUTD, D(13, 0, ONE), 1, "TWO", 0, 0),
           Inst("DUP", D(3, 0, BOTH), D(4, 0, BOTH), 1, "NONE", 0, 0),
           Inst("NTG", D(1, 0, ONE), D(4, 1, BOTH), 1, "NONE", 0, 0),
           Inst("CTG", D(5, 0, ANY), NUL, 0, "NONE", 0, 0),
           Inst("CTG", D(11, 0, BOTH), NUL, 0, "NONE", 0, 0),
           Inst("MER", D(6, 0, ONE), D(7, 0, BOTH), 1, "NONE", 0, 0),
           Inst("LT", D(7, 1, BOTH), NUL, 0, "ONE", 10, 0),
           Inst("BRR", D(8, 0, ONE), D(10, 0, ONE), 1, "NONE", 0, 0),
           Inst("ITG", D(9, 0, ONE), OUTD, 1, "NONE", 0, 0),
           Inst("ADD", D(5, 1, ANY), NUL, 0, "ONE", 1, 0),
           Inst("SIL", D(11, 1, BOTH), NUL, 0, "ONE", 0, 0),
           Inst("CTG", OUTD, D(12, 0, ONE), 1, "NONE", 0, 0),
           Inst("ADD", OUTD, NUL, 0, "ONE", 1, 0),
           Inst("DUP", D(2, 0, ONE), D(3, 1, BOTH), 1, "NONE", 0, 0) >>),
        <<0, 0, 1, 2, 3, 4, 5, 6, 7, 8, 9, 10, 11>>)

HaltProgram ==
    Program(Image(<<Ref(0, {"destination_1"}), Ref(10, {"destination_1"}), Ref(12, {"destination_1"}), Ref(14, {"destination_1"}), Ref(16, {"destination_1"})>>,
                  <<>>,
        << Inst("DUP", OUTS, NUL, 0, "ONE", 1001, 0),
           Inst("DUP", D(2, 0, ONE), NUL, 0, "ONE", 0, 0),
           Inst("DUP", D(3, 0, ONE), NUL, 0, "NONE", 0, 0),
           Inst("HLT", D(4, 0, ONE), NUL, 0, "NONE", 0, 0),
           Inst("DUP", D(8, 1, BOTH), NUL, 0, "NONE", 0, 0),
           Inst("DUP", D(8, 0, BOTH), NUL, 0, "ONE", 1, 0),
           Inst("DUP", D(10, 1, BOTH), D(12, 1, BOTH), 1, "NONE", 0, 0),
           Inst("DUP", D(14, 1, BOTH), D(16, 1, BOTH), 1, "NONE", 0, 0),
           Inst("BRR", D(6, 0, ONE), D(7, 0, ONE), 1, "NONE", 0, 0),
           Inst("DUP", D(10, 0, BOTH), NUL, 0, "ONE", 1002, 0),
           Inst("BRR", OUTS, NUL, 0, "NONE", 0, 0),
           Inst("DUP", D(12, 0, BOTH), NUL, 0, "ONE", 1003, 0),
           Inst("BRR", OUTS, NUL, 0, "NONE", 0, 0),
           Inst("DUP", D(14, 0, BOTH), NUL, 0, "ONE", 1004, 0),
           Inst("BRR", OUTS, NUL, 0, "NONE", 0, 0),
           Inst("DUP", D(16, 0, BOTH), NUL, 0, "ONE", 1005, 0),
           Inst("BRR", OUTS, NUL, 0, "NONE", 0, 0) >>),
        <<1001>>)

MultipleFunctionCalls ==
    Program([Image(<<Ref(0, {"destination_1"}), Ref(13, {"destination_1"}), Ref(24, {"destination_1"})>>,
                  <<Ref(11, {"literal_1"}), Ref(22, {"literal_1"})>>,
        << Inst("DUP", OUTD, D(1, 0, ONE), 1, "NONE", 0, 0),
           Inst("ADD", D(3, 0, BOTH), NUL, 0, "ONE", 10, 0),
           Inst("DUP", D(3, 1, BOTH), NUL, 0, "NONE", 0, 0),
           Inst("RTD", NUL, NUL, 0, "NONE", 0, 0),
           Inst("DUP", D(6, 0, ONE), D(7, 1, BOTH), 1, "ONE", 10, 0),
           Inst("DUP", D(7, 0, BOTH), D(25, 0, ONE), 1, "NONE", 0, 0),
           Inst("NTG", D(5, 0, ONE), D(8, 1, BOTH), 1, "NONE", 0, 0),
           Inst("CTG", D(9, 0, ONE), D(10, 0, ONE), 1, "NONE", 0, 0),
           Inst("CTG", D(13, 0, BOTH), NUL, 0, "NONE", 0, 0),
           Inst("DUP", D(0, 0, ONE), NUL, 0, "NONE", 0, 0),
           Inst("ETG", D(7, 0, BOTH), D(26, 0, ONE), 1, "NONE", 0, 0),
           Inst("CTG", D(2, 0, ONE), NUL, 0, "ONE", 192, 0),
           Inst("DUP", D(13, 1, BOTH), NUL, 0, "NONE", 0, 0),
           Inst("CTG", OUTD, D(14, 0, ONE), 1, "NONE", 0, 0),
           Inst("SUB", D(15, 0, ONE), NUL, 0, "ONE", 20, 0),
           Inst("ADD", D(17, 0, ONE), D(18, 1, BOTH), 1, "ONE", 100, 0),
           Inst("DUP", D(18, 0, BOTH), D(27, 0, ONE), 1, "NONE", 0, 0),
           Inst("NTG", D(16, 0, ONE), D(19, 1, BOTH), 1, "NONE", 0, 0),
           Inst("CTG", D(20, 0, ONE), D(21, 0, ONE), 1, "NONE", 0, 0),
           Inst("CTG", D(24, 0, BOTH), NUL, 0, "NONE", 0, 0),
           Inst("DUP", D(0, 0, ONE), NUL, 0, "NONE", 0, 0),
           Inst("ETG", D(18, 0, BOTH), D(28, 0, ONE), 1, "NONE", 0, 0),
           Inst("CTG", D(2, 0, ONE), NUL, 0, "ONE", 368, 0),
           Inst("DUP", D(24, 1, BOTH), NUL, 0, "NONE", 0, 0),
           Inst("CTG", OUTD, NUL, 0, "NONE", 0, 0),
           Inst("DUP", D(8, 0, BOTH), D(11, 0, ONE), 1, "NONE", 0, 0),
           Inst("DUP", D(8, 0, BOTH), D(11, 0, ONE), 1, "NONE", 0, 0),
           Inst("DUP", D(19, 0, BOTH), D(22, 0, ONE), 1, "NONE", 0, 0),
           Inst("DUP", D(19, 0, BOTH), D(22, 0, ONE), 1, "NONE", 0, 0) >>)
        EXCEPT !.exports = << [name |-> "return_location_loc", destination |-> D(2, 0, ONE)],
                              [name |-> "x_arg_loc", destination |-> D(0, 0, ONE)] >>],
        <<10, 20, 100, 110>>)

StdinRead ==
    [Program(Image(<<Ref(0, {"destination_1"}), Ref(1, {"destination_1"}), Ref(2, {"destination_1"}), Ref(3, {"destination_1"}), Ref(4, {"destination_1"})>>,
                  <<>>,
        << Inst("RED", OUTD, NUL, 0, "ONE", 0, 0),
           Inst("RED", OUTD, NUL, 0, "ONE", 0, 0),
           Inst("RED", OUTD, NUL, 0, "ONE", 0, 0),
           Inst("RED", OUTD, NUL, 0, "ONE", 0, 0),
           Inst("RED", OUTD, NUL, 0, "ONE", 0, 0) >>),
        <<97, 100, 97, 109, MINUS_ONE>>) EXCEPT !.input = <<97, 100, 97, 109>>]

InputOperations ==
    Program(Image(<<Ref(14, {"destination_1"}), Ref(19, {"destination_1"}), Ref(20, {"destination_1"}), Ref(21, {"destination_1"}), Ref(22, {"destination_1"}), Ref(23, {"destination_1"})>>,
                  <<>>,
        << Inst("DUP", D(3, 0, BOTH), D(16, 0, BOTH), 1, "ONE", 20, 0),
           Inst("OR", D(2, 0, ONE), NUL, 0, "TWO", 1, 16),
           Inst("OR", D(3, 1, BOTH), NUL, 0, "ONE", 32, 0),
           Inst("OPN", D(5, 0, BOTH), D(24, 0, ONE), 1, "NONE", 0, 0),
           Inst("DUP", D(5, 1, BOTH), D(6, 0, BOTH), 1, "ONE", 97, 0),
           Inst("WRT", D(6, 1, BOTH), NUL, 0, "NONE", 0, 0),
           Inst("ADD", D(7, 1, BOTH), D(8, 0, BOTH), 1, "NONE", 0, 0),
           Inst("WRT", D(8, 1, BOTH), NUL, 0, "NONE", 0, 0),
           Inst("ADD", D(9, 1, BOTH), D(10, 0, BOTH), 1, "NONE", 0, 0),
           Inst("WRT", D(10, 1, BOTH), NUL, 0, "NONE", 0, 0),
           Inst("ADD", D(11, 1, BOTH), NUL, 0, "NONE", 0, 0),
           Inst("WRT", D(12, 0, BOTH), D(12, 1, BOTH), 1, "NONE", 0, 0),
           Inst("XOR", D(13, 0, BOTH), NUL, 0, "NONE", 0, 0),
           Inst("ADD", D(14, 0, ONE), NUL, 0, "NONE", 0, 0),
           Inst("CLS", OUTD, D(27, 0, ONE), 1, "NONE", 0, 0),
           Inst("XOR", D(16, 1, BOTH), NUL, 0, "NONE", 0, 0),
           Inst("ADD", D(18, 0, BOTH), NUL, 0, "NONE", 0, 0),
           Inst("DUP", D(18, 1, BOTH), NUL, 0, "ONE", 0, 0),
           Inst("OPN", D(19, 0, ONE), D(28, 0, ONE), 1, "NONE", 0, 0),
           Inst("RED", OUTD, NUL, 0, "NONE", 0, 0),
           Inst("RED", OUTD, NUL, 0, "NONE", 0, 0),
           Inst("RED", OUTD, NUL, 0, "NONE", 0, 0),
           Inst("RED", OUTD, NUL, 0, "NONE", 0, 0),
           Inst("RED", OUTD, NUL, 0, "NONE", 0, 0),
           Inst("DUP", D(7, 0, BOTH), D(25, 0, ONE), 1, "NONE", 0, 0),
           Inst("DUP", D(9, 0, BOTH), D(26, 0, ONE), 1, "NONE", 0, 0),
           Inst("DUP", D(11, 0, BOTH), D(13, 1, BOTH), 1, "NONE", 0, 0),
           Inst("DUP", D(15, 0, BOTH), D(15, 1, BOTH), 1, "NONE", 0, 0),
           Inst("DUP", D(20, 0, ONE), D(29, 0, ONE), 1, "NONE", 0, 0),
           Inst("DUP", D(21, 0, ONE), D(30, 0, ONE), 1, "NONE", 0, 0),
           Inst("DUP", D(22, 0, ONE), D(23, 0, ONE), 1, "NONE", 0, 0) >>),
        <<1, 97, 98, 99, 100, MINUS_ONE>>)

SeekProgram ==
    Program(Image(<<Ref(33, {"destination_1"})>>,
                  <<>>,
        << Inst("DUP", D(1, 0, ONE), NUL, 0, "ONE", 1, 0),
           Inst("DUP", NUL, NUL, 0, "NONE", 0, 0),
           Inst("DUP", D(3, 0, ONE), NUL, 0, "ONE", 16, 0),
           Inst("DUP", D(13, 0, BOTH), NUL, 0, "NONE", 0, 0),
           Inst("DUP", D(5, 0, ONE), NUL, 0, "ONE", 32, 0),
           Inst("DUP", D(12, 1, BOTH), NUL, 0, "NONE", 0, 0),
           Inst("DUP", D(7, 0, ONE), NUL, 0, "ONE", 0, 0),
           Inst("DUP", NUL, NUL, 0, "NONE", 0, 0),
           Inst("DUP", D(9, 0, ONE), NUL, 0, "ONE", 2, 0),
           Inst("DUP", D(12, 0, BOTH), NUL, 0, "NONE", 0, 0),
           Inst("DUP", D(11, 0, ONE), NUL, 0, "ONE", 20, 0),
           Inst("DUP", D(14, 0, BOTH), NUL, 0, "NONE", 0, 0),
           Inst("OR", D(13, 1, BOTH), NUL, 0, "NONE", 0, 0),
           Inst("OR", D(14, 1, BOTH), NUL, 0, "NONE", 0, 0),
           Inst("OPN", D(15, 0, ONE), NUL, 0, "NONE", 0, 0),
           Inst("DUP", D(17, 0, BOTH), D(36, 0, ONE), 1, "NONE", 0, 0),
           Inst("DUP", D(17, 1, BOTH), NUL, 0, "ONE", 104, 0),
           Inst("WRT", D(18, 0, ONE), NUL, 0, "NONE", 0, 0),
           Inst("DUP", D(19, 0, BOTH), D(19, 1, BOTH), 1, "NONE", 0, 0),
           Inst("XOR", D(20, 0, ONE), NUL, 0, "NONE", 0, 0),
           Inst("DUP", D(21, 1, BOTH), NUL, 0, "NONE", 0, 0),
           Inst("LSK", D(22, 0, ONE), NUL, 0, "NONE", 0, 0),
           Inst("DUP", D(23, 0, BOTH), D(23, 1, BOTH), 1, "NONE", 0, 0),
           Inst("XOR", D(24, 0, ONE), NUL, 0, "NONE", 0, 0),
           Inst("DUP", D(26, 0, BOTH), D(27, 0, BOTH), 1, "NONE", 0, 0),
           Inst("DUP", D(26, 1, BOTH), NUL, 0, "ONE", 0, 0),
           Inst("EQ", D(27, 1, BOTH), D(37, 0, ONE), 1, "NONE", 0, 0),
           Inst("BRR", NUL, D(34, 1, ANY), 1, "NONE", 0, 0),
           Inst("DUP", D(32, 0, ONE), D(35, 0, ANY), 1, "NONE", 0, 0),
           Inst("BRR", D(28, 0, ONE), D(35, 1, ANY), 1, "NONE", 0, 0),
           Inst("DUP", D(31, 0, BOTH), NUL, 0, "ONE", 1, 0),
           Inst("BRR", NUL, NUL, 0, "NONE", 0, 0),
           Inst("RED", D(33, 0, ONE), NUL, 0, "NONE", 0, 0),
           Inst("DUP", OUTS, D(34, 0, ANY), 1, "NONE", 0, 0),
           Inst("MER", NUL, NUL, 0, "NONE", 0, 0),
           Inst("MER", NUL, NUL, 0, "NONE", 0, 0),
           Inst("DUP", D(21, 0, BOTH), D(29, 0, BOTH), 1, "NONE", 0, 0),
           Inst("DUP", D(29, 1, BOTH), D(31, 1, BOTH), 1, "NONE", 0, 0) >>),
        <<104>>)

Operations ==
    Program(Image(<<Ref(0, {"destination_1"}), Ref(1, {"destination_1"}), Ref(2, {"destination_1"}), Ref(3, {"destination_1"}), Ref(4, {"destination_1"})>>,
                  <<>>,
        << Inst("MUL", OUTD, NUL, 0, "TWO", 10, 0),
           Inst("MUL", OUTD, NUL, 0, "TWO", 0, 10),
           Inst("MUL", OUTD, NUL, 0, "TWO", 10, 5),
           Inst("GT", OUTD, NUL, 0, "TWO", 20, 10),
           Inst("GT", OUTD, NUL, 0, "TWO", 10, 20) >>),
        <<0, 0, 50, 1, 0>>)

=============================================================================
