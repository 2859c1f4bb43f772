---------------------------- MODULE MachineTypes ----------------------------
(***************************************************************************)
(* service/src/types.h and types.c: the words of the machine.              *)
(*                                                                         *)
(* A destination packs an instruction address, an input and a matching     *)
(* function into one word; a tag packs a tag area and an iteration count.  *)
(* The widths are parameters (28, 32, 32 and 64 bits in the code), so that *)
(* wrap-around and truncation happen in small instances too.  Opcodes are  *)
(* their names.                                                            *)
(***************************************************************************)
EXTENDS Integers, Sequences

CONSTANTS AddressBits,    \* 28: bits of an instruction address
          IterationBits,  \* 32: bits of the iteration count of a tag
          AreaBits,       \* 32: bits of the area of a tag
          DataBits        \* 64: bits of a data word

\* A data word can hold a tag (NTG, CTG, ETG) or a destination (RTD).
ASSUME WidthAssumption ==
    /\ AddressBits \in Nat \ {0, 1, 2}
    /\ IterationBits \in Nat \ {0}
    /\ AreaBits \in Nat \ {0}
    /\ DataBits = AreaBits + IterationBits
    /\ DataBits >= AddressBits + 4

-----------------------------------------------------------------------------
(* Destinations *)

MATCHING_ONE == 0   \* the instruction needs this token only
MATCHING_BOTH == 1  \* the instruction needs a token on each input
MATCHING_ANY == 2   \* a MER instruction: whichever token comes

INPUT_ONE == 0
INPUT_TWO == 1

AddressSpace == 2 ^ AddressBits
DestinationSpace == 16 * AddressSpace

DestinationToAddress(d) == d \div 16
DestinationToInput(d) == (d \div 8) % 2
DestinationToMatchingFunction(d) == d % 4

\* The shifts leave zeros where the next field goes, so ^ is an addition.
CreateDestination(a, input, m) == ((2 * a + input) * 8 + m) % DestinationSpace

\* The addresses the I/O switch consumes.
OUTPUTD_DESTINATION == CreateDestination(AddressSpace - 1, INPUT_ONE, MATCHING_ONE)
OUTPUTS_DESTINATION == CreateDestination(AddressSpace - 2, INPUT_ONE, MATCHING_ONE)
REGISTER_INPUT_HANDLER_DESTINATION ==
    CreateDestination(AddressSpace - 3, INPUT_ONE, MATCHING_ONE)
DEREGISTER_INPUT_HANDLER_DESTINATION ==
    CreateDestination(AddressSpace - 4, INPUT_ONE, MATCHING_ONE)
DEV_NULL_DESTINATION == CreateDestination(AddressSpace - 5, INPUT_ONE, MATCHING_ONE)

-----------------------------------------------------------------------------
(* Tags *)

NO_TAG == 0
TagSpace == 2 ^ (AreaBits + IterationBits)

CreateTag(area, iteration) == area * 2 ^ IterationBits + iteration
TagToTagArea(t) == t \div 2 ^ IterationBits
TagToIterationCount(t) == t % 2 ^ IterationBits

-----------------------------------------------------------------------------
(* Data words: two's complement *)

DataSpace == 2 ^ DataBits
Data == 0 .. (DataSpace - 1)
Signed(x) == IF x >= DataSpace \div 2 THEN x - DataSpace ELSE x
ToWord(i) == i % DataSpace
ToBool(b) == IF b THEN 1 ELSE 0
MINUS_ONE == DataSpace - 1

-----------------------------------------------------------------------------
(* Instructions *)

BOTH_OUTPUT_MARKER == 1
ONE_OUTPUT_MARKER == 0

\* opcode_type: the opcode with number n is OpcodeList[n + 1].
OpcodeList == << "ADD", "SUB", "BRR", "LT", "EQ", "DUP", "NEG", "MER", "NTG", "ITG",
                 "GT", "SIL", "CTG", "RTD", "ETG", "MUL", "XOR", "AND", "OR", "SHL",
                 "SHR", "NEQ", "OPN", "RED", "WRT", "CLS", "GTE", "LTE", "HLT", "LOD",
                 "LS", "SDF", "ULK", "LSK", "RND" >>
Opcodes == {OpcodeList[i] : i \in 1 .. Len(OpcodeList)}

\* The opcodes of the input module: they act on files.
FileOpcodes == {"OPN", "RED", "WRT", "CLS", "LS", "SDF", "ULK", "LSK"}

MonadicOpcodes == {"DUP", "NEG", "MER", "NTG", "ITG", "ETG", "RED", "CLS",
                   "HLT", "LS", "ULK", "RND"}

\* opcode_to_num_inputs.
NumInputs(opcode) == IF opcode \in MonadicOpcodes THEN 1 ELSE 2

\* The instructions for which the instruction store reads both tokens of a pair;
\* of LOD's it does whatever their literals are.
ReadsBothTokens(inst) ==
    inst.opcode = "LOD" \/ (inst.instruction_literal = "NONE" /\ NumInputs(inst.opcode) = 2)

Token(destination, data, tag) ==
    [destination |-> destination, data |-> data, tag |-> tag]
=============================================================================
