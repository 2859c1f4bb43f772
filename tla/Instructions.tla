---------------------------- MODULE Instructions ----------------------------
(***************************************************************************)
(* What run_instruction_store of service/src/instruction_store.c makes of  *)
(* the store: the packets of instructions that need no token, and the      *)
(* packet of the instruction that a pair of tokens is for.                 *)
(***************************************************************************)
EXTENDS Loader

Packet(inst, address, tag, data_1, data_2) ==
    [opcode |-> inst.opcode, data_1 |-> data_1, data_2 |-> data_2, tag |-> tag,
     destination_1 |-> inst.destination_1, destination_2 |-> inst.destination_2,
     input |-> CreateDestination(address, 0, 0), marker |-> inst.marker]

IsReady(inst) ==
    \/ inst.instruction_literal = "TWO"
    \/ inst.instruction_literal = "ONE" /\ NumInputs(inst.opcode) = 1

\* add_ready_instructions: the packets of the instructions that need no token.
\* Their input field counts from the first instruction of code.
ReadyPackets(code) ==
    LET PacketAt(i) ==
            Packet(code[i], i - 1, NO_TAG, code[i].literal_1,
                   IF code[i].instruction_literal = "TWO" THEN code[i].literal_2 ELSE 0)
        ready == SelectSeq([i \in DOMAIN code |-> i], LAMBDA i : IsReady(code[i]))
    IN  [k \in DOMAIN ready |-> PacketAt(ready[k])]

InBounds(store, pair) == DestinationToAddress(pair.token_1.destination) < Len(store.code)

\* Does fetching the instruction for this pair read its second token?
ReadsSecondToken(store, pair) ==
    /\ InBounds(store, pair)
    /\ ReadsBothTokens(InstructionAt(store, DestinationToAddress(pair.token_1.destination)))

\* Mutant: the literal of an instruction is its first operand.
FetchLiteralFirst(store, pair, data_2) ==
    LET address == DestinationToAddress(pair.token_1.destination)
        inst == InstructionAt(store, address)
        Ready(a, b) == << Packet(inst, address, pair.token_1.tag, a, b) >>
    IN  IF ~InBounds(store, pair) THEN <<>>
        ELSE IF ReadsSecondToken(store, pair) THEN Ready(pair.token_1.data, data_2)
        ELSE IF inst.instruction_literal = "ONE" \/ NumInputs(inst.opcode) = 1
        THEN Ready(inst.literal_1, pair.token_1.data)
        ELSE <<>>

\* The packet of the instruction that a ready pair is for: a pair for no
\* instruction, or for one that has two literals, is ignored.
Fetch(store, pair, data_2) ==
    LET address == DestinationToAddress(pair.token_1.destination)
        inst == InstructionAt(store, address)
        Ready(a, b) == << Packet(inst, address, pair.token_1.tag, a, b) >>
    IN  IF ~InBounds(store, pair) THEN <<>>
        ELSE IF ReadsSecondToken(store, pair) THEN Ready(pair.token_1.data, data_2)
        ELSE IF inst.instruction_literal = "ONE" \/ NumInputs(inst.opcode) = 1
        THEN Ready(pair.token_1.data, inst.literal_1)
        ELSE <<>>
=============================================================================
