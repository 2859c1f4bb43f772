------------------------------- MODULE Loader -------------------------------
(***************************************************************************)
(* load_file and its helpers of service/src/instruction_store.c, and the   *)
(* file format of sephi.h.                                                 *)
(*                                                                         *)
(* An image is a parsed file: wellFormed stands for the checks of its      *)
(* size, magic bytes and header; constants and toFix list the destinations *)
(* that must not, and the literals that must be relocated; externals name  *)
(* the fields to fill with an exported destination; exports are the        *)
(* symbols it defines.  A flag names a field of an instruction, or is      *)
(* "opcode", the flag 0x80.                                                *)
(*                                                                         *)
(* A store is what the instruction store keeps: code, the instructions in  *)
(* the order of their addresses from 0, and exports, the list of symbols.  *)
(* Loading is an operator on stores, because the handler that calls it     *)
(* runs it without letting anybody else see the store.                     *)
(***************************************************************************)
EXTENDS MachineTypes, SequencesExt

\* The format of sephi.h.  Names are strings.
Destinations == 0 .. (DestinationSpace - 1)
Flags == {"destination_1", "destination_2", "literal_1", "literal_2", "opcode"}
DestinationsToUpdate == [number : Nat, flags : SUBSET Flags]
ExternalReferences == [number : Nat, flags : SUBSET Flags, name : STRING]
ExportSymbols == [name : STRING, destination : Destinations]
InstructionWords ==
    [opcode : Opcodes, destination_1 : Destinations, destination_2 : Destinations,
     marker : {ONE_OUTPUT_MARKER, BOTH_OUTPUT_MARKER},
     instruction_literal : {"NONE", "ONE", "TWO"}, literal_1 : Data, literal_2 : Data]
Images ==
    [wellFormed : BOOLEAN, constants : Seq(DestinationsToUpdate),
     toFix : Seq(DestinationsToUpdate), externals : Seq(ExternalReferences),
     exports : Seq(ExportSymbols), instructions : Seq(InstructionWords)]

EmptyStore == [code |-> <<>>, exports |-> <<>>]

InstructionAt(store, address) == store.code[address + 1]

PrivilegedOpcodes == {"OPN", "RED", "WRT", "CLS", "HLT", "LOD", "LS", "SDF",
                      "ULK", "LSK", "RND"}

IncrementDestinationAddress(d, toAdd) ==
    CreateDestination(DestinationToAddress(d) + toAdd,
                      DestinationToInput(d),
                      DestinationToMatchingFunction(d))

IsInList(list, number, flag) ==
    \E i \in DOMAIN list : list[i].number = number /\ flag \in list[i].flags

\* Mutant: the latest definition of a symbol.
FindLastExport(exports, name) == SelectLastInSeq(exports, LAMBDA e : e.name = name)

\* The first symbol of that name, if there is one.
FindExport(exports, name) == SelectInSeq(exports, LAMBDA e : e.name = name)

\* Instruction number of the image, loaded behind start instructions.
Relocate(image, number, start, isPrivileged) ==
    LET inst == image.instructions[number + 1]
        Move(d, flag) ==
            IF IsInList(image.constants, number, flag) \/ d = DEV_NULL_DESTINATION
            THEN d
            ELSE IncrementDestinationAddress(d, start)
        Fix(literal, flag) ==
            IF IsInList(image.toFix, number, flag)
            THEN IncrementDestinationAddress(literal % DestinationSpace, start)
            ELSE literal
    IN  [inst EXCEPT
            !.destination_1 = Move(@, "destination_1"),
            !.destination_2 = Move(@, "destination_2"),
            !.literal_1 = Fix(@, "literal_1"),
            !.literal_2 = Fix(@, "literal_2"),
            !.opcode = IF ~isPrivileged /\ @ \in PrivilegedOpcodes THEN "DUP" ELSE @]

\* The exported destination goes into every field the flags of ref name.
ResolveField(inst, ref, destination) ==
    [inst EXCEPT
        !.destination_1 = IF "destination_1" \in ref.flags THEN destination ELSE @,
        !.destination_2 = IF "destination_2" \in ref.flags THEN destination ELSE @,
        !.literal_1 = IF "literal_1" \in ref.flags THEN destination ELSE @,
        !.literal_2 = IF "literal_2" \in ref.flags THEN destination ELSE @,
        !.opcode = IF "opcode" \in ref.flags THEN OpcodeList[destination + 1] ELSE @]

\* Mutant: the instruction is counted from the start of the store.
ResolveFromZero(result, ref, start, count, exports) ==
    LET destination == exports[FindExport(exports, ref.name)].destination
    IN  IF result.error \/ ref.number > count
        THEN [result EXCEPT !.error = TRUE]
        ELSE IF ref.number = count
        THEN result
        ELSE [result EXCEPT !.code[ref.number + 1] = ResolveField(@, ref, destination)]

\* Resolve one external reference of a file of count instructions loaded at
\* start.  A number past the end fails, and leaves what is done; the number
\* count itself passes the test of the code and writes behind the store.
Resolve(result, ref, start, count, exports) ==
    LET at == start + ref.number + 1
        destination == exports[FindExport(exports, ref.name)].destination
    IN  IF result.error \/ ref.number > count
        THEN [result EXCEPT !.error = TRUE]
        ELSE IF ref.number = count
        THEN result
        ELSE [result EXCEPT !.code[at] = ResolveField(@, ref, destination)]

\* The instructions of the image, relocated, behind those of the store.
AddedCode(store, image, isPrivileged) ==
    store.code \o [k \in 1 .. Len(image.instructions) |->
                      Relocate(image, k - 1, Len(store.code), isPrivileged)]

\* The code after so many of the external references have been resolved.
Links(store, image, isPrivileged) ==
    LET linked[i \in 0 .. Len(image.externals)] ==
            IF i = 0
            THEN [code |-> AddedCode(store, image, isPrivileged), error |-> FALSE]
            ELSE Resolve(linked[i - 1], image.externals[i], Len(store.code),
                         Len(image.instructions), store.exports)
    IN  linked

LinkedCode(store, image, isPrivileged) ==
    Links(store, image, isPrivileged)[Len(image.externals)]

\* The symbols that the image defines, when it is loaded behind start
\* instructions.
ExportsOf(image, start) ==
    [i \in DOMAIN image.exports |->
        [name |-> image.exports[i].name,
         destination |-> IncrementDestinationAddress(image.exports[i].destination, start)]]

IsMissing(store, image) ==
    \E ref \in ToSet(image.externals) : FindExport(store.exports, ref.name) = 0

LoadError(store) == [store |-> store, count |-> 0, exports |-> <<>>, error |-> TRUE]

\* Mutant: the symbols are exported before the references are resolved.
LoadFileExportsFirst(store, image, isPrivileged) ==
    LET linked == LinkedCode(store, image, isPrivileged)
        exported == ExportsOf(image, Len(store.code))
        after == [code |-> linked.code, exports |-> store.exports \o exported]
    IN  IF ~image.wellFormed \/ IsMissing(store, image) THEN LoadError(store)
        ELSE IF linked.error THEN LoadError(after)
        ELSE [store |-> after, count |-> Len(image.instructions), exports |-> exported,
              error |-> FALSE]

\* The outcome of load_file: the new store, the number of instructions it has
\* added, the exports of the file, and whether it reports an error.
LoadFile(store, image, isPrivileged) ==
    LET linked == LinkedCode(store, image, isPrivileged)
        exported == ExportsOf(image, Len(store.code))
    IN  IF ~image.wellFormed \/ IsMissing(store, image) THEN LoadError(store)
        ELSE IF linked.error THEN LoadError([store EXCEPT !.code = linked.code])
        ELSE [store |-> [code |-> linked.code, exports |-> store.exports \o exported],
              count |-> Len(image.instructions), exports |-> exported, error |-> FALSE]
=============================================================================
