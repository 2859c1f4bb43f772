----------------------------- MODULE LinkImages -----------------------------
(***************************************************************************)
(* Images with symbols: a library, a second one that defines the same      *)
(* symbol, a client that refers to it, clients with a reference past their *)
(* end, one that refers to what nobody defines, and a malformed file.      *)
(***************************************************************************)
EXTENDS Loader

LOCAL D(address) == CreateDestination(address, INPUT_ONE, MATCHING_ONE)
LOCAL NUL == DEV_NULL_DESTINATION

LOCAL Dup(destination_1, destination_2) ==
    [opcode |-> "DUP", destination_1 |-> destination_1, destination_2 |-> destination_2,
     marker |-> BOTH_OUTPUT_MARKER, instruction_literal |-> "NONE",
     literal_1 |-> 0, literal_2 |-> 0]

LOCAL Ref(number, field, name) == [number |-> number, flags |-> {field}, name |-> name]

LOCAL Image(instructions, externals, exports) ==
    [wellFormed |-> TRUE, constants |-> << [number |-> 0, flags |-> {"destination_2"}] >>,
     toFix |-> <<>>, externals |-> externals, exports |-> exports,
     instructions |-> instructions]

LOCAL Export(name, address) == [name |-> name, destination |-> D(address)]

Library == Image(<<Dup(D(1), OUTPUTD_DESTINATION), Dup(D(0), NUL)>>, <<>>, <<Export("f", 1)>>)
Rival == Image(<<Dup(D(0), OUTPUTS_DESTINATION)>>, <<>>, <<Export("f", 0), Export("g", 0)>>)

Client(externals) ==
    Image(<<Dup(D(1), OUTPUTD_DESTINATION), Dup(D(0), D(1))>>, externals, <<Export("main", 0)>>)

Linked == Client(<<Ref(0, "destination_1", "f"), Ref(1, "destination_2", "main")>>)
HalfLinked == Client(<<Ref(1, "destination_1", "f"), Ref(3, "destination_1", "f")>>)
EdgeLinked == Client(<<Ref(2, "destination_1", "f")>>)
TwiceLinked == Client(<<Ref(0, "destination_1", "f"), Ref(0, "destination_1", "g")>>)
Malformed == [Client(<<>>) EXCEPT !.wellFormed = FALSE]
Plain == Client(<<>>)

\* A file with a main function, and a symbol whose name only starts like one of
\* its own.
Main == [Client(<<Ref(1, "destination_1", "f")>>) EXCEPT
            !.exports = <<Export("_main_arg_0_export", 0),
                          Export("_main_return_location_export", 1),
                          Export("_main_arg_0_export_2", 1)>>]
=============================================================================
