----------------------------- MODULE CodeStore -----------------------------
(***************************************************************************)
(* The instruction store of service/src/instruction_store.c over a         *)
(* sequence of loads: the program first, with all privileges, then the     *)
(* files that LOD names, some of which fail half way.  Failed loads can    *)
(* leave instructions behind.                                              *)
(***************************************************************************)
EXTENDS Loader

CONSTANT MaxLoads  \* bound on the number of loads

ASSUME LoadsAssumption == MaxLoads \in Nat

VARIABLES store,    \* instructions and exports
          segments  \* what each load has been given and where it put it

storeVars == <<store, segments>>

StoreInit == store = EmptyStore /\ segments = <<>>

Load(image) ==
    LET loaded == LoadFile(store, image, segments = <<>>)
    IN  /\ Len(segments) < MaxLoads
        /\ store' = loaded.store
        /\ segments' = Append(segments,
               [image |-> image, start |-> Len(store.code),
                count |-> Len(loaded.store.code) - Len(store.code),
                live |-> ~loaded.error])

-----------------------------------------------------------------------------
(* Properties *)

LiveSegments == {segments[i] : i \in {j \in DOMAIN segments : segments[j].live}}

Holds(segment, destination) ==
    DestinationToAddress(destination) \in segment.start .. (segment.start + segment.count - 1)

\* The reference of the image that field of instruction number is filled from.
Externals(image, number, field) ==
    {i \in DOMAIN image.externals :
        image.externals[i].number = number /\ field \in image.externals[i].flags}

\* The destination a field of a loaded instruction should have: that of the
\* first export of the name, a constant, or the same instruction of the segment.
Meant(segment, number, field) ==
    LET image == segment.image
        original == image.instructions[number + 1][field]
        refs == Externals(image, number, field)
        last == CHOOSE i \in refs : \A j \in refs : j <= i
    IN  IF refs # {}
        THEN store.exports[FindExport(store.exports, image.externals[last].name)].destination
        ELSE IF IsInList(image.constants, number, field) \/ original = DEV_NULL_DESTINATION
        THEN original
        ELSE CreateDestination(segment.start + DestinationToAddress(original),
                               DestinationToInput(original),
                               DestinationToMatchingFunction(original))

\* However many files are loaded before and after, and however many of them
\* fail, the destinations of a loaded instruction stay the ones it was linked
\* to: symbols are bound to their first definition for good.
LiveCodeLinked ==
    \A segment \in LiveSegments :
        \A number \in 0 .. (segment.count - 1), field \in {"destination_1", "destination_2"} :
            InstructionAt(store, segment.start + number)[field] = Meant(segment, number, field)

\* Nothing can be linked to what a failed load has left behind: an exported
\* destination is inside a segment whose load succeeded and which exports it.
ExportsAreLive ==
    \A i \in DOMAIN store.exports :
        \E segment \in LiveSegments :
            /\ Holds(segment, store.exports[i].destination)
            /\ \E e \in ToSet(segment.image.exports) : e.name = store.exports[i].name

\* A load, successful or not, changes no instruction that was there.
CodeStays == [][IsPrefix(store.code, store'.code)]_storeVars
=============================================================================
