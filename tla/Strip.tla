------------------------------- MODULE Strip -------------------------------
(***************************************************************************)
(* service/src/strip.py: the symbols of several images are replaced by     *)
(* numbers, in place and one file after the other.  A machine loads what   *)
(* is in the files, before or after a run of the tool, and beside it       *)
(* another one loads the originals.                                        *)
(***************************************************************************)
EXTENDS CodeStore

CONSTANTS Originals,      \* the images, in the order of the command line
          MaxRuns,        \* bound on how often they are stripped
          NumberName(_),  \* the name that is a number, in decimal
          StartsWith(_, _)  \* whether a name starts with another one

ASSUME RunsAssumption == MaxRuns \in Nat

\* The symbols of a file are instructions of it, and all of the code has
\* addresses.
ASSUME OriginalsAssumption ==
    /\ Originals \in Seq(Images) /\ Originals # <<>>
    /\ \A f \in DOMAIN Originals :
          /\ \A e \in ToSet(Originals[f].exports) :
                DestinationToAddress(e.destination) < Len(Originals[f].instructions)
          /\ MaxLoads * Len(Originals[f].instructions) <= AddressSpace

\* The names that are left alone: those of the symbols that the machine itself
\* looks up, and every longer one.
MainNames ==
    {name \in STRING : \/ StartsWith(name, "_main_arg_0_export")
                      \/ StartsWith(name, "_main_return_location_export")}

\* No file refers to them.
ASSUME MainAssumption ==
    \A f \in DOMAIN Originals :
        \A ref \in ToSet(Originals[f].externals) : ref.name \notin MainNames

\* The names of an image that are replaced.
SymbolNames(image) ==
    {image.externals[i].name : i \in DOMAIN image.externals}
    \cup ({image.exports[i].name : i \in DOMAIN image.exports} \ MainNames)

AllSymbolNames == UNION {SymbolNames(Originals[f]) : f \in DOMAIN Originals}

\* Different numbers have different names, none of them the main function's.
ASSUME NumberNameAssumption ==
    \A m, n \in 0 .. Cardinality(AllSymbolNames) :
        /\ NumberName(m) \notin MainNames
        /\ NumberName(m) = NumberName(n) => m = n

VARIABLES files,    \* the images as they are now
          next,     \* the file that is stripped next; 0 between runs
          mapping,  \* new names by old names
          runs,     \* completed runs
          plain,    \* the store of the machine that loads the originals
          failed    \* which of its loads have failed

vars == <<files, next, mapping, runs, plain, failed, storeVars>>

Init ==
    /\ files = Originals
    /\ next = 0 /\ mapping = <<>> /\ runs = 0
    /\ plain = EmptyStore /\ failed = <<>>
    /\ StoreInit

-----------------------------------------------------------------------------

\* A name that is new has the next number.
WithNumber(known, name) ==
    IF name \in DOMAIN known THEN known
    ELSE [n \in DOMAIN known \cup {name} |->
             IF n \in DOMAIN known THEN known[n]
             ELSE NumberName(Cardinality(DOMAIN known))]

\* The names of the symbols have numbers in the order in which they are met.
Numbered(known, symbols, kept) ==
    LET numbered[i \in 0 .. Len(symbols)] ==
            IF i = 0 THEN known
            ELSE IF symbols[i].name \in kept THEN numbered[i - 1]
            ELSE WithNumber(numbered[i - 1], symbols[i].name)
    IN  numbered[Len(symbols)]

\* The mapping after the loop over the references and the one over the exports.
MappingAfter(known, image) ==
    Numbered(Numbered(known, image.externals, {}), image.exports, MainNames)

WithName(symbol, name) == [symbol EXCEPT !.name = name]

Renamed(image, names) ==
    [image EXCEPT
        !.externals = [i \in DOMAIN @ |-> WithName(@[i], names[@[i].name])],
        !.exports = [i \in DOMAIN @ |->
                        WithName(@[i], IF @[i].name \in MainNames THEN @[i].name
                                       ELSE names[@[i].name])]]

StartRun ==
    /\ next = 0 /\ runs < MaxRuns /\ segments = <<>>
    /\ next' = 1 /\ mapping' = <<>>
    /\ UNCHANGED <<files, runs, plain, failed, storeVars>>

\* Mutant: every file has a mapping of its own.
StripFileAlone ==
    LET names == MappingAfter(<<>>, files[next])
        last == next = Len(files)
    IN  /\ next # 0
        /\ mapping' = names
        /\ files' = [files EXCEPT ![next] = Renamed(@, names)]
        /\ next' = IF last THEN 0 ELSE next + 1
        /\ runs' = IF last THEN runs + 1 ELSE runs
        /\ UNCHANGED <<plain, failed, storeVars>>

StripFile ==
    LET names == MappingAfter(mapping, files[next])
        last == next = Len(files)
    IN  /\ next # 0
        /\ mapping' = names
        /\ files' = [files EXCEPT ![next] = Renamed(@, names)]
        /\ next' = IF last THEN 0 ELSE next + 1
        /\ runs' = IF last THEN runs + 1 ELSE runs
        /\ UNCHANGED <<plain, failed, storeVars>>

LoadBoth(f) ==
    LET original == LoadFile(plain, Originals[f], failed = <<>>)
    IN  /\ next = 0
        /\ Load(files[f])
        /\ plain' = original.store
        /\ failed' = Append(failed, original.error)
        /\ UNCHANGED <<files, next, mapping, runs>>

Next == StartRun \/ StripFile \/ \E f \in DOMAIN files : LoadBoth(f)

Spec == Init /\ [][Next]_vars

-----------------------------------------------------------------------------
(* Properties *)

\* Whatever files are loaded, and in whichever order, a machine cannot tell the
\* stripped files from the originals: the same loads fail, the same
\* instructions are linked to the same destinations, the same places are
\* exported, and the main function is found under its name.
LoadsAlike ==
    /\ \A i \in DOMAIN segments : segments[i].live = ~failed[i]
    /\ store.code = plain.code
    /\ Len(store.exports) = Len(plain.exports)
    /\ \A i \in DOMAIN plain.exports :
          LET a == plain.exports[i]
              b == store.exports[i]
          IN  /\ a.destination = b.destination
              /\ {a.name, b.name} \cap MainNames # {} => a.name = b.name
=============================================================================
