------------------------------ MODULE Machine ------------------------------
(***************************************************************************)
(* The Manchester dataflow machine of service/src: five processes in a     *)
(* ring of five bounded queues, and the parent that started them           *)
(* (start_machine of manchester.c).                                        *)
(*                                                                         *)
(*   instruction_store -> input_module -> processing_unit -> io_switch     *)
(*          ^                                                    |         *)
(*          +------------------- matching_unit <-----------------+         *)
(*                                                                         *)
(* queue[s] is the queue that stage s reads; s writes the queue of its     *)
(* successor.  A queue is the bounded FIFO that SharedQueue implements,    *)
(* and the store of waiting tokens is the MatchingStore that MatchingUnit  *)
(* implements.                                                             *)
(*                                                                         *)
(* An iteration of a stage's loop removes one element, works on it without *)
(* touching anything another process can see (I/O apart), and adds its     *)
(* results one by one, blocking on each: hand[s] holds the results that    *)
(* are computed and not yet added.                                         *)
(*                                                                         *)
(* TrapMode is the build with ENABLE_TRAP_MODE.                            *)
(***************************************************************************)
EXTENDS FunctionUnit, Instructions, FileSystem, FiniteSets

CONSTANTS QueueSize,    \* MAX_QUEUE_SIZE
          Programs,     \* the initial programs (option -f) to choose from
          Files,        \* images of the files LOD can open, by file name
          RandomPeriods, \* what random() may return: one period, for ever repeated
          StackWords,   \* what an uninitialised computation_result may hold
          Crashing,     \* children that a signal may kill
          NoToken,      \* an uninitialised token
          TrapMode,     \* the build has ENABLE_TRAP_MODE
          TrapCodeLimit \* TRAP_CODE_LIMIT: instructions before it are the handler

ASSUME QueueAssumption == QueueSize \in Nat \ {0}
ASSUME TrapAssumption == TrapMode \in BOOLEAN /\ TrapCodeLimit \in Nat

Stages == {"instruction_store", "input_module", "processing_unit", "io_switch",
           "matching_unit"}
Children == Stages \cup {"timeout_process"}

\* The stage that reads what stage s writes.
Succ == [s \in Stages |->
    CASE s = "instruction_store" -> "input_module"
      [] s = "input_module" -> "processing_unit"
      [] s = "processing_unit" -> "io_switch"
      [] s = "io_switch" -> "matching_unit"
      [] s = "matching_unit" -> "instruction_store"]

\* The children in the order in which start_machine kills them.
KillOrder == << "processing_unit", "instruction_store", "matching_unit", "io_switch",
                "input_module", "timeout_process" >>

VARIABLES program,  \* the file given with -f
          booted,   \* the instruction store has loaded it
          store,    \* instructions and exports of the instruction store
          queue,    \* the five queues, by reader
          hand,     \* results each stage has still to add
          waiting,  \* tokens in the matching unit
          disk,     \* files, stdin, stdout and descriptors of the input module
          random,   \* what random() returns next, in the processing unit
          withheld, \* tokens the trap handler has to admit, by return location
          alive,    \* children that have not exited
          killed    \* children the parent has killed; -1: it waits

vars == <<program, booted, store, queue, hand, waiting, disk, random, withheld,
          alive, killed>>

\* What the machine has written to stdout, in order.
printed == disk.content[Stdout]

Matching == INSTANCE MatchingStore WITH Incoming <- {}, outgoing <- <<>>

Init ==
    /\ program \in Programs
    /\ booted = FALSE
    /\ store = EmptyStore
    /\ queue = [s \in Stages |-> <<>>]
    /\ hand = [s \in Stages |-> <<>>]
    /\ waiting = {}
    /\ disk = InitialDisk(program.input, DOMAIN Files)
    /\ random \in RandomPeriods
    /\ withheld = <<>>
    /\ alive = Children
    /\ killed = -1

-----------------------------------------------------------------------------
(* The two ends of an iteration of any stage *)

\* Mutant: the reader is woken by the second element only.
CanTakeSecond(s) ==
    /\ s \in alive
    /\ hand[s] = <<>>
    /\ Len(queue[s]) > 1

\* Stage s can start an iteration: its queue_remove returns.
CanTake(s) ==
    /\ s \in alive
    /\ hand[s] = <<>>
    /\ queue[s] # <<>>

\* The iteration has begun and its results are to be added.
Take(s, results) ==
    /\ queue' = [queue EXCEPT ![s] = Tail(@)]
    /\ hand' = [hand EXCEPT ![s] = results]

\* Mutant: one element more than there are slots.
CanGiveOneMore(s) ==
    /\ s \in alive
    /\ hand[s] # <<>>
    /\ Len(queue[Succ[s]]) <= QueueSize

\* Stage s has a result and its successor's queue has room for it.
CanGive(s) ==
    /\ s \in alive
    /\ hand[s] # <<>>
    /\ Len(queue[Succ[s]]) < QueueSize

\* queue_add returns.
Give(s) ==
    /\ CanGive(s)
    /\ queue' = [queue EXCEPT ![Succ[s]] = Append(@, Head(hand[s]))]
    /\ hand' = [hand EXCEPT ![s] = Tail(@)]
    /\ UNCHANGED <<program, booted, store, waiting, disk, random, withheld, alive, killed>>

-----------------------------------------------------------------------------
(* instruction_store.c *)

\* The start of run_instruction_store: load the program with all privileges
\* and make its ready instructions executable, or exit.
Boot ==
    LET loaded == LoadFile(EmptyStore, program.image, TRUE)
    IN  /\ ~booted
        /\ "instruction_store" \in alive
        /\ booted' = TRUE
        /\ store' = loaded.store
        /\ IF loaded.error
           THEN /\ alive' = alive \ {"instruction_store"}
                /\ UNCHANGED hand
           ELSE /\ hand' = [hand EXCEPT !["instruction_store"] = ReadyPackets(loaded.store.code)]
                /\ UNCHANGED alive
        /\ UNCHANGED <<program, queue, waiting, disk, random, withheld, killed>>

DupPacket(destination, address, tag, data) ==
    Packet([opcode |-> "DUP", destination_1 |-> destination,
            destination_2 |-> DEV_NULL_DESTINATION, marker |-> ONE_OUTPUT_MARKER],
           address, tag, data, 0)

\* The last symbol of that name among those of a loaded file.
MainExport(exports, name) == SelectLastInSeq(exports, LAMBDA e : e.name = name)

\* The packets a LOD instruction produces after load_file: the call of the
\* main function with its argument and return location, and the ready
\* instructions of the file; or -1 to the destinations of the instruction.
LoadPackets(inst, address, tag, arg, loaded) ==
    LET a == MainExport(loaded.exports, "_main_arg_0_export")
        r == MainExport(loaded.exports, "_main_return_location_export")
        size == Len(loaded.store.code)
        call == << DupPacket(loaded.exports[a].destination, address, tag, arg),
                   DupPacket(loaded.exports[r].destination, address, tag,
                             inst.destination_1) >>
    IN  IF loaded.error
        THEN << Packet([inst EXCEPT !.opcode = "DUP"], address, tag, MINUS_ONE, 0) >>
        ELSE (IF a # 0 /\ r # 0 THEN call ELSE <<>>)
             \o ReadyPackets(SubSeq(loaded.store.code, size - loaded.count + 1, size))

\* The second operand of a pair; that of an unfilled pair can be anything.
SecondData(pair) ==
    IF pair.token_2 = NoToken THEN Data ELSE {pair.token_2.data}

\* open and load_file of a LOD instruction.  A file that is written to is
\* not an image any more; no program here does that.
LoadNamed(name) ==
    IF name \in DOMAIN Files \cap DOMAIN disk.names
    THEN LoadFile(store, Files[name], FALSE)
    ELSE LoadError(store)

InstructionStore ==
    LET pair == Head(queue["instruction_store"])
        address == DestinationToAddress(pair.token_1.destination)
        isLoad == InBounds(store, pair) /\ InstructionAt(store, address).opcode = "LOD"
    IN  /\ booted
        /\ CanTake("instruction_store")
        /\ \E data_2 \in (IF ReadsSecondToken(store, pair) THEN SecondData(pair) ELSE {0}) :
              LET loaded == LoadNamed(pair.token_1.data)
              IN  IF isLoad
                  THEN /\ Take("instruction_store",
                               LoadPackets(InstructionAt(store, address), address,
                                           pair.token_1.tag, data_2, loaded))
                       /\ store' = loaded.store
                  ELSE /\ Take("instruction_store", Fetch(store, pair, data_2))
                       /\ UNCHANGED store
        /\ UNCHANGED <<program, booted, waiting, disk, random, withheld, alive, killed>>

-----------------------------------------------------------------------------
(* input_module.c *)

\* The flags of OPN: FLAG_TO_RW_MODE, FILE_CREATE and FILE_TRUNCATE.  Mode 3
\* has no branch of its own and opens for reading.
OpenFlagged(name, flags) ==
    LET mode == flags % 4
    IN  Open(disk, name, mode # 1, mode \in {1, 2},
             (flags \div 16) % 2 = 1, (flags \div 32) % 2 = 1)

\* The bytes of in, one by one, to out, until one of the two calls does not
\* return 1.  (With both descriptors on one file the loop of the code reads
\* what it has written; no program here does that.)
SendFile(in, out) ==
    LET CopyByte(answer, byte) ==
            LET written == Write(answer.disk, out, byte)
            IN  IF answer.result # 1 THEN answer
                ELSE IF written.result # 1 THEN written
                ELSE Read(written.disk, in)
    IN  FoldLeft(CopyByte, Read(disk, in), IF Readable(disk, in) THEN Rest(disk, in) ELSE <<>>)

\* The answer of the operating system to a file instruction.
CarryOut(p) ==
    CASE p.opcode = "OPN" -> OpenFlagged(p.data_1, p.data_2)
      [] p.opcode = "RED" -> Read(disk, p.data_1)
      [] p.opcode = "WRT" -> Write(disk, p.data_1, p.data_2 % 256)
      [] p.opcode = "CLS" -> Close(disk, p.data_1)
      [] p.opcode = "LS"  -> List(disk)
      [] p.opcode = "SDF" -> SendFile(p.data_1, p.data_2)
      [] p.opcode = "ULK" -> Unlink(disk, p.data_1)
      [] p.opcode = "LSK" -> Seek(disk, p.data_1, Signed(p.data_2))

\* The data word a file instruction makes of the answer.
FileData(p, result) ==
    CASE p.opcode = "RED" -> IF result = 1 THEN Head(Rest(disk, p.data_1)) ELSE MINUS_ONE
      [] p.opcode = "WRT" -> ToBool(result = 1)
      [] p.opcode = "CLS" -> ToBool(result = 0)
      [] OTHER -> ToWord(result)

\* A file instruction is carried out and goes on as a DUP of its result.
InputModule ==
    LET p == Head(queue["input_module"])
        answer == IF p.opcode \in FileOpcodes THEN CarryOut(p) ELSE Answer(disk, 0)
        done == IF p.opcode \in FileOpcodes
                THEN [p EXCEPT !.opcode = "DUP", !.data_1 = FileData(p, answer.result)]
                ELSE p
    IN  /\ CanTake("input_module")
        /\ Take("input_module", <<done>>)
        /\ disk' = answer.disk
        /\ UNCHANGED <<program, booted, store, waiting, random, withheld, alive, killed>>

-----------------------------------------------------------------------------
(* processing_unit.c *)

\* The n-th value random() returns from now on, and the generator after n.
Draw(n) == random[1 + ((n - 1) % Len(random))]
Drawn(n) == [i \in DOMAIN random |-> random[1 + ((i + n - 1) % Len(random))]]

NewTagArea(n) == Draw(n) % 2 ^ AreaBits

\* function_unit of a packet, and how many values it draws.
ResultOf(p, stack) ==
    FunctionUnitResult(p, NewTagArea(1), IF p.opcode = "RND" THEN Draw(1) ELSE stack)
Draws(p) == IF p.opcode \in {"NTG", "RND"} THEN 1 ELSE 0

\* The low 32 bits of key >> 33 ^ key ^ key << 11, for keys of 32 bits.
Hash(x) ==
    LET low == BitsOf(x)
        high == BitsOf(x * 2 ^ 11)
    IN  WordOf((low \ high) \cup (high \ low)) % DestinationSpace

\* The packet returns from the trap handler with a verdict on a token.
IsVerdict(p) == TrapMode /\ p.opcode = "RTD" /\ p.data_2 % DestinationSpace \in DOMAIN withheld

\* The packet is of an instruction behind the trap handler, by the low 16 bits
\* of its address.
IsStepped(p) == TrapMode /\ DestinationToAddress(p.input) % 2 ^ 16 >= TrapCodeLimit

\* function_unit and send_result.
ProcessingUnit ==
    LET p == Head(queue["processing_unit"])
    IN  /\ CanTake("processing_unit")
        /\ p.opcode # "HLT" /\ ~IsVerdict(p) /\ ~IsStepped(p)
        /\ \E stack \in StackWords : Take("processing_unit", ResultOf(p, stack))
        /\ random' = Drawn(Draws(p))
        /\ UNCHANGED <<program, booted, store, waiting, disk, withheld, alive, killed>>

\* The tokens that ask the handler for a verdict on token t.
TrapTokens(input, t, tag, key) ==
    << Token(CreateDestination(0, INPUT_ONE, MATCHING_ONE), Hash(input), tag),
       Token(CreateDestination(1, INPUT_ONE, MATCHING_ONE), Hash(t.destination), tag),
       Token(CreateDestination(2, INPUT_ONE, MATCHING_ONE), key, tag) >>

\* single_step_token for each result: the handler is asked and the token kept
\* under the return location, in place of any other that is kept there.
SingleStep ==
    LET p == Head(queue["processing_unit"])
        Key(k) == Draw(Draws(p) + 2 * k) % DestinationSpace
    IN  /\ CanTake("processing_unit")
        /\ p.opcode # "HLT" /\ ~IsVerdict(p) /\ IsStepped(p)
        /\ \E stack \in StackWords :
              LET results == ResultOf(p, stack)
                  Asked(k) == TrapTokens(p.input, results[k],
                                         NewTagArea(Draws(p) + 2 * k - 1), Key(k))
                  Kept(f, k) == (Key(k) :> results[k]) @@ f
              IN  /\ Take("processing_unit",
                          FlattenSeq([k \in DOMAIN results |-> Asked(k)]))
                  /\ withheld' = FoldLeft(Kept, withheld, [k \in DOMAIN results |-> k])
                  /\ random' = Drawn(Draws(p) + 2 * Len(results))
        /\ UNCHANGED <<program, booted, store, waiting, disk, alive, killed>>

\* Mutants: the entry stays in the table; the withheld token is not sent.
VerdictKeeps ==
    LET p == Head(queue["processing_unit"])
    IN  /\ CanTake("processing_unit")
        /\ IsVerdict(p)
        /\ Take("processing_unit",
                IF p.data_1 = 1 THEN <<withheld[p.data_2 % DestinationSpace]>> ELSE <<>>)
        /\ UNCHANGED <<program, booted, store, waiting, disk, random, withheld, alive, killed>>

VerdictForgets ==
    LET p == Head(queue["processing_unit"])
    IN  /\ CanTake("processing_unit")
        /\ IsVerdict(p)
        /\ Take("processing_unit", <<>>)
        /\ withheld' = Restrict(withheld, DOMAIN withheld \ {p.data_2 % DestinationSpace})
        /\ UNCHANGED <<program, booted, store, waiting, disk, random, alive, killed>>

\* The handler has answered: 1 admits the token.
Verdict ==
    LET p == Head(queue["processing_unit"])
        key == p.data_2 % DestinationSpace
    IN  /\ CanTake("processing_unit")
        /\ IsVerdict(p)
        /\ Take("processing_unit", IF p.data_1 = 1 THEN <<withheld[key]>> ELSE <<>>)
        /\ withheld' = Restrict(withheld, DOMAIN withheld \ {key})
        /\ UNCHANGED <<program, booted, store, waiting, disk, random, alive, killed>>

\* exit(data_1).
Halt ==
    /\ CanTake("processing_unit")
    /\ Head(queue["processing_unit"]).opcode = "HLT"
    /\ Take("processing_unit", <<>>)
    /\ alive' = alive \ {"processing_unit"}
    /\ UNCHANGED <<program, booted, store, waiting, disk, random, withheld, killed>>

-----------------------------------------------------------------------------
(* io_switch.c *)

\* Destinations that consume their tokens silently.
SinkDestinations == {REGISTER_INPUT_HANDLER_DESTINATION,
                     DEREGISTER_INPUT_HANDLER_DESTINATION,
                     DEV_NULL_DESTINATION}

\* Mutant: the print is missing.
IoSwitchMute ==
    LET t == Head(queue["io_switch"])
        isOutput == t.destination \in {OUTPUTD_DESTINATION, OUTPUTS_DESTINATION}
    IN  /\ CanTake("io_switch")
        /\ Take("io_switch",
                IF isOutput \/ t.destination \in SinkDestinations THEN <<>> ELSE <<t>>)
        /\ UNCHANGED <<program, booted, store, waiting, disk, random, withheld, alive, killed>>

IoSwitch ==
    LET t == Head(queue["io_switch"])
        isOutput == t.destination \in {OUTPUTD_DESTINATION, OUTPUTS_DESTINATION}
    IN  /\ CanTake("io_switch")
        /\ disk' = IF isOutput THEN Display(disk, t.data) ELSE disk
        /\ Take("io_switch",
                IF isOutput \/ t.destination \in SinkDestinations THEN <<>> ELSE <<t>>)
        /\ UNCHANGED <<program, booted, store, waiting, random, withheld, alive, killed>>

-----------------------------------------------------------------------------
(* matching_unit.c, through the specification of its store *)

MatchingUnit ==
    LET t == Head(queue["matching_unit"])
    IN  /\ CanTake("matching_unit")
        /\ waiting' = Matching!StoreAfter(waiting, t)
        /\ Take("matching_unit", Matching!SentAfter(waiting, t))
        /\ UNCHANGED <<program, booted, store, disk, random, withheld, alive, killed>>

-----------------------------------------------------------------------------
(* manchester.c *)

\* The child that sleeps for the time limit exits.
Timeout ==
    /\ "timeout_process" \in alive
    /\ alive' = alive \ {"timeout_process"}
    /\ UNCHANGED <<program, booted, store, queue, hand, waiting, disk, random, withheld, killed>>

\* A signal kills a stage, for example SIGPIPE when the client has gone.
Crash(s) ==
    /\ s \in alive
    /\ alive' = alive \ {s}
    /\ UNCHANGED <<program, booted, store, queue, hand, waiting, disk, random, withheld, killed>>

\* Mutant: the parent waits for the processing unit, waitpid(processing_unit).
WaitReturnsOnHalt ==
    /\ killed = -1
    /\ "processing_unit" \notin alive
    /\ killed' = 0
    /\ UNCHANGED <<program, booted, store, queue, hand, waiting, disk, random, withheld, alive>>

\* wait(NULL) returns when any child has died.
WaitReturns ==
    /\ killed = -1
    /\ alive # Children
    /\ killed' = 0
    /\ UNCHANGED <<program, booted, store, queue, hand, waiting, disk, random, withheld, alive>>

\* Mutant: the fourth child is forgotten.
KillForgetsOne ==
    /\ killed \in 0 .. (Len(KillOrder) - 1)
    /\ killed' = IF killed = 2 THEN 4 ELSE killed + 1
    /\ alive' = alive \ {KillOrder[killed + 1]}
    /\ UNCHANGED <<program, booted, store, queue, hand, waiting, disk, random, withheld>>

\* The next kill(child, 9).
Kill ==
    /\ killed \in 0 .. (Len(KillOrder) - 1)
    /\ killed' = killed + 1
    /\ alive' = alive \ {KillOrder[killed + 1]}
    /\ UNCHANGED <<program, booted, store, queue, hand, waiting, disk, random, withheld>>

ParentGone == killed = Len(KillOrder)

-----------------------------------------------------------------------------

StageStep(s) ==
    \/ Give(s)
    \/ s = "instruction_store" /\ (Boot \/ InstructionStore)
    \/ s = "input_module" /\ InputModule
    \/ s = "processing_unit" /\ (ProcessingUnit \/ SingleStep \/ Verdict \/ Halt)
    \/ s = "io_switch" /\ IoSwitch
    \/ s = "matching_unit" /\ MatchingUnit

Next ==
    \/ \E s \in Stages : StageStep(s)
    \/ Timeout
    \/ \E s \in Crashing : Crash(s)
    \/ WaitReturns
    \/ Kill

Spec == Init /\ [][Next]_vars

\* The kernel keeps running a stage that can run, and the parent.
RunningSpec ==
    /\ Spec
    /\ \A s \in Stages : WF_vars(StageStep(s))
    /\ WF_vars(WaitReturns) /\ WF_vars(Kill)

\* The time limit runs out, in addition.
FairSpec == RunningSpec /\ WF_vars(Timeout)

-----------------------------------------------------------------------------
(* Properties *)

\* Type invariant: no queue of the ring exceeds its size, and the parent has
\* killed as many children as it has.
TypeOK ==
    /\ booted \in BOOLEAN
    /\ DOMAIN queue = Stages
    /\ DOMAIN hand = Stages
    /\ \A s \in Stages : Len(queue[s]) \in 0 .. QueueSize
    /\ alive \subseteq Children
    /\ killed \in -1 .. Len(KillOrder)

Running == booted /\ Stages \subseteq alive

\* No stage can start or continue an iteration.
Stuck == \A s \in Stages : ~CanTake(s) /\ ~CanGive(s)

Quiescent == \A s \in Stages : queue[s] = <<>> /\ hand[s] = <<>>
Saturated == \A s \in Stages : Len(queue[s]) = QueueSize /\ hand[s] # <<>>

\* The ring of start_machine stops in two ways only: the program is finished
\* and nothing is under way, or every queue is full and every stage blocks in
\* queue_add.  No other circular wait exists.
StuckShape == Running /\ Stuck => Quiescent \/ Saturated

\* Whatever the interleaving of the five processes, the machine prints a
\* prefix of the output its test expects (programs/*/*.output): the order of
\* the output does not depend on scheduling.
OutputPrefix == IsPrefix(printed, program.output)

\* HLT has made the processing unit exit.
Halted == /\ "processing_unit" \notin alive
          /\ "timeout_process" \in alive
          /\ killed = -1

\* When the program is finished, or has halted itself, all of its output is
\* out: no token is lost in a queue, in a hand or in the matching unit.
OutputComplete == (Running /\ Quiescent) \/ Halted => printed = program.output

\* What is on its way: tokens, pairs of tokens and execution packets.
TokensUnderWay == hand["processing_unit"] \o queue["io_switch"] \o hand["io_switch"]
                  \o queue["matching_unit"]
PairsUnderWay == hand["matching_unit"] \o queue["instruction_store"]
PacketsUnderWay == hand["instruction_store"] \o queue["input_module"]
                   \o hand["input_module"] \o queue["processing_unit"]

\* The assertions of ready_token_pair_from_tokens and run_instruction_store,
\* which only a DEBUG build evaluates: an instruction that reads its second
\* operand gets a pair whose second token exists, is of the same iteration and
\* instruction, and is for the other input.
OperandsBelongTogether ==
    \A pair \in ToSet(PairsUnderWay) :
        booted /\ ReadsSecondToken(store, pair) =>
            /\ pair.token_2 # NoToken
            /\ Matching!Key(pair.token_1) = Matching!Key(pair.token_2)
            /\ DestinationToInput(pair.token_1.destination) = INPUT_ONE
            /\ DestinationToInput(pair.token_2.destination) = INPUT_TWO

\* The number of tokens, pairs and packets that carry a return location.
Carriers(key) ==
    LET IsSecond(pair) == pair.token_2 # NoToken /\ pair.token_2.data = key
    IN  Cardinality({t \in waiting : t.data = key})
        + Len(SelectSeq(TokensUnderWay, LAMBDA t : t.data = key))
        + Len(SelectSeq(PairsUnderWay, LAMBDA pair : pair.token_1.data = key \/ IsSecond(pair)))
        + Len(SelectSeq(PacketsUnderWay, LAMBDA p : key \in {p.data_1, p.data_2}))

\* In trap mode, whatever the handler answers, the question about a withheld
\* token is in the machine exactly once: no token is withheld for ever, and no
\* verdict comes for a token that is not there.
AskedOnce == Running => \A key \in DOMAIN withheld : Carriers(key) = 1

\* README.md says of trap mode: "If `1` is sent to the return_location, then the
\* execution result will be sent, if anything else, then it will not."  A
\* program whose handler answers 1 to nothing that is printed prints nothing.
DeniedPrintsNothing == program.denied => printed = <<>>

\* A program that is not interrupted prints all of its output in the end.
Completes == <>(printed = program.output \/ alive # Children)

\* When the parent has exited, none of its children is left.
NoOrphans == ParentGone => alive = {}

\* However a child dies, or if none does, the parent ends the machine.
Teardown == <>[](ParentGone /\ alive = {})
=============================================================================
