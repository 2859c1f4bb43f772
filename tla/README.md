# A TLA+ model of the Manchester dataflow machine (parallel-af)

`service/src` implements a dataflow computer as five Unix processes in a ring of
five shared-memory queues, with a parent process that starts and ends them, and a
tool chain in Python that compiles, assembles and strips programs for it. A
program is a graph of instructions. A *token* carries a data word and a *tag*
(which call, which iteration) to an input of an instruction, and an instruction
fires when its operands have met. Nothing orders two instructions except the
tokens between them, so nearly everything that can go wrong is a matter of
interleaving, of bounded queues, of tags, and of who is told when a process ends.

This directory holds TLA+ modules for that system, TLC configurations that check
them on small instances, and proofs that TLAPS checks for all instances. Source
lines below are those of `service/src`.

## 1. Inventory

| Component | State | Operations | Interacts with |
|---|---|---|---|
| shared queue (`queue.c`) | two POSIX semaphores, a process-shared mutex, head, tail, data; names in two name spaces of the system | `queue_new`, `queue_add`, `queue_remove`, `queue_free` (never called) | every two neighbouring stages; other machines, through the names |
| matching unit (`matching_unit.c`) | hash table of chains of waiting tokens | receive a token: forward it, let it wait, or pair it and remove its partner | reads from the I/O switch, writes to the instruction store |
| instruction store (`instruction_store.c`, `sephi.h`) | instructions, exported symbols | load the first program, emit the instructions that need no token, fetch the instruction of a pair, `LOD` (load a file and call its `main`) | reads pairs, writes packets to the input module |
| input module (`input_module.c`) | open files (kept by the kernel) | carry out a file instruction and turn the packet into a `DUP` of the result; pass any other packet | between instruction store and processing unit |
| processing unit (`processing_unit.c`) | none; in trap mode the table of withheld tokens | compute, send one or two tokens, `HLT` (exit); in trap mode withhold, ask, release | writes tokens to the I/O switch |
| hash map (`khash.h`) | buckets with flags, size, number used | `kh_get`, `kh_put`, `kh_resize`, `kh_del` | trap mode |
| I/O switch (`io_switch.c`) | none (stdout) | print, discard, or pass a token | writes to the matching unit |
| start and teardown (`manchester.c`) | pids of six children | create the queues, fork five stages and the process that sleeps for the time limit, `wait`, six `kill`s | all |
| words (`types.h`, `types.c`) | – | pack and unpack destinations and tags, arity of opcodes | all |
| compiler (`compiler.py`, `grammar.lark`) | names of variables, tag of the scope, guard of constants | force program to TASS source | assembler |
| assembler (`assembler.py`) | a graph of nodes, labels, definitions | TASS source to graph, to image | produces what the store loads |
| strip tool (`strip.py`) | a mapping of symbols | rename the symbols of several images in place | images of the loader |
| operating system and utilities (`*.force`) | – | programs for the machine | run on it |

What is hard here:

* **Concurrency in the queue.** Two semaphores are taken outside the mutex, so a slot
  is in between states for several steps of a call. The wrap test is an equality.
* **Names.** All machines on a host create their queues under the same five names.
* **The matching unit's table.** Keys collide, entries are unlinked from the middle of
  a chain, and a pair is sent, which may block, before its token is removed.
* **Order.** The output of a program must not depend on the schedule of the five
  processes, and a `HLT` must not overtake output.
* **A ring of bounded queues.** A two-output instruction makes two tokens of one, so
  the ring can fill up and everybody waits for everybody.
* **Starting and ending.** Forks fail, children die while their parent still forks, and
  halting, finishing, the time limit and a stage killed by a signal race.
* **Uninitialised data.** The second token of an unpaired pair is stack memory.
* **Loading at run time**, with relocation, symbols and removal of privileges, and
  loads that fail half-way.
* **Trap mode**, which withholds every result of user code until a handler approves it,
  in a hash map that rehashes in place.
* **Translation.** Loops, branches and calls become tags and guards; nothing but these
  keeps iterations and calls that overlap apart.

`PROJECT.json` lists these under `hazards`, each with its line and with the properties
that would catch it, or with the reason why none does.

Properties that make each component correct:

* queue: a linearizable bounded FIFO for any number of writers and readers, and calls return;
  its names are given back, and its semaphores are its own;
* matching unit: each token waits under its key until its partner comes, and leaves with it once;
* instruction store: an instruction gets the operands meant for it; loaded code stays what it was linked
  to, and nothing links to what a failed load has left;
* processing unit: the arithmetic of the words and the tags of results; a withheld token is asked about once;
* hash map: a map, at every step of a resize, with calls that end;
* machine: the output is that of the program under every schedule; it stops only when finished or full;
  the parent leaves nobody behind, and it is known when the machine harms others;
* assembler: a result reaches each of its uses once, and waits for the operands that are read;
* compiler: a program prints what its source says;
* strip tool: a machine cannot tell stripped files from the originals.

## 2. Modules

| Module | Models | Notes |
|---|---|---|
| `BoundedFifo` | what `queue.h` promises | abstract: a call is an interval with one indivisible effect |
| `SharedQueue`, `QueueProofs` | `queue_add`, `queue_remove` | one action per `sem_wait`, lock, `memcpy`, advance + unlock, `sem_post`; `stored` is a history variable |
| `QueueNames`, `QueueProofs`, `MCQueueNames` | `queue_new` | one action per system call, several machines at once, failures and kills; `alone` and `short` are history variables |
| `MachineTypes` | `types.h`, `types.c` | word widths are constants |
| `MatchingStore` | what the matching unit promises | abstract: a set of waiting tokens |
| `MatchingUnit`, `MatchingUnitProofs`, `MCMatchingUnit` | `matching_unit.c` | chains as sequences; `pc` records the `queue_add` it blocks in |
| `FunctionUnit` | `function_unit`, `send_result` | operators; `random()` is an argument |
| `Loader` | the format of `sephi.h`, `load_file` and its helpers | operators on stores; the loop over the references is a recursive function |
| `CodeStore`, `LinkImages` | the instruction store under a sequence of loads | history of what was loaded where |
| `Instructions` | ready instructions, fetch | operators; used by `Machine` and `ForceSemantics` |
| `FileSystem` | the kernel's files, external | descriptors, offsets, contents; operators |
| `Machine`, `MachineProofs` | the five stages, the parent, trap mode | composes the above |
| `TestImages`, `MCMachine` | images of the tests, other programs | constants for TLC |
| `StartMachine`, `StartMachineProofs` | `start_machine` | one action per fork, `wait`, `kill` |
| `TokenMap` | what trap mode takes `khash.h` for | abstract map |
| `KHash`, `KHashProofs`, `MCKHash` | `kh_get`, `kh_put`, `kh_resize`, `kh_del` | one action per step of the rehash loop |
| `Assembler`, `AssemblerProofs` | `assembler.py` | one action per line, per node, per pass; the loops inside a pass are recursive functions |
| `Delivery` | where the results of a definition arrive | a recursive walk over the graph, for `LastDefinitionDelivers`; TLC only |
| `Compiler` | `compiler.py` | operators on the state of the visitor |
| `ForceSemantics`, `ForcePrograms`, `MCAssembler` | reference interpreter, programs, sources | for the run `assembler` |
| `Strip`, `StripProofs`, `MCStrip` | `strip.py` | extends `CodeStore`: stripped and original files are loaded side by side; the proofs are about the store under these loads |
| `NaturalFacts` | – | lemmas for the proofs: least elements, induction over a set, powers of two, triangular numbers, sequences of anything |

How state and actions correspond to the code:

* `SharedQueue`: `canWrite`, `canRead`, `lock`, `head`, `tail`, `data` are the fields of `queue` and
  `shared_queue` (pointers as slot numbers); `pc[p]` is where process `p` stands in its call and `elem[p]`
  the buffer it passed. `Init` is what `queue_new` leaves.
* `QueueNames`: `call[m]` is where machine `m` stands in `queue_new`, `shm` and `sem` are what the name denotes in the two name spaces; `writes` and `reads` the
  semaphores each machine has opened, each named after the call that created it. `Fail` is the error path with
  its `shm_unlink`. Five names do not affect each other, so there is one.
* `MatchingUnit`: `table[i]` is the chain of bucket `i`. The loop of `run_matching_unit` is broken at its two
  calls of `queue_add`: `ReceiveUnmatched`/`Forward` for a token without partner, `ReceiveFirst` for one that
  has to wait, `ReceiveSecond`/`SendPair` for the second of a pair. `token_2` of an unpaired token is
  uninitialised in the code; the model marks it `NoToken`.
* `Machine`: `queue[s]` is the queue stage `s` reads. An iteration of a stage takes one element and computes
  (`InstructionStore`, `InputModule`, `ProcessingUnit`, `IoSwitch`, `MatchingUnit`); its results wait in
  `hand[s]` and `Give(s)` adds them one at a time. Between the two a stage touches only memory of its own, or
  files, so this is the grain at which other processes see it. `store` is the instruction store's code and
  exports, `waiting` the matching unit's tokens, `withheld` the hash map of trap mode, `printed` what has gone to
  stdout, `alive` and `killed` the children and the progress of the parent through its kills. An instruction that
  reads the second token of an unpaired pair gets an arbitrary word.
* `StartMachine`: a process is the pair of who forked it and its name. Two supervisors run `start_machine`: the
  parent, and the instruction store when it comes back from a program it cannot open (`OpenFails`), with 0 in its own
  pid variable. `kill` goes to what the variable holds: a child, 0 (`KillGroup`:
  the process group, to which whoever started the machine belongs) or -1 (`KillAll`: all of the user's). `harmed` is what that hits outside the machine.
* `KHash`: `flags`, `keys`, `vals`, `size`, `nOccupied` are the fields of `kh_t`; `new` is the flag array of the
  table that a resize fills, `hand` the element that has been kicked out.
* `Assembler`: `nodes`, `labels`, `variables`, `exports`, `externs` are those of `parse_create_ir_graph`; `phase` says
  which function is at work. A `sys.exit` or a failed assertion is the phase `error`. `parsed`, a history variable, keeps the nodes as the lines gave them.
* `Compiler`: a visitor method is an operator from state to state. A set that Python iterates over is taken in the order
  that is a parameter of `Compile`, since that order differs from run to run. `halt.force` and `seek.force` give
  the shipped images to the bit (`AssemblesAsShipped`).
* `Strip`: `StripFile` rewrites one file with the mapping so far; `LoadBoth` loads it and its original into two stores.

The composition rests on refinements: `Machine` uses a queue as a sequence with atomic ends, which
`QueueImplementsFifo` justifies, the operators of `MatchingStore` for its matching stage, which `TableImplementsStore`
justifies, and a function for the hash map of trap mode, which `TableImplementsMap` justifies. `TableImplementsStore` also shows
that it makes no difference that the partner of a pair leaves the table only after the pair is on the queue.

What is abstracted: parsing of files and of source text (an image is well formed or not, and then a record of its tables;
a line is a record, a force program a tree); strings (a file name or a printed text is a number); the exit status. Only the
build without `DEBUG` is modelled; its assertions are `OperandsBelongTogether`.

## 3. Runs

| Run | Instance | Shows |
|---|---|---|
| `queue` | 2 writers, 2 readers, 2 slots, 2 elements | `MutualExclusion`, `PermitAccounting` (each slot is free, filled or in exactly one process's hands), `RingShape` (head and tail are as far apart as the contents), `ImplementsFifo`, `CallsReturn` (calls at each end return again and again) |
| `queue_names` | 4 machines, one may be killed, one lacks memory | `NamesAreTransient`, `AloneGetsQueue`, `SomebodyGetsQueue` (not all of a group are turned away) |
| `queue_names_shared` | 2 machines | *violated*: `SemaphoresCountOwnQueue` |
| `matching_unit` | 6 keys in 2 buckets, 15 tokens | `TableSearchable`, `PairIsOfTable`, and `ImplementsMatchingStore` |
| `machine_programs` | 18 programs, 2 slots | `OutputPrefix` and `OutputComplete` (the output is the expected one under every schedule), `OperandsBelongTogether` (the assertions of the DEBUG build), `Completes` |
| `machine_teardown` | 4 programs, 1 slot, two stages that may be killed | `StuckShape`, `NoOrphans`, `Teardown` |
| `machine_trap` | 5 programs behind handlers that approve everything, no output, or nothing | `AskedOnce`, `OutputComplete`, `Completes` |
| `machine_trap_load` | a denying handler that loads a file | *violated*: `DeniedPrintsNothing` |
| `start_machine` | program that can or cannot be opened, one failing fork, two stages that may die | `OpenedLeavesNothing`, `EndsOneOfTwoWays` (what is killed outside the machine, and what can be left of it), `LimitHolds` |
| `khash` | 4 colliding keys, up to 8 buckets | `Accounting`, `NothingLost`, `ImplementsMap`, `PutReturns` |
| `load_and_strip` | 9 files, stripped up to twice, up to 4 loads | `LiveCodeLinked`, `ExportsAreLive`, `CodeStays`, `LoadsAlike` |
| `assembler` | 6 TASS sources of the tests, all sources of 5 (4) lines out of 6 (7), all of 4 lines with arguments that do not fit, 13 force programs of the tests, programs with loops, branches and calls inside each other, and about 500 small ones | `LastDefinitionDelivers`, `OperandsAgree`, `NoRedundantDup`, `AssemblesAsShipped`, `PrintsAsWritten` |

Ten of the programs of `machine_programs` are images that the repository's assembler and compiler produced for its tests
(`local-tester/programs/*/*.bin`): `merge`, `branching`, `branching_2`, `test`, `literals`, `single_function_call`, `basic_loop`,
`halt`, `operations` and `multiple_function_calls`, with the outputs of their `.output` files; four use files: `stdin_read`, `input_operations`, `seek`, and one that
creates, copies, seeks, unlinks, lists, closes and fails to open. The others reach what those do not: loading a file and calling its
`main` (with a privileged instruction that must become a `DUP`), loads that fail, and two calls of one function at the same time.
The programs of `machine_teardown` fill the ring, halt, finish, and cannot be loaded.

`PrintsAsWritten` compares, for each compiled program, what a sequential interpreter of the source prints (`OutputOf`) with what the
assembled image prints on a machine with one order of execution (`Printed`), as bags: the order of output is fixed only by
data in this language. `machine_programs` is what shows that the order of execution makes no difference.

Bounds and why they are enough:

* *Slots.* Two slots and two processes at each end make every kind of contention happen: for the last free slot,
  for the last element, for the mutex, and a wrap at every second call. The theorems hold for every number.
* *Queues of the machine.* `MAX_QUEUE_SIZE` is 1024 in the code. One or two slots make the stages block on
  each other as often as possible, and a schedule of a larger queue in which no stage runs ahead by more than
  that is also one of the small queue. `RingDeadlocks` covers every size. Trap mode makes three tokens of one, and
  needs six slots not to fill up.
* *Words.* Addresses have 5, 6 or 8 bits instead of 28, iteration counts 4 and areas 12 instead of 32 each, so data words
  16 instead of 64. None of the programs needs more: at most 38 instructions on the machine and fewer than 251 when compiled, ten
  iterations, values below 2^15. The special destinations stay the top five addresses.
* *Random numbers.* Tag areas are 0 (the area of the caller, the worst draw for one call) and 1, or fresh ones; in trap mode all keys differ.
* *Trap handler.* `TrapCodeLimit` is 6 or 9 instead of 100: the handlers have as many instructions.
* *Table.* Two buckets and six keys: chains of three entries, from which the first, the middle and the last are removed.
* *Hash map.* Keys that share the last bucket of four and two of them that of eight: probing wraps around, deleted buckets are
  met and reused, and a resize finds elements in its way.
* *Names.* Four machines: three that meet inside `queue_new` in every way, besides one that is killed or starved. The theorems hold for
  every number.
* *Forks.* One failing fork already puts -1 in any of the six variables; `MaxForkFailures` is free in the theorems.
* *Loads.* Four loads: a definition, a rival definition or failed load, a client, and one more on top.
* *Sources.* The lines whose arguments do not fit are a literal before the variable of `BRR`, a label before a variable, a second argument of `NTG` and `LOD` with a literal;
  the other lines send tokens to them.
* *Small programs.* Bodies of up to two statements out of four (assignment of a constant, of a sum, of a call, output) in a loop or a branch, branches
  in loops and before loops, loops up to three times around. Programs of the tests and nested ones are compiled with
  two orders of names, opposite to each other.
* `Crashing` in `Machine` has two stages, one each side of the processing unit, which can also exit itself; a dead stage is a dead
  stage to the parent. `NoOrphans` is proved for every choice.

`CHECK_DEADLOCK FALSE` is where the system ends: the machine when the parent has killed its children, `queue_new` when it has returned,
the assembler when it has written, the loader when all loads are made.

Fairness is weak fairness of each process: the kernel runs a process that can run, and the stages loop for ever. Nothing is
assumed about who gets a contended mutex or semaphore, which is why `CallsReturn` says that at each end *some* call returns again and again
and not every one; at a queue of the machine, with one process at each end, the two are the same. `RunningSpec` in `Machine` is this fairness;
`FairSpec` adds that the sleeping process wakes, as `sleep` guarantees; without it a saturated ring never ends, and `Teardown` needs it. `Completes` does
without. In `StartMachine` the supervisors and the sleeping processes are fair, the deaths of stages are not. `FairSpec` of `KHash` says that a call of `kh_put`
that has begun goes on.

Every property of every passing run has a mutant in `PROJECT.json`: a plausible mistake in the code (a mutex that is not
process-shared, an unlinked wrong entry, a forgotten `kill`, a swapped operand order) under which TLC finds the property
violated. The mutants stand in the modules just before the definitions they replace.

### What the two violated runs show

* `queue_names_shared` (`queue.c:73`): both semaphores of a queue are opened under one fixed name without `O_EXCL`, and the name is unlinked in
  between. A machine that starts meanwhile opens the semaphore of the other, even the one with the other initial count. The comments at
  `queue.c:153` and `185` say what the semaphores are expected to count.
* `machine_trap_load` (`instruction_store.c:44`): `README.md:52` says that a result is sent only if the handler answers 1. The packets of the ready
  instructions of a loaded file carry an input counted from the start of the file; the processing unit takes those below
  `TRAP_CODE_LIMIT` for handler code, and does not ask.

### Other disagreements met while modelling

They are what conditions in the properties are for; none is a run of its own.

* `instruction_store.c:389`: a program that cannot be opened makes the instruction store a second supervisor; the stages it forks can outlive the parent.
  `OpenedLeavesNothing` has the condition `opens`. If it gets as far as its second `kill` it kills process group 0 (`manchester.c:134`), which takes the parent, and the
  wrapper or shell that started the machine, with it. Which of the two happens is a race; `EndsOneOfTwoWays` says that nothing else does.
* `instruction_store.c:295`: an external reference whose number equals the number of instructions is accepted, although the message at 298 calls
  it out of bounds. The code writes into the memory behind the last instruction, which the next load overwrites; the store of the model ends with its instructions, so
  `Resolve` changes nothing there (`EdgeLinked` in `LinkImages`), and no property sees the write itself.
* `assembler.py:553`: a variable with several definitions and more than two uses: a `DUP` replaces the list of definitions while the loop goes over it, and
  earlier definitions miss uses. `LastDefinitionDelivers` is exact for the last one.
* `assembler.py:181`: the word 0 as a second destination counts as none.
* `assembler.py:455` and `493`: "literals must only be on the second input" is tested only for numbers in assignments. A literal before the variable of `BRR`, a label before
  a variable and a second argument of `NTG` are accepted, and the token becomes the wrong operand; `LOD` with a literal waits for one token while the instruction store reads two
  (`instruction_store.c:440`). `ArgumentsFit` tells these statements apart, and `OperandsAgree` says of each what still holds. A literal as argument of `OUTD` gives no instruction.
* `compiler.py:280`: the value that starts a loop is that of the first variable, in the order of a Python set, that has a *name* before the loop. If it has no value on this path,
  because it is assigned only in a branch that is not taken or first in an inner loop, the loop never starts. The same program works in another
  run of the compiler. The programs of the run avoid this.

## 4. Proofs

Proved by TLAPS for every value of the constants, under the named assumptions of the modules:

| Assumption | Says | Why the code justifies it |
|---|---|---|
| `NAssumption`, `QueueAssumption`, `TableAssumption`, `ProcessAssumption`, `ElementAssumption`, `NoneAssumption` | at least one slot and bucket, finitely many processes, writers and readers distinct, markers for nothing not among the things | `MAX_QUEUE_SIZE` is 1024; markers exist only in the model |
| `MachinesAssumption` | a finite set of machines that is not empty | somebody calls `queue_new` |
| `WidthAssumption` | widths that let a data word hold a tag and a destination | 28, 32, 32 and 64 bits |
| `IncomingAssumption` | tokens are records with the fields of `token`, and `NoToken` is none of them | `types.h` |
| `HashAssumption` | a hash is a natural number, `NoKey` is not a key | `kh_int64_hash_func` gives an unsigned word |
| `OriginalsAssumption` | files have the format of `sephi.h`, an exported symbol is an instruction of its file, and `MaxLoads` files of the largest size have fewer than 2^28 instructions together; there is a file | the assembler exports labels of instructions; 2^28 instructions are 10 GB. `load_file` checks neither. Only `SymbolsAreLive` needs them |
| `MainAssumption` | no file refers to a symbol whose name starts like one of the two that the machine looks up itself | true of every `extern` in the repository. `strip.py` keeps such a name where it is exported and replaces it where it is referred to, so `LoadsAlike` is false without it |
| `NumberNameAssumption` | different numbers have different names, none of them starts like one of those two | the names are Python's `str` of a counter. The range is finite so that TLC can evaluate the assumption |
| `LinesAssumption` | a statement has a pair of arguments, either of which may be missing | this is the shape of a line in the model; which arguments there are is free |

**Shared queue.** `PointersInside`, `OneInside`, `SlotsAccounted` and `RingIntact` state `TypeOK`, `MutualExclusion`, `PermitAccounting` and
`RingShape`. The four together are inductive (`QueueInvariant`), none is alone: that a process between its `sem_wait` and its advance finds a slot
(`PermitMeaning`) follows from the accounting over all processes; that the accounting survives a step is counting in finite
sets (`GroupSteps`, `GroupSilent`, `AccountingStep`); the shape of the ring needs mutual exclusion, because it speaks
of the process between `memcpy` and advance. `QueueImplementsFifo`: every step of `SharedQueue` is a step of `BoundedFifo` or a
stutter, a call taking effect when its pointer advances. The lemmas say what a step does to the contents: a copy leaves them
(`CopyKeepsContents`), an advance of the tail appends (`AdvanceAppends`), an advance of the head removes the first (`AdvanceRemoves`).

**Names of queues.** `NamesGivenBack`, `UndisturbedGetsQueue` and `NotAllTurnedAway`. `NamesAreTransient` is inductive with the
types. `AloneGetsQueue` needs `AloneInside`: as long as a machine is alone, nobody else is inside `queue_new`, a name is its own
while it has one, and the semaphores opened so far are its own. That nobody who left has kept a name is `NamesAreTransient` again.
`SomebodyGetsQueue` needs `SomebodyAdvances`: a machine is turned away only by another one that took a name from it, and that one
is further on; so somebody is always where nobody can turn it away, or a name is there whose next remover goes on.

**Matching unit.** `TableTyped`, `SearchFindsTheToken` and `PairBelongsTogether` state `TypeOK`, `TableSearchable` and `PairIsOfTable`; the three
together are inductive: that the removal finds its entry is what `PairIsOfTable` is for. `TableImplementsStore`: chains are sequences from which one entry is
cut out, and the lemmas say that exactly that entry is gone from the set of entries. The partner leaves the abstract store when the pair is
formed and the table when it has been sent; the mapping `WaitingTokens` takes it out in between.

**Hash map.** `CountersExact`, `ResizeLosesNothing` and `TableImplementsMap`, for every set of keys, every hash function and every sequence of
`kh_put`, `kh_del` and resizes. The inductive invariant has five parts: the types of the table (a power of two of buckets), the types of a resize under
way, that no key is there twice, that `size` and `n_occupied` count, and `ElementsReached`: each element is on the probe sequence of its key
with no empty bucket before it. The last is what makes a search right, and needs arithmetic: the buckets that
`kh_put` probes are at triangular distances, and these meet each remainder modulo a power of two once (`TriangularInjective`,
`TriangularReaches`, in `NaturalFacts`, from `OddFactor`: of `i - j` and `i + j + 1` one is odd). So a search ends at
the first empty bucket or returns to its start (`ProbeReturns`), which is when the code stops.

**Loading.** `LoadedCodeLinked`, `SymbolsAreLive` and `LoadsKeepCode` state `LiveCodeLinked`, `ExportsAreLive` and `CodeStays`, for all files, before, between and after
runs of `strip.py`. `CodeLinked` goes along the references of a file: after the first `n` of them a field holds the
destination of the last reference to it, or the relocated one; `LinksDefined` shows that the recursion has a solution. Across loads the invariant says that
segments are inside the code, that a live one is all of its file and that the symbols it refers to are still defined: `find_export` takes the first of a name,
and exports are only added behind (`SymbolStays`). That an exported address is inside its segment needs that the code fits the addresses
(`RoomForOneMore`, `AddressKept`). New names leave everything else of a file as it is (`RenamedFits`).

**Strip tool.** `StrippedFilesLoadAlike` states `LoadsAlike`: a machine that loads the stripped files has the same code in its store as one that
loads the originals, and its loads fail for the same files, for all files, loads and runs of `strip.py`. The invariant (`AlikeInv`) is that there is one injective
renaming of all symbols, identity on the names that start like the two the machine looks up, that turns each original into its file as it is now and the exports of one store into
those of the other. A run of `strip.py` replaces the renaming; until the run is complete nothing is loaded. That the new one is injective is that the mapping
counts up and that numbers have different names.

**Assembler.** `RedundantDupsRemoved` states `NoRedundantDup` for every source, well-formed or not: after `optimize_graph` no inserted `DUP` with a
single destination is left. It is not obvious because the code collects the parents of all nodes once and then removes nodes one after another.
The invariant says that an inserted `DUP` with a free destination has exactly one parent, and that this parent is the node of a line
or a `DUP` that is full; so the parents of a spare `DUP` are never removed before it, and stay what they were when collected. In
`connect` the invariant goes through one attachment (`AttachKeeps`), all uses of a variable, both inputs of a node and its literal.

`DestinationsMatchOperands` states `OperandsAgree` for every source, whatever its arguments, whose image fits the address space: each destination waits for as many tokens as the
instruction store reads for the instruction there, unless that is a `LOD` with a literal; and a token beside a literal is the first operand, unless the arguments of that
instruction do not fit. So a misfit statement spoils its own instruction only. The assembler
computes the matching function of an edge when it writes the image, from what is left of the inputs of the node at its end, long after
the edge was made. The invariant (`OperandsInv`) says that an edge to a second input leads to an instruction with two inputs neither of which is a literal (`EdgesOK`), and
that a connected node has no literal on its second input alone (`Settled`); attaching more edges, moving literals and removing `DUP`s keep both. `EmittedLists` then shows
that the index of a node, which the code keeps in `node_to_idx`, is where its instruction is, and `DestinationFields` that the word unpacks to its parts.

**Machine.** `QueuesWithinBounds`: no queue of the machine exceeds its size, whatever the program and the files, in trap mode too. The invariant
adds that queues are sequences and that killed children are dead. `RingDeadlocks`: if no stage can move, the machine is finished or all five
queues are full. A stage that blocks in `queue_add` has a full queue before it, so its reader blocks there too (`BlockingSpreads`), five
times round. `ParentLeavesNoOrphans`: when the parent is gone so are all six children; the invariant is that the children
killed so far are dead (`KilledAreDead`).

**Start and teardown.** `NothingOutlivesParent`, at the grain of forks and with any number of them failing: the invariant `ProcessInv` says
that only the parent supervises (`OnlyParent`), forks nothing once it waits, and has ended the children it has killed so far (`ParentKills`).
`MachineEndsOneOfTwoWays` states `EndsOneOfTwoWays`, about both supervisors and with the group and the user outside the machine: without a failed fork, either
the second supervisor has killed the process group, and nothing of the machine runs any more, or nothing outside was touched and only stages of
the second supervisor can outlive the parent. It needs `ParentKills`, since the parent may end before, after or while the second supervisor forks,
and `PidsFrom`: 0 is only in a variable of the second supervisor, and -1 nowhere before a fork has failed.

Induction over data is done on sets: `InductionOnSet` says that a set of natural numbers with 0 and with the successor of
each member is all of them, from which each use makes the set of the numbers for which its claim holds.

Only model-checked:

* liveness (`CallsReturn`, `Completes`, `Teardown`, `LimitHolds`, `PutReturns`), which is out of the prover's reach;
* `OutputPrefix`, `OutputComplete`, `OperandsBelongTogether` and `AskedOnce` of the machine: they are claims about the programs of the runs (a program can make its
  output depend on the schedule, send to an address with the wrong matching function, or draw one key twice);
* what `RECURSIVE` definitions compute: `LastDefinitionDelivers` (a walk over the graph) and `PrintsAsWritten` (an interpreter);
* `AssemblesAsShipped`, which compares with eight shipped images.

## 5. Not modelled, and why

* *Operating system and utilities in force*: hundreds of instructions each, beyond exhaustive search.
* *Two concurrent calls that draw the same tag area* (`processing_unit.c:30`), or two withheld tokens the same key: `random()` decides it, and
  no code looks. That `random()` is never seeded and repeats after 2^31 draws belongs here.
* *The carry of* `ITG` into the tag area is in the model but no program reaches it.
* *Reuse of pids* between `wait` and `kill` (`manchester.c:133`): the kernel's choice, nothing in the code handles it.
* *Files*: image files that are written to while loaded, `SDF` from a file to itself, the descriptors of the queues' memory, which a
  program could name.
* *Failing* `malloc`, and the functions of `khash.h` that nothing uses.
* *Text*: splitting of lines and malformed lines in the assembler, the parser, string literals and `OUTS_LITERAL`, `asm`, `--backdoor`, functions without
  parameters in the compiler, graphviz output, bytes of the image format.
* *A strip run that is interrupted* between two files, and references to the `_main_*` names, which `strip.py` keeps.
* Test drivers, patches, packaging, remote interaction.

## 6. What is left of the plan

Proofs: packing and unpacking of tags; what trap mode keeps for every handler (a withheld token is released or dropped at most once, as long
as keys differ); the loader inside the machine: that a `LOD` never changes instructions that are there.

## 7. Running it

    tlc -config SharedQueue.cfg SharedQueue
    tlc -config QueueNames.cfg MCQueueNames
    tlc -config QueueNamesShared.cfg MCQueueNames      # violated
    tlc -config MatchingUnit.cfg MCMatchingUnit
    tlc -config MachinePrograms.cfg MCMachine
    tlc -config MachineTeardown.cfg MCMachine
    tlc -config MachineTrap.cfg MCMachine
    tlc -config MachineTrapLoad.cfg MCMachine          # violated
    tlc -config StartMachine.cfg StartMachine
    tlc -config KHash.cfg MCKHash
    tlc -config Strip.cfg MCStrip
    tlc -config Assembler.cfg MCAssembler
    tlapm QueueProofs.tla
    tlapm AssemblerProofs.tla
    tlapm MachineProofs.tla
    tlapm StartMachineProofs.tla
    tlapm NaturalFacts.tla
    tlapm MatchingUnitProofs.tla
    tlapm KHashProofs.tla
    tlapm StripProofs.tla
