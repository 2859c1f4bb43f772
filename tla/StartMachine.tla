---------------------------- MODULE StartMachine ----------------------------
(***************************************************************************)
(* start_machine of service/src/manchester.c at the grain of fork, wait    *)
(* and kill: a child can die while its parent is still forking, a fork can *)
(* fail, and the instruction store comes back from run_instruction_store   *)
(* when it cannot open the program.  It then runs the rest of              *)
(* start_machine itself, as a second supervisor whose own variable         *)
(* instruction_store is 0.                                                 *)
(*                                                                         *)
(* A process is the pair of the supervisor that forked it and its name.    *)
(* What the stages compute is the matter of Machine; here they live or     *)
(* die.  The pid of a reaped child is not given to anybody else.           *)
(***************************************************************************)
EXTENDS Integers, Sequences, FiniteSets

CONSTANTS Openable,        \* can the program be opened? a set of BOOLEANs
          Crashing,        \* the stages that may die by themselves
          MaxForkFailures  \* bound: how many forks may fail

ASSUME StartAssumption ==
    /\ Openable \subseteq BOOLEAN
    /\ MaxForkFailures \in Nat

Supervisors == {"parent", "store"}

ForkOrder == << "instruction_store", "input_module", "processing_unit", "io_switch",
                "matching_unit", "timeout_process" >>
KillOrder == << "processing_unit", "instruction_store", "matching_unit", "io_switch",
                "input_module", "timeout_process" >>
Children == {ForkOrder[i] : i \in DOMAIN ForkOrder}

Root == <<"root", "parent">>
Self(s) == IF s = "parent" THEN Root ELSE <<"parent", "instruction_store">>
ChildrenOf(s) == {s} \X Children
Processes == {Root} \cup (Supervisors \X Children)

\* The processes outside the machine: those in the process group that it was
\* started in, and the others of the user.
Outside == {"group", "user"}

VARIABLES opens,     \* the program can be opened
          pc,        \* what each supervisor does: fork, wait, kill, exit
          n,         \* which child it does it to
          pid,       \* what its six variables hold: a child, 0 or -1
          running,   \* processes that execute
          zombies,   \* dead processes whose parent has not waited for them
          failures,  \* forks that have failed
          harmed     \* processes outside the machine that it has killed

vars == <<opens, pc, n, pid, running, zombies, failures, harmed>>

Init ==
    /\ opens \in Openable
    /\ pc = [s \in Supervisors |-> IF s = "parent" THEN "fork" ELSE "none"]
    /\ n = [s \in Supervisors |-> 1]
    /\ pid = [s \in Supervisors |-> [c \in Children |-> "unset"]]
    /\ running = {Root}
    /\ zombies = {}
    /\ failures = 0
    /\ harmed = {}

-----------------------------------------------------------------------------

At(s, where) == Self(s) \in running /\ pc[s] = where

\* The next child, or the next phase when there is none.
Advance(s, phase) ==
    /\ pc' = [pc EXCEPT ![s] = IF n[s] = Len(ForkOrder) THEN phase ELSE @]
    /\ n' = [n EXCEPT ![s] = IF @ = Len(ForkOrder) THEN 1 ELSE @ + 1]

Fork(s) ==
    LET c == ForkOrder[n[s]]
    IN  /\ At(s, "fork")
        /\ running' = running \cup {<<s, c>>}
        /\ pid' = [pid EXCEPT ![s][c] = "child"]
        /\ Advance(s, "wait")
        /\ UNCHANGED <<opens, zombies, failures, harmed>>

\* fork returns -1; nobody looks.
ForkFails(s) ==
    /\ At(s, "fork")
    /\ failures < MaxForkFailures
    /\ failures' = failures + 1
    /\ pid' = [pid EXCEPT ![s][ForkOrder[n[s]]] = "minus_one"]
    /\ Advance(s, "wait")
    /\ UNCHANGED <<opens, running, zombies, harmed>>

\* open fails in run_instruction_store, which returns into start_machine of
\* the child: there fork has returned 0.
OpenFails ==
    /\ ~opens
    /\ At("store", "none")
    /\ pc' = [pc EXCEPT !["store"] = "fork"]
    /\ n' = [n EXCEPT !["store"] = 2]
    /\ pid' = [pid EXCEPT !["store"]["instruction_store"] = "zero"]
    /\ UNCHANGED <<opens, running, zombies, failures, harmed>>

\* A process ends, and is a zombie from then on.
End(p) ==
    /\ running' = running \ {p}
    /\ zombies' = zombies \cup {p}

\* A stage exits (HLT, a program that cannot be loaded) or is killed by a signal.
Die(s, c) ==
    /\ <<s, c>> \in running
    /\ End(<<s, c>>)
    /\ UNCHANGED <<opens, pc, n, pid, failures, harmed>>

\* sleep(timeout) returns.
Timeout(s) ==
    /\ <<s, "timeout_process">> \in running
    /\ End(<<s, "timeout_process">>)
    /\ UNCHANGED <<opens, pc, n, pid, failures, harmed>>

\* Mutant: waitpid(processing_unit).
WaitForOne(s) ==
    /\ At(s, "wait")
    /\ <<s, "processing_unit">> \in zombies
    /\ zombies' = zombies \ {<<s, "processing_unit">>}
    /\ pc' = [pc EXCEPT ![s] = "kill"]
    /\ UNCHANGED <<opens, n, pid, running, failures, harmed>>

\* wait(NULL): one dead child is reaped; without any child it returns at once.
Wait(s) ==
    /\ At(s, "wait")
    /\ IF ChildrenOf(s) \cap (running \cup zombies) = {}
       THEN UNCHANGED zombies
       ELSE \E p \in zombies \cap ChildrenOf(s) : zombies' = zombies \ {p}
    /\ pc' = [pc EXCEPT ![s] = "kill"]
    /\ UNCHANGED <<opens, n, pid, running, failures, harmed>>

\* Mutant: the kills stop at the first child that is dead already.
KillStops(s) ==
    LET p == <<s, KillOrder[n[s]]>>
    IN  /\ At(s, "kill")
        /\ pid[s][KillOrder[n[s]]] = "child"
        /\ running' = running \ {p}
        /\ zombies' = zombies \cup (running \cap {p})
        /\ IF p \in running THEN Advance(s, "exit")
           ELSE pc' = [pc EXCEPT ![s] = "exit"] /\ UNCHANGED n
        /\ UNCHANGED <<opens, pid, failures, harmed>>

\* Mutant: the instruction store is not among those that are killed.
KillSpares(s) ==
    LET p == <<s, KillOrder[n[s]]>>
        killed == running \cap ({p} \ ({s} \X {"instruction_store"}))
    IN  /\ At(s, "kill")
        /\ pid[s][KillOrder[n[s]]] = "child"
        /\ running' = running \ killed
        /\ zombies' = zombies \cup killed
        /\ Advance(s, "exit")
        /\ UNCHANGED <<opens, pid, failures, harmed>>

\* kill(pid, 9) of a child.
Kill(s) ==
    LET p == <<s, KillOrder[n[s]]>>
    IN  /\ At(s, "kill")
        /\ pid[s][KillOrder[n[s]]] = "child"
        /\ running' = running \ {p}
        /\ zombies' = zombies \cup (running \cap {p})
        /\ Advance(s, "exit")
        /\ UNCHANGED <<opens, pid, failures, harmed>>

\* kill(0, 9): the process group, which is that of whoever has started the
\* machine; the caller included.
KillGroup(s) ==
    /\ At(s, "kill")
    /\ pid[s][KillOrder[n[s]]] = "zero"
    /\ running' = {}
    /\ zombies' = zombies \cup running
    /\ harmed' = harmed \cup {"group"}
    /\ UNCHANGED <<opens, pc, n, pid, failures>>

\* kill(-1, 9): everything the user runs, except the caller.
KillAll(s) ==
    /\ At(s, "kill")
    /\ pid[s][KillOrder[n[s]]] = "minus_one"
    /\ running' = {Self(s)}
    /\ zombies' = zombies \cup (running \ {Self(s)})
    /\ harmed' = Outside
    /\ Advance(s, "exit")
    /\ UNCHANGED <<opens, pid, failures>>

\* start_machine returns to main, which returns 0.
Exit(s) ==
    /\ At(s, "exit")
    /\ End(Self(s))
    /\ UNCHANGED <<opens, pc, n, pid, failures, harmed>>

Supervise(s) ==
    \/ Fork(s) \/ Wait(s) \/ Kill(s) \/ KillGroup(s) \/ KillAll(s) \/ Exit(s)

Next ==
    \/ \E s \in Supervisors : Supervise(s) \/ ForkFails(s) \/ Timeout(s)
    \/ OpenFails
    \/ \E s \in Supervisors, c \in Crashing : Die(s, c)

Spec == Init /\ [][Next]_vars

\* Processes that can run are run, and the time limit runs out.
FairSpec ==
    /\ Spec
    /\ \A s \in Supervisors : WF_vars(Supervise(s)) /\ WF_vars(Timeout(s))
    /\ WF_vars(OpenFails)

-----------------------------------------------------------------------------
(* Properties *)

\* Type invariant: what the variables hold, and how far each loop is.
TypeOK ==
    /\ opens \in BOOLEAN
    /\ pc \in [Supervisors -> {"none", "fork", "wait", "kill", "exit"}]
    /\ n \in [Supervisors -> 1 .. Len(ForkOrder)]
    /\ pid \in [Supervisors -> [Children -> {"unset", "child", "zero", "minus_one"}]]
    /\ running \subseteq Processes
    /\ zombies \subseteq Processes
    /\ failures \in Nat
    /\ harmed \subseteq Outside

\* Nothing outlives the parent.
NothingLeft == Root \notin running => running = {}

\* When the program can be opened, the parent leaves nothing running, however
\* early a child dies and whichever forks fail.
OpenedLeavesNothing == opens => NothingLeft

\* What makes it so: only the parent supervises.
OnlyParent ==
    opens => /\ pc["store"] = "none"
             /\ running \subseteq {Root} \cup ChildrenOf("parent")

\* The parent forks nothing once it waits, and what it has killed is gone.
ParentKills ==
    /\ pc["parent"] = "wait" => n["parent"] = 1
    /\ Root \in running /\ pc["parent"] = "kill" =>
          \A i \in 1 .. (n["parent"] - 1) : <<"parent", KillOrder[i]>> \notin running
    /\ Root \in running /\ pc["parent"] = "exit" =>
          running \cap ChildrenOf("parent") = {}

\* Without a failed fork the machine ends in one of two ways, and the race of the
\* two supervisors decides which.  Either the second one comes to its second
\* kill, of 0: then all of the machine is gone, and the process group that it
\* was started in with it.  Or nothing outside the machine is touched, and all
\* that can outlive the parent are stages that the second supervisor has forked.
EndsOneOfTwoWays ==
    failures = 0 =>
        /\ \/ harmed = {}
           \/ harmed = {"group"} /\ ~opens /\ running = {}
        /\ Root \notin running => running \subseteq ChildrenOf("store")

\* What makes it so: -1 comes from a failed fork and 0 from a failed open.
PidsFrom ==
    /\ \A c \in Children : pid["parent"][c] # "zero"
    /\ failures = 0 => \A s \in Supervisors, c \in Children : pid[s][c] # "minus_one"

\* Once the process of the time limit is there the parent ends, the second
\* supervisor or not; and without a failed fork everything else ends with it
\* if the program can be opened.
LimitHolds ==
    /\ (pid["parent"]["timeout_process"] = "child") ~> (Root \notin running)
    /\ [](failures = 0) /\ opens => <>[](running = {})
=============================================================================
