----------------------------- MODULE QueueNames -----------------------------
(***************************************************************************)
(* queue_new of service/src/queue.c, called under one name by several      *)
(* machines: the names of manchester.c ("/1" to "/5") are fixed and        *)
(* service.conf lets many machines run side by side.                       *)
(*                                                                         *)
(* A step is a system call.  The shared memory and the semaphores of a     *)
(* name are looked up in two name spaces; an object without a name stays   *)
(* with whoever has opened it.  The five names of a machine do not affect  *)
(* each other, so one name is enough.                                      *)
(***************************************************************************)
EXTENDS Integers, FiniteSets

CONSTANTS Machines,  \* processes that call queue_new
          Crashing,  \* those that a signal may kill in the middle of it
          Starved,   \* those for which ftruncate or mmap fails
          None       \* no object of that name

ASSUME MachinesAssumption ==
    Machines # {} /\ Crashing \subseteq Machines /\ Starved \subseteq Machines
ASSUME NoneAssumption == None \notin Machines \X {"write", "read"} /\ None \notin Machines

VARIABLES call,    \* the next system call of each machine
          shm,     \* the machine whose memory has the name
          sem,     \* the semaphore that has the name
          writes,  \* can_write_lock of each machine
          reads,   \* can_read_lock of each machine
          alone,   \* history: no other machine has been inside queue_new meanwhile
          short    \* history: memory was short for some machine

nameVars == <<call, shm, sem, writes, reads, alone, short>>

\* A semaphore is named after the call that created it: with max_count for
\* writing, with 0 for reading.
Semaphores == Machines \X {"write", "read"}

Calls == {"shm_unlink", "ftruncate", "sem_open_write", "sem_unlink_write",
          "sem_open_read", "sem_unlink_read", "mmap", "fail"}

Inside(m) == call[m] \in Calls
Returned(m) == call[m] \in {"queue", "null"}

NamesInit ==
    /\ call = [m \in Machines |-> "shm_open"]
    /\ shm = None
    /\ sem = None
    /\ writes = [m \in Machines |-> None]
    /\ reads = [m \in Machines |-> None]
    /\ alone = [m \in Machines |-> TRUE]
    /\ short = FALSE

-----------------------------------------------------------------------------

Goto(m, next) == call' = [call EXCEPT ![m] = next]

\* Machine m enters queue_new and disturbs those inside, as they disturb it.
Enter(m) ==
    alone' = [o \in Machines |-> IF o = m THEN \A i \in Machines : ~Inside(i)
                                          ELSE alone[o] /\ ~Inside(o)]

\* Mutant: an existing name is an error that is cleaned up after.
ShmOpenFails(m) ==
    /\ call[m] = "shm_open"
    /\ IF shm = None
       THEN shm' = m /\ Goto(m, "shm_unlink")
       ELSE UNCHANGED shm /\ Goto(m, "fail")
    /\ Enter(m)
    /\ UNCHANGED <<sem, writes, reads, short>>

\* With O_EXCL: an existing name is an error, and nothing is to be undone.
ShmOpen(m) ==
    /\ call[m] = "shm_open"
    /\ IF shm = None
       THEN shm' = m /\ Goto(m, "shm_unlink")
       ELSE UNCHANGED shm /\ Goto(m, "null")
    /\ Enter(m)
    /\ UNCHANGED <<sem, writes, reads, short>>

\* The name may be that of another machine by now, or be gone.
ShmUnlink(m) ==
    /\ call[m] = "shm_unlink"
    /\ shm' = None
    /\ Goto(m, IF shm = None THEN "fail" ELSE "ftruncate")
    /\ UNCHANGED <<sem, writes, reads, alone, short>>

\* ftruncate or mmap reports an error.
OutOfMemory(m) == m \in Starved /\ short' = TRUE /\ Goto(m, "fail")

Ftruncate(m) ==
    /\ call[m] = "ftruncate"
    /\ \/ Goto(m, "sem_open_write") /\ UNCHANGED short
       \/ OutOfMemory(m)
    /\ UNCHANGED <<shm, sem, writes, reads, alone>>

\* Without O_EXCL: an existing semaphore is opened, with the count it has.
SemOpenWrite(m) ==
    /\ call[m] = "sem_open_write"
    /\ sem' = IF sem = None THEN <<m, "write">> ELSE sem
    /\ writes' = [writes EXCEPT ![m] = sem']
    /\ Goto(m, "sem_unlink_write")
    /\ UNCHANGED <<shm, reads, alone, short>>

\* Mutant: the name is kept for the second semaphore.
SemUnlinkWriteForgotten(m) ==
    /\ call[m] = "sem_unlink_write"
    /\ Goto(m, "sem_open_read")
    /\ UNCHANGED <<shm, sem, writes, reads, alone, short>>

SemUnlinkWrite(m) ==
    /\ call[m] = "sem_unlink_write"
    /\ sem' = None
    /\ Goto(m, IF sem = None THEN "fail" ELSE "sem_open_read")
    /\ UNCHANGED <<shm, writes, reads, alone, short>>

SemOpenRead(m) ==
    /\ call[m] = "sem_open_read"
    /\ sem' = IF sem = None THEN <<m, "read">> ELSE sem
    /\ reads' = [reads EXCEPT ![m] = sem']
    /\ Goto(m, "sem_unlink_read")
    /\ UNCHANGED <<shm, writes, alone, short>>

\* Mutant: the second name is kept.
SemUnlinkReadForgotten(m) ==
    /\ call[m] = "sem_unlink_read"
    /\ Goto(m, "mmap")
    /\ UNCHANGED <<shm, sem, writes, reads, alone, short>>

SemUnlinkRead(m) ==
    /\ call[m] = "sem_unlink_read"
    /\ sem' = None
    /\ Goto(m, IF sem = None THEN "fail" ELSE "mmap")
    /\ UNCHANGED <<shm, writes, reads, alone, short>>

\* mmap and the initialisation of the ring, in memory nobody else has.
Mmap(m) ==
    /\ call[m] = "mmap"
    /\ \/ Goto(m, "queue") /\ UNCHANGED short
       \/ OutOfMemory(m)
    /\ UNCHANGED <<shm, sem, writes, reads, alone>>

\* close and shm_unlink, of whatever has the name now.
Fail(m) ==
    /\ call[m] = "fail"
    /\ shm' = None
    /\ Goto(m, "null")
    /\ UNCHANGED <<sem, writes, reads, alone, short>>

\* The process is killed between two calls.
Crash(m) ==
    /\ Inside(m)
    /\ Goto(m, "crashed")
    /\ UNCHANGED <<shm, sem, writes, reads, alone, short>>

QueueNew(m) ==
    \/ ShmOpen(m) \/ ShmUnlink(m) \/ Ftruncate(m)
    \/ SemOpenWrite(m) \/ SemUnlinkWrite(m) \/ SemOpenRead(m) \/ SemUnlinkRead(m)
    \/ Mmap(m) \/ Fail(m)

NamesNext == (\E m \in Machines : QueueNew(m)) \/ (\E m \in Crashing : Crash(m))

NamesSpec == NamesInit /\ [][NamesNext]_nameVars

-----------------------------------------------------------------------------
(* Properties *)

\* Type invariant.
NamesTypeOK ==
    /\ call \in [Machines -> Calls \cup {"shm_open", "queue", "null", "crashed"}]
    /\ shm \in Machines \cup {None}
    /\ sem \in Semaphores \cup {None}
    /\ writes \in [Machines -> Semaphores \cup {None}]
    /\ reads \in [Machines -> Semaphores \cup {None}]
    /\ alone \in [Machines -> BOOLEAN]
    /\ short \in BOOLEAN

\* The call with which the creator of a semaphore removes its name.
UnlinkOf(s) == IF s[2] = "write" THEN "sem_unlink_write" ELSE "sem_unlink_read"

\* queue_new gives its names back: a name of the memory or of a semaphore stays
\* only while the machine that made it is inside queue_new, or if it was killed
\* there, whatever the other machines unlink meanwhile.
NamesAreTransient ==
    /\ shm # None => call[shm] \in {"shm_unlink", "crashed"}
    /\ sem # None => call[sem[1]] \in {UnlinkOf(sem), "crashed"}

\* The semaphores of the queue are those that the machine itself created, with
\* the counts it gave.
HasOwnSemaphores(m) == writes[m] = <<m, "write">> /\ reads[m] = <<m, "read">>

\* A machine that nobody disturbs gets a queue whose semaphores are its own,
\* whatever other machines have done before, unless one was killed or memory is
\* short.
AloneGetsQueue ==
    (\A m \in Machines : call[m] # "crashed") =>
        \A m \in Machines \ Starved : alone[m] /\ Returned(m) =>
            call[m] = "queue" /\ HasOwnSemaphores(m)

\* What makes it so, call by call: nobody else is inside, and the name is that
\* of the machine itself while it needs one.
AloneInside ==
    (\A m \in Machines : call[m] # "crashed") =>
        \A m \in Machines : alone[m] /\ call[m] # "shm_open" =>
            /\ Inside(m) => \A o \in Machines \ {m} : ~Inside(o)
            /\ call[m] = "shm_unlink" => shm = m
            /\ call[m] = "sem_unlink_write" => sem = <<m, "write">>
            /\ call[m] = "sem_unlink_read" => sem = <<m, "read">>
            /\ call[m] \in {"sem_unlink_write", "sem_open_read", "sem_unlink_read",
                          "mmap", "queue"} => writes[m] = <<m, "write">>
            /\ call[m] \in {"sem_unlink_read", "mmap", "queue"} => reads[m] = <<m, "read">>
            /\ m \notin Starved => call[m] \notin {"fail", "null"}

\* Some machine is on its way to a queue: it is where no other can turn it away,
\* or the semaphore's name is there, and whoever removes it next goes on.
SomebodyIsOnTheWay ==
    \/ sem # None
    \/ \E m \in Machines : call[m] \in {"ftruncate", "sem_open_write", "sem_open_read",
                                      "mmap", "queue"}

\* What makes SomebodyGetsQueue so: nobody has begun, or the name of the memory
\* is there for its next remover, or somebody is on the way; and only in the last
\* case has a machine come so far that it removes a semaphore or cleans up.
SomebodyAdvances ==
    ~short /\ (\A m \in Machines : call[m] # "crashed") =>
        /\ \/ \A m \in Machines : call[m] = "shm_open"
           \/ shm # None
           \/ SomebodyIsOnTheWay
        /\ (\E m \in Machines : call[m] \in {"sem_unlink_write", "sem_unlink_read", "fail"})
              => SomebodyIsOnTheWay

\* When several machines call queue_new at once, not all of them are turned
\* away, unless one was killed or memory was short.
SomebodyGetsQueue ==
    ~short /\ (\A m \in Machines : Returned(m)) => \E m \in Machines : call[m] = "queue"

\* queue.c:185 waits on can_read_lock "until there's actually something to read",
\* and queue.c:153 on can_write_lock to "check if there's enough space": the
\* count of the one starts with 0 and that of the other with max_count, and
\* neither is shared with another queue.
SemaphoresCountOwnQueue ==
    \A m \in Machines : call[m] = "queue" =>
        /\ writes[m][2] = "write"
        /\ reads[m][2] = "read"
        /\ \A o \in Machines \ {m} : call[o] = "queue" =>
              {writes[m], reads[m]} \cap {writes[o], reads[o]} = {}
=============================================================================
