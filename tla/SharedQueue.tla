---------------------------- MODULE SharedQueue ----------------------------
(***************************************************************************)
(* service/src/queue.c: the shared-memory ring buffer that connects two    *)
(* stages of the machine.  Two POSIX semaphores count the free and the     *)
(* filled slots, a process-shared mutex protects head, tail and data.      *)
(*                                                                         *)
(* Every call is broken at the points where another process may run: the   *)
(* sem_wait, the lock, the memcpy, the advance of the pointer with the     *)
(* unlock, and the sem_post.  The pointers head and tail are slot numbers  *)
(* 0 .. N-1 (their byte offset divided by element_size).                   *)
(*                                                                         *)
(* stored is a history variable, no field of the queue: the number of      *)
(* elements between head and tail, which the code keeps only implicitly    *)
(* in its semaphores.                                                      *)
(***************************************************************************)
EXTENDS Integers, Sequences, FiniteSets

CONSTANTS N,          \* max_count: the number of slots
          Producers,  \* processes that call queue_add
          Consumers,  \* processes that call queue_remove
          Elements,   \* the elements they send
          NoElem,     \* zero-filled memory, or a buffer not yet written
          Free        \* the mutex is not held

ASSUME NAssumption == N \in Nat \ {0}

ASSUME ProcessAssumption ==
    /\ IsFiniteSet(Producers)
    /\ IsFiniteSet(Consumers)
    /\ Producers \cap Consumers = {}
    /\ Free \notin Producers \cup Consumers

ASSUME ElementAssumption == NoElem \notin Elements

VARIABLES canWrite,  \* value of the semaphore can_write_lock
          canRead,   \* value of the semaphore can_read_lock
          lock,      \* holder of mem->lock
          head,      \* mem->head
          tail,      \* mem->tail
          data,      \* mem->data
          pc,        \* next step of each process inside its call
          elem,      \* the caller's buffer (the argument "element")
          stored     \* history: number of elements in the ring

vars == <<canWrite, canRead, lock, head, tail, data, pc, elem, stored>>

Processes == Producers \cup Consumers
Slots == 0 .. (N - 1)
Buffer == Elements \cup {NoElem}

AddPcs == {"idle", "add_wait", "add_lock", "add_copy", "add_advance", "add_post"}
RemovePcs == {"idle", "remove_wait", "remove_lock", "remove_copy",
              "remove_advance", "remove_post"}

\* A queue that queue_new has created and no process has used.
Init ==
    /\ canWrite = N
    /\ canRead = 0
    /\ lock = Free
    /\ head = 0
    /\ tail = 0
    /\ data = [i \in Slots |-> NoElem]
    /\ pc = [p \in Processes |-> "idle"]
    /\ elem = [p \in Processes |-> NoElem]
    /\ stored = 0

\* Mutants: the wrap test comes one slot too late; one slot too early.
AdvanceWrapsLate(i) == IF i = N THEN 0 ELSE i + 1
AdvanceWrapsEarly(i) == IF i + 2 >= N THEN 0 ELSE i + 1

\* The slot after slot i, wrapping at the end of the buffer.
Advance(i) == IF i + 1 = N THEN 0 ELSE i + 1

-----------------------------------------------------------------------------
(* queue_add *)

AddCall(p, e) ==
    /\ pc[p] = "idle"
    /\ pc' = [pc EXCEPT ![p] = "add_wait"]
    /\ elem' = [elem EXCEPT ![p] = e]
    /\ UNCHANGED <<canWrite, canRead, lock, head, tail, data, stored>>

\* Mutant: the writer does not wait for a free slot.
AddWaitUnchecked(p) ==
    /\ pc[p] = "add_wait"
    /\ canWrite' = IF canWrite > 0 THEN canWrite - 1 ELSE 0
    /\ pc' = [pc EXCEPT ![p] = "add_lock"]
    /\ UNCHANGED <<canRead, lock, head, tail, data, elem, stored>>

AddWait(p) ==
    /\ pc[p] = "add_wait"
    /\ canWrite > 0
    /\ canWrite' = canWrite - 1
    /\ pc' = [pc EXCEPT ![p] = "add_lock"]
    /\ UNCHANGED <<canRead, lock, head, tail, data, elem, stored>>

\* Mutant: the mutex is not initialised as process-shared, so it excludes nobody.
AddLockPrivate(p) ==
    /\ pc[p] = "add_lock"
    /\ lock' = p
    /\ pc' = [pc EXCEPT ![p] = "add_copy"]
    /\ UNCHANGED <<canWrite, canRead, head, tail, data, elem, stored>>

AddLock(p) ==
    /\ pc[p] = "add_lock"
    /\ lock = Free
    /\ lock' = p
    /\ pc' = [pc EXCEPT ![p] = "add_copy"]
    /\ UNCHANGED <<canWrite, canRead, head, tail, data, elem, stored>>

AddCopy(p) ==
    /\ pc[p] = "add_copy"
    /\ data' = [data EXCEPT ![tail] = elem[p]]
    /\ pc' = [pc EXCEPT ![p] = "add_advance"]
    /\ UNCHANGED <<canWrite, canRead, lock, head, tail, elem, stored>>

AddAdvance(p) ==
    /\ pc[p] = "add_advance"
    /\ tail' = Advance(tail)
    /\ stored' = stored + 1
    /\ lock' = Free
    /\ pc' = [pc EXCEPT ![p] = "add_post"]
    /\ UNCHANGED <<canWrite, canRead, head, data, elem>>

\* Mutant: the writer posts the semaphore it waited on.
AddPostWrongSemaphore(p) ==
    /\ pc[p] = "add_post"
    /\ canWrite' = canWrite + 1
    /\ pc' = [pc EXCEPT ![p] = "idle"]
    /\ UNCHANGED <<canRead, lock, head, tail, data, elem, stored>>

AddPost(p) ==
    /\ pc[p] = "add_post"
    /\ canRead' = canRead + 1
    /\ pc' = [pc EXCEPT ![p] = "idle"]
    /\ UNCHANGED <<canWrite, lock, head, tail, data, elem, stored>>

-----------------------------------------------------------------------------
(* queue_remove *)

RemoveCall(p) ==
    /\ pc[p] = "idle"
    /\ pc' = [pc EXCEPT ![p] = "remove_wait"]
    /\ UNCHANGED <<canWrite, canRead, lock, head, tail, data, elem, stored>>

RemoveWait(p) ==
    /\ pc[p] = "remove_wait"
    /\ canRead > 0
    /\ canRead' = canRead - 1
    /\ pc' = [pc EXCEPT ![p] = "remove_lock"]
    /\ UNCHANGED <<canWrite, lock, head, tail, data, elem, stored>>

RemoveLock(p) ==
    /\ pc[p] = "remove_lock"
    /\ lock = Free
    /\ lock' = p
    /\ pc' = [pc EXCEPT ![p] = "remove_copy"]
    /\ UNCHANGED <<canWrite, canRead, head, tail, data, elem, stored>>

RemoveCopy(p) ==
    /\ pc[p] = "remove_copy"
    /\ elem' = [elem EXCEPT ![p] = data[head]]
    /\ pc' = [pc EXCEPT ![p] = "remove_advance"]
    /\ UNCHANGED <<canWrite, canRead, lock, head, tail, data, stored>>

RemoveAdvance(p) ==
    /\ pc[p] = "remove_advance"
    /\ head' = Advance(head)
    /\ stored' = stored - 1
    /\ lock' = Free
    /\ pc' = [pc EXCEPT ![p] = "remove_post"]
    /\ UNCHANGED <<canWrite, canRead, tail, data, elem>>

\* Mutant: the reader forgets to tell the writers about the free slot.
RemovePostForgotten(p) ==
    /\ pc[p] = "remove_post"
    /\ pc' = [pc EXCEPT ![p] = "idle"]
    /\ UNCHANGED <<canWrite, canRead, lock, head, tail, data, elem, stored>>

RemovePost(p) ==
    /\ pc[p] = "remove_post"
    /\ canWrite' = canWrite + 1
    /\ pc' = [pc EXCEPT ![p] = "idle"]
    /\ UNCHANGED <<canRead, lock, head, tail, data, elem, stored>>

-----------------------------------------------------------------------------

\* The steps of a call that has begun.
AddStep(p) ==
    AddWait(p) \/ AddLock(p) \/ AddCopy(p) \/ AddAdvance(p) \/ AddPost(p)
RemoveStep(p) ==
    \/ RemoveWait(p) \/ RemoveLock(p) \/ RemoveCopy(p)
    \/ RemoveAdvance(p) \/ RemovePost(p)

Next ==
    \/ \E p \in Producers : (\E e \in Elements : AddCall(p, e)) \/ AddStep(p)
    \/ \E p \in Consumers : RemoveCall(p) \/ RemoveStep(p)

Spec == Init /\ [][Next]_vars

\* The stages at the two ends call the queue in an endless loop, and the
\* kernel keeps running a process that can run.  Nothing is assumed about who
\* gets a contended mutex or semaphore.
Fairness ==
    /\ \A p \in Producers : WF_vars((\E e \in Elements : AddCall(p, e)) \/ AddStep(p))
    /\ \A p \in Consumers : WF_vars(RemoveCall(p) \/ RemoveStep(p))

FairSpec == Spec /\ Fairness

-----------------------------------------------------------------------------
(* Properties *)

\* Type invariant of the state of queue.c.
TypeOK ==
    /\ canWrite \in 0 .. N
    /\ canRead \in 0 .. N
    /\ lock \in Processes \cup {Free}
    /\ head \in Slots
    /\ tail \in Slots
    /\ data \in [Slots -> Buffer]
    /\ pc \in [Processes -> AddPcs \cup RemovePcs]
    /\ \A p \in Producers : pc[p] \in AddPcs
    /\ \A p \in Consumers : pc[p] \in RemovePcs
    /\ elem \in [Processes -> Buffer]
    /\ stored \in 0 .. N

CriticalPcs == {"add_copy", "add_advance", "remove_copy", "remove_advance"}

\* The mutex does its work in queue_add and queue_remove: the process that
\* touches head, tail and data is its holder, so there is at most one.
MutualExclusion ==
    \A p \in Processes : pc[p] \in CriticalPcs <=> lock = p

\* Producers that have taken a free slot from can_write_lock and not filled it.
Writing == {p \in Producers : pc[p] \in {"add_lock", "add_copy", "add_advance"}}
\* Producers that have filled a slot and not yet posted can_read_lock.
Filled == {p \in Producers : pc[p] = "add_post"}
\* Consumers that have taken a filled slot from can_read_lock, not emptied it.
Reading == {p \in Consumers :
                pc[p] \in {"remove_lock", "remove_copy", "remove_advance"}}
\* Consumers that have emptied a slot and not yet posted can_write_lock.
Emptied == {p \in Consumers : pc[p] = "remove_post"}

\* No slot is ever lost or counted twice by the two semaphores: each one is
\* free, filled, or held by a process between its sem_wait and its sem_post.
PermitAccounting ==
    /\ N = canWrite + Cardinality(Writing) + stored + Cardinality(Emptied)
    /\ stored = canRead + Cardinality(Filled) + Cardinality(Reading)

\* The k-th slot (from 1) of a ring whose first slot is h.
Slot(h, k) == IF h + k - 1 >= N THEN h + k - 1 - N ELSE h + k - 1

\* The contents of the ring, oldest element first.
Contents == [k \in 1 .. stored |-> data[Slot(head, k)]]

\* head and tail are exactly the stored elements apart, a writer between the
\* memcpy and the advance has its element just behind the last one, and a
\* reader there holds the first one.
RingShape ==
    /\ tail = Slot(head, stored + 1)
    /\ \A p \in Producers : pc[p] = "add_advance" => data[tail] = elem[p]
    /\ \A p \in Consumers : pc[p] = "remove_advance" => elem[p] = data[head]

\* The refinement mapping: a call takes effect when the pointer is advanced.
PhaseOf(step) ==
    CASE step = "idle" -> "idle"
      [] step \in {"add_wait", "add_lock", "add_copy", "add_advance"} -> "adding"
      [] step = "add_post" -> "added"
      [] step = "remove_post" -> "removed"
      [] OTHER -> "removing"

AbstractPhase == [p \in Processes |-> PhaseOf(pc[p])]

\* What a reader has copied becomes its result when the call takes effect.
AbstractArg == [p \in Processes |->
    IF PhaseOf(pc[p]) = "removing" THEN NoElem ELSE elem[p]]

Fifo == INSTANCE BoundedFifo
            WITH q <- Contents, phase <- AbstractPhase, arg <- AbstractArg

\* queue.c implements a linearizable bounded FIFO: every element that
\* queue_add accepts is delivered once, unchanged, in the order of the calls.
ImplementsFifo == Fifo!Spec

\* Whoever gets the contended mutex or semaphore each time: calls of queue_add
\* return again and again, and so do calls of queue_remove; no post is missing
\* that everyone waits for.  With one stage at each end, as in the machine, this
\* is every call.
CallsReturn ==
    /\ []<><<\E p \in Producers : AddPost(p)>>_vars
    /\ []<><<\E p \in Consumers : RemovePost(p)>>_vars
=============================================================================
