---------------------------- MODULE BoundedFifo ----------------------------
(***************************************************************************)
(* What service/src/queue.h promises its callers: a bounded FIFO channel   *)
(* shared by several processes.  A call of queue_add or queue_remove is    *)
(* an interval that starts with the call, takes effect once, in one        *)
(* indivisible step, and ends with the return.  A call that cannot take    *)
(* effect yet (full queue, empty queue) waits.                             *)
(*                                                                         *)
(* SharedQueue.tla, the semaphore/mutex/ring-buffer implementation, is     *)
(* shown to implement this specification.                                  *)
(***************************************************************************)
EXTENDS Naturals, Sequences

CONSTANTS N,          \* max_count of queue_new
          Producers,  \* processes that call queue_add
          Consumers,  \* processes that call queue_remove
          Elements,   \* what is sent
          NoElem      \* the contents of a buffer nobody has filled

VARIABLES q,      \* the elements in the channel, oldest first
          phase,  \* where each process is with respect to its call
          arg     \* the buffer each process passed to the call

vars == <<q, phase, arg>>

Processes == Producers \cup Consumers

Init ==
    /\ q = <<>>
    /\ phase = [p \in Processes |-> "idle"]
    /\ arg = [p \in Processes |-> NoElem]

CallAdd(p, e) ==
    /\ phase[p] = "idle"
    /\ phase' = [phase EXCEPT ![p] = "adding"]
    /\ arg' = [arg EXCEPT ![p] = e]
    /\ UNCHANGED q

\* The effect of queue_add: the element goes to the end of the channel.
Put(p) ==
    /\ phase[p] = "adding"
    /\ Len(q) < N
    /\ q' = Append(q, arg[p])
    /\ phase' = [phase EXCEPT ![p] = "added"]
    /\ UNCHANGED arg

ReturnAdd(p) ==
    /\ phase[p] = "added"
    /\ phase' = [phase EXCEPT ![p] = "idle"]
    /\ UNCHANGED <<q, arg>>

\* During the call the caller's buffer holds nothing it may rely on.
CallRemove(p) ==
    /\ phase[p] = "idle"
    /\ phase' = [phase EXCEPT ![p] = "removing"]
    /\ arg' = [arg EXCEPT ![p] = NoElem]
    /\ UNCHANGED q

\* The effect of queue_remove: the oldest element goes to the caller.
Get(p) ==
    /\ phase[p] = "removing"
    /\ q # <<>>
    /\ arg' = [arg EXCEPT ![p] = Head(q)]
    /\ q' = Tail(q)
    /\ phase' = [phase EXCEPT ![p] = "removed"]

ReturnRemove(p) ==
    /\ phase[p] = "removed"
    /\ phase' = [phase EXCEPT ![p] = "idle"]
    /\ UNCHANGED <<q, arg>>

Next ==
    \/ \E p \in Producers :
          \/ \E e \in Elements : CallAdd(p, e)
          \/ Put(p)
          \/ ReturnAdd(p)
    \/ \E p \in Consumers : CallRemove(p) \/ Get(p) \/ ReturnRemove(p)

Spec == Init /\ [][Next]_vars
=============================================================================
