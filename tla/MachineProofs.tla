--------------------------- MODULE MachineProofs ---------------------------
(***************************************************************************)
(* Proofs about Machine for every program, every queue size and every set  *)
(* of files: the ring has no deadlock but the full one, and the parent     *)
(* leaves no child behind.                                                 *)
(***************************************************************************)
EXTENDS Machine, SequenceTheorems, TLAPS

\* The queues are sequences, of whatever their stages exchange.
QueuesAreSeqs == \A s \in Stages : \E S : queue[s] \in Seq(S)

\* The children that the parent has killed are dead.
KilledAreDead == \A i \in 1 .. killed : KillOrder[i] \notin alive

\* The inductive invariant.
Inv == TypeOK /\ QueuesAreSeqs /\ KilledAreDead

-----------------------------------------------------------------------------

\* Every stage has its successor in the ring.
LEMMA SuccStages == Succ \in [Stages -> Stages]
BY DEF Succ, Stages

\* The parent kills six children.
LEMMA KillOrderFacts ==
    /\ Len(KillOrder) = 6
    /\ \A c \in Children : \E i \in 1 .. 6 : KillOrder[i] = c
BY DEF KillOrder, Children, Stages

\* Removing the first element of a queue.
LEMMA TailShrinks ==
    ASSUME NEW S, NEW f \in Seq(S), f # <<>>
    PROVE  Tail(f) \in Seq(S) /\ Len(Tail(f)) = Len(f) - 1 /\ Len(f) > 0
<1>1. Tail(f) \in Seq(S) /\ Len(Tail(f)) = Len(f) - 1
  BY HeadTailProperties
<1>2. Len(f) > 0
  BY EmptySeq
<1> QED
  BY <1>1, <1>2

\* Adding an element to a queue.
LEMMA AppendGrows ==
    ASSUME NEW S, NEW f \in Seq(S), NEW x
    PROVE  Append(f, x) \in Seq(S \cup {x}) /\ Len(Append(f, x)) = Len(f) + 1
<1>1. f \in Seq(S \cup {x}) /\ x \in S \cup {x}
  OBVIOUS
<1> QED
  BY <1>1

-----------------------------------------------------------------------------
(* The queues under the two ends of an iteration *)

\* What the proofs need to know of the queues.
QueueInv ==
    /\ DOMAIN queue = Stages
    /\ DOMAIN hand = Stages
    /\ \A s \in Stages : Len(queue[s]) \in 0 .. QueueSize
    /\ QueuesAreSeqs

LEMMA TakeKeepsQueues ==
    ASSUME QueueInv, NEW s \in Stages, NEW results, CanTake(s), Take(s, results)
    PROVE  QueueInv'
<1>1. PICK S : queue[s] \in Seq(S)
  BY DEF QueueInv, QueuesAreSeqs
<1>2. queue[s] # <<>> /\ queue' = [queue EXCEPT ![s] = Tail(@)]
                      /\ hand' = [hand EXCEPT ![s] = results]
  BY DEF CanTake, Take
<1>3. queue'[s] \in Seq(S) /\ Len(queue'[s]) = Len(queue[s]) - 1 /\ Len(queue[s]) > 0
  BY <1>1, <1>2, TailShrinks DEF QueueInv
<1>4. \A r \in Stages : r # s => queue'[r] = queue[r]
  BY <1>2 DEF QueueInv
<1>5. DOMAIN queue' = Stages /\ DOMAIN hand' = Stages
  BY <1>2 DEF QueueInv
<1>6. \A r \in Stages : Len(queue'[r]) \in 0 .. QueueSize
  BY <1>3, <1>4, QueueAssumption DEF QueueInv
<1>7. \A r \in Stages : \E T : queue'[r] \in Seq(T)
  BY <1>3, <1>4 DEF QueueInv, QueuesAreSeqs
<1> QED
  BY <1>5, <1>6, <1>7 DEF QueueInv, QueuesAreSeqs

LEMMA GiveKeepsQueues ==
    ASSUME QueueInv, NEW s \in Stages, Give(s)
    PROVE  QueueInv'
<1> DEFINE n == Succ[s]
           x == Head(hand[s])
<1>0. n \in Stages
  BY SuccStages
<1>1. PICK S : queue[n] \in Seq(S)
  BY <1>0 DEF QueueInv, QueuesAreSeqs
<1>2. /\ Len(queue[n]) < QueueSize
      /\ queue' = [queue EXCEPT ![n] = Append(@, x)]
      /\ hand' = [hand EXCEPT ![s] = Tail(@)]
  BY DEF Give, CanGive
<1>3. queue'[n] \in Seq(S \cup {x}) /\ Len(queue'[n]) = Len(queue[n]) + 1
  BY <1>0, <1>1, <1>2, AppendGrows DEF QueueInv
<1>4. \A r \in Stages : r # n => queue'[r] = queue[r]
  BY <1>2 DEF QueueInv
<1>5. DOMAIN queue' = Stages /\ DOMAIN hand' = Stages
  BY <1>2 DEF QueueInv
<1>6. \A r \in Stages : Len(queue'[r]) \in 0 .. QueueSize
  BY <1>0, <1>2, <1>3, <1>4, QueueAssumption DEF QueueInv
<1>7. \A r \in Stages : \E T : queue'[r] \in Seq(T)
  BY <1>3, <1>4 DEF QueueInv, QueuesAreSeqs
<1> QED
  BY <1>5, <1>6, <1>7 DEF QueueInv, QueuesAreSeqs

LEMMA QueuesStep ==
    ASSUME QueueInv, Next
    PROVE  QueueInv'
<1>1. ASSUME NEW s \in Stages, Give(s) PROVE QueueInv'
  BY <1>1, GiveKeepsQueues
<1>2. CASE Boot
  BY <1>2 DEF Boot, QueueInv, QueuesAreSeqs
<1>3. CASE InstructionStore
  <2>1. PICK results : Take("instruction_store", results)
    BY <1>3 DEF InstructionStore
  <2> QED
    BY <1>3, <2>1, TakeKeepsQueues DEF InstructionStore, Stages
<1>4. CASE InputModule
  <2>1. PICK results : Take("input_module", results)
    BY <1>4 DEF InputModule
  <2> QED
    BY <1>4, <2>1, TakeKeepsQueues DEF InputModule, Stages
<1>5. CASE ProcessingUnit
  <2>1. PICK results : Take("processing_unit", results)
    BY <1>5 DEF ProcessingUnit
  <2> QED
    BY <1>5, <2>1, TakeKeepsQueues DEF ProcessingUnit, Stages
<1>6. CASE Halt
  BY <1>6, TakeKeepsQueues DEF Halt, Stages
<1>10. CASE SingleStep
  <2>1. PICK results : Take("processing_unit", results)
    BY <1>10 DEF SingleStep
  <2> QED
    BY <1>10, <2>1, TakeKeepsQueues DEF SingleStep, Stages
<1>11. CASE Verdict
  BY <1>11, TakeKeepsQueues DEF Verdict, Stages
<1>7. CASE IoSwitch
  <2>1. PICK results : Take("io_switch", results)
    BY <1>7 DEF IoSwitch
  <2> QED
    BY <1>7, <2>1, TakeKeepsQueues DEF IoSwitch, Stages
<1>8. CASE MatchingUnit
  <2>1. PICK results : Take("matching_unit", results)
    BY <1>8 DEF MatchingUnit
  <2> QED
    BY <1>8, <2>1, TakeKeepsQueues DEF MatchingUnit, Stages
<1>9. CASE Timeout \/ (\E s \in Crashing : Crash(s)) \/ WaitReturns \/ Kill
  BY <1>9 DEF Timeout, Crash, WaitReturns, Kill, QueueInv, QueuesAreSeqs
<1> QED
  BY <1>1, <1>2, <1>3, <1>4, <1>5, <1>6, <1>7, <1>8, <1>9, <1>10, <1>11 DEF Next, StageStep

-----------------------------------------------------------------------------
(* The children and the parent *)

ParentInv ==
    /\ booted \in BOOLEAN
    /\ alive \subseteq Children
    /\ killed \in -1 .. Len(KillOrder)
    /\ KilledAreDead

\* Nobody is born, and only the parent counts.
LEMMA AliveShrinks ==
    ASSUME ParentInv, alive' \subseteq alive, booted' \in BOOLEAN, killed' = killed
    PROVE  ParentInv'
BY DEF ParentInv, KilledAreDead

LEMMA ParentStep ==
    ASSUME ParentInv, Next
    PROVE  ParentInv'
<1>1. ASSUME NEW s \in Stages, Give(s) PROVE ParentInv'
  BY <1>1, AliveShrinks DEF Give, ParentInv
<1>2. CASE Boot
  <2>1. alive' \subseteq alive
    BY <1>2 DEF Boot
  <2> QED
    BY <1>2, <2>1, AliveShrinks DEF Boot
<1>3. CASE InstructionStore \/ InputModule \/ ProcessingUnit \/ IoSwitch \/ MatchingUnit
  BY <1>3, AliveShrinks DEF InstructionStore, InputModule, ProcessingUnit, IoSwitch,
                            MatchingUnit, ParentInv
<1>7. CASE SingleStep \/ Verdict \/ Halt
  BY <1>7, AliveShrinks DEF SingleStep, Verdict, Halt, ParentInv
<1>4. CASE Timeout \/ (\E s \in Crashing : Crash(s))
  BY <1>4, AliveShrinks DEF Timeout, Crash, ParentInv
<1>5. CASE WaitReturns
  BY <1>5, KillOrderFacts DEF WaitReturns, ParentInv, KilledAreDead
<1>6. CASE Kill
  <2>1. killed \in 0 .. 5 /\ killed' = killed + 1 /\ alive' = alive \ {KillOrder[killed + 1]}
    BY <1>6, KillOrderFacts DEF Kill
  <2>2. \A i \in 1 .. killed' : KillOrder[i] \notin alive'
    <3> TAKE i \in 1 .. killed'
    <3>1. CASE i = killed + 1
      BY <2>1, <3>1
    <3>2. CASE i # killed + 1
      BY <2>1, <3>2 DEF ParentInv, KilledAreDead
    <3> QED
      BY <3>1, <3>2
  <2> QED
    BY <1>6, <2>1, <2>2, KillOrderFacts DEF Kill, ParentInv, KilledAreDead
<1> QED
  BY <1>1, <1>2, <1>3, <1>4, <1>5, <1>6, <1>7 DEF Next, StageStep

-----------------------------------------------------------------------------

LEMMA InvIsBoth == Inv <=> QueueInv /\ ParentInv
BY DEF Inv, TypeOK, QueueInv, ParentInv

\* Inv holds of every reachable state of the machine.
LEMMA MachineInv == Spec => []Inv
<1>1. Init => Inv
  <2> SUFFICES ASSUME Init PROVE Inv
    OBVIOUS
  <2>1. \A s \in Stages : queue[s] = <<>> /\ queue[s] \in Seq({})
    BY DEF Init
  <2>2. QueueInv
    BY <2>1, QueueAssumption DEF Init, QueueInv, QueuesAreSeqs
  <2>3. ParentInv
    <3>1. killed \in -1 .. Len(KillOrder) /\ \A i \in 1 .. killed : FALSE
      BY KillOrderFacts DEF Init
    <3>2. booted \in BOOLEAN /\ alive \subseteq Children
      BY DEF Init
    <3> QED
      BY <3>1, <3>2 DEF ParentInv, KilledAreDead
  <2> QED
    BY <2>2, <2>3, InvIsBoth
<1>2. Inv /\ [Next]_vars => Inv'
  <2> SUFFICES ASSUME QueueInv, ParentInv, [Next]_vars PROVE QueueInv' /\ ParentInv'
    <3>1. (QueueInv /\ ParentInv)' => Inv'
      BY DEF Inv, TypeOK, QueueInv, ParentInv, QueuesAreSeqs, KilledAreDead
    <3> QED
      BY <3>1, InvIsBoth
  <2>1. CASE UNCHANGED vars
    BY <2>1 DEF vars, QueueInv, ParentInv, QueuesAreSeqs, KilledAreDead
  <2> QED
    BY <2>1, QueuesStep, ParentStep
<1> QED
  BY <1>1, <1>2, PTL DEF Spec

\* No queue of the machine ever holds more than its slots, whatever the
\* program.
THEOREM QueuesWithinBounds == Spec => []TypeOK
<1>1. Inv => TypeOK
  BY DEF Inv
<1> QED
  BY <1>1, MachineInv, PTL

\* A stage that blocks in queue_add makes its successor block there too, and
\* so on round the ring.
LEMMA BlockingSpreads ==
    ASSUME TypeOK, Running, Stuck, NEW s \in Stages, hand[s] # <<>>
    PROVE  Len(queue[Succ[s]]) = QueueSize /\ hand[Succ[s]] # <<>>
<1>1. Succ[s] \in Stages
  BY SuccStages
<1>2. Len(queue[Succ[s]]) = QueueSize
  <2>1. ~(Len(queue[Succ[s]]) < QueueSize)
    BY DEF Running, Stuck, CanGive
  <2>2. Len(queue[Succ[s]]) \in 0 .. QueueSize
    BY <1>1 DEF TypeOK
  <2> QED
    BY <2>1, <2>2, QueueAssumption
<1>3. queue[Succ[s]] # <<>>
  <2>1. Len(<<>>) = 0 /\ QueueSize # 0
    BY QueueAssumption
  <2> QED
    BY <1>2, <2>1
<1> QED
  BY <1>1, <1>2, <1>3 DEF Running, Stuck, CanTake

\* The only deadlock of the ring of start_machine is the full one: for every
\* program and every queue size, if no stage can move then either nothing is
\* under way or all five queues are full.
THEOREM RingDeadlocks == Spec => []StuckShape
<1>1. TypeOK => StuckShape
  <2> SUFFICES ASSUME TypeOK, Running, Stuck PROVE Quiescent \/ Saturated
    BY DEF StuckShape
  <2>1. CASE \A s \in Stages : hand[s] = <<>>
    BY <2>1 DEF Running, Stuck, CanTake, Quiescent
  <2>2. CASE \E s \in Stages : hand[s] # <<>>
    <3>1. /\ Succ["instruction_store"] = "input_module"
          /\ Succ["input_module"] = "processing_unit"
          /\ Succ["processing_unit"] = "io_switch"
          /\ Succ["io_switch"] = "matching_unit"
          /\ Succ["matching_unit"] = "instruction_store"
      BY DEF Succ, Stages
    <3>2. \A s \in Stages : hand[s] # <<>>
      BY <2>2, <3>1, BlockingSpreads DEF Stages
    <3>3. \A s \in Stages : Len(queue[s]) = QueueSize
      BY <3>1, <3>2, BlockingSpreads DEF Stages
    <3> QED
      BY <3>2, <3>3 DEF Saturated
  <2> QED
    BY <2>1, <2>2
<1> QED
  BY <1>1, QueuesWithinBounds, PTL

\* When the parent of start_machine has exited, all six children are dead, in
\* whatever order and for whatever reason they died.
THEOREM ParentLeavesNoOrphans == Spec => []NoOrphans
<1>1. Inv => NoOrphans
  <2> SUFFICES ASSUME Inv, ParentGone PROVE alive = {}
    BY DEF NoOrphans
  <2>1. killed = 6
    BY KillOrderFacts DEF ParentGone
  <2>2. \A i \in 1 .. 6 : KillOrder[i] \notin alive
    BY <2>1 DEF Inv, KilledAreDead
  <2>3. \A c \in Children : c \notin alive
    BY <2>2, KillOrderFacts
  <2> QED
    BY <2>3 DEF Inv, TypeOK
<1> QED
  BY <1>1, MachineInv, PTL
=============================================================================
