---------------------------- MODULE QueueProofs ----------------------------
(***************************************************************************)
(* Proofs about service/src/queue.c: SharedQueue for every number of       *)
(* slots, of writers and of readers, and QueueNames for every number of    *)
(* machines.                                                               *)
(*                                                                         *)
(* Inv is inductive as it stands.  The accounting of the semaphores is     *)
(* what makes it so: a writer inside the mutex has taken a permit, so      *)
(* there is a free slot behind tail; a reader inside has taken one too, so *)
(* there is an element at head.                                            *)
(***************************************************************************)
EXTENDS SharedQueue, QueueNames, FiniteSetTheorems, SequenceTheorems, TLAPS

\* The inductive invariant.
Inv == TypeOK /\ MutualExclusion /\ PermitAccounting /\ RingShape

-----------------------------------------------------------------------------
(* Facts about sets of processes and about slots *)

\* Taking a permit or giving it back changes a count by exactly one.
LEMMA CountOne ==
    ASSUME NEW S, IsFiniteSet(S), NEW x
    PROVE  /\ Cardinality(S) \in Nat
           /\ IsFiniteSet(S \cup {x})
           /\ IsFiniteSet(S \ {x})
           /\ x \notin S => Cardinality(S \cup {x}) = Cardinality(S) + 1
           /\ x \in S => /\ Cardinality(S) > 0
                         /\ Cardinality(S \ {x}) = Cardinality(S) - 1
<1>1. Cardinality(S) \in Nat
  BY FS_CardinalityType
<1>2. IsFiniteSet(S \cup {x}) /\ (x \notin S => Cardinality(S \cup {x}) = Cardinality(S) + 1)
  BY FS_AddElement
<1>3. IsFiniteSet(S \ {x}) /\ (x \in S => Cardinality(S \ {x}) = Cardinality(S) - 1)
  BY FS_RemoveElement
<1>4. x \in S => Cardinality(S \ {x}) \in Nat
  BY <1>3, FS_CardinalityType
<1> QED
  BY <1>1, <1>2, <1>3, <1>4

\* The four groups of processes that hold a permit are finite.
LEMMA GroupsFinite ==
    /\ IsFiniteSet(Writing) /\ IsFiniteSet(Filled)
    /\ IsFiniteSet(Reading) /\ IsFiniteSet(Emptied)
    /\ Cardinality(Writing) \in Nat /\ Cardinality(Filled) \in Nat
    /\ Cardinality(Reading) \in Nat /\ Cardinality(Emptied) \in Nat
<1>1. /\ Writing \subseteq Producers /\ Filled \subseteq Producers
      /\ Reading \subseteq Consumers /\ Emptied \subseteq Consumers
  BY DEF Writing, Filled, Reading, Emptied
<1>2. /\ IsFiniteSet(Writing) /\ IsFiniteSet(Filled)
      /\ IsFiniteSet(Reading) /\ IsFiniteSet(Emptied)
  BY <1>1, ProcessAssumption, FS_Subset
<1> QED
  BY <1>2, FS_CardinalityType

\* Slot arithmetic of the wrap-around: Slot enumerates the slots from h on
\* without repetition, and Advance moves its origin by one.
LEMMA SlotFacts ==
    ASSUME NEW h \in Slots, NEW n \in 0 .. N
    PROVE  /\ Slot(h, 1) = h
           /\ Advance(h) \in Slots
           /\ Slot(h, n + 1) \in Slots
           /\ n < N => Advance(Slot(h, n + 1)) = Slot(h, n + 2)
           /\ n > 0 => Slot(Advance(h), n) = Slot(h, n + 1)
           /\ n < N => \A k \in 1 .. n : Slot(h, k) # Slot(h, n + 1)
BY NAssumption DEF Slots, Slot, Advance

-----------------------------------------------------------------------------
(* Inv is inductive *)

LEMMA InitInv == Init => Inv
<1> SUFFICES ASSUME Init PROVE Inv
  OBVIOUS
<1>1. TypeOK
  BY NAssumption DEF Init, TypeOK, Slots, Buffer, Processes, AddPcs, RemovePcs
<1>2. MutualExclusion
  BY ProcessAssumption DEF Init, MutualExclusion, CriticalPcs, Processes
<1>3. Writing = {} /\ Filled = {} /\ Reading = {} /\ Emptied = {}
  BY DEF Init, Writing, Filled, Reading, Emptied, Processes
<1>4. PermitAccounting
  BY <1>3, FS_EmptySet, NAssumption DEF Init, PermitAccounting
<1>5. RingShape
  BY NAssumption DEF Init, RingShape, Slot, Processes
<1> QED
  BY <1>1, <1>2, <1>4, <1>5 DEF Inv

\* What each step of queue_add and queue_remove does to the groups of permit
\* holders; all other steps leave them alone.
LEMMA GroupSteps ==
    ASSUME Inv, NEW p \in Processes
    PROVE  /\ p \in Producers /\ AddWait(p) =>
                 /\ p \notin Writing /\ Writing' = Writing \cup {p}
                 /\ UNCHANGED <<Filled, Reading, Emptied>>
           /\ p \in Producers /\ AddAdvance(p) =>
                 /\ p \in Writing /\ Writing' = Writing \ {p}
                 /\ p \notin Filled /\ Filled' = Filled \cup {p}
                 /\ UNCHANGED <<Reading, Emptied>>
           /\ p \in Producers /\ AddPost(p) =>
                 /\ p \in Filled /\ Filled' = Filled \ {p}
                 /\ UNCHANGED <<Writing, Reading, Emptied>>
           /\ p \in Consumers /\ RemoveWait(p) =>
                 /\ p \notin Reading /\ Reading' = Reading \cup {p}
                 /\ UNCHANGED <<Writing, Filled, Emptied>>
           /\ p \in Consumers /\ RemoveAdvance(p) =>
                 /\ p \in Reading /\ Reading' = Reading \ {p}
                 /\ p \notin Emptied /\ Emptied' = Emptied \cup {p}
                 /\ UNCHANGED <<Writing, Filled>>
           /\ p \in Consumers /\ RemovePost(p) =>
                 /\ p \in Emptied /\ Emptied' = Emptied \ {p}
                 /\ UNCHANGED <<Writing, Filled, Reading>>
<1> USE ProcessAssumption DEF Inv, TypeOK, Processes, Writing, Filled, Reading, Emptied
<1>1. CASE p \in Producers
  <2>1. ASSUME AddWait(p)
        PROVE  /\ p \notin Writing /\ Writing' = Writing \cup {p}
               /\ UNCHANGED <<Filled, Reading, Emptied>>
    BY <1>1, <2>1 DEF AddWait
  <2>2. ASSUME AddAdvance(p)
        PROVE  /\ p \in Writing /\ Writing' = Writing \ {p}
               /\ p \notin Filled /\ Filled' = Filled \cup {p}
               /\ UNCHANGED <<Reading, Emptied>>
    BY <1>1, <2>2 DEF AddAdvance
  <2>3. ASSUME AddPost(p)
        PROVE  /\ p \in Filled /\ Filled' = Filled \ {p}
               /\ UNCHANGED <<Writing, Reading, Emptied>>
    BY <1>1, <2>3 DEF AddPost
  <2> QED
    BY <1>1, <2>1, <2>2, <2>3
<1>2. CASE p \in Consumers
  <2>1. ASSUME RemoveWait(p)
        PROVE  /\ p \notin Reading /\ Reading' = Reading \cup {p}
               /\ UNCHANGED <<Writing, Filled, Emptied>>
    BY <1>2, <2>1 DEF RemoveWait
  <2>2. ASSUME RemoveAdvance(p)
        PROVE  /\ p \in Reading /\ Reading' = Reading \ {p}
               /\ p \notin Emptied /\ Emptied' = Emptied \cup {p}
               /\ UNCHANGED <<Writing, Filled>>
    BY <1>2, <2>2 DEF RemoveAdvance
  <2>3. ASSUME RemovePost(p)
        PROVE  /\ p \in Emptied /\ Emptied' = Emptied \ {p}
               /\ UNCHANGED <<Writing, Filled, Reading>>
    BY <1>2, <2>3 DEF RemovePost
  <2> QED
    BY <1>2, <2>1, <2>2, <2>3
<1> QED
  BY <1>1, <1>2

\* Steps that take or give no permit leave the groups alone.
LEMMA GroupSilent ==
    ASSUME Inv, NEW p \in Processes,
           \/ p \in Producers /\ (\/ \E e \in Elements : AddCall(p, e)
                                  \/ AddLock(p) \/ AddCopy(p))
           \/ p \in Consumers /\ (RemoveCall(p) \/ RemoveLock(p) \/ RemoveCopy(p))
    PROVE  UNCHANGED <<Writing, Filled, Reading, Emptied>>
<1> USE ProcessAssumption DEF Inv, TypeOK, Processes, Writing, Filled, Reading, Emptied
<1>1. CASE p \in Producers
  <2>1. CASE \E e \in Elements : AddCall(p, e)
    BY <1>1, <2>1 DEF AddCall
  <2>2. CASE AddLock(p)
    BY <1>1, <2>2 DEF AddLock
  <2>3. CASE AddCopy(p)
    BY <1>1, <2>3 DEF AddCopy
  <2> QED
    BY <1>1, <2>1, <2>2, <2>3
<1>2. CASE p \in Consumers
  <2>1. CASE RemoveCall(p)
    BY <1>2, <2>1 DEF RemoveCall
  <2>2. CASE RemoveLock(p)
    BY <1>2, <2>2 DEF RemoveLock
  <2>3. CASE RemoveCopy(p)
    BY <1>2, <2>3 DEF RemoveCopy
  <2> QED
    BY <1>2, <2>1, <2>2, <2>3
<1> QED
  BY <1>1, <1>2

\* No slot is lost or counted twice, whatever the step.
LEMMA AccountingStep ==
    ASSUME Inv, Next
    PROVE  PermitAccounting'
<1>0. /\ PermitAccounting /\ canWrite \in Nat /\ canRead \in Nat /\ stored \in Nat
      /\ N \in Nat
      /\ Cardinality(Writing) \in Nat /\ Cardinality(Filled) \in Nat
      /\ Cardinality(Reading) \in Nat /\ Cardinality(Emptied) \in Nat
  BY GroupsFinite, NAssumption DEF Inv, TypeOK
<1>1. ASSUME NEW p \in Producers, NEW e \in Elements, AddCall(p, e) PROVE PermitAccounting'
  <2>1. UNCHANGED <<Writing, Filled, Reading, Emptied>>
    BY <1>1, GroupSilent DEF Processes
  <2> QED
    BY <1>0, <1>1, <2>1 DEF AddCall, PermitAccounting
<1>2. ASSUME NEW p \in Producers, AddWait(p) PROVE PermitAccounting'
  <2>1. /\ p \notin Writing /\ Writing' = Writing \cup {p}
        /\ UNCHANGED <<Filled, Reading, Emptied>>
    BY <1>2, GroupSteps DEF Processes
  <2>2. /\ Cardinality(Writing)' = Cardinality(Writing) + 1
    BY <2>1, GroupsFinite, CountOne
  <2> QED
    BY <1>0, <1>2, <2>1, <2>2 DEF AddWait, PermitAccounting
<1>3. ASSUME NEW p \in Producers, AddLock(p) \/ AddCopy(p) PROVE PermitAccounting'
  <2>1. UNCHANGED <<Writing, Filled, Reading, Emptied>>
    BY <1>3, GroupSilent DEF Processes
  <2> QED
    BY <1>0, <1>3, <2>1 DEF AddLock, AddCopy, PermitAccounting
<1>4. ASSUME NEW p \in Producers, AddAdvance(p) PROVE PermitAccounting'
  <2>1. /\ p \in Writing /\ Writing' = Writing \ {p}
        /\ p \notin Filled /\ Filled' = Filled \cup {p}
        /\ UNCHANGED <<Reading, Emptied>>
    BY <1>4, GroupSteps DEF Processes
  <2>2. /\ Cardinality(Writing)' = Cardinality(Writing) - 1
        /\ Cardinality(Filled)' = Cardinality(Filled) + 1
    BY <2>1, GroupsFinite, CountOne
  <2> QED
    BY <1>0, <1>4, <2>1, <2>2 DEF AddAdvance, PermitAccounting
<1>5. ASSUME NEW p \in Producers, AddPost(p) PROVE PermitAccounting'
  <2>1. /\ p \in Filled /\ Filled' = Filled \ {p}
        /\ UNCHANGED <<Writing, Reading, Emptied>>
    BY <1>5, GroupSteps DEF Processes
  <2>2. /\ Cardinality(Filled)' = Cardinality(Filled) - 1
    BY <2>1, GroupsFinite, CountOne
  <2> QED
    BY <1>0, <1>5, <2>1, <2>2 DEF AddPost, PermitAccounting
<1>6. ASSUME NEW p \in Consumers, RemoveCall(p) \/ RemoveLock(p) \/ RemoveCopy(p)
      PROVE PermitAccounting'
  <2>1. UNCHANGED <<Writing, Filled, Reading, Emptied>>
    BY <1>6, GroupSilent DEF Processes
  <2> QED
    BY <1>0, <1>6, <2>1 DEF RemoveCall, RemoveLock, RemoveCopy, PermitAccounting
<1>7. ASSUME NEW p \in Consumers, RemoveWait(p) PROVE PermitAccounting'
  <2>1. /\ p \notin Reading /\ Reading' = Reading \cup {p}
        /\ UNCHANGED <<Writing, Filled, Emptied>>
    BY <1>7, GroupSteps DEF Processes
  <2>2. /\ Cardinality(Reading)' = Cardinality(Reading) + 1
    BY <2>1, GroupsFinite, CountOne
  <2> QED
    BY <1>0, <1>7, <2>1, <2>2 DEF RemoveWait, PermitAccounting
<1>8. ASSUME NEW p \in Consumers, RemoveAdvance(p) PROVE PermitAccounting'
  <2>1. /\ p \in Reading /\ Reading' = Reading \ {p}
        /\ p \notin Emptied /\ Emptied' = Emptied \cup {p}
        /\ UNCHANGED <<Writing, Filled>>
    BY <1>8, GroupSteps DEF Processes
  <2>2. /\ Cardinality(Reading)' = Cardinality(Reading) - 1
        /\ Cardinality(Emptied)' = Cardinality(Emptied) + 1
    BY <2>1, GroupsFinite, CountOne
  <2> QED
    BY <1>0, <1>8, <2>1, <2>2 DEF RemoveAdvance, PermitAccounting
<1>9. ASSUME NEW p \in Consumers, RemovePost(p) PROVE PermitAccounting'
  <2>1. /\ p \in Emptied /\ Emptied' = Emptied \ {p}
        /\ UNCHANGED <<Writing, Filled, Reading>>
    BY <1>9, GroupSteps DEF Processes
  <2>2. /\ Cardinality(Emptied)' = Cardinality(Emptied) - 1
    BY <2>1, GroupsFinite, CountOne
  <2> QED
    BY <1>0, <1>9, <2>1, <2>2 DEF RemovePost, PermitAccounting
<1> QED
  BY <1>1, <1>2, <1>3, <1>4, <1>5, <1>6, <1>7, <1>8, <1>9 DEF Next, AddStep, RemoveStep

\* A writer with a permit has a free slot, a reader with one has an element,
\* and neither semaphore can pass its bound.
LEMMA PermitMeaning ==
    ASSUME Inv
    PROVE  /\ stored \in 0 .. N
           /\ \A p \in Writing : stored < N
           /\ \A p \in Reading : stored > 0
           /\ \A p \in Filled : canRead < N
           /\ \A p \in Emptied : canWrite < N
<1> USE GroupsFinite, CountOne, NAssumption DEF Inv, TypeOK, PermitAccounting
<1>1. \A p \in Writing : Cardinality(Writing) > 0
  OBVIOUS
<1>2. \A p \in Reading : Cardinality(Reading) > 0
  OBVIOUS
<1>3. \A p \in Filled : Cardinality(Filled) > 0
  OBVIOUS
<1>4. \A p \in Emptied : Cardinality(Emptied) > 0
  OBVIOUS
<1> QED
  BY <1>1, <1>2, <1>3, <1>4

\* Every step of a queue_add or a queue_remove preserves Inv.
LEMMA InvStep ==
    ASSUME Inv, Next
    PROVE  Inv'
<1> USE ProcessAssumption, NAssumption
    DEF Inv, TypeOK, MutualExclusion, RingShape, Processes, AddPcs, RemovePcs, CriticalPcs, Buffer
<1>0. PermitAccounting'
  BY AccountingStep
<1>1. ASSUME NEW p \in Producers, NEW e \in Elements, AddCall(p, e) PROVE (TypeOK /\ MutualExclusion /\ RingShape)'
  <2>1. TypeOK'
    BY <1>1 DEF AddCall
  <2>2. MutualExclusion'
    BY <1>1 DEF AddCall
  <2>3. RingShape'
    BY <1>1 DEF AddCall
  <2> QED
    BY <2>1, <2>2, <2>3
<1>2. ASSUME NEW p \in Producers, AddWait(p) PROVE (TypeOK /\ MutualExclusion /\ RingShape)'
  <2>1. TypeOK'
    BY <1>2 DEF AddWait
  <2>2. MutualExclusion'
    BY <1>2 DEF AddWait
  <2>3. RingShape'
    BY <1>2 DEF AddWait
  <2> QED
    BY <2>1, <2>2, <2>3
<1>3. ASSUME NEW p \in Producers, AddLock(p) PROVE (TypeOK /\ MutualExclusion /\ RingShape)'
  <2>1. TypeOK'
    BY <1>3 DEF AddLock
  <2>2. MutualExclusion'
    BY <1>3 DEF AddLock
  <2>3. RingShape'
    BY <1>3 DEF AddLock
  <2> QED
    BY <2>1, <2>2, <2>3
<1>4. ASSUME NEW p \in Producers, AddCopy(p) PROVE (TypeOK /\ MutualExclusion /\ RingShape)'
  <2>1. TypeOK'
    BY <1>4 DEF AddCopy
  <2>2. MutualExclusion'
    BY <1>4 DEF AddCopy
  <2>3. RingShape'
    BY <1>4 DEF AddCopy
  <2> QED
    BY <2>1, <2>2, <2>3
<1>5. ASSUME NEW p \in Producers, AddAdvance(p) PROVE (TypeOK /\ MutualExclusion /\ RingShape)'
  <2>1. TypeOK'
    BY <1>5, SlotFacts, PermitMeaning DEF AddAdvance, Writing
  <2>2. MutualExclusion'
    BY <1>5 DEF AddAdvance
  <2>3. stored < N /\ tail' = Advance(Slot(head, stored + 1)) /\ stored' = stored + 1
    BY <1>5, PermitMeaning DEF AddAdvance, Writing
  <2>4. Advance(Slot(head, stored + 1)) = Slot(head, stored + 2)
    <3>1. head \in Slots /\ stored \in 0 .. N
      OBVIOUS
    <3> QED
      BY ONLY <2>3, <3>1, SlotFacts
  <2>5. tail' = Slot(head, stored' + 1)
    <3>1. stored + 2 = stored' + 1
      BY <2>3
    <3> QED
      BY <2>3, <2>4, <3>1
  <2>6. RingShape'
    BY <1>5, <2>5 DEF AddAdvance
  <2> QED
    BY <2>1, <2>2, <2>6
<1>6. ASSUME NEW p \in Producers, AddPost(p) PROVE (TypeOK /\ MutualExclusion /\ RingShape)'
  <2>1. TypeOK'
    BY <1>6, PermitMeaning DEF AddPost, Filled
  <2>2. MutualExclusion'
    BY <1>6 DEF AddPost
  <2>3. RingShape'
    BY <1>6 DEF AddPost, Filled
  <2> QED
    BY <2>1, <2>2, <2>3
<1>7. ASSUME NEW p \in Consumers, RemoveCall(p) PROVE (TypeOK /\ MutualExclusion /\ RingShape)'
  <2>1. TypeOK'
    BY <1>7 DEF RemoveCall
  <2>2. MutualExclusion'
    BY <1>7 DEF RemoveCall
  <2>3. RingShape'
    BY <1>7 DEF RemoveCall
  <2> QED
    BY <2>1, <2>2, <2>3
<1>8. ASSUME NEW p \in Consumers, RemoveWait(p) PROVE (TypeOK /\ MutualExclusion /\ RingShape)'
  <2>1. TypeOK'
    BY <1>8 DEF RemoveWait
  <2>2. MutualExclusion'
    BY <1>8 DEF RemoveWait
  <2>3. RingShape'
    BY <1>8 DEF RemoveWait
  <2> QED
    BY <2>1, <2>2, <2>3
<1>9. ASSUME NEW p \in Consumers, RemoveLock(p) PROVE (TypeOK /\ MutualExclusion /\ RingShape)'
  <2>1. TypeOK'
    BY <1>9 DEF RemoveLock
  <2>2. MutualExclusion'
    BY <1>9 DEF RemoveLock
  <2>3. RingShape'
    BY <1>9 DEF RemoveLock
  <2> QED
    BY <2>1, <2>2, <2>3
<1>10. ASSUME NEW p \in Consumers, RemoveCopy(p) PROVE (TypeOK /\ MutualExclusion /\ RingShape)'
  <2>1. TypeOK'
    BY <1>10 DEF RemoveCopy
  <2>2. MutualExclusion'
    BY <1>10 DEF RemoveCopy
  <2>3. RingShape'
    BY <1>10 DEF RemoveCopy
  <2> QED
    BY <2>1, <2>2, <2>3
<1>11. ASSUME NEW p \in Consumers, RemoveAdvance(p) PROVE (TypeOK /\ MutualExclusion /\ RingShape)'
  <2>1. TypeOK'
    BY <1>11, SlotFacts, PermitMeaning DEF RemoveAdvance, Reading
  <2>2. MutualExclusion'
    BY <1>11 DEF RemoveAdvance
  <2>3. RingShape'
    BY <1>11, SlotFacts, PermitMeaning DEF RemoveAdvance, Reading
  <2> QED
    BY <2>1, <2>2, <2>3
<1>12. ASSUME NEW p \in Consumers, RemovePost(p) PROVE (TypeOK /\ MutualExclusion /\ RingShape)'
  <2>1. TypeOK'
    BY <1>12, PermitMeaning DEF RemovePost, Emptied
  <2>2. MutualExclusion'
    BY <1>12 DEF RemovePost
  <2>3. RingShape'
    BY <1>12 DEF RemovePost, Emptied
  <2> QED
    BY <2>1, <2>2, <2>3
<1> QED
  BY <1>0, <1>1, <1>2, <1>3, <1>4, <1>5, <1>6, <1>7, <1>8, <1>9, <1>10, <1>11, <1>12 DEF Next, AddStep, RemoveStep

\* Inv holds of every state of queue.c that any number of writers and readers
\* can reach.
LEMMA QueueInvariant == Spec => []Inv
<1>1. Init => Inv
  BY InitInv
<1>2. Inv /\ [Next]_vars => Inv'
  <2>1. ASSUME Inv, UNCHANGED vars PROVE Inv'
    BY <2>1 DEF vars, Inv, TypeOK, MutualExclusion, PermitAccounting, RingShape,
                Writing, Filled, Reading, Emptied
  <2> QED
    BY <2>1, InvStep
<1> QED
  BY <1>1, <1>2, PTL DEF Spec

\* The pointers of the ring stay inside the buffer and neither semaphore of
\* queue_add and queue_remove passes max_count.
THEOREM PointersInside == Spec => []TypeOK
<1>1. Inv => TypeOK
  BY DEF Inv
<1> QED
  BY <1>1, QueueInvariant, PTL

\* At most one process at a time is between the lock and the unlock of
\* queue_add and queue_remove, and it is the holder of the mutex.
THEOREM OneInside == Spec => []MutualExclusion
<1>1. Inv => MutualExclusion
  BY DEF Inv
<1> QED
  BY <1>1, QueueInvariant, PTL

\* The two semaphores of queue.c account for every slot, whoever is where in its
\* call.
THEOREM SlotsAccounted == Spec => []PermitAccounting
<1>1. Inv => PermitAccounting
  BY DEF Inv
<1> QED
  BY <1>1, QueueInvariant, PTL

\* head and tail enclose exactly the elements that queue_add has stored and
\* queue_remove not yet taken, and nobody's copy is overwritten before it counts.
THEOREM RingIntact == Spec => []RingShape
<1>1. Inv => RingShape
  BY DEF Inv
<1> QED
  BY <1>1, QueueInvariant, PTL

-----------------------------------------------------------------------------
(* Refinement of BoundedFifo *)

\* Contents is a sequence of stored elements.
LEMMA ContentsSeq ==
    ASSUME Inv
    PROVE  /\ Contents \in Seq(Buffer)
           /\ Len(Contents) = stored
           /\ \A k \in 1 .. stored : Contents[k] = data[Slot(head, k)]
<1>1. stored \in 0 .. N /\ head \in Slots /\ data \in [Slots -> Buffer]
  BY DEF Inv, TypeOK
<1>2. \A k \in 1 .. stored : Slot(head, k) \in Slots
  BY <1>1, NAssumption DEF Slots, Slot
<1>3. Contents \in [1 .. stored -> Buffer]
  BY <1>1, <1>2 DEF Contents
<1>4. stored \in Nat
  BY <1>1, NAssumption
<1> QED
  BY <1>3, <1>4 DEF Contents

\* A step that moves no pointer and writes no stored slot keeps the contents.
LEMMA ContentsKept ==
    ASSUME Inv, UNCHANGED <<head, stored>>,
           \A k \in 1 .. stored : data'[Slot(head, k)] = data[Slot(head, k)]
    PROVE  Contents' = Contents
BY DEF Contents, Slot

\* The memcpy of queue_add overwrites no stored element.
LEMMA CopyKeepsContents ==
    ASSUME Inv, NEW p \in Producers, AddCopy(p)
    PROVE  Contents' = Contents
<1>1. stored < N /\ stored \in 0 .. N /\ head \in Slots
  BY PermitMeaning DEF AddCopy, Writing, Inv, TypeOK
<1>2. \A k \in 1 .. stored : Slot(head, k) # tail
  BY <1>1, SlotFacts DEF Inv, RingShape
<1>3. \A k \in 1 .. stored : data'[Slot(head, k)] = data[Slot(head, k)]
  BY <1>2 DEF AddCopy, Inv, TypeOK
<1> QED
  BY <1>3, ContentsKept DEF AddCopy

\* The advance of tail appends the element that the memcpy has stored.
LEMMA AdvanceAppends ==
    ASSUME Inv, NEW p \in Producers, AddAdvance(p)
    PROVE  Contents' = Append(Contents, elem[p]) /\ Len(Contents) < N
<1>1. stored < N /\ stored \in 0 .. N
  BY PermitMeaning DEF AddAdvance, Writing
<1>2. data[Slot(head, stored + 1)] = elem[p]
  BY DEF AddAdvance, Inv, RingShape
<1>3. Contents' = [k \in 1 .. (stored + 1) |-> data[Slot(head, k)]]
  BY DEF AddAdvance, Contents, Slot
<1>4. Contents = [k \in 1 .. stored |-> data[Slot(head, k)]]
  BY DEF Contents
<1>5. Contents \in Seq(Buffer) /\ Len(Contents) = stored
  BY ContentsSeq
<1>6. Append(Contents, elem[p]) =
        [k \in 1 .. (stored + 1) |-> IF k = stored + 1 THEN elem[p] ELSE Contents[k]]
  BY <1>1, <1>5
<1> QED
  BY <1>1, <1>2, <1>3, <1>4, <1>5, <1>6

\* The advance of head removes the first element, which the reader has copied.
LEMMA AdvanceRemoves ==
    ASSUME Inv, NEW p \in Consumers, RemoveAdvance(p)
    PROVE  /\ Contents # <<>>
           /\ Contents' = Tail(Contents)
           /\ elem[p] = Head(Contents)
<1>1. stored > 0 /\ stored \in 0 .. N /\ head \in Slots
  BY PermitMeaning DEF RemoveAdvance, Reading, Inv, TypeOK
<1>2. Contents \in Seq(Buffer) /\ Len(Contents) = stored
  BY ContentsSeq
<1>3. Contents # <<>>
  BY <1>1, <1>2
<1>4. elem[p] = Head(Contents)
  <2>1. Head(Contents) = data[Slot(head, 1)]
    BY <1>1, <1>2, ContentsSeq
  <2>2. Slot(head, 1) = head
    BY <1>1, SlotFacts
  <2>3. elem[p] = data[head]
    BY DEF RemoveAdvance, Inv, RingShape
  <2> QED
    BY <2>1, <2>2, <2>3
<1>5. Contents' = [k \in 1 .. (stored - 1) |-> data[Slot(Advance(head), k)]]
  BY DEF RemoveAdvance, Contents, Slot
<1>6. \A k \in 1 .. (stored - 1) : Slot(Advance(head), k) = Slot(head, k + 1)
  <2> TAKE k \in 1 .. (stored - 1)
  <2>1. k \in 0 .. N /\ k > 0
    BY <1>1, NAssumption
  <2> QED
    BY <1>1, <2>1, SlotFacts
<1>7. Tail(Contents) = [k \in 1 .. (stored - 1) |-> Contents[k + 1]]
  <2>1. /\ Tail(Contents) \in Seq(Buffer)
        /\ Len(Tail(Contents)) = stored - 1
        /\ \A k \in 1 .. (stored - 1) : Tail(Contents)[k] = Contents[k + 1]
    BY <1>2, <1>3, HeadTailProperties
  <2>2. Tail(Contents) \in [1 .. (stored - 1) -> Buffer]
    BY <2>1, LenProperties
  <2> QED
    BY <2>1, <2>2
<1>8. \A k \in 1 .. (stored - 1) : Contents[k + 1] = data[Slot(head, k + 1)]
  BY <1>1, ContentsSeq
<1> QED
  BY <1>3, <1>4, <1>5, <1>6, <1>7, <1>8

\* A step of queue.c is a step of the FIFO or changes nothing it shows.
LEMMA FifoStep ==
    ASSUME Inv, Next
    PROVE  [Fifo!Next]_(Fifo!vars)
<1> DEFINE Quiet == UNCHANGED <<Contents, AbstractPhase, AbstractArg>>
<1> USE DEF AddPcs, RemovePcs
<1>0. /\ pc \in [Processes -> AddPcs \cup RemovePcs]
      /\ elem \in [Processes -> Buffer]
      /\ AbstractPhase = [p \in Processes |-> PhaseOf(pc[p])]
      /\ AbstractArg = [p \in Processes |->
                           IF PhaseOf(pc[p]) = "removing" THEN NoElem ELSE elem[p]]
      /\ Producers \subseteq Processes /\ Consumers \subseteq Processes
  BY DEF Inv, TypeOK, AbstractPhase, AbstractArg, Processes
<1>b. ASSUME UNCHANGED <<head, data, stored>> PROVE Contents' = Contents
  BY <1>b, ContentsKept
<1>c. Quiet => UNCHANGED Fifo!vars
  BY DEF Fifo!vars
<1>1. ASSUME NEW p \in Producers, NEW e \in Elements, AddCall(p, e) PROVE Fifo!CallAdd(p, e)
  <2>1. /\ AbstractPhase' = [AbstractPhase EXCEPT ![p] = "adding"]
        /\ AbstractArg' = [AbstractArg EXCEPT ![p] = e]
    BY <1>0, <1>1 DEF AddCall, AbstractPhase, AbstractArg, PhaseOf
  <2> QED
    BY <1>0, <1>1, <1>b, <2>1 DEF AddCall, Fifo!CallAdd, PhaseOf
<1>2. ASSUME NEW p \in Producers, AddWait(p) \/ AddLock(p) \/ AddCopy(p) PROVE Quiet
  <2>1. AbstractPhase' = AbstractPhase /\ AbstractArg' = AbstractArg
    BY <1>0, <1>2 DEF AddWait, AddLock, AddCopy, AbstractPhase, AbstractArg, PhaseOf
  <2> QED
    BY <1>2, <1>b, <2>1, CopyKeepsContents DEF AddWait, AddLock
<1>3. ASSUME NEW p \in Producers, AddAdvance(p) PROVE Fifo!Put(p)
  <2>1. /\ AbstractPhase' = [AbstractPhase EXCEPT ![p] = "added"]
        /\ AbstractArg' = AbstractArg
    BY <1>0, <1>3 DEF AddAdvance, AbstractPhase, AbstractArg, PhaseOf
  <2>2. AbstractArg[p] = elem[p] /\ AbstractPhase[p] = "adding"
    BY <1>0, <1>3 DEF AddAdvance, PhaseOf
  <2> QED
    BY <1>3, <2>1, <2>2, AdvanceAppends DEF Fifo!Put
<1>4. ASSUME NEW p \in Producers, AddPost(p) PROVE Fifo!ReturnAdd(p)
  <2>1. /\ AbstractPhase' = [AbstractPhase EXCEPT ![p] = "idle"]
        /\ AbstractArg' = AbstractArg
    BY <1>0, <1>4 DEF AddPost, AbstractPhase, AbstractArg, PhaseOf
  <2> QED
    BY <1>0, <1>4, <1>b, <2>1 DEF AddPost, Fifo!ReturnAdd, PhaseOf
<1>5. ASSUME NEW p \in Consumers, RemoveCall(p) PROVE Fifo!CallRemove(p)
  <2>1. /\ AbstractPhase' = [AbstractPhase EXCEPT ![p] = "removing"]
        /\ AbstractArg' = [AbstractArg EXCEPT ![p] = NoElem]
    BY <1>0, <1>5 DEF RemoveCall, AbstractPhase, AbstractArg, PhaseOf
  <2> QED
    BY <1>0, <1>5, <1>b, <2>1 DEF RemoveCall, Fifo!CallRemove, PhaseOf
<1>6. ASSUME NEW p \in Consumers, RemoveWait(p) \/ RemoveLock(p) \/ RemoveCopy(p) PROVE Quiet
  <2>1. AbstractPhase' = AbstractPhase /\ AbstractArg' = AbstractArg
    BY <1>0, <1>6 DEF RemoveWait, RemoveLock, RemoveCopy, AbstractPhase, AbstractArg, PhaseOf
  <2> QED
    BY <1>6, <1>b, <2>1 DEF RemoveWait, RemoveLock, RemoveCopy
<1>7. ASSUME NEW p \in Consumers, RemoveAdvance(p) PROVE Fifo!Get(p)
  <2>1. /\ AbstractPhase' = [AbstractPhase EXCEPT ![p] = "removed"]
        /\ AbstractArg' = [AbstractArg EXCEPT ![p] = elem[p]]
    BY <1>0, <1>7 DEF RemoveAdvance, AbstractPhase, AbstractArg, PhaseOf
  <2>2. AbstractPhase[p] = "removing"
    BY <1>0, <1>7 DEF RemoveAdvance, PhaseOf
  <2> QED
    BY <1>7, <2>1, <2>2, AdvanceRemoves DEF Fifo!Get
<1>8. ASSUME NEW p \in Consumers, RemovePost(p) PROVE Fifo!ReturnRemove(p)
  <2>1. /\ AbstractPhase' = [AbstractPhase EXCEPT ![p] = "idle"]
        /\ AbstractArg' = AbstractArg
    BY <1>0, <1>8 DEF RemovePost, AbstractPhase, AbstractArg, PhaseOf
  <2> QED
    BY <1>0, <1>8, <1>b, <2>1 DEF RemovePost, Fifo!ReturnRemove, PhaseOf
<1> QED
  BY <1>1, <1>2, <1>3, <1>4, <1>5, <1>6, <1>7, <1>8, <1>c
     DEF Next, AddStep, RemoveStep, Fifo!Next

\* queue.c implements the bounded FIFO, for every number of slots, writers
\* and readers: no element is lost, duplicated, corrupted or overtaken.
THEOREM QueueImplementsFifo == Spec => ImplementsFifo
<1>1. Init => Fifo!Init
  <2> SUFFICES ASSUME Init PROVE Fifo!Init
    OBVIOUS
  <2>1. Contents = <<>>
    BY DEF Init, Contents
  <2>2. /\ AbstractPhase = [p \in Processes |-> "idle"]
        /\ AbstractArg = [p \in Processes |-> NoElem]
    BY DEF Init, AbstractPhase, AbstractArg, PhaseOf
  <2> QED
    BY <2>1, <2>2 DEF Fifo!Init, Fifo!Processes, Processes
<1>2. Inv /\ [Next]_vars => [Fifo!Next]_(Fifo!vars)
  <2>1. ASSUME UNCHANGED vars PROVE UNCHANGED Fifo!vars
    BY <2>1 DEF vars, Fifo!vars, Contents, AbstractPhase, AbstractArg
  <2> QED
    BY <2>1, FifoStep
<1> QED
  BY <1>1, <1>2, QueueInvariant, PTL DEF Spec, ImplementsFifo, Fifo!Spec

-----------------------------------------------------------------------------
(* queue_new, for any number of machines, however many of them crash or    *)
(* run out of memory                                                       *)

\* The inductive invariant.
NamesInv == NamesTypeOK /\ NamesAreTransient /\ AloneInside /\ SomebodyAdvances

LEMMA NamesInitInv == NamesInit => NamesInv
  <1> SUFFICES ASSUME NamesInit PROVE NamesInv
    OBVIOUS
  <1>1. NamesTypeOK
    BY DEF NamesInit, NamesTypeOK
  <1>2. NamesAreTransient /\ AloneInside
    BY DEF NamesInit, NamesAreTransient, AloneInside
  <1>3. SomebodyAdvances
    BY DEF NamesInit, SomebodyAdvances
  <1> QED
    BY <1>1, <1>2, <1>3 DEF NamesInv

\* Every step keeps the types.
LEMMA NamesTypeStep == NamesTypeOK /\ [NamesNext]_nameVars => NamesTypeOK'
  <1> SUFFICES ASSUME NamesTypeOK, [NamesNext]_nameVars PROVE NamesTypeOK'
    OBVIOUS
  <1> USE DEF NamesTypeOK, Calls, Semaphores, Goto
  <1>1. CASE UNCHANGED nameVars
    BY <1>1 DEF nameVars
  <1>2. ASSUME NEW m \in Machines, ShmOpen(m) PROVE NamesTypeOK'
    BY <1>2 DEF ShmOpen, Enter, Inside
  <1>3. ASSUME NEW m \in Machines, ShmUnlink(m) PROVE NamesTypeOK'
    BY <1>3 DEF ShmUnlink
  <1>4. ASSUME NEW m \in Machines, Ftruncate(m) PROVE NamesTypeOK'
    BY <1>4 DEF Ftruncate, OutOfMemory
  <1>5. ASSUME NEW m \in Machines, SemOpenWrite(m) PROVE NamesTypeOK'
    BY <1>5 DEF SemOpenWrite
  <1>6. ASSUME NEW m \in Machines, SemUnlinkWrite(m) PROVE NamesTypeOK'
    BY <1>6 DEF SemUnlinkWrite
  <1>7. ASSUME NEW m \in Machines, SemOpenRead(m) PROVE NamesTypeOK'
    BY <1>7 DEF SemOpenRead
  <1>8. ASSUME NEW m \in Machines, SemUnlinkRead(m) PROVE NamesTypeOK'
    BY <1>8 DEF SemUnlinkRead
  <1>9. ASSUME NEW m \in Machines, Mmap(m) PROVE NamesTypeOK'
    BY <1>9 DEF Mmap, OutOfMemory
  <1>10. ASSUME NEW m \in Machines, Fail(m) PROVE NamesTypeOK'
    BY <1>10 DEF Fail
  <1>11. ASSUME NEW m \in Crashing, Crash(m) PROVE NamesTypeOK'
    BY <1>11, MachinesAssumption DEF Crash
  <1> QED
    BY <1>1, <1>2, <1>3, <1>4, <1>5, <1>6, <1>7, <1>8, <1>9, <1>10, <1>11
    DEF NamesNext, QueueNew

\* Only its maker can be where a name has to be removed, and it goes on from
\* there by removing whatever has the name.
LEMMA TransientStep == NamesTypeOK /\ NamesAreTransient /\ [NamesNext]_nameVars => NamesAreTransient'
  <1> SUFFICES ASSUME NamesTypeOK, NamesAreTransient, [NamesNext]_nameVars PROVE NamesAreTransient'
    OBVIOUS
  <1> USE NoneAssumption DEF NamesTypeOK, NamesAreTransient, UnlinkOf, Semaphores, Goto
  <1>1. CASE UNCHANGED nameVars
    BY <1>1 DEF nameVars
  <1>2. ASSUME NEW m \in Machines, ShmOpen(m) PROVE NamesAreTransient'
    BY <1>2 DEF ShmOpen
  <1>3. ASSUME NEW m \in Machines, ShmUnlink(m) PROVE NamesAreTransient'
    BY <1>3 DEF ShmUnlink
  <1>4. ASSUME NEW m \in Machines, Ftruncate(m) PROVE NamesAreTransient'
    BY <1>4 DEF Ftruncate, OutOfMemory
  <1>5. ASSUME NEW m \in Machines, SemOpenWrite(m) PROVE NamesAreTransient'
    BY <1>5 DEF SemOpenWrite
  <1>6. ASSUME NEW m \in Machines, SemUnlinkWrite(m) PROVE NamesAreTransient'
    BY <1>6 DEF SemUnlinkWrite
  <1>7. ASSUME NEW m \in Machines, SemOpenRead(m) PROVE NamesAreTransient'
    BY <1>7 DEF SemOpenRead
  <1>8. ASSUME NEW m \in Machines, SemUnlinkRead(m) PROVE NamesAreTransient'
    BY <1>8 DEF SemUnlinkRead
  <1>9. ASSUME NEW m \in Machines, Mmap(m) PROVE NamesAreTransient'
    BY <1>9 DEF Mmap, OutOfMemory
  <1>10. ASSUME NEW m \in Machines, Fail(m) PROVE NamesAreTransient'
    BY <1>10 DEF Fail
  <1>11. ASSUME NEW m \in Crashing, Crash(m) PROVE NamesAreTransient'
    BY <1>11, MachinesAssumption DEF Crash, Inside, Calls
  <1> QED
    BY <1>1, <1>2, <1>3, <1>4, <1>5, <1>6, <1>7, <1>8, <1>9, <1>10, <1>11
    DEF NamesNext, QueueNew

\* Without a crash a name that is there belongs to a machine inside queue_new.
LEMMA NamesAreOfThoseInside ==
    ASSUME NamesTypeOK, NamesAreTransient, \A m \in Machines : call[m] # "crashed"
    PROVE  /\ shm # None => shm \in Machines /\ call[shm] = "shm_unlink"
           /\ sem # None => sem[1] \in Machines /\ call[sem[1]] = UnlinkOf(sem)
  BY DEF NamesTypeOK, NamesAreTransient, Semaphores

LEMMA AloneStep == NamesInv /\ [NamesNext]_nameVars => AloneInside'
  <1> SUFFICES ASSUME NamesInv, [NamesNext]_nameVars,
                      \A m \in Machines : call'[m] # "crashed"
               PROVE  AloneInside'
    BY DEF AloneInside
  <1> USE NoneAssumption
  <1>0. NamesTypeOK /\ NamesAreTransient /\ AloneInside
    BY DEF NamesInv
  <1>1. CASE UNCHANGED nameVars
    BY <1>0, <1>1 DEF nameVars, AloneInside, Inside
  <1>2. ASSUME NEW m \in Crashing, Crash(m) PROVE FALSE
    BY <1>0, <1>2, MachinesAssumption DEF Crash, Goto, NamesTypeOK
  <1>3. ASSUME NEW m \in Machines, QueueNew(m) PROVE AloneInside'
    <2>1. \A o \in Machines : call[o] # "crashed"
      BY <1>0, <1>3 DEF NamesTypeOK, QueueNew, ShmOpen, ShmUnlink, Ftruncate, SemOpenWrite,
         SemUnlinkWrite, SemOpenRead, SemUnlinkRead, Mmap, Fail, OutOfMemory, Goto
    <2>2. /\ shm # None => shm \in Machines /\ call[shm] = "shm_unlink"
          /\ sem # None => sem[1] \in Machines /\ call[sem[1]] = UnlinkOf(sem)
      BY <1>0, <2>1, NamesAreOfThoseInside
    <2> USE <1>0, <2>1 DEF NamesTypeOK, AloneInside, Inside, Calls, Goto
    <2>3. CASE ShmOpen(m)
      <3>1. \A o \in Machines \ {m} : call'[o] = call[o] /\ (alone'[o] => alone[o] /\ ~Inside(o))
        BY <2>3 DEF ShmOpen, Enter
      <3>2. alone'[m] => \A o \in Machines : ~Inside(o)
        BY <2>3 DEF ShmOpen, Enter
      <3>3. alone'[m] => call'[m] = "shm_unlink" /\ shm' = m
        BY <2>2, <2>3, <3>2 DEF ShmOpen
      <3>4. writes' = writes /\ reads' = reads
        BY <2>3 DEF ShmOpen
      <3> QED
        BY <3>1, <3>2, <3>3, <3>4
    <2>4. CASE ShmUnlink(m)
      BY <2>4 DEF ShmUnlink
    <2>5. CASE Ftruncate(m)
      BY <2>5 DEF Ftruncate, OutOfMemory
    <2>6. CASE SemOpenWrite(m)
      BY <2>2, <2>6 DEF SemOpenWrite, UnlinkOf
    <2>7. CASE SemUnlinkWrite(m)
      BY <2>7 DEF SemUnlinkWrite
    <2>8. CASE SemOpenRead(m)
      BY <2>2, <2>8 DEF SemOpenRead, UnlinkOf
    <2>9. CASE SemUnlinkRead(m)
      BY <2>9 DEF SemUnlinkRead
    <2>10. CASE Mmap(m)
      BY <2>10 DEF Mmap, OutOfMemory
    <2>11. CASE Fail(m)
      BY <2>11 DEF Fail
    <2> QED
      BY <1>3, <2>3, <2>4, <2>5, <2>6, <2>7, <2>8, <2>9, <2>10, <2>11 DEF QueueNew
  <1> QED
    BY <1>1, <1>2, <1>3 DEF NamesNext

\* Whoever finds a name gone has been overtaken by one that goes on.
LEMMA AdvanceStep == NamesInv /\ [NamesNext]_nameVars => SomebodyAdvances'
  <1> SUFFICES ASSUME NamesInv, [NamesNext]_nameVars, ~short',
                      \A m \in Machines : call'[m] # "crashed"
               PROVE  SomebodyAdvances'
    BY DEF SomebodyAdvances
  <1> USE NoneAssumption DEF SomebodyIsOnTheWay
  <1>0. NamesTypeOK /\ SomebodyAdvances
    BY DEF NamesInv
  <1>1. CASE UNCHANGED nameVars
    BY <1>0, <1>1 DEF nameVars, SomebodyAdvances
  <1>2. ASSUME NEW m \in Crashing, Crash(m) PROVE FALSE
    BY <1>0, <1>2, MachinesAssumption DEF Crash, Goto, NamesTypeOK
  <1>3. ASSUME NEW m \in Machines, QueueNew(m) PROVE SomebodyAdvances'
    <2>1. \A o \in Machines : call[o] # "crashed"
      BY <1>0, <1>3 DEF NamesTypeOK, QueueNew, ShmOpen, ShmUnlink, Ftruncate, SemOpenWrite,
         SemUnlinkWrite, SemOpenRead, SemUnlinkRead, Mmap, Fail, OutOfMemory, Goto
    <2> USE <1>0, <2>1 DEF NamesTypeOK, SomebodyAdvances, Goto
    <2>2. CASE ShmOpen(m)
      BY <2>2 DEF ShmOpen
    <2>3. CASE ShmUnlink(m)
      BY <2>3 DEF ShmUnlink
    <2>4. CASE Ftruncate(m)
      BY <2>4 DEF Ftruncate, OutOfMemory
    <2>5. CASE SemOpenWrite(m)
      BY <2>5 DEF SemOpenWrite, Semaphores
    <2>6. CASE SemUnlinkWrite(m)
      BY <2>6 DEF SemUnlinkWrite
    <2>7. CASE SemOpenRead(m)
      BY <2>7 DEF SemOpenRead, Semaphores
    <2>8. CASE SemUnlinkRead(m)
      BY <2>8 DEF SemUnlinkRead
    <2>9. CASE Mmap(m)
      BY <2>9 DEF Mmap, OutOfMemory
    <2>10. CASE Fail(m)
      BY <2>10 DEF Fail
    <2> QED
      BY <1>3, <2>2, <2>3, <2>4, <2>5, <2>6, <2>7, <2>8, <2>9, <2>10 DEF QueueNew
  <1> QED
    BY <1>1, <1>2, <1>3 DEF NamesNext

LEMMA NamesInvariant == NamesSpec => []NamesInv
  <1>1. NamesInv /\ [NamesNext]_nameVars => NamesInv'
    BY NamesTypeStep, TransientStep, AloneStep, AdvanceStep DEF NamesInv
  <1> QED
    BY NamesInitInv, <1>1, PTL DEF NamesSpec

\* queue_new leaves no name behind unless it is killed: for any number of
\* machines, and whatever they unlink of each other.
THEOREM NamesGivenBack == NamesSpec => []NamesAreTransient
  <1>1. NamesInv => NamesAreTransient
    BY DEF NamesInv
  <1> QED
    BY NamesInvariant, <1>1, PTL

\* A machine that calls queue_new when no other does gets its own queue, with
\* its own semaphores: what other machines did before does not matter.
THEOREM UndisturbedGetsQueue == NamesSpec => []AloneGetsQueue
  <1>1. NamesInv => AloneGetsQueue
    BY DEF NamesInv, AloneInside, AloneGetsQueue, Returned, HasOwnSemaphores
  <1> QED
    BY NamesInvariant, <1>1, PTL

\* However many machines call queue_new at the same time, and however often they
\* remove each other's names, one of them gets a queue.
THEOREM NotAllTurnedAway == NamesSpec => []SomebodyGetsQueue
  <1>1. NamesInv => SomebodyGetsQueue
    <2> SUFFICES ASSUME NamesInv, ~short, \A m \in Machines : Returned(m)
                 PROVE  \E m \in Machines : call[m] = "queue"
      BY DEF SomebodyGetsQueue
    <2>1. \A m \in Machines : call[m] \in {"queue", "null"}
      BY DEF Returned
    <2>2. shm = None /\ sem = None
      BY <2>1 DEF NamesInv, NamesTypeOK, NamesAreTransient, UnlinkOf, Semaphores
    <2>3. SomebodyIsOnTheWay
      BY <2>1, <2>2, MachinesAssumption DEF NamesInv, SomebodyAdvances
    <2> QED
      BY <2>1, <2>2, <2>3 DEF SomebodyIsOnTheWay
  <1> QED
    BY NamesInvariant, <1>1, PTL
=============================================================================
