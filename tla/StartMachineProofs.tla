------------------------- MODULE StartMachineProofs -------------------------
(***************************************************************************)
(* Proofs about StartMachine, for every set of children that may die and   *)
(* every number of failing forks.                                          *)
(***************************************************************************)
EXTENDS StartMachine, TLAPS

\* Inductive invariant for the processes of the machine.
ProcessInv == TypeOK /\ OnlyParent /\ ParentKills /\ OpenedLeavesNothing

\* And for what becomes of the processes outside.
EndInv == ProcessInv /\ PidsFrom /\ EndsOneOfTwoWays

\* ForkOrder and KillOrder list the six children, each once.
LEMMA Orders ==
    /\ Len(ForkOrder) = 6 /\ Len(KillOrder) = 6
    /\ \A i \in 1 .. 6 : ForkOrder[i] \in Children /\ KillOrder[i] \in Children
    /\ \A c \in Children : \E i \in 1 .. 6 : KillOrder[i] = c
  <1>1. Len(ForkOrder) = 6 /\ Len(KillOrder) = 6
    BY DEF ForkOrder, KillOrder
  <1>2. DOMAIN ForkOrder = 1 .. 6
    BY DEF ForkOrder
  <1>3. Children = {"instruction_store", "input_module", "processing_unit", "io_switch",
                    "matching_unit", "timeout_process"}
    BY <1>2 DEF Children, ForkOrder
  <1>4. \A i \in 1 .. 6 : ForkOrder[i] \in Children /\ KillOrder[i] \in Children
    BY <1>3 DEF ForkOrder, KillOrder
  <1>5. /\ KillOrder[1] = "processing_unit" /\ KillOrder[2] = "instruction_store"
        /\ KillOrder[3] = "matching_unit" /\ KillOrder[4] = "io_switch"
        /\ KillOrder[5] = "input_module" /\ KillOrder[6] = "timeout_process"
    BY DEF KillOrder
  <1> QED
    BY <1>1, <1>3, <1>4, <1>5

\* The supervisors are processes, and different ones.
LEMMA Selves ==
    /\ Self("parent") = Root /\ Root \in Processes
    /\ Self("store") = <<"parent", "instruction_store">> /\ Self("store") \in Processes
    /\ Root \notin Supervisors \X Children
  <1>1. "instruction_store" \in Children
    BY Orders DEF ForkOrder
  <1> QED
    BY <1>1 DEF Self, Root, Processes, Supervisors

LEMMA InitTypeOK == Init => TypeOK
  BY Orders, Selves, StartAssumption DEF Init, TypeOK

\* Advancing to the next child stays within the six.
LEMMA AdvanceTypes ==
    ASSUME TypeOK, NEW s \in Supervisors, NEW phase \in {"wait", "exit"}, Advance(s, phase)
    PROVE  /\ pc' \in [Supervisors -> {"none", "fork", "wait", "kill", "exit"}]
           /\ n' \in [Supervisors -> 1 .. Len(ForkOrder)]
  <1>1. n \in [Supervisors -> 1 .. 6] /\ Len(ForkOrder) = 6
    BY Orders DEF TypeOK
  <1>2. n[s] \in 1 .. 6
    BY <1>1
  <1>3. n[s] # 6 => n[s] + 1 \in 1 .. 6
    BY <1>2
  <1>4. n' = [n EXCEPT ![s] = IF n[s] = 6 THEN 1 ELSE n[s] + 1]
    BY <1>1 DEF Advance
  <1>5. n' \in [Supervisors -> 1 .. 6]
    BY <1>1, <1>3, <1>4
  <1>6. pc' \in [Supervisors -> {"none", "fork", "wait", "kill", "exit"}]
    BY DEF TypeOK, Advance
  <1> QED
    BY <1>1, <1>5, <1>6

\* Assigning to a variable of type pid_t.
LEMMA PidTypes ==
    ASSUME TypeOK, NEW s \in Supervisors, NEW c \in Children,
           NEW value \in {"unset", "child", "zero", "minus_one"}
    PROVE  [pid EXCEPT ![s][c] = value]
               \in [Supervisors -> [Children -> {"unset", "child", "zero", "minus_one"}]]
  <1>1. pid[s] \in [Children -> {"unset", "child", "zero", "minus_one"}]
    BY DEF TypeOK
  <1>2. [pid[s] EXCEPT ![c] = value] \in [Children -> {"unset", "child", "zero", "minus_one"}]
    BY <1>1
  <1> QED
    BY <1>2 DEF TypeOK

\* Every step keeps the types.
LEMMA TypeStep == TypeOK /\ [Next]_vars => TypeOK'
  <1> SUFFICES ASSUME TypeOK, [Next]_vars PROVE TypeOK'
    OBVIOUS
  <1>0. \A s \in Supervisors : ForkOrder[n[s]] \in Children /\ KillOrder[n[s]] \in Children
    BY Orders DEF TypeOK
  <1>1. CASE UNCHANGED vars
    BY <1>1 DEF vars, TypeOK
  <1>2. ASSUME NEW s \in Supervisors, Fork(s) PROVE TypeOK'
    <2>1. running' \subseteq Processes
      BY <1>0, <1>2 DEF Fork, TypeOK, Processes
    <2> QED
      BY <1>0, <1>2, <2>1, AdvanceTypes, PidTypes DEF Fork, TypeOK
  <1>3. ASSUME NEW s \in Supervisors, ForkFails(s) PROVE TypeOK'
    BY <1>0, <1>3, AdvanceTypes, PidTypes DEF ForkFails, TypeOK
  <1>4. CASE OpenFails
    <2>1. "store" \in Supervisors /\ "instruction_store" \in Children
      BY Orders DEF Supervisors, ForkOrder
    <2> QED
      BY <1>4, <2>1, PidTypes, Orders DEF OpenFails, TypeOK
  <1>5. ASSUME NEW s \in Supervisors, Timeout(s) PROVE TypeOK'
    BY <1>5 DEF Timeout, End, TypeOK
  <1>6. ASSUME NEW s \in Supervisors, NEW c \in Crashing, Die(s, c) PROVE TypeOK'
    BY <1>6 DEF Die, End, TypeOK
  <1>7. ASSUME NEW s \in Supervisors, Wait(s) PROVE TypeOK'
    BY <1>7 DEF Wait, TypeOK
  <1>8. ASSUME NEW s \in Supervisors, Kill(s) PROVE TypeOK'
    BY <1>8, AdvanceTypes DEF Kill, TypeOK
  <1>9. ASSUME NEW s \in Supervisors, KillGroup(s) PROVE TypeOK'
    BY <1>9 DEF KillGroup, TypeOK, Outside
  <1>10. ASSUME NEW s \in Supervisors, KillAll(s) PROVE TypeOK'
    BY <1>10, AdvanceTypes DEF KillAll, At, TypeOK
  <1>11. ASSUME NEW s \in Supervisors, Exit(s) PROVE TypeOK'
    BY <1>11 DEF Exit, End, At, TypeOK
  <1> QED
    BY <1>1, <1>2, <1>3, <1>4, <1>5, <1>6, <1>7, <1>8, <1>9, <1>10, <1>11
    DEF Next, Supervise

-----------------------------------------------------------------------------
(* The processes of the machine *)

\* Where a step leaves the parent where it is and adds no child of it.
LEMMA ParentStays ==
    ASSUME ParentKills, pc'["parent"] = pc["parent"], n'["parent"] = n["parent"],
           Root \in running' => Root \in running,
           \A p \in ChildrenOf("parent") : p \in running' => p \in running,
           n["parent"] \in 1 .. 6
    PROVE  ParentKills'
  <1>1. \A i \in 1 .. (n["parent"] - 1) :
            <<"parent", KillOrder[i]>> \in running' => <<"parent", KillOrder[i]>> \in running
    BY Orders DEF ChildrenOf
  <1> QED
    BY <1>1 DEF ParentKills

\* The parent's own steps and those of the others.
LEMMA KillsStep == TypeOK /\ ParentKills /\ [Next]_vars => ParentKills'
  <1> SUFFICES ASSUME TypeOK, ParentKills, [Next]_vars PROVE ParentKills'
    OBVIOUS
  <1>0. /\ n["parent"] \in 1 .. 6 /\ "parent" \in Supervisors /\ "store" \in Supervisors
        /\ "store" # "parent" /\ Supervisors = {"parent", "store"}
        /\ \A i \in 1 .. 6 : KillOrder[i] \in Children
    BY Orders DEF TypeOK, Supervisors
  <1>1. CASE UNCHANGED vars
    BY <1>1 DEF vars, ParentKills
  <1>2. ASSUME Fork("parent") \/ ForkFails("parent") PROVE ParentKills'
    <2>1. /\ pc["parent"] = "fork" /\ Advance("parent", "wait")
      BY <1>2 DEF Fork, ForkFails, At
    <2>2. pc'["parent"] \in {"fork", "wait"} /\ (pc'["parent"] = "wait" => n'["parent"] = 1)
      BY <1>0, <2>1, Orders DEF Advance, TypeOK
    <2> QED
      BY <2>2 DEF ParentKills
  <1>3. ASSUME Fork("store") \/ ForkFails("store") PROVE ParentKills'
    <2>1. pc'["parent"] = pc["parent"] /\ n'["parent"] = n["parent"]
      BY <1>0, <1>3 DEF Fork, ForkFails, Advance, TypeOK
    <2>2. \A p : p \in running' => p \in running \/ \E c : p = <<"store", c>>
      BY <1>3 DEF Fork, ForkFails
    <2>3. /\ \A c : <<"store", c>> # Root
          /\ \A c, d : <<"store", c>> # <<"parent", d>>
      BY DEF Root
    <2> QED
      BY <1>0, <2>1, <2>2, <2>3, ParentStays DEF ChildrenOf
  <1>4. ASSUME NEW s \in Supervisors, Wait(s) PROVE ParentKills'
    <2>1. CASE s = "parent"
      <3>1. pc["parent"] = "wait" /\ pc'["parent"] = "kill" /\ n' = n
        BY <1>0, <1>4, <2>1 DEF Wait, At, TypeOK
      <3>2. n'["parent"] = 1
        BY <3>1 DEF ParentKills
      <3> QED
        BY <3>1, <3>2 DEF ParentKills
    <2>2. CASE s = "store"
      <3>1. pc'["parent"] = pc["parent"] /\ n' = n /\ running' = running
        BY <1>0, <1>4, <2>2 DEF Wait, TypeOK
      <3> QED
        BY <1>0, <3>1, ParentStays
    <2> QED
      BY <1>0, <2>1, <2>2
  <1>5. ASSUME Kill("parent") PROVE ParentKills'
    <2> DEFINE p == <<"parent", KillOrder[n["parent"]]>>
    <2>1. /\ running' = running \ {p} /\ pc["parent"] = "kill" /\ Root \in running
      BY <1>5, Selves DEF Kill, At
    <2>2. CASE n["parent"] = 6
      <3>1. pc'["parent"] = "exit"
        BY <1>0, <1>5, <2>2, Orders DEF Kill, Advance, TypeOK
      <3>2. \A c \in Children : <<"parent", c>> \notin running'
        <4> TAKE c \in Children
        <4>1. PICK i \in 1 .. 6 : KillOrder[i] = c
          BY Orders
        <4>2. i # 6 => i \in 1 .. (n["parent"] - 1)
          BY <2>2
        <4> QED
          BY <2>1, <2>2, <4>1, <4>2 DEF ParentKills
      <3> QED
        BY <3>1, <3>2 DEF ParentKills, ChildrenOf
    <2>3. CASE n["parent"] # 6
      <3>1. pc'["parent"] = "kill" /\ n'["parent"] = n["parent"] + 1
        BY <1>0, <1>5, <2>1, <2>3, Orders DEF Kill, Advance, TypeOK
      <3>2. \A i \in 1 .. n["parent"] : <<"parent", KillOrder[i]>> \notin running'
        BY <1>0, <2>1 DEF ParentKills
      <3> QED
        BY <1>0, <3>1, <3>2 DEF ParentKills
    <2> QED
      BY <2>2, <2>3
  <1>6. ASSUME KillAll("parent") PROVE ParentKills'
    <2>1. running' = {Root}
      BY <1>6, Selves DEF KillAll
    <2>2. pc'["parent"] \in {"kill", "exit"}
      BY <1>0, <1>6 DEF KillAll, At, Advance, TypeOK
    <2>3. \A c : <<"parent", c>> # Root
      BY DEF Root
    <2> QED
      BY <2>1, <2>2, <2>3 DEF ParentKills, ChildrenOf
  <1>7. ASSUME Kill("store") \/ KillAll("store") PROVE ParentKills'
    <2>1. pc'["parent"] = pc["parent"] /\ n'["parent"] = n["parent"]
      BY <1>0, <1>7 DEF Kill, KillAll, Advance, TypeOK
    <2>2. running' \subseteq running
      BY <1>7 DEF Kill, KillAll, At
    <2> QED
      BY <1>0, <2>1, <2>2, ParentStays
  <1>8. ASSUME running' \subseteq running, UNCHANGED n, pc'["parent"] = pc["parent"]
        PROVE  ParentKills'
    BY <1>0, <1>8, ParentStays
  <1>9. CASE OpenFails
    <2>1. pc'["parent"] = pc["parent"] /\ n'["parent"] = n["parent"] /\ running' = running
      BY <1>0, <1>9 DEF OpenFails, TypeOK
    <2> QED
      BY <1>0, <2>1, ParentStays
  <1>10. ASSUME NEW s \in Supervisors, KillGroup(s) \/ Exit(s) \/ Timeout(s)
         PROVE  ParentKills'
    BY <1>8, <1>10 DEF KillGroup, Exit, Timeout, End
  <1>11. ASSUME NEW s \in Supervisors, NEW c \in Crashing, Die(s, c) PROVE ParentKills'
    BY <1>8, <1>11 DEF Die, End
  <1> QED
    BY <1>0, <1>1, <1>2, <1>3, <1>4, <1>5, <1>6, <1>7, <1>9, <1>10, <1>11 DEF Next, Supervise

LEMMA ProcessInit == Init => ProcessInv
  BY InitTypeOK, Selves
  DEF Init, ProcessInv, OnlyParent, ParentKills, OpenedLeavesNothing, NothingLeft, Supervisors

\* A program that can be opened: the steps of the parent and of its children.
LEMMA ProcessStep == ProcessInv /\ [Next]_vars => OnlyParent' /\ OpenedLeavesNothing'
  <1> DEFINE Goal == OnlyParent' /\ OpenedLeavesNothing'
  <1> SUFFICES ASSUME ProcessInv, [Next]_vars, opens' PROVE Goal
    BY DEF OnlyParent, OpenedLeavesNothing
  <1>0. opens
    BY DEF Next, Supervise, Fork, ForkFails, Timeout, OpenFails, Die, Wait, Kill, KillGroup,
       KillAll, Exit, vars
  <1> USE <1>0, Orders, Selves
      DEF ProcessInv, OnlyParent, OpenedLeavesNothing, NothingLeft, TypeOK
  <1>1. CASE UNCHANGED vars
    BY <1>1 DEF vars
  <1>2. ASSUME NEW s \in Supervisors, Supervise(s) \/ ForkFails(s) PROVE s = "parent"
    BY <1>2 DEF Supervisors, Supervise, At, Fork, ForkFails, Wait, Kill, KillGroup, KillAll, Exit
  <1>3. ASSUME Fork("parent") PROVE Goal
    BY <1>3 DEF Fork, At, Advance, ChildrenOf, Supervisors
  <1>4. ASSUME ForkFails("parent") PROVE Goal
    BY <1>4 DEF ForkFails, At, Advance, Supervisors
  <1>5. ASSUME OpenFails PROVE Goal
    BY <1>5 DEF OpenFails
  <1>6. ASSUME NEW s \in Supervisors, Timeout(s) PROVE Goal
    <2>1. <<s, "timeout_process">> # Root
      BY DEF Root, Supervisors
    <2> QED
      BY <1>6, <2>1 DEF Timeout, End
  <1>7. ASSUME NEW s \in Supervisors, NEW c \in Crashing, Die(s, c) PROVE Goal
    <2>1. <<s, c>> # Root
      BY DEF Root, Supervisors
    <2> QED
      BY <1>7, <2>1 DEF Die, End
  <1>8. ASSUME Wait("parent") PROVE Goal
    BY <1>8 DEF Wait, At, Supervisors
  <1>9. ASSUME Kill("parent") PROVE Goal
    <2> DEFINE p == <<"parent", KillOrder[n["parent"]]>>
    <2>1. running' = running \ {p} /\ Root \in running
      BY <1>9 DEF Kill, At
    <2>2. p # Root
      BY DEF Root
    <2>3. pc'["store"] = "none"
      BY <1>9 DEF Kill, Advance, Supervisors
    <2> QED
      BY <2>1, <2>2, <2>3
  <1>10. ASSUME KillGroup("parent") PROVE Goal
    BY <1>10 DEF KillGroup
  <1>11. ASSUME KillAll("parent") PROVE Goal
    <2>1. running' = {Root}
      BY <1>11 DEF KillAll
    <2>2. pc'["store"] = "none"
      BY <1>11 DEF KillAll, Advance, Supervisors
    <2> QED
      BY <2>1, <2>2
  <1>12. ASSUME Exit("parent") PROVE Goal
    <2>1. running \cap ChildrenOf("parent") = {} /\ running' = running \ {Root} /\ pc' = pc
      BY <1>12 DEF Exit, At, End, ParentKills
    <2> QED
      BY <2>1
  <1> QED
    BY <1>1, <1>2, <1>3, <1>4, <1>5, <1>6, <1>7, <1>8, <1>9, <1>10, <1>11, <1>12
    DEF Next, Supervise

LEMMA ProcessInvStep == ProcessInv /\ [Next]_vars => ProcessInv'
  BY KillsStep, ProcessStep, TypeStep DEF ProcessInv

\* When the program can be opened the parent leaves nothing running: whichever
\* children have died before, and whichever forks have failed.
THEOREM NothingOutlivesParent == Spec => []OpenedLeavesNothing
  <1>1. ProcessInv => OpenedLeavesNothing
    BY DEF ProcessInv
  <1> QED
    BY ProcessInit, ProcessInvStep, <1>1, PTL DEF Spec

-----------------------------------------------------------------------------
(* The processes outside the machine *)

LEMMA PidsStep == TypeOK /\ PidsFrom /\ [Next]_vars => PidsFrom'
  <1> SUFFICES ASSUME TypeOK, PidsFrom, [Next]_vars PROVE PidsFrom'
    OBVIOUS
  <1>0. /\ \A s \in Supervisors : ForkOrder[n[s]] \in Children /\ KillOrder[n[s]] \in Children
        /\ "parent" \in Supervisors /\ "store" \in Supervisors
    BY Orders DEF TypeOK, Supervisors
  <1>1. CASE UNCHANGED vars
    BY <1>1 DEF vars, PidsFrom
  <1>2. ASSUME NEW s \in Supervisors, Fork(s) PROVE PidsFrom'
    BY <1>0, <1>2 DEF Fork, TypeOK, PidsFrom
  <1>3. ASSUME NEW s \in Supervisors, ForkFails(s) PROVE PidsFrom'
    BY <1>0, <1>3 DEF ForkFails, TypeOK, PidsFrom
  <1>4. CASE OpenFails
    BY <1>0, <1>4 DEF OpenFails, TypeOK, PidsFrom
  <1>5. ASSUME UNCHANGED <<pid, failures>> PROVE PidsFrom'
    BY <1>5 DEF PidsFrom
  <1> QED
    BY <1>1, <1>2, <1>3, <1>4, <1>5
    DEF Next, Supervise, Wait, Kill, KillGroup, KillAll, Exit, Timeout, Die

LEMMA EndStep == EndInv /\ [Next]_vars => EndsOneOfTwoWays'
  <1> SUFFICES ASSUME EndInv, [Next]_vars, failures' = 0 PROVE EndsOneOfTwoWays'
    BY DEF EndsOneOfTwoWays
  <1>0. /\ \A s \in Supervisors : KillOrder[n[s]] \in Children
        /\ "parent" \in Supervisors /\ "store" \in Supervisors
        /\ Supervisors = {"parent", "store"} /\ running \subseteq Processes
        /\ failures \in Nat
    BY Orders DEF EndInv, ProcessInv, TypeOK, Supervisors
  <1>1. failures = 0
    <2>1. ASSUME NEW s \in Supervisors, ForkFails(s) PROVE FALSE
      BY <1>0, <2>1 DEF ForkFails
    <2> QED
      BY <2>1 DEF Next, Supervise, Fork, Timeout, OpenFails, Die, Wait, Kill, KillGroup, KillAll,
         Exit, vars
  <1>2. /\ \/ harmed = {}
           \/ harmed = {"group"} /\ ~opens /\ running = {}
        /\ Root \notin running => running \subseteq ChildrenOf("store")
    BY <1>1 DEF EndInv, EndsOneOfTwoWays
  <1>3. /\ Self("parent") = Root /\ Self("store") \notin ChildrenOf("store")
        /\ \A s \in Supervisors : \A c : <<s, c>> # Root
    BY Selves DEF ChildrenOf, Supervisors, Root
  \* Nobody supervises once the parent is gone.
  <1>4. ASSUME NEW s \in Supervisors, NEW where, At(s, where) PROVE Root \in running /\ harmed = {}
    BY <1>0, <1>2, <1>3, <1>4 DEF At
  <1>5. ASSUME Root \in running', UNCHANGED harmed, harmed = {} PROVE EndsOneOfTwoWays'
    BY <1>5 DEF EndsOneOfTwoWays
  <1>6. CASE UNCHANGED vars
    BY <1>6 DEF vars, EndInv, EndsOneOfTwoWays
  <1>7. ASSUME NEW s \in Supervisors, Fork(s) \/ ForkFails(s) \/ Wait(s) PROVE EndsOneOfTwoWays'
    BY <1>4, <1>5, <1>7 DEF Fork, ForkFails, Wait
  <1>8. CASE OpenFails
    BY <1>0, <1>4, <1>5, <1>8 DEF OpenFails
  <1>9. ASSUME NEW s \in Supervisors, NEW c, Root \notin running \/ harmed = {},
               running' = running \ {<<s, c>>}, UNCHANGED <<opens, harmed>>
        PROVE  EndsOneOfTwoWays'
    BY <1>2, <1>3, <1>9 DEF EndsOneOfTwoWays
  <1>10. ASSUME NEW s \in Supervisors, Timeout(s) PROVE EndsOneOfTwoWays'
    BY <1>2, <1>9, <1>10 DEF Timeout, End
  <1>11. ASSUME NEW s \in Supervisors, NEW c \in Crashing, Die(s, c) PROVE EndsOneOfTwoWays'
    BY <1>2, <1>9, <1>11 DEF Die, End
  <1>12. ASSUME NEW s \in Supervisors, Kill(s) PROVE EndsOneOfTwoWays'
    BY <1>4, <1>9, <1>12 DEF Kill
  <1>13. ASSUME NEW s \in Supervisors, KillGroup(s) PROVE EndsOneOfTwoWays'
    <2>1. s # "parent"
      BY <1>0, <1>13 DEF KillGroup, EndInv, PidsFrom
    <2>2. ~opens
      BY <1>0, <1>13, <2>1 DEF KillGroup, At, EndInv, ProcessInv, OnlyParent
    <2>3. running' = {} /\ harmed' = {"group"} /\ opens' = opens
      BY <1>4, <1>13 DEF KillGroup
    <2> QED
      BY <2>2, <2>3 DEF EndsOneOfTwoWays
  <1>14. ASSUME NEW s \in Supervisors, KillAll(s) PROVE FALSE
    BY <1>0, <1>1, <1>14 DEF KillAll, EndInv, PidsFrom
  <1>15. ASSUME NEW s \in Supervisors, Exit(s) PROVE EndsOneOfTwoWays'
    <2>1. Root \in running /\ harmed = {} /\ UNCHANGED harmed /\ running' = running \ {Self(s)}
      BY <1>4, <1>15 DEF Exit, End
    <2>2. CASE s = "parent"
      <3>1. running \cap ChildrenOf("parent") = {}
        BY <1>15, <2>1, <2>2 DEF Exit, At, EndInv, ProcessInv, ParentKills
      <3>2. running' \subseteq ChildrenOf("store")
        BY <1>0, <1>3, <2>1, <2>2, <3>1 DEF Processes, ChildrenOf
      <3> QED
        BY <2>1, <3>2 DEF EndsOneOfTwoWays
    <2>3. CASE s = "store"
      <3>1. Self("store") # Root
        BY Selves DEF Root
      <3> QED
        BY <1>5, <2>1, <2>3, <3>1
    <2> QED
      BY <1>0, <2>2, <2>3
  <1> QED
    BY <1>6, <1>7, <1>8, <1>10, <1>11, <1>12, <1>13, <1>14, <1>15 DEF Next, Supervise

\* Without a failed fork the machine either stays within itself, and only stages
\* of the second supervisor can outlive the parent, or it ends at once with the
\* process group that it was started in; the latter only when the program could
\* not be opened.
THEOREM MachineEndsOneOfTwoWays == Spec => []EndsOneOfTwoWays
  <1>1. Init => EndInv
    BY ProcessInit, Orders DEF Init, EndInv, PidsFrom, EndsOneOfTwoWays, Supervisors
  <1>2. EndInv /\ [Next]_vars => EndInv'
    BY EndStep, PidsStep, ProcessInvStep DEF EndInv, ProcessInv
  <1>3. EndInv => EndsOneOfTwoWays
    BY DEF EndInv
  <1> QED
    BY <1>1, <1>2, <1>3, PTL DEF Spec
=============================================================================
