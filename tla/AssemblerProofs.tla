--------------------------- MODULE AssemblerProofs ---------------------------
(****************************************************************************)
(* Proofs about Assembler.  For every source, optimize_graph removes every  *)
(* redundant DUP and leaves no edge to a node that it has removed; and the  *)
(* matching functions of the image's destinations agree with the operands   *)
(* that are read there, except at instructions whose own arguments misfit.  *)
(****************************************************************************)
EXTENDS Assembler, NaturalFacts

-----------------------------------------------------------------------------
(* Nodes *)

\* An edge is not None.
LEMMA EdgeIsSomething ==
    ASSUME NEW node, NEW input
    PROVE  To(node, input) # None /\ To(node, input).node = node /\ To(node, input).input = input
<1>1. "node" \in DOMAIN To(node, input) /\ "node" \notin DOMAIN None
  BY DEF To, None
<1> QED
  BY <1>1 DEF To

\* What the assembler makes of a line, or adds: a record with a pair of
\* destinations; what it adds is a DUP without inputs.
IsNode(x) ==
    /\ x = Node(x.opcode, x.inputs, x.destinations, x.optimizable)
    /\ x.optimizable \in BOOLEAN
    /\ x.destinations = <<x.destinations[1], x.destinations[2]>>
    /\ x.optimizable => x.opcode = "DUP" /\ x.inputs = <<None, None>>

\* Destination k of node p is node i.
Leads(ns, p, k, i) == ns[p].destinations[k] # None /\ ns[p].destinations[k].node = i

\* An added DUP with one destination at most: optimize_graph may remove it.
Spare(ns, i) == ns[i].optimizable /\ ns[i].destinations[2] = None

Inner(ns) ==
    \A p \in DOMAIN ns : \A k \in {1, 2} :
        ns[p].destinations[k] = None \/ ns[p].destinations[k].node \in DOMAIN ns

\* Only one destination is that DUP, and it is that of a node from a line.
HasParent(ns, i) ==
    \E p \in DOMAIN ns, k \in {1, 2} :
        /\ ~ns[p].optimizable
        /\ \A q \in DOMAIN ns, j \in {1, 2} : Leads(ns, q, j, i) <=> q = p /\ j = k

\* A node that may get another destination: it is no parent of such a DUP.
Open(ns, p) ==
    /\ p \in DOMAIN ns
    /\ \A i \in DOMAIN ns, k \in {1, 2} : Spare(ns, i) => ~Leads(ns, p, k, i)

NodesOK(ns) ==
    /\ IsSequence(ns)
    /\ \A i \in DOMAIN ns : IsNode(ns[i])
    /\ Inner(ns)
    /\ \A i \in DOMAIN ns : Spare(ns, i) => HasParent(ns, i)

DefinitionsOK(ns, vs) ==
    \A name \in DOMAIN vs : /\ IsSequence(vs[name])
                            /\ \A j \in DOMAIN vs[name] : Open(ns, vs[name][j])

\* An edge to the second input is one to an instruction that has two, and
\* neither of them is a literal, if its arguments fit.
EdgeOK(ns, d) ==
    \/ d = None
    \/ /\ d.input \in {INPUT_ONE, INPUT_TWO}
       /\ d.input = INPUT_TWO /\ d.node \notin Misfits =>
             /\ ns[d.node].opcode \notin OneInput
             /\ ns[d.node].inputs = <<None, None>>

EdgesOK(ns) == \A p \in DOMAIN ns, k \in {1, 2} : EdgeOK(ns, ns[p].destinations[k])

\* New inputs for a node of a line, or new destinations, make a node again.
LEMMA NodeInputs ==
    ASSUME NEW x, IsNode(x), ~x.optimizable, NEW inputs
    PROVE  LET y == [x EXCEPT !.inputs = inputs]
           IN  /\ IsNode(y)
               /\ y.destinations = x.destinations /\ y.optimizable = x.optimizable
               /\ y.opcode = x.opcode /\ y.inputs = inputs
<1> DEFINE y == [x EXCEPT !.inputs = inputs]
<1>1. x = [opcode |-> x.opcode, inputs |-> x.inputs, destinations |-> x.destinations,
           optimizable |-> x.optimizable]
  BY DEF IsNode, Node
<1>2. y = [opcode |-> x.opcode, inputs |-> inputs, destinations |-> x.destinations,
           optimizable |-> x.optimizable]
  BY <1>1
<1> QED
  BY <1>2 DEF IsNode, Node

LEMMA NodeDestination ==
    ASSUME NEW x, IsNode(x), NEW k \in {1, 2}, NEW d
    PROVE  LET y == [x EXCEPT !.destinations[k] = d]
           IN  /\ IsNode(y)
               /\ y.destinations[k] = d
               /\ \A j \in {1, 2} \ {k} : y.destinations[j] = x.destinations[j]
               /\ y.optimizable = x.optimizable /\ y.opcode = x.opcode /\ y.inputs = x.inputs
<1> DEFINE y == [x EXCEPT !.destinations[k] = d]
           e == [x.destinations EXCEPT ![k] = d]
<1>1. x = [opcode |-> x.opcode, inputs |-> x.inputs, destinations |-> x.destinations,
           optimizable |-> x.optimizable]
  BY DEF IsNode, Node
<1>2. x.destinations = <<x.destinations[1], x.destinations[2]>>
  BY DEF IsNode
<1>3. e = <<e[1], e[2]>> /\ e[k] = d /\ \A j \in {1, 2} \ {k} : e[j] = x.destinations[j]
  BY <1>2
<1>4. y = [opcode |-> x.opcode, inputs |-> x.inputs, destinations |-> e,
           optimizable |-> x.optimizable]
  BY <1>1
<1> HIDE DEF e
<1>5. y.destinations = e /\ y.optimizable = x.optimizable /\ y.opcode = x.opcode
      /\ y.inputs = x.inputs
  BY <1>4
<1>6. IsNode(y)
  <2>1. y = Node(y.opcode, y.inputs, y.destinations, y.optimizable)
    BY <1>4, <1>5 DEF Node
  <2> HIDE DEF y
  <2> QED
    BY <1>3, <1>5, <2>1 DEF IsNode
<1> HIDE DEF y
<1>7. IsNode(y) /\ y.destinations[k] = d
      /\ (\A j \in {1, 2} \ {k} : y.destinations[j] = x.destinations[j])
      /\ y.optimizable = x.optimizable /\ y.opcode = x.opcode /\ y.inputs = x.inputs
  BY <1>3, <1>5, <1>6
<1> QED
  BY <1>7 DEF y


-----------------------------------------------------------------------------
(* Graphs *)

\* The inputs of the nodes do not matter.
LEMMA InputsDoNotMatter ==
    ASSUME NEW ns, NodesOK(ns), NEW ms, IsSequence(ms), DOMAIN ms = DOMAIN ns,
           \A i \in DOMAIN ns : /\ IsNode(ms[i])
                                /\ ms[i].destinations = ns[i].destinations
                                /\ ms[i].optimizable = ns[i].optimizable
    PROVE  NodesOK(ms) /\ \A p : Open(ns, p) => Open(ms, p)
<1>1. \A i \in DOMAIN ns : Spare(ms, i) <=> Spare(ns, i)
  BY DEF Spare
<1>2. \A p \in DOMAIN ns : \A k, i : Leads(ms, p, k, i) <=> Leads(ns, p, k, i)
  BY DEF Leads
<1>3. Inner(ms)
  BY DEF Inner, NodesOK
<1>4. \A i \in DOMAIN ns : HasParent(ns, i) => HasParent(ms, i)
  BY <1>2 DEF HasParent
<1>5. NodesOK(ms)
  BY <1>1, <1>3, <1>4 DEF NodesOK
<1>6. \A p : Open(ns, p) => Open(ms, p)
  BY <1>1, <1>2 DEF Open
<1> QED
  BY <1>5, <1>6

\* Nodes that come behind the others and lead only to each other.
LEMMA NodesAdded ==
    ASSUME NEW ns, NodesOK(ns), NEW ms, IsSequence(ms), Len(ns) <= Len(ms),
           \A i \in 1 .. Len(ns) : ms[i] = ns[i],
           \A p \in DOMAIN ms \ DOMAIN ns :
              /\ IsNode(ms[p])
              /\ \A k \in {1, 2} : \/ ms[p].destinations[k] = None
                                   \/ ms[p].destinations[k].node \in DOMAIN ms \ DOMAIN ns
              /\ Spare(ms, p) => HasParent(ms, p)
    PROVE  /\ NodesOK(ms) /\ DOMAIN ns \subseteq DOMAIN ms
           /\ \A p : Open(ns, p) => Open(ms, p)
<1>1. /\ Len(ns) \in Nat /\ DOMAIN ns = 1 .. Len(ns)
      /\ Len(ms) \in Nat /\ DOMAIN ms = 1 .. Len(ms)
  BY SequenceHas DEF NodesOK
<1>2. DOMAIN ns \subseteq DOMAIN ms /\ \A i \in DOMAIN ns : ms[i] = ns[i]
  BY <1>1
<1>3. \A p \in DOMAIN ns : \A k, i : Leads(ms, p, k, i) <=> Leads(ns, p, k, i)
  BY <1>2 DEF Leads
<1>4. \A p \in DOMAIN ns : Spare(ms, p) <=> Spare(ns, p)
  BY <1>2 DEF Spare
<1>5. \A p \in DOMAIN ms \ DOMAIN ns, k \in {1, 2}, i \in DOMAIN ns : ~Leads(ms, p, k, i)
  BY DEF Leads
<1>6. \A p \in DOMAIN ns, k \in {1, 2}, i \in DOMAIN ms \ DOMAIN ns : ~Leads(ms, p, k, i)
  BY <1>2 DEF Leads, NodesOK, Inner
<1>7. Inner(ms)
  BY <1>2 DEF Inner, NodesOK
<1>8. ASSUME NEW i \in DOMAIN ns, HasParent(ns, i) PROVE HasParent(ms, i)
  <2>1. PICK p \in DOMAIN ns, k \in {1, 2} :
            /\ ~ns[p].optimizable
            /\ \A q \in DOMAIN ns, j \in {1, 2} : Leads(ns, q, j, i) <=> q = p /\ j = k
    BY <1>8 DEF HasParent
  <2>2. ~ms[p].optimizable /\ p \in DOMAIN ms
    BY <1>2, <2>1
  <2>3. \A q \in DOMAIN ms, j \in {1, 2} : Leads(ms, q, j, i) <=> q = p /\ j = k
    BY <1>3, <1>5, <2>1
  <2> QED
    BY <2>2, <2>3 DEF HasParent
<1>9. NodesOK(ms)
  BY <1>2, <1>4, <1>7, <1>8 DEF NodesOK
<1>10. \A p : Open(ns, p) => Open(ms, p)
  BY <1>2, <1>3, <1>4, <1>6 DEF Open
<1> QED
  BY <1>2, <1>9, <1>10

LEMMA EdgesStay ==
    ASSUME NEW ns, Inner(ns), EdgesOK(ns), NEW ms, \A i \in DOMAIN ns : ms[i] = ns[i],
           \A p \in DOMAIN ms \ DOMAIN ns, k \in {1, 2} :
              ms[p].destinations[k] = None \/ ms[p].destinations[k].input = INPUT_ONE
    PROVE  EdgesOK(ms)
<1> SUFFICES ASSUME NEW p \in DOMAIN ms, NEW k \in {1, 2}
             PROVE  EdgeOK(ms, ms[p].destinations[k])
  BY DEF EdgesOK
<1>1. CASE p \in DOMAIN ns
  <2>1. PICK e : e = ns[p].destinations[k]
    OBVIOUS
  <2>2. ms[p].destinations[k] = e /\ EdgeOK(ns, e) /\ (e = None \/ e.node \in DOMAIN ns)
    BY <1>1, <2>1 DEF EdgesOK, Inner
  <2> QED
    BY <2>2 DEF EdgeOK
<1>2. CASE p \notin DOMAIN ns
  BY <1>2 DEF EdgeOK, INPUT_ONE, INPUT_TWO
<1> QED
  BY <1>1, <1>2

\* The nodes of a line: the instruction, and DUPs.
Comes(ns, ms, opcode, inputs) ==
    \A i \in DOMAIN ms : \/ i \in DOMAIN ns /\ ms[i] = ns[i]
                         \/ ms[i].opcode = opcode /\ ms[i].inputs = inputs
                         \/ ms[i].opcode = "DUP" /\ ms[i].inputs = <<None, None>>

\* A node without destinations, for an assignment or a special output.
LEMMA NodeAppended ==
    ASSUME NEW ns, NodesOK(ns), NEW opcode, NEW inputs
    PROVE  LET ms == Append(ns, Node(opcode, inputs, <<None, None>>, FALSE))
           IN  /\ NodesOK(ms) /\ Open(ms, Len(ns) + 1)
               /\ \A p : Open(ns, p) => Open(ms, p)
               /\ Comes(ns, ms, opcode, inputs)
               /\ EdgesOK(ns) => EdgesOK(ms)
<1> DEFINE x == Node(opcode, inputs, <<None, None>>, FALSE)
           ms == Append(ns, x)
           n == Len(ns) + 1
<1>1. /\ IsNode(x) /\ x.destinations[1] = None /\ x.destinations[2] = None /\ ~x.optimizable
      /\ x.opcode = opcode /\ x.inputs = inputs
  BY DEF IsNode, Node
<1> HIDE DEF x
<1>2. /\ IsSequence(ms) /\ Len(ms) = n
      /\ \A i \in 1 .. Len(ns) : ms[i] = ns[i]
      /\ ms[n] = x
  BY SequenceAppended DEF NodesOK
<1>3. /\ Len(ns) \in Nat /\ DOMAIN ns = 1 .. Len(ns) /\ DOMAIN ms = 1 .. n
      /\ DOMAIN ms \ DOMAIN ns = {n} /\ Len(ns) <= Len(ms)
  <2>1. Len(ns) \in Nat /\ DOMAIN ns = 1 .. Len(ns) /\ DOMAIN ms = 1 .. Len(ms)
    BY <1>2, SequenceHas DEF NodesOK
  <2> QED
    BY <1>2, <2>1
<1> HIDE DEF ms, n
<1>4. ~Spare(ms, n)
  BY <1>1, <1>2 DEF Spare
<1>5. /\ NodesOK(ms)
      /\ \A p : Open(ns, p) => Open(ms, p)
  BY <1>1, <1>2, <1>3, <1>4, NodesAdded
<1>6. Open(ms, n)
  BY <1>1, <1>2, <1>3 DEF Open, Leads
<1>7. Comes(ns, ms, opcode, inputs)
  BY <1>1, <1>2, <1>3 DEF Comes
<1>8. EdgesOK(ns) => EdgesOK(ms)
  BY <1>1, <1>2, <1>3, EdgesStay DEF NodesOK
<1> QED
  BY <1>5, <1>6, <1>7, <1>8 DEF ms, n, x

\* The node of a branch behind its two DUPs.
LEMMA BranchAppended ==
    ASSUME NEW ns, NodesOK(ns), NEW opcode, NEW inputs
    PROVE  LET first == Len(ns) + 1
               second == Len(ns) + 2
               outputs == <<To(first, INPUT_ONE), To(second, INPUT_ONE)>>
               ms == ns \o << DupNode(<<None, None>>), DupNode(<<None, None>>),
                              Node(opcode, inputs, outputs, FALSE) >>
           IN  /\ NodesOK(ms) /\ Open(ms, first) /\ Open(ms, second)
               /\ \A p : Open(ns, p) => Open(ms, p)
               /\ Comes(ns, ms, opcode, inputs)
               /\ EdgesOK(ns) => EdgesOK(ms)
<1> DEFINE a == Len(ns) + 1
           b == Len(ns) + 2
           c == Len(ns) + 3
           d == To(a, INPUT_ONE)
           e == To(b, INPUT_ONE)
           x == DupNode(<<None, None>>)
           y == Node(opcode, inputs, <<d, e>>, FALSE)
           t == <<x, x, y>>
           ms == ns \o t
<1>1. d # None /\ d.node = a /\ e # None /\ e.node = b /\ d.input = INPUT_ONE /\ e.input = INPUT_ONE
  BY EdgeIsSomething
<1>2. /\ IsNode(x) /\ x.destinations[1] = None /\ x.destinations[2] = None /\ x.optimizable
      /\ IsNode(y) /\ y.destinations[1] = d /\ y.destinations[2] = e /\ ~y.optimizable
      /\ x.opcode = "DUP" /\ x.inputs = <<None, None>> /\ y.opcode = opcode /\ y.inputs = inputs
  <2> HIDE DEF d, e
  <2>1. /\ IsNode(Node("DUP", <<None, None>>, <<None, None>>, TRUE))
        /\ Node("DUP", <<None, None>>, <<None, None>>, TRUE).destinations[1] = None
        /\ Node("DUP", <<None, None>>, <<None, None>>, TRUE).destinations[2] = None
        /\ Node("DUP", <<None, None>>, <<None, None>>, TRUE).optimizable
        /\ Node("DUP", <<None, None>>, <<None, None>>, TRUE).opcode = "DUP"
        /\ Node("DUP", <<None, None>>, <<None, None>>, TRUE).inputs = <<None, None>>
    BY DEF IsNode, Node
  <2>2. /\ IsNode(y) /\ y.destinations[1] = d /\ y.destinations[2] = e /\ ~y.optimizable
        /\ y.opcode = opcode /\ y.inputs = inputs
    BY DEF IsNode, Node
  <2> QED
    BY <2>1, <2>2 DEF DupNode
<1> HIDE DEF d, e, x, y
<1>3. IsSequence(t) /\ Len(t) = 3 /\ t[1] = x /\ t[2] = x /\ t[3] = y
  <2>1. t \in Seq({x, y}) /\ Len(t) = 3 /\ t[1] = x /\ t[2] = x /\ t[3] = y
    OBVIOUS
  <2> QED
    BY <2>1, SequenceIs
<1> HIDE DEF t
<1>4. IsSequence(ns) /\ Len(ns) \in Nat /\ DOMAIN ns = 1 .. Len(ns)
  BY SequenceHas DEF NodesOK
<1>5. /\ IsSequence(ms) /\ Len(ms) = Len(ns) + Len(t)
      /\ \A i \in 1 .. Len(ns) : ms[i] = ns[i]
      /\ \A i \in 1 .. Len(t) : ms[Len(ns) + i] = t[i]
  <2>1. IsSequence(ns) /\ IsSequence(t)
    BY <1>3, <1>4
  <2> QED
    BY <2>1, SequenceJoined
<1>6. ms[a] = x /\ ms[b] = x /\ ms[c] = y
  BY <1>3, <1>5
<1>7. DOMAIN ms = 1 .. Len(ms)
  BY <1>5, SequenceHas
<1>8. /\ DOMAIN ms \ DOMAIN ns = {a, b, c} /\ a # b /\ a # c /\ b # c
      /\ Len(ns) <= Len(ms)
  BY <1>3, <1>4, <1>5, <1>7
<1> HIDE DEF ms, a, b, c
<1>9. \A q \in DOMAIN ns, j \in {1, 2} : ~Leads(ms, q, j, a) /\ ~Leads(ms, q, j, b)
  BY <1>4, <1>5, <1>8 DEF Leads, NodesOK, Inner
<1>10. \A j \in {1, 2} : /\ ~Leads(ms, a, j, a) /\ ~Leads(ms, b, j, a)
                         /\ ~Leads(ms, a, j, b) /\ ~Leads(ms, b, j, b)
  BY <1>2, <1>6 DEF Leads
<1>11. /\ Leads(ms, c, 1, a) /\ ~Leads(ms, c, 2, a)
       /\ Leads(ms, c, 2, b) /\ ~Leads(ms, c, 1, b)
  BY <1>1, <1>2, <1>6, <1>8 DEF Leads
<1>12. HasParent(ms, a)
  <2>1. \A q \in DOMAIN ms, j \in {1, 2} : Leads(ms, q, j, a) <=> q = c /\ j = 1
    BY <1>8, <1>9, <1>10, <1>11
  <2> QED
    BY <1>2, <1>6, <1>8, <2>1 DEF HasParent
<1>13. HasParent(ms, b)
  <2>1. \A q \in DOMAIN ms, j \in {1, 2} : Leads(ms, q, j, b) <=> q = c /\ j = 2
    BY <1>8, <1>9, <1>10, <1>11
  <2> QED
    BY <1>2, <1>6, <1>8, <2>1 DEF HasParent
<1>14. ASSUME NEW p \in DOMAIN ms \ DOMAIN ns
       PROVE  /\ IsNode(ms[p])
              /\ \A k \in {1, 2} : \/ ms[p].destinations[k] = None
                                   \/ ms[p].destinations[k].node \in DOMAIN ms \ DOMAIN ns
              /\ Spare(ms, p) => HasParent(ms, p)
  BY <1>1, <1>2, <1>6, <1>8, <1>12, <1>13 DEF Spare
<1>15. NodesOK(ms) /\ \A p : Open(ns, p) => Open(ms, p)
  BY <1>5, <1>8, <1>14, NodesAdded
<1>16. Open(ms, a) /\ Open(ms, b)
  BY <1>2, <1>6, <1>8 DEF Open, Leads
<1>17. \A i \in DOMAIN ns : ms[i] = ns[i]
  BY <1>4, <1>5
<1>18. Comes(ns, ms, opcode, inputs)
  BY <1>2, <1>6, <1>8, <1>17 DEF Comes
<1>19. EdgesOK(ns) => EdgesOK(ms)
  <2>1. \A p \in DOMAIN ms \ DOMAIN ns, k \in {1, 2} :
            ms[p].destinations[k] = None \/ ms[p].destinations[k].input = INPUT_ONE
    BY <1>1, <1>2, <1>6, <1>8
  <2> QED
    BY <1>17, <2>1, EdgesStay DEF NodesOK
<1> QED
  BY <1>15, <1>16, <1>18, <1>19 DEF ms, t, x, y, d, e, a, b


-----------------------------------------------------------------------------
(* Edges *)

\* No node is lost or becomes one of another kind.
Extends(ns, ms) ==
    /\ DOMAIN ns \subseteq DOMAIN ms
    /\ \A i \in DOMAIN ns : ms[i].optimizable = ns[i].optimizable
    /\ \A p : Open(ns, p) => Open(ms, p)

LEMMA ExtendsTransitive ==
    ASSUME NEW ns, NEW ms, NEW ls, Extends(ns, ms), Extends(ms, ls)
    PROVE  Extends(ns, ls)
BY DEF Extends

\* Definitions stay open.
LEMMA DefinitionsStay ==
    ASSUME NEW ns, NEW ms, Extends(ns, ms), NEW vs, DefinitionsOK(ns, vs)
    PROVE  DefinitionsOK(ms, vs)
BY DEF Extends, DefinitionsOK

\* The destination k of p leads to a node that stays.
Firm(ms, p, k) ==
    /\ ms[p].destinations[k].node \in DOMAIN ms
    /\ ~Spare(ms, ms[p].destinations[k].node)

\* A node that is open gets new destinations that stay, and so do the nodes
\* that are new.
LEMMA EdgesAdded ==
    ASSUME NEW ns, NodesOK(ns), NEW p, Open(ns, p),
           NEW ms, IsSequence(ms), DOMAIN ns \subseteq DOMAIN ms,
           \A i \in DOMAIN ns \ {p} : ms[i] = ns[i],
           IsNode(ms[p]), ms[p].optimizable = ns[p].optimizable,
           Spare(ms, p) => Spare(ns, p),
           \A k \in {1, 2} : ms[p].destinations[k] = ns[p].destinations[k] \/ Firm(ms, p, k),
           \A i \in DOMAIN ms \ DOMAIN ns :
              IsNode(ms[i]) /\ ~Spare(ms, i) /\ Firm(ms, i, 1) /\ Firm(ms, i, 2)
    PROVE  /\ NodesOK(ms) /\ Extends(ns, ms)
           /\ \A i \in DOMAIN ms \ DOMAIN ns : Open(ms, i)
<1>1. p \in DOMAIN ns
  BY DEF Open
<1>2. \A i \in DOMAIN ms : Spare(ms, i) => i \in DOMAIN ns /\ Spare(ns, i)
  BY DEF Spare
<1>3. \A q \in DOMAIN ns \ {p} : \A k, i : Leads(ms, q, k, i) <=> Leads(ns, q, k, i)
  BY DEF Leads
<1>4. \A i \in DOMAIN ms, k \in {1, 2} : Spare(ms, i) => ~Leads(ms, p, k, i)
  BY <1>2 DEF Leads, Open, Firm
<1>5. \A q \in DOMAIN ms \ DOMAIN ns, i \in DOMAIN ms, k \in {1, 2} :
          Spare(ms, i) => ~Leads(ms, q, k, i)
  BY DEF Leads, Firm
<1>6. Inner(ms)
  BY <1>1 DEF Inner, NodesOK, Firm
<1>7. ASSUME NEW i \in DOMAIN ms, Spare(ms, i) PROVE HasParent(ms, i)
  <2>1. i \in DOMAIN ns /\ Spare(ns, i) /\ HasParent(ns, i)
    BY <1>2, <1>7 DEF NodesOK
  <2>2. PICK r \in DOMAIN ns, k \in {1, 2} :
            /\ ~ns[r].optimizable
            /\ \A q \in DOMAIN ns, j \in {1, 2} : Leads(ns, q, j, i) <=> q = r /\ j = k
    BY <2>1 DEF HasParent
  <2>3. r # p /\ ~ms[r].optimizable /\ r \in DOMAIN ms
    BY <2>1, <2>2 DEF Open
  <2>4. \A q \in DOMAIN ms, j \in {1, 2} : Leads(ms, q, j, i) <=> q = r /\ j = k
    BY <1>3, <1>4, <1>5, <1>7, <2>2, <2>3
  <2> QED
    BY <2>2, <2>3, <2>4 DEF HasParent
<1>8. NodesOK(ms)
  BY <1>6, <1>7 DEF NodesOK
<1>9. \A q : Open(ns, q) => Open(ms, q)
  BY <1>2, <1>3, <1>4 DEF Open
<1>10. Extends(ns, ms)
  BY <1>9 DEF Extends
<1>11. \A i \in DOMAIN ms \ DOMAIN ns : Open(ms, i)
  BY <1>5 DEF Open
<1> QED
  BY <1>8, <1>10, <1>11

GraphOK(g) ==
    /\ g = [nodes |-> g.nodes, variables |-> g.variables]
    /\ NodesOK(g.nodes)
    /\ DefinitionsOK(g.nodes, g.variables)

LEMMA GraphMade ==
    ASSUME NEW ns, NEW vs, NodesOK(ns), DefinitionsOK(ns, vs)
    PROVE  /\ GraphOK([nodes |-> ns, variables |-> vs])
           /\ [nodes |-> ns, variables |-> vs].nodes = ns
           /\ [nodes |-> ns, variables |-> vs].variables = vs
BY DEF GraphOK

\* Destination k of node p becomes d.
Redirected(ns, p, k, d) == [ns EXCEPT ![p].destinations[k] = d]

LEMMA DestinationChanged ==
    ASSUME NEW ns, IsSequence(ns), NEW p \in DOMAIN ns, IsNode(ns[p]), NEW k \in {1, 2}, NEW d
    PROVE  LET ms == Redirected(ns, p, k, d)
           IN  /\ IsSequence(ms) /\ Len(ms) = Len(ns) /\ DOMAIN ms = DOMAIN ns
               /\ \A i \in DOMAIN ns \ {p} : ms[i] = ns[i]
               /\ IsNode(ms[p]) /\ ms[p].optimizable = ns[p].optimizable
               /\ ms[p].opcode = ns[p].opcode /\ ms[p].inputs = ns[p].inputs
               /\ ms[p].destinations[k] = d
               /\ \A j \in {1, 2} \ {k} : ms[p].destinations[j] = ns[p].destinations[j]
<1> DEFINE y == [ns[p] EXCEPT !.destinations[k] = d]
           ms == Redirected(ns, p, k, d)
<1>1. /\ IsNode(y) /\ y.destinations[k] = d
      /\ \A j \in {1, 2} \ {k} : y.destinations[j] = ns[p].destinations[j]
      /\ y.optimizable = ns[p].optimizable
      /\ y.opcode = ns[p].opcode /\ y.inputs = ns[p].inputs
  BY NodeDestination
<1>2. ms = [ns EXCEPT ![p] = y]
  BY DEF Redirected
<1>3. Len(ns) \in Nat /\ DOMAIN ns = 1 .. Len(ns) /\ ns = [i \in 1 .. Len(ns) |-> ns[i]]
  BY SequenceHas
<1> HIDE DEF y, ms
<1>4. DOMAIN ms = 1 .. Len(ns) /\ ms[p] = y /\ \A i \in DOMAIN ns \ {p} : ms[i] = ns[i]
  BY <1>2, <1>3
<1>5. ms = [i \in 1 .. Len(ns) |-> ms[i]]
  BY <1>2, <1>3, <1>4
<1>6. IsSequence(ms) /\ Len(ms) = Len(ns)
  BY <1>3, <1>4, <1>5, SequenceMade
<1>7. /\ IsSequence(ms) /\ Len(ms) = Len(ns) /\ DOMAIN ms = DOMAIN ns
      /\ \A i \in DOMAIN ns \ {p} : ms[i] = ns[i]
      /\ IsNode(ms[p]) /\ ms[p].optimizable = ns[p].optimizable
      /\ ms[p].opcode = ns[p].opcode /\ ms[p].inputs = ns[p].inputs
      /\ ms[p].destinations[k] = d
      /\ \A j \in {1, 2} \ {k} : ms[p].destinations[j] = ns[p].destinations[j]
  BY <1>1, <1>3, <1>4, <1>6
<1> QED
  BY <1>7 DEF ms


\* The nodes are the same and new ones are DUPs.
Alike(ns, ms) ==
    /\ \A i \in DOMAIN ns : ms[i].opcode = ns[i].opcode /\ ms[i].inputs = ns[i].inputs
    /\ \A i \in DOMAIN ms \ DOMAIN ns : ms[i].opcode = "DUP" /\ ms[i].inputs = <<None, None>>

\* The edges are old ones, or d, or lead to the first input of such a DUP.
Grows(ns, ms, d) ==
    /\ Alike(ns, ms)
    /\ \A p \in DOMAIN ms, k \in {1, 2} :
          LET e == ms[p].destinations[k]
          IN  \/ e = None \/ e = d \/ e.input = INPUT_ONE
              \/ \E q \in DOMAIN ns, j \in {1, 2} : e = ns[q].destinations[j]

LEMMA GrowsKeepsEdges ==
    ASSUME NEW ns, Inner(ns), EdgesOK(ns), NEW d, d.node \in DOMAIN ns, EdgeOK(ns, d),
           NEW ms, Grows(ns, ms, d)
    PROVE  EdgesOK(ms) /\ EdgeOK(ms, d)
<1>1. ASSUME NEW e, EdgeOK(ns, e), e = None \/ e.node \in DOMAIN ns
      PROVE  EdgeOK(ms, e)
  BY <1>1 DEF EdgeOK, Grows, Alike
<1>2. EdgeOK(ms, d)
  BY <1>1
<1>3. ASSUME NEW p \in DOMAIN ms, NEW k \in {1, 2}
      PROVE  EdgeOK(ms, ms[p].destinations[k])
  <2> DEFINE e == ms[p].destinations[k]
  <2>1. CASE e = None \/ e.input = INPUT_ONE
    BY <2>1 DEF EdgeOK, INPUT_ONE, INPUT_TWO
  <2>2. CASE e = d
    BY <1>2, <2>2
  <2>3. CASE \E q \in DOMAIN ns, j \in {1, 2} : e = ns[q].destinations[j]
    <3>1. PICK q \in DOMAIN ns, j \in {1, 2} : e = ns[q].destinations[j]
      BY <2>3
    <3>2. EdgeOK(ns, e) /\ (e = None \/ e.node \in DOMAIN ns)
      BY <3>1 DEF EdgesOK, Inner
    <3> QED
      BY <1>1, <3>2
  <2> QED
    BY <2>1, <2>2, <2>3 DEF Grows
<1> QED
  BY <1>2, <1>3 DEF EdgesOK

LEMMA AlikeTransitive ==
    ASSUME NEW ns, NEW ms, NEW ls, Alike(ns, ms), Alike(ms, ls), DOMAIN ns \subseteq DOMAIN ms
    PROVE  Alike(ns, ls)
BY DEF Alike

\* A definition's node gets one more destination, directly or through a DUP.
LEMMA AttachKeeps ==
    ASSUME NEW g, GraphOK(g), NEW name, NEW p, Open(g.nodes, p), NEW d, d # None,
           d.node \in DOMAIN g.nodes, ~g.nodes[d.node].optimizable
    PROVE  /\ GraphOK(Attach(g, name, p, d))
           /\ Extends(g.nodes, Attach(g, name, p, d).nodes)
           /\ Grows(g.nodes, Attach(g, name, p, d).nodes, d)
<1> DEFINE ns == g.nodes
           vs == g.variables
<1>1. g = [nodes |-> ns, variables |-> vs] /\ NodesOK(ns) /\ DefinitionsOK(ns, vs)
  BY DEF GraphOK
<1>2. p \in DOMAIN ns /\ IsNode(ns[p]) /\ IsSequence(ns)
  BY <1>1 DEF Open, NodesOK
<1>3. ASSUME NEW k \in {1, 2}, ns[p].destinations[k] = None,
             Attach(g, name, p, d) = [nodes |-> Redirected(ns, p, k, d), variables |-> vs]
      PROVE  /\ GraphOK(Attach(g, name, p, d))
             /\ Extends(g.nodes, Attach(g, name, p, d).nodes)
             /\ Grows(g.nodes, Attach(g, name, p, d).nodes, d)
  <2> DEFINE ms == Redirected(ns, p, k, d)
  <2> HIDE DEF ns
  <2>1. /\ IsSequence(ms) /\ Len(ms) = Len(ns) /\ DOMAIN ms = DOMAIN ns
        /\ \A i \in DOMAIN ns \ {p} : ms[i] = ns[i]
        /\ IsNode(ms[p]) /\ ms[p].optimizable = ns[p].optimizable
        /\ ms[p].opcode = ns[p].opcode /\ ms[p].inputs = ns[p].inputs
        /\ ms[p].destinations[k] = d
        /\ \A j \in {1, 2} \ {k} : ms[p].destinations[j] = ns[p].destinations[j]
    BY <1>2, DestinationChanged
  <2>2. Attach(g, name, p, d) = [nodes |-> ms, variables |-> vs]
    BY <1>3
  <2> HIDE DEF ms, vs
  <2>3. d.node \in DOMAIN ms /\ ~Spare(ms, d.node)
    BY <2>1 DEF Spare, ns
  <2>4. \A j \in {1, 2} : ms[p].destinations[j] = ns[p].destinations[j] \/ Firm(ms, p, j)
    BY <2>1, <2>3 DEF Firm
  <2>5. Spare(ms, p) => Spare(ns, p)
    BY <1>3, <2>1 DEF Spare
  <2>6. NodesOK(ms) /\ Extends(ns, ms)
    <3>1. Open(ns, p) /\ NodesOK(ns) /\ DOMAIN ms \ DOMAIN ns = {} /\ DOMAIN ns \subseteq DOMAIN ms
      BY <1>1, <2>1 DEF ns
    <3> QED
      BY <2>1, <2>4, <2>5, <3>1, EdgesAdded
  <2>7. DefinitionsOK(ms, vs)
    BY <1>1, <2>6, DefinitionsStay
  <2>8. Grows(ns, ms, d)
    <3>1. \A i \in DOMAIN ns : ms[i].opcode = ns[i].opcode /\ ms[i].inputs = ns[i].inputs
      BY <2>1
    <3>2. ASSUME NEW q \in DOMAIN ns, NEW j \in {1, 2}
          PROVE  ms[q].destinations[j] = d \/ ms[q].destinations[j] = ns[q].destinations[j]
      BY <2>1
    <3> QED
      BY <2>1, <3>1, <3>2 DEF Grows, Alike
  <2> QED
    BY <2>2, <2>6, <2>7, <2>8, GraphMade DEF ns
<1>4. CASE ns[p].destinations[1] = None
  <2>1. Attach(g, name, p, d) = [g EXCEPT !.nodes[p].destinations[1] = d]
    BY <1>4 DEF Attach
  <2>2. [g EXCEPT !.nodes[p].destinations[1] = d]
        = [nodes |-> Redirected(ns, p, 1, d), variables |-> vs]
    BY <1>1 DEF Redirected
  <2> QED
    BY <1>3, <1>4, <2>1, <2>2
<1>5. CASE ns[p].destinations[1] # None /\ ns[p].destinations[2] = None
  <2>1. Attach(g, name, p, d) = [g EXCEPT !.nodes[p].destinations[2] = d]
    BY <1>5 DEF Attach
  <2>2. [g EXCEPT !.nodes[p].destinations[2] = d]
        = [nodes |-> Redirected(ns, p, 2, d), variables |-> vs]
    BY <1>1 DEF Redirected
  <2> QED
    BY <1>3, <1>5, <2>1, <2>2
<1>6. CASE ns[p].destinations[1] # None /\ ns[p].destinations[2] # None
  <2> DEFINE dup == Len(ns) + 1
             old == ns[p].destinations[2]
             new == To(dup, INPUT_ONE)
             x == DupNode(<<old, d>>)
             ls == Redirected(ns, p, 2, new)
             ms == Append(ls, x)
             ws == With(vs, name, <<dup>>)
  <2>1. Attach(g, name, p, d) = [nodes |-> ms, variables |-> ws]
    BY <1>6 DEF Attach, Redirected
  <2>2. new # None /\ new.node = dup /\ new.input = INPUT_ONE
    BY EdgeIsSomething
  <2> HIDE DEF ns, new
  <2>3. /\ IsSequence(ls) /\ Len(ls) = Len(ns) /\ DOMAIN ls = DOMAIN ns
        /\ \A i \in DOMAIN ns \ {p} : ls[i] = ns[i]
        /\ IsNode(ls[p]) /\ ls[p].optimizable = ns[p].optimizable
        /\ ls[p].opcode = ns[p].opcode /\ ls[p].inputs = ns[p].inputs
        /\ ls[p].destinations[2] = new
        /\ \A j \in {1, 2} \ {2} : ls[p].destinations[j] = ns[p].destinations[j]
    BY <1>2, DestinationChanged
  <2>4. /\ IsNode(x) /\ x.destinations[1] = old /\ x.destinations[2] = d
        /\ x.opcode = "DUP" /\ x.inputs = <<None, None>>
    <3> HIDE DEF old
    <3> QED
      BY DEF IsNode, Node, DupNode
  <2> HIDE DEF ls, x
  <2>5. /\ IsSequence(ms) /\ Len(ms) = Len(ls) + 1
        /\ \A i \in 1 .. Len(ls) : ms[i] = ls[i]
        /\ ms[Len(ls) + 1] = x
    BY <2>3, SequenceAppended
  <2>6. /\ Len(ns) \in Nat /\ DOMAIN ns = 1 .. Len(ns) /\ DOMAIN ms = 1 .. Len(ms)
    BY <1>2, <2>5, SequenceHas
  <2>7. DOMAIN ms \ DOMAIN ns = {dup} /\ DOMAIN ns \subseteq DOMAIN ms /\ dup \notin DOMAIN ns
    BY <2>3, <2>5, <2>6
  <2>8. ms[dup] = x /\ \A i \in DOMAIN ns : ms[i] = ls[i]
    BY <2>3, <2>5, <2>6
  <2> HIDE DEF ms, dup, ws
  <2>9. d.node \in DOMAIN ns /\ ~ns[d.node].optimizable /\ Open(ns, p)
    BY DEF ns
  <2>10. \A i \in DOMAIN ms : Spare(ms, i) => i \in DOMAIN ns /\ Spare(ns, i)
    BY <1>2, <2>2, <2>3, <2>4, <2>7, <2>8 DEF Spare
  <2>11. d.node \in DOMAIN ms /\ ~Spare(ms, d.node)
    BY <2>7, <2>9, <2>10 DEF Spare
  <2>12. old.node \in DOMAIN ms /\ ~Spare(ms, old.node)
    <3>1. old.node \in DOMAIN ns /\ Leads(ns, p, 2, old.node)
      BY <1>1, <1>2, <1>6 DEF NodesOK, Inner, Leads
    <3> QED
      BY <2>7, <2>9, <2>10, <3>1 DEF Open
  <2>13. dup \in DOMAIN ms /\ ~Spare(ms, dup)
    BY <2>7, <2>10
  <2>14. Firm(ms, dup, 1) /\ Firm(ms, dup, 2) /\ Firm(ms, p, 2)
    BY <1>2, <2>2, <2>3, <2>4, <2>8, <2>11, <2>12, <2>13 DEF Firm
  <2>15. /\ \A i \in DOMAIN ns \ {p} : ms[i] = ns[i]
         /\ ms[p] = ls[p]
    BY <1>2, <2>3, <2>8
  <2>16. \A k \in {1, 2} : ms[p].destinations[k] = ns[p].destinations[k] \/ Firm(ms, p, k)
    BY <2>3, <2>14, <2>15
  <2>17. Spare(ms, p) => Spare(ns, p)
    BY <1>2, <2>7, <2>10
  <2>18. /\ NodesOK(ms) /\ Extends(ns, ms)
         /\ \A i \in DOMAIN ms \ DOMAIN ns : Open(ms, i)
    <3>1. IsNode(ms[p]) /\ ms[p].optimizable = ns[p].optimizable
      BY <2>3, <2>15
    <3>2. \A i \in DOMAIN ms \ DOMAIN ns :
              IsNode(ms[i]) /\ ~Spare(ms, i) /\ Firm(ms, i, 1) /\ Firm(ms, i, 2)
      BY <2>4, <2>7, <2>8, <2>13, <2>14
    <3> QED
      BY <1>1, <2>5, <2>7, <2>9, <2>15, <2>16, <2>17, <3>1, <3>2, EdgesAdded
  <2>19. Open(ms, dup)
    BY <2>7, <2>18
  <2>20. DefinitionsOK(ms, ws)
    <3>1. DefinitionsOK(ms, vs)
      BY <1>1, <2>18, DefinitionsStay
    <3>2. IsSequence(<<dup>>) /\ DOMAIN <<dup>> = {1} /\ <<dup>>[1] = dup
      <4>1. <<dup>> \in Seq({dup}) /\ DOMAIN <<dup>> = {1} /\ <<dup>>[1] = dup
        OBVIOUS
      <4> QED
        BY <4>1, SequenceIs
    <3>3. \A n \in DOMAIN ws : ws[n] = <<dup>> \/ (n \in DOMAIN vs /\ ws[n] = vs[n])
      BY DEF ws, With
    <3> QED
      BY <2>19, <3>1, <3>2, <3>3 DEF DefinitionsOK
  <2>21. Grows(ns, ms, d)
    <3>1. \A i \in DOMAIN ns : ms[i].opcode = ns[i].opcode /\ ms[i].inputs = ns[i].inputs
      BY <2>3, <2>15
    <3>2. \A i \in DOMAIN ms \ DOMAIN ns : ms[i].opcode = "DUP" /\ ms[i].inputs = <<None, None>>
      BY <2>4, <2>7, <2>8
    <3>3. ASSUME NEW q \in DOMAIN ms, NEW j \in {1, 2}
          PROVE  \/ ms[q].destinations[j] = d
                 \/ ms[q].destinations[j].input = INPUT_ONE
                 \/ \E r \in DOMAIN ns, k \in {1, 2} :
                       ms[q].destinations[j] = ns[r].destinations[k]
      <4>1. CASE q \in DOMAIN ns \ {p}
        BY <2>15, <4>1
      <4>2. CASE q = p
        BY <1>2, <2>2, <2>3, <2>15, <4>2
      <4>3. CASE q = dup
        BY <1>2, <2>4, <2>8, <4>3 DEF old
      <4> QED
        BY <2>7, <4>1, <4>2, <4>3
    <3> QED
      BY <3>1, <3>2, <3>3 DEF Grows, Alike
  <2> QED
    BY <2>1, <2>18, <2>20, <2>21, GraphMade DEF ns
<1> QED
  BY <1>4, <1>5, <1>6


\* The recursion along the definitions of a variable has a solution.
AttachedUpTo(g, name, definitions, d) ==
    CHOOSE f : f = [i \in 0 .. Len(definitions) |->
        IF i = 0 THEN g ELSE Attach(f[i - 1], name, definitions[i], d)]

LEMMA AttachedDefined ==
    ASSUME NEW g, NEW name, NEW definitions, NEW d, Len(definitions) \in Nat
    PROVE  LET f == AttachedUpTo(g, name, definitions, d)
           IN  /\ AttachAll(g, name, definitions, d) = f[Len(definitions)]
               /\ f[0] = g
               /\ \A i \in 1 .. Len(definitions) : f[i] = Attach(f[i - 1], name, definitions[i], d)
<1> DEFINE Then(r, i) == Attach(r, name, definitions[i], d)
           S == {n \in Nat : \E f : f = [i \in 0 .. n |-> IF i = 0 THEN g ELSE Then(f[i - 1], i)]}
<1>1. 0 \in S
  <2> DEFINE f == [i \in 0 .. 0 |-> g]
  <2>1. f = [i \in 0 .. 0 |-> IF i = 0 THEN g ELSE Then(f[i - 1], i)]
    OBVIOUS
  <2> QED
    BY <2>1
<1>2. ASSUME NEW n \in Nat, n \in S PROVE n + 1 \in S
  <2>1. PICK f : f = [i \in 0 .. n |-> IF i = 0 THEN g ELSE Then(f[i - 1], i)]
    BY <1>2
  <2> DEFINE h == [i \in 0 .. (n + 1) |-> IF i = n + 1 THEN Then(f[n], n + 1) ELSE f[i]]
  <2> HIDE DEF Then
  <2>2. ASSUME NEW i \in 0 .. (n + 1) PROVE h[i] = IF i = 0 THEN g ELSE Then(h[i - 1], i)
    <3>1. CASE i = n + 1
      <4>1. h[i] = Then(f[n], n + 1) /\ i - 1 = n /\ i # 0
        BY <3>1
      <4>2. h[n] = f[n]
        OBVIOUS
      <4> QED
        BY <3>1, <4>1, <4>2
    <3>2. CASE i # n + 1
      <4>1. i \in 0 .. n /\ h[i] = f[i]
        BY <3>2
      <4>2. f[i] = IF i = 0 THEN g ELSE Then(f[i - 1], i)
        BY <2>1, <4>1
      <4>3. i # 0 => i - 1 \in 0 .. (n + 1) /\ i - 1 # n + 1
        BY <4>1
      <4>4. i # 0 => h[i - 1] = f[i - 1]
        BY <4>3
      <4> QED
        BY <4>1, <4>2, <4>4
    <3> QED
      BY <3>1, <3>2
  <2>3. h = [i \in 0 .. (n + 1) |-> IF i = 0 THEN g ELSE Then(h[i - 1], i)]
    <3>1. h = [i \in 0 .. (n + 1) |-> h[i]]
      OBVIOUS
    <3> HIDE DEF h
    <3> QED
      BY <2>2, <3>1
  <2>4. \E e : e = [i \in 0 .. (n + 1) |-> IF i = 0 THEN g ELSE Then(e[i - 1], i)]
    <3> HIDE DEF h
    <3> QED
      BY <2>3
  <2> QED
    BY <2>4
<1>3. Len(definitions) \in S
  <2> HIDE DEF S
  <2> QED
    BY <1>1, <1>2, InductionOnSet
<1> DEFINE f == AttachedUpTo(g, name, definitions, d)
<1>4. \E e : e = [i \in 0 .. Len(definitions) |->
                    IF i = 0 THEN g ELSE Attach(e[i - 1], name, definitions[i], d)]
  BY <1>3
<1>5. f = [i \in 0 .. Len(definitions) |->
              IF i = 0 THEN g ELSE Attach(f[i - 1], name, definitions[i], d)]
  BY <1>4 DEF AttachedUpTo
<1>6. AttachAll(g, name, definitions, d) = f[Len(definitions)]
  BY DEF AttachAll, AttachedUpTo
<1> HIDE DEF f
<1>7. f[0] = g
  BY <1>5
<1>8. ASSUME NEW i \in 1 .. Len(definitions)
      PROVE  f[i] = Attach(f[i - 1], name, definitions[i], d)
  <2>1. i \in 0 .. Len(definitions) /\ i # 0
    OBVIOUS
  <2> QED
    BY <1>5, <2>1
<1> QED
  BY <1>6, <1>7, <1>8 DEF f

\* All definitions of a variable, those included that a DUP has replaced on
\* the way.
LEMMA AttachAllKeeps ==
    ASSUME NEW g, GraphOK(g), NEW name, NEW definitions, IsSequence(definitions),
           \A i \in DOMAIN definitions : Open(g.nodes, definitions[i]),
           NEW d, d # None, d.node \in DOMAIN g.nodes, ~g.nodes[d.node].optimizable
    PROVE  /\ GraphOK(AttachAll(g, name, definitions, d))
           /\ Extends(g.nodes, AttachAll(g, name, definitions, d).nodes)
           /\ Alike(g.nodes, AttachAll(g, name, definitions, d).nodes)
           /\ EdgesOK(g.nodes) /\ EdgeOK(g.nodes, d) =>
                 EdgesOK(AttachAll(g, name, definitions, d).nodes)
<1> DEFINE N == Len(definitions)
           f == AttachedUpTo(g, name, definitions, d)
           Good(h) == /\ GraphOK(h) /\ Extends(g.nodes, h.nodes) /\ Alike(g.nodes, h.nodes)
                      /\ EdgesOK(g.nodes) /\ EdgeOK(g.nodes, d) =>
                            EdgesOK(h.nodes) /\ EdgeOK(h.nodes, d)
           S == {n \in Nat : n <= N => Good(f[n])}
<1>0. N \in Nat /\ DOMAIN definitions = 1 .. N
  BY SequenceHas
<1>1. /\ AttachAll(g, name, definitions, d) = f[N]
      /\ f[0] = g
      /\ \A i \in 1 .. N : f[i] = Attach(f[i - 1], name, definitions[i], d)
  BY <1>0, AttachedDefined
<1> HIDE DEF f
<1>2. 0 \in S
  BY <1>1 DEF Extends, Alike
<1>3. ASSUME NEW n \in Nat, n \in S PROVE n + 1 \in S
  <2> SUFFICES ASSUME n + 1 <= N PROVE Good(f[n + 1])
    OBVIOUS
  <2> DEFINE p == definitions[n + 1]
  <2>1. Good(f[n])
    <3> HIDE DEF Good
    <3> QED
      BY <1>0, <1>3
  <2>2. n + 1 \in 1 .. N /\ (n + 1) - 1 = n
    BY <1>0
  <2>3. f[n + 1] = Attach(f[n], name, p, d)
    BY <1>1, <2>2
  <2>4. Open(g.nodes, p)
    BY <1>0, <2>2
  <2> HIDE DEF p, N
  <2>5. Open(f[n].nodes, p) /\ d.node \in DOMAIN f[n].nodes /\ ~f[n].nodes[d.node].optimizable
    BY <2>1, <2>4 DEF Extends
  <2>6. /\ GraphOK(Attach(f[n], name, p, d))
        /\ Extends(f[n].nodes, Attach(f[n], name, p, d).nodes)
        /\ Grows(f[n].nodes, Attach(f[n], name, p, d).nodes, d)
    BY <2>1, <2>5, AttachKeeps
  <2>7. Alike(g.nodes, Attach(f[n], name, p, d).nodes)
    <3>1. DOMAIN g.nodes \subseteq DOMAIN f[n].nodes
      BY <2>1 DEF Extends
    <3>2. Alike(f[n].nodes, Attach(f[n], name, p, d).nodes)
      BY <2>6 DEF Grows
    <3> QED
      BY <2>1, <3>1, <3>2, AlikeTransitive
  <2>8. ASSUME EdgesOK(f[n].nodes), EdgeOK(f[n].nodes, d)
        PROVE  /\ EdgesOK(Attach(f[n], name, p, d).nodes)
               /\ EdgeOK(Attach(f[n], name, p, d).nodes, d)
    <3>1. Inner(f[n].nodes)
      BY <2>1 DEF GraphOK, NodesOK
    <3> QED
      BY <2>5, <2>6, <2>8, <3>1, GrowsKeepsEdges
  <2>9. Extends(g.nodes, Attach(f[n], name, p, d).nodes)
    BY <2>1, <2>6, ExtendsTransitive
  <2> QED
    BY <2>1, <2>3, <2>6, <2>7, <2>8, <2>9
<1>4. N \in S
  <2> HIDE DEF S
  <2> QED
    BY <1>0, <1>2, <1>3, InductionOnSet
<1>5. Good(f[N])
  <2> HIDE DEF Good
  <2> QED
    BY <1>0, <1>4
<1> QED
  BY <1>1, <1>5

\* The inputs of one node change; new nodes are DUPs.
Rewired(ns, ms, node, inputs) ==
    /\ \A i \in DOMAIN ns : /\ ms[i].opcode = ns[i].opcode
                            /\ ms[i].inputs = IF i = node THEN inputs ELSE ns[i].inputs
    /\ \A i \in DOMAIN ms \ DOMAIN ns : ms[i].opcode = "DUP" /\ ms[i].inputs = <<None, None>>

\* Changing the inputs of a node that comes from a line.
LEMMA InputsChanged ==
    ASSUME NEW ns, NodesOK(ns), NEW node \in DOMAIN ns, ~ns[node].optimizable, NEW inputs
    PROVE  LET ms == [ns EXCEPT ![node] = [ns[node] EXCEPT !.inputs = inputs]]
           IN  /\ NodesOK(ms) /\ Extends(ns, ms) /\ Rewired(ns, ms, node, inputs)
               /\ EdgesOK(ns) /\ (ns[node].inputs = <<None, None>> => inputs = <<None, None>>)
                  => EdgesOK(ms)
<1> DEFINE y == [ns[node] EXCEPT !.inputs = inputs]
           ms == [ns EXCEPT ![node] = y]
<1>1. /\ IsNode(y)
      /\ y.destinations = ns[node].destinations /\ y.optimizable = ns[node].optimizable
      /\ y.opcode = ns[node].opcode /\ y.inputs = inputs
  BY NodeInputs DEF NodesOK
<1> HIDE DEF y
<1>2. Len(ns) \in Nat /\ DOMAIN ns = 1 .. Len(ns) /\ ns = [i \in 1 .. Len(ns) |-> ns[i]]
  BY SequenceHas DEF NodesOK
<1>3. /\ DOMAIN ms = 1 .. Len(ns) /\ ms[node] = y /\ \A i \in DOMAIN ns \ {node} : ms[i] = ns[i]
      /\ ms = [i \in 1 .. Len(ns) |-> ms[i]]
  BY <1>2
<1> HIDE DEF ms
<1>4. IsSequence(ms)
  BY <1>2, <1>3, SequenceMade
<1>5. \A i \in DOMAIN ns : /\ IsNode(ms[i])
                           /\ ms[i].destinations = ns[i].destinations
                           /\ ms[i].optimizable = ns[i].optimizable
  BY <1>1, <1>3 DEF NodesOK
<1>6. NodesOK(ms) /\ \A p : Open(ns, p) => Open(ms, p)
  BY <1>2, <1>3, <1>4, <1>5, InputsDoNotMatter
<1>7. Extends(ns, ms)
  BY <1>2, <1>3, <1>5, <1>6 DEF Extends
<1>8. Rewired(ns, ms, node, inputs)
  BY <1>1, <1>2, <1>3 DEF Rewired
<1>9. ASSUME EdgesOK(ns), ns[node].inputs = <<None, None>> => inputs = <<None, None>>
      PROVE  EdgesOK(ms)
  <2> SUFFICES ASSUME NEW p \in DOMAIN ns, NEW k \in {1, 2}
               PROVE  EdgeOK(ms, ms[p].destinations[k])
    BY <1>2, <1>3 DEF EdgesOK
  <2> DEFINE e == ns[p].destinations[k]
  <2>1. ms[p].destinations[k] = e
    BY <1>5
  <2>2. EdgeOK(ns, e) /\ (e = None \/ e.node \in DOMAIN ns)
    BY <1>9 DEF EdgesOK, NodesOK, Inner
  <2>3. ASSUME NEW i \in DOMAIN ns
        PROVE  /\ ms[i].opcode = ns[i].opcode
               /\ ns[i].inputs = <<None, None>> => ms[i].inputs = <<None, None>>
    BY <1>8, <1>9 DEF Rewired
  <2> HIDE DEF e
  <2>4. CASE e = None
    BY <2>1, <2>4 DEF EdgeOK
  <2>5. CASE e # None
    <3>0. e.node \in DOMAIN ns
      BY <2>2, <2>5
    <3>1. /\ ms[e.node].opcode = ns[e.node].opcode
          /\ ns[e.node].inputs = <<None, None>> => ms[e.node].inputs = <<None, None>>
      BY <2>3, <3>0
    <3>2. EdgeOK(ms, e)
      BY <2>2, <2>5, <3>1 DEF EdgeOK
    <3> QED
      BY <2>1, <3>2
  <2> QED
    BY <2>4, <2>5
<1> QED
  BY <1>6, <1>7, <1>8, <1>9 DEF ms, y

\* The inputs without number k, if it is a variable or a placeholder.
Resolved(inputs, k) ==
    IF IsName(inputs[k]) /\ (inputs[k] = Hole \/ inputs[k].name \notin DOMAIN labels)
    THEN [inputs EXCEPT ![k] = None] ELSE inputs

\* Input k of a node may become an edge.
MayConnect(ns, node, k) ==
    LET x == ns[node]
    IN  /\ node \notin Misfits
        /\ k = 2 /\ IsName(x.inputs[2]) /\ x.inputs[2] # Hole
        /\ x.inputs[2].name \notin DOMAIN labels
        => x.opcode \notin OneInput /\ x.inputs = <<None, x.inputs[2]>>

LEMMA ConnectInputKeeps ==
    ASSUME NEW g, GraphOK(g), NEW node \in DOMAIN g.nodes, NEW k \in {1, 2}
    PROVE  /\ GraphOK(ConnectInput(g, node, k))
           /\ Extends(g.nodes, ConnectInput(g, node, k).nodes)
           /\ Rewired(g.nodes, ConnectInput(g, node, k).nodes, node,
                      Resolved(g.nodes[node].inputs, k))
           /\ EdgesOK(g.nodes) /\ MayConnect(g.nodes, node, k) =>
                 EdgesOK(ConnectInput(g, node, k).nodes)
<1> DEFINE ns == g.nodes
           vs == g.variables
           input == ns[node].inputs[k]
           cleared == [g EXCEPT !.nodes[node].inputs[k] = None]
           result == ConnectInput(g, node, k)
<1>1. g = [nodes |-> ns, variables |-> vs] /\ NodesOK(ns) /\ DefinitionsOK(ns, vs)
  BY DEF GraphOK
<1>2. CASE ~(IsName(input) /\ (input = Hole \/ input.name \notin DOMAIN labels))
  <2>1. result = g
    BY <1>2 DEF ConnectInput
  <2>2. Resolved(ns[node].inputs, k) = ns[node].inputs
    BY <1>2 DEF Resolved
  <2>3. Rewired(ns, ns, node, ns[node].inputs)
    BY DEF Rewired
  <2> QED
    BY <2>1, <2>2, <2>3 DEF Extends
<1>3. CASE IsName(input) /\ (input = Hole \/ input.name \notin DOMAIN labels)
  <2>1. IsName(input)
    BY <1>3
  <2>2. ~ns[node].optimizable
    <3>1. ASSUME ns[node].optimizable PROVE FALSE
      <4>1. input = None
        BY <1>1, <3>1 DEF NodesOK, IsNode
      <4>2. ~IsName(None)
        BY DEF IsName, None
      <4> QED
        BY <2>1, <4>1, <4>2
    <3> QED
      BY <3>1
  <2> DEFINE inputs == [ns[node].inputs EXCEPT ![k] = None]
             ms == [ns EXCEPT ![node] = [ns[node] EXCEPT !.inputs = inputs]]
  <2>3. cleared = [nodes |-> ms, variables |-> vs]
    BY <1>1
  <2>4. /\ NodesOK(ms) /\ Extends(ns, ms) /\ Rewired(ns, ms, node, inputs)
        /\ EdgesOK(ns) => EdgesOK(ms)
    <3>1. node \in DOMAIN ns
      BY DEF ns
    <3>2. ns[node].inputs = <<None, None>> => inputs = <<None, None>>
      OBVIOUS
    <3> HIDE DEF ns, inputs
    <3>3. /\ NodesOK(ms) /\ Extends(ns, ms) /\ Rewired(ns, ms, node, inputs)
          /\ EdgesOK(ns) /\ (ns[node].inputs = <<None, None>> => inputs = <<None, None>>)
             => EdgesOK(ms)
      BY <1>1, <2>2, <3>1, InputsChanged
    <3> QED
      BY <3>2, <3>3
  <2>5. GraphOK(cleared) /\ cleared.nodes = ms
    <3>1. DefinitionsOK(ms, vs)
      <4> HIDE DEF ms, vs
      <4> QED
        BY <1>1, <2>4, DefinitionsStay
    <3> HIDE DEF ms, vs
    <3> QED
      BY <2>3, <2>4, <3>1, GraphMade
  <2>8. Resolved(ns[node].inputs, k) = inputs
    BY <1>3 DEF Resolved
  <2>6. CASE input = Hole
    <3>1. result = cleared
      BY <2>1, <2>6 DEF ConnectInput
    <3> HIDE DEF cleared, ms, inputs
    <3>2. GraphOK(result) /\ result.nodes = ms
      BY <2>5, <3>1
    <3> HIDE DEF result
    <3> QED
      BY <2>4, <2>8, <3>2 DEF result
  <2>7. CASE input # Hole
    <3> DEFINE definitions == DefinitionsOf(vs, input.name)
               d == To(node, k - 1)
    <3>1. result = AttachAll(cleared, input.name, definitions, d)
      BY <1>3, <2>7 DEF ConnectInput
    <3>2. IsSequence(definitions) /\ \A i \in DOMAIN definitions : Open(ns, definitions[i])
      <4>1. CASE input.name \in DOMAIN vs
        BY <1>1, <4>1 DEF DefinitionsOf, DefinitionsOK
      <4>2. CASE input.name \notin DOMAIN vs
        <5>1. definitions = <<>>
          BY <4>2 DEF DefinitionsOf
        <5>2. <<>> \in Seq({}) /\ DOMAIN <<>> = {}
          OBVIOUS
        <5>3. IsSequence(<<>>)
          BY <5>2, SequenceIs
        <5> HIDE DEF definitions
        <5> QED
          BY <5>1, <5>2, <5>3
      <4> QED
        BY <4>1, <4>2
    <3>3. d # None /\ d.node = node /\ d.input = k - 1
      BY EdgeIsSomething
    <3>10. ASSUME MayConnect(g.nodes, node, k) PROVE EdgeOK(ms, d)
      <4>1. ms[node].opcode = ns[node].opcode /\ ms[node].inputs = inputs
        BY <2>4 DEF Rewired
      <4>2. CASE k = 1
        BY <3>3, <4>2 DEF EdgeOK, INPUT_ONE, INPUT_TWO
      <4>3. CASE k = 2
        <5>1. node \notin Misfits =>
                  ns[node].opcode \notin OneInput /\ ns[node].inputs = <<None, input>>
          BY <1>3, <2>7, <3>10, <4>3 DEF MayConnect
        <5>2. node \notin Misfits => inputs = <<None, None>>
          BY <4>3, <5>1
        <5> HIDE DEF inputs, ms, d
        <5> QED
          BY <3>3, <4>1, <4>3, <5>1, <5>2 DEF EdgeOK, INPUT_ONE, INPUT_TWO
      <4> QED
        BY <4>2, <4>3
    <3> HIDE DEF d, definitions, cleared, ms, ns, input, inputs
    <3>4. /\ \A i \in DOMAIN definitions : Open(ms, definitions[i])
          /\ node \in DOMAIN ms /\ ~ms[node].optimizable
      <4>1. node \in DOMAIN ns
        BY DEF ns
      <4> QED
        BY <2>2, <2>4, <3>2, <4>1 DEF Extends
    <3>5. /\ GraphOK(AttachAll(cleared, input.name, definitions, d))
          /\ Extends(cleared.nodes, AttachAll(cleared, input.name, definitions, d).nodes)
          /\ Alike(cleared.nodes, AttachAll(cleared, input.name, definitions, d).nodes)
          /\ EdgesOK(cleared.nodes) /\ EdgeOK(cleared.nodes, d) =>
                EdgesOK(AttachAll(cleared, input.name, definitions, d).nodes)
      BY <2>5, <3>2, <3>3, <3>4, AttachAllKeeps
    <3> HIDE DEF result
    <3>6. GraphOK(result) /\ Extends(ms, result.nodes) /\ Alike(ms, result.nodes)
      BY <2>5, <3>1, <3>5
    <3>7. Extends(ns, result.nodes)
      BY <2>4, <3>6, ExtendsTransitive
    <3>8. Rewired(ns, result.nodes, node, inputs)
      <4>1. DOMAIN ns \subseteq DOMAIN ms
        BY <2>4 DEF Extends
      <4> QED
        BY <2>4, <3>6, <4>1 DEF Rewired, Alike
    <3>9. EdgesOK(ns) /\ MayConnect(g.nodes, node, k) => EdgesOK(result.nodes)
      BY <2>4, <2>5, <3>1, <3>5, <3>10
    <3> QED
      BY <2>8, <3>6, <3>7, <3>8, <3>9 DEF ns, result
  <2> QED
    BY <2>6, <2>7
<1> QED
  BY <1>2, <1>3


\* An instruction with two inputs that has a literal has it as its first input.
Settled(x) == x.opcode \notin OneInput /\ x.inputs[1] = None => x.inputs[2] = None

\* The literal of an instruction moves between the inputs.
LEMMA MoveLiteralKeeps ==
    ASSUME NEW ns, NodesOK(ns), NEW node \in DOMAIN ns
    PROVE  LET ms == [ns EXCEPT ![node] = MoveLiteral(ns[node])]
           IN  /\ NodesOK(ms) /\ Extends(ns, ms)
               /\ Rewired(ns, ms, node, ms[node].inputs) /\ Settled(ms[node])
               /\ ns[node].inputs = <<None, None>> => ms[node].inputs = <<None, None>>
               /\ EdgesOK(ns) => EdgesOK(ms)
<1> DEFINE x == ns[node]
           ms == [ns EXCEPT ![node] = MoveLiteral(x)]
<1>1. CASE MoveLiteral(x) = x
  <2>1. ns = [i \in DOMAIN ns |-> ns[i]]
    BY SequenceHas DEF NodesOK
  <2>2. ms = ns
    BY <1>1, <2>1
  <2>3. Settled(x)
    <3>1. ASSUME x.opcode \notin OneInput, x.inputs[1] = None PROVE x.inputs[2] = None
      <4>1. MoveLiteral(x) = [x EXCEPT !.inputs = <<x.inputs[2], None>>]
        BY <3>1 DEF MoveLiteral
      <4>2. x = [opcode |-> x.opcode, inputs |-> x.inputs, destinations |-> x.destinations,
                 optimizable |-> x.optimizable]
        BY DEF NodesOK, IsNode, Node
      <4>3. MoveLiteral(x).inputs = <<x.inputs[2], None>>
        <5> HIDE DEF x
        <5> QED
          BY <4>1, <4>2
      <4>4. x.inputs = <<x.inputs[2], None>>
        BY <1>1, <4>3
      <4> QED
        BY <4>4
    <3> QED
      BY <3>1 DEF Settled
  <2> HIDE DEF ms
  <2>4. Rewired(ns, ms, node, ms[node].inputs)
    BY <2>2 DEF Rewired
  <2> QED
    BY <2>2, <2>3, <2>4 DEF Extends, ms
<1>2. CASE MoveLiteral(x) # x
  <2>1. x.opcode \notin OneInput /\ MoveLiteral(x) = [x EXCEPT !.inputs = <<x.inputs[2], None>>]
    BY <1>2 DEF MoveLiteral
  <2>2. ~x.optimizable
    <3>1. x.optimizable => x.opcode = "DUP"
      BY DEF NodesOK, IsNode
    <3> QED
      BY <2>1, <3>1 DEF OneInput
  <2> DEFINE inputs == <<x.inputs[2], None>>
  <2>3. ms = [ns EXCEPT ![node] = [ns[node] EXCEPT !.inputs = inputs]]
    BY <2>1
  <2>4. inputs[2] = None /\ (x.inputs = <<None, None>> => inputs = <<None, None>>)
    OBVIOUS
  <2> HIDE DEF inputs, ms
  <2>5. /\ NodesOK(ms) /\ Extends(ns, ms) /\ Rewired(ns, ms, node, inputs)
        /\ EdgesOK(ns) /\ (ns[node].inputs = <<None, None>> => inputs = <<None, None>>)
           => EdgesOK(ms)
    BY <2>2, <2>3, InputsChanged
  <2>6. ms[node].inputs = inputs
    BY <2>5 DEF Rewired
  <2>7. Settled(ms[node])
    BY <2>4, <2>6 DEF Settled
  <2> QED
    BY <2>4, <2>5, <2>6, <2>7 DEF ms
<1> QED
  BY <1>1, <1>2

\* A variable gets one more definition.
LEMMA DefineKeeps ==
    ASSUME NEW ns, NEW vs, DefinitionsOK(ns, vs), NEW name, NEW node, Open(ns, node)
    PROVE  DefinitionsOK(ns, Define(vs, name, node))
<1> DEFINE old == DefinitionsOf(vs, name)
           new == Append(old, node)
           ws == Define(vs, name, node)
<1>1. IsSequence(old) /\ \A j \in DOMAIN old : Open(ns, old[j])
  <2>1. CASE name \in DOMAIN vs
    BY <2>1 DEF DefinitionsOf, DefinitionsOK
  <2>2. CASE name \notin DOMAIN vs
    <3>1. old = <<>>
      BY <2>2 DEF DefinitionsOf
    <3>2. <<>> \in Seq({}) /\ DOMAIN <<>> = {}
      OBVIOUS
    <3>3. IsSequence(<<>>)
      BY <3>2, SequenceIs
    <3> HIDE DEF old
    <3> QED
      BY <3>1, <3>2, <3>3
  <2> QED
    BY <2>1, <2>2
<1> HIDE DEF old
<1>2. /\ IsSequence(new) /\ Len(new) = Len(old) + 1
      /\ \A i \in 1 .. Len(old) : new[i] = old[i]
      /\ new[Len(old) + 1] = node
  BY <1>1, SequenceAppended
<1>3. Len(old) \in Nat /\ DOMAIN old = 1 .. Len(old) /\ DOMAIN new = 1 .. Len(new)
  BY <1>1, <1>2, SequenceHas
<1>4. \A j \in DOMAIN new : Open(ns, new[j])
  <2> SUFFICES ASSUME NEW j \in DOMAIN new PROVE Open(ns, new[j])
    OBVIOUS
  <2>1. j \in 1 .. Len(old) \/ j = Len(old) + 1
    BY <1>2, <1>3
  <2> QED
    BY <1>1, <1>2, <1>3, <2>1
<1> HIDE DEF new
<1>5. \A n \in DOMAIN ws : ws[n] = new \/ (n \in DOMAIN vs /\ ws[n] = vs[n])
  BY DEF Define, With, new, old
<1> QED
  BY <1>2, <1>4, <1>5 DEF DefinitionsOK

-----------------------------------------------------------------------------
(* optimize_graph *)

\* The recursion over the nodes has a solution.
OptimizedUpTo(n) ==
    CHOOSE f : f = [i \in 0 .. n |->
        IF i = 0 THEN [nodes |-> nodes, kept |-> DOMAIN nodes] ELSE LookAt(f[i - 1], i)]

LEMMA OptimizedDefined ==
    ASSUME NEW n \in Nat
    PROVE  LET f == OptimizedUpTo(n)
           IN  /\ Optimized(n) = f[n]
               /\ f[0] = [nodes |-> nodes, kept |-> DOMAIN nodes]
               /\ \A i \in 1 .. n : f[i] = LookAt(f[i - 1], i)
<1> DEFINE g == [nodes |-> nodes, kept |-> DOMAIN nodes]
           S == {m \in Nat : \E f : f = [i \in 0 .. m |-> IF i = 0 THEN g ELSE LookAt(f[i - 1], i)]}
<1>1. 0 \in S
  <2> DEFINE f == [i \in 0 .. 0 |-> g]
  <2>1. f = [i \in 0 .. 0 |-> IF i = 0 THEN g ELSE LookAt(f[i - 1], i)]
    OBVIOUS
  <2> QED
    BY <2>1
<1>2. ASSUME NEW m \in Nat, m \in S PROVE m + 1 \in S
  <2> HIDE DEF g
  <2>1. PICK f : f = [i \in 0 .. m |-> IF i = 0 THEN g ELSE LookAt(f[i - 1], i)]
    BY <1>2
  <2> DEFINE h == [i \in 0 .. (m + 1) |-> IF i = m + 1 THEN LookAt(f[m], m + 1) ELSE f[i]]
  <2>2. ASSUME NEW i \in 0 .. (m + 1) PROVE h[i] = IF i = 0 THEN g ELSE LookAt(h[i - 1], i)
    <3>1. CASE i = m + 1
      <4>1. h[i] = LookAt(f[m], m + 1) /\ i - 1 = m /\ i # 0
        BY <3>1
      <4>2. h[m] = f[m]
        OBVIOUS
      <4> QED
        BY <3>1, <4>1, <4>2
    <3>2. CASE i # m + 1
      <4>1. i \in 0 .. m /\ h[i] = f[i]
        BY <3>2
      <4>2. f[i] = IF i = 0 THEN g ELSE LookAt(f[i - 1], i)
        BY <2>1, <4>1
      <4>3. i # 0 => i - 1 \in 0 .. (m + 1) /\ i - 1 # m + 1
        BY <4>1
      <4>4. i # 0 => h[i - 1] = f[i - 1]
        BY <4>3
      <4> QED
        BY <4>1, <4>2, <4>4
    <3> QED
      BY <3>1, <3>2
  <2>3. h = [i \in 0 .. (m + 1) |-> IF i = 0 THEN g ELSE LookAt(h[i - 1], i)]
    <3>1. h = [i \in 0 .. (m + 1) |-> h[i]]
      OBVIOUS
    <3> HIDE DEF h
    <3> QED
      BY <2>2, <3>1
  <2>4. \E e : e = [i \in 0 .. (m + 1) |-> IF i = 0 THEN g ELSE LookAt(e[i - 1], i)]
    <3> HIDE DEF h
    <3> QED
      BY <2>3
  <2> QED
    BY <2>4
<1>3. n \in S
  <2> HIDE DEF S
  <2> QED
    BY <1>1, <1>2, InductionOnSet
<1> DEFINE f == OptimizedUpTo(n)
<1>4. \E e : e = [i \in 0 .. n |-> IF i = 0 THEN g ELSE LookAt(e[i - 1], i)]
  BY <1>3
<1>5. f = [i \in 0 .. n |-> IF i = 0 THEN g ELSE LookAt(f[i - 1], i)]
  BY <1>4 DEF OptimizedUpTo
<1>6. Optimized(n) = f[n]
  BY DEF Optimized, OptimizedUpTo
<1> HIDE DEF f, g
<1>7. f[0] = g
  BY <1>5
<1>8. ASSUME NEW i \in 1 .. n PROVE f[i] = LookAt(f[i - 1], i)
  <2>1. i \in 0 .. n /\ i # 0
    OBVIOUS
  <2> QED
    BY <1>5, <2>1
<1> QED
  BY <1>6, <1>7, <1>8 DEF f, g

\* Where an edge leads when the spare DUPs among the first n nodes are gone.
After(n, d) ==
    IF d # None /\ Spare(nodes, d.node) /\ d.node <= n
    THEN nodes[d.node].destinations[1] ELSE d

\* The graph when n nodes have been looked at.
LookedAt(g, n) ==
    /\ g = [nodes |-> g.nodes, kept |-> g.kept]
    /\ IsSequence(g.nodes) /\ DOMAIN g.nodes = DOMAIN nodes
    /\ g.kept = {i \in DOMAIN nodes : ~(Spare(nodes, i) /\ i <= n)}
    /\ \A p \in DOMAIN nodes :
          /\ IsNode(g.nodes[p])
          /\ g.nodes[p].optimizable = nodes[p].optimizable
          /\ g.nodes[p].opcode = nodes[p].opcode /\ g.nodes[p].inputs = nodes[p].inputs
          /\ \A k \in {1, 2} :
                g.nodes[p].destinations[k] = After(n, nodes[p].destinations[k])

\* An added DUP leads to no spare one.
LEMMA DupsLeadOn ==
    ASSUME NodesOK(nodes), NEW p \in DOMAIN nodes, nodes[p].optimizable, NEW k \in {1, 2}
    PROVE  LET d == nodes[p].destinations[k]
           IN  d = None \/ (d.node \in DOMAIN nodes /\ ~Spare(nodes, d.node))
<1> DEFINE d == nodes[p].destinations[k]
<1> SUFFICES ASSUME d # None PROVE d.node \in DOMAIN nodes /\ ~Spare(nodes, d.node)
  OBVIOUS
<1>1. d.node \in DOMAIN nodes
  BY DEF NodesOK, Inner
<1>2. ASSUME Spare(nodes, d.node) PROVE FALSE
  <2>1. HasParent(nodes, d.node)
    BY <1>1, <1>2 DEF NodesOK
  <2>2. Leads(nodes, p, k, d.node)
    BY DEF Leads
  <2> QED
    BY <2>1, <2>2 DEF HasParent
<1> QED
  BY <1>1, <1>2


LEMMA LookAtKeeps ==
    ASSUME NodesOK(nodes), NEW n \in Nat, n + 1 \in DOMAIN nodes, NEW g, LookedAt(g, n)
    PROVE  LookedAt(LookAt(g, n + 1), n + 1)
<1> DEFINE m == n + 1
<1>0. /\ \A i \in DOMAIN nodes : i \in Nat
      /\ \A i \in DOMAIN nodes : i <= m <=> i <= n \/ i = m
      /\ m \in DOMAIN nodes /\ ~(m <= n)
  <2>1. DOMAIN nodes = 1 .. Len(nodes) /\ Len(nodes) \in Nat
    BY SequenceHas DEF NodesOK
  <2> QED
    BY <2>1
<1> HIDE DEF m
<1>1. \A p \in DOMAIN nodes, k \in {1, 2} :
          LET d == nodes[p].destinations[k] IN d = None \/ d.node \in DOMAIN nodes
  BY DEF NodesOK, Inner
<1>2. CASE ~Spare(nodes, m)
  <2>1. \A k \in {1, 2} : nodes[m].optimizable =>
            g.nodes[m].destinations[k] = nodes[m].destinations[k]
    <3> SUFFICES ASSUME nodes[m].optimizable, NEW k \in {1, 2}
                 PROVE  g.nodes[m].destinations[k] = nodes[m].destinations[k]
      OBVIOUS
    <3>1. LET d == nodes[m].destinations[k]
          IN  d = None \/ (d.node \in DOMAIN nodes /\ ~Spare(nodes, d.node))
      BY <1>0, DupsLeadOn
    <3> QED
      BY <1>0, <3>1 DEF LookedAt, After
  <2>2. LookAt(g, m) = g
    BY <1>2, <2>1 DEF LookAt, IsRedundant, Spare
  <2>3. {i \in DOMAIN nodes : ~(Spare(nodes, i) /\ i <= m)}
        = {i \in DOMAIN nodes : ~(Spare(nodes, i) /\ i <= n)}
    BY <1>0, <1>2
  <2>4. \A p \in DOMAIN nodes, k \in {1, 2} :
            After(m, nodes[p].destinations[k]) = After(n, nodes[p].destinations[k])
    BY <1>0, <1>1, <1>2 DEF After
  <2>5. LookedAt(g, m)
    BY <2>3, <2>4 DEF LookedAt
  <2> QED
    BY <2>2, <2>5 DEF m
<1>3. CASE Spare(nodes, m)
  <2>1. PICK p \in DOMAIN nodes, k \in {1, 2} :
            /\ ~nodes[p].optimizable
            /\ \A q \in DOMAIN nodes, j \in {1, 2} : Leads(nodes, q, j, m) <=> q = p /\ j = k
    BY <1>0, <1>3 DEF NodesOK, HasParent
  <2>2. ParentsOf(m) = {<<p, k>>}
    <3>1. \A l : l \in ParentsOf(m) <=> l \in (DOMAIN nodes) \X {1, 2} /\ Leads(nodes, l[1], l[2], m)
      BY DEF ParentsOf, Leads
    <3>2. \A l \in (DOMAIN nodes) \X {1, 2} : Leads(nodes, l[1], l[2], m) <=> l = <<p, k>>
      BY <2>1
    <3>3. <<p, k>> \in (DOMAIN nodes) \X {1, 2}
      OBVIOUS
    <3> QED
      BY <3>1, <3>2, <3>3
  <2> DEFINE d == nodes[m].destinations[1]
  <2>3. \A j \in {1, 2} : g.nodes[m].destinations[j] = nodes[m].destinations[j]
    <3> SUFFICES ASSUME NEW j \in {1, 2}
                 PROVE  g.nodes[m].destinations[j] = nodes[m].destinations[j]
      OBVIOUS
    <3>1. LET e == nodes[m].destinations[j]
          IN  e = None \/ (e.node \in DOMAIN nodes /\ ~Spare(nodes, e.node))
      BY <1>0, <1>3, DupsLeadOn DEF Spare
    <3> QED
      BY <1>0, <3>1 DEF LookedAt, After
  <2>4. IsRedundant(g, m)
    <3>1. Cardinality(ParentsOf(m)) = 1
      BY <2>2, FS_Singleton
    <3> QED
      BY <1>3, <2>3, <3>1 DEF IsRedundant, Spare
  <2>5. LookAt(g, m) = [nodes |-> Redirected(g.nodes, p, k, d), kept |-> g.kept \ {m}]
    <3>1. LookAt(g, m) = RemoveDup(g, m)
      BY <2>4 DEF LookAt
    <3> DEFINE l == CHOOSE link \in ParentsOf(m) : TRUE
    <3>2. RemoveDup(g, m) = [nodes |-> Redirected(g.nodes, l[1], l[2],
                                                  g.nodes[m].destinations[1]),
                             kept |-> g.kept \ {m}]
      BY DEF RemoveDup, Redirected
    <3>3. l \in ParentsOf(m)
      <4>1. \E link : link \in ParentsOf(m)
        BY <2>2
      <4> QED
        BY <4>1
    <3> HIDE DEF l
    <3>4. l = <<p, k>>
      BY <2>2, <3>3
    <3>5. l[1] = p /\ l[2] = k
      BY <3>4
    <3> QED
      BY <2>3, <3>1, <3>2, <3>5
  <2> DEFINE ms == Redirected(g.nodes, p, k, d)
  <2>6. /\ IsSequence(ms) /\ Len(ms) = Len(g.nodes) /\ DOMAIN ms = DOMAIN g.nodes
        /\ \A i \in DOMAIN g.nodes \ {p} : ms[i] = g.nodes[i]
        /\ IsNode(ms[p]) /\ ms[p].optimizable = g.nodes[p].optimizable
        /\ ms[p].opcode = g.nodes[p].opcode /\ ms[p].inputs = g.nodes[p].inputs
        /\ ms[p].destinations[k] = d
        /\ \A j \in {1, 2} \ {k} : ms[p].destinations[j] = g.nodes[p].destinations[j]
    <3> HIDE DEF d
    <3>1. IsSequence(g.nodes) /\ p \in DOMAIN g.nodes /\ IsNode(g.nodes[p])
      BY DEF LookedAt
    <3> QED
      BY <3>1, DestinationChanged
  <2> HIDE DEF ms
  <2>7. g.kept \ {m} = {i \in DOMAIN nodes : ~(Spare(nodes, i) /\ i <= m)}
    BY <1>0, <1>3 DEF LookedAt
  <2>8. After(m, nodes[p].destinations[k]) = d
    <3>1. Leads(nodes, p, k, m)
      BY <2>1
    <3> QED
      BY <1>0, <1>3, <3>1 DEF Leads, After
  <2>9. \A q \in DOMAIN nodes, j \in {1, 2} : ~(q = p /\ j = k) =>
            After(m, nodes[q].destinations[j]) = After(n, nodes[q].destinations[j])
    <3> SUFFICES ASSUME NEW q \in DOMAIN nodes, NEW j \in {1, 2}, ~(q = p /\ j = k)
                 PROVE  After(m, nodes[q].destinations[j]) = After(n, nodes[q].destinations[j])
      OBVIOUS
    <3>1. ~Leads(nodes, q, j, m)
      BY <2>1
    <3> QED
      BY <1>0, <1>1, <3>1 DEF Leads, After
  <2>10. DOMAIN g.nodes = DOMAIN nodes
    BY DEF LookedAt
  <2>11. ASSUME NEW q \in DOMAIN nodes
         PROVE  /\ IsNode(ms[q])
                /\ ms[q].optimizable = nodes[q].optimizable
                /\ ms[q].opcode = nodes[q].opcode /\ ms[q].inputs = nodes[q].inputs
                /\ \A j \in {1, 2} : ms[q].destinations[j] = After(m, nodes[q].destinations[j])
    <3>1. /\ IsNode(g.nodes[q]) /\ g.nodes[q].optimizable = nodes[q].optimizable
          /\ g.nodes[q].opcode = nodes[q].opcode /\ g.nodes[q].inputs = nodes[q].inputs
          /\ \A j \in {1, 2} : g.nodes[q].destinations[j] = After(n, nodes[q].destinations[j])
      BY DEF LookedAt
    <3> QED
      BY <2>6, <2>8, <2>9, <2>10, <3>1
  <2>12. LookedAt([nodes |-> ms, kept |-> g.kept \ {m}], m)
    BY <2>6, <2>7, <2>10, <2>11 DEF LookedAt
  <2> QED
    BY <2>5, <2>12 DEF ms, m
<1> QED
  BY <1>2, <1>3

LEMMA AllLookedAt ==
    ASSUME NodesOK(nodes)
    PROVE  LookedAt(Optimized(Len(nodes)), Len(nodes))
<1> DEFINE N == Len(nodes)
           f == OptimizedUpTo(N)
           S == {n \in Nat : n <= N => LookedAt(f[n], n)}
<1>0. N \in Nat /\ DOMAIN nodes = 1 .. N /\ IsSequence(nodes)
  BY SequenceHas DEF NodesOK
<1>1. /\ Optimized(N) = f[N]
      /\ f[0] = [nodes |-> nodes, kept |-> DOMAIN nodes]
      /\ \A i \in 1 .. N : f[i] = LookAt(f[i - 1], i)
  BY <1>0, OptimizedDefined
<1> HIDE DEF f
<1>2. 0 \in S
  <2>1. \A p \in DOMAIN nodes, k \in {1, 2} :
            LET d == nodes[p].destinations[k] IN d = None \/ d.node \in DOMAIN nodes
    BY DEF NodesOK, Inner
  <2>2. \A i \in DOMAIN nodes : ~(i <= 0)
    BY <1>0
  <2> HIDE DEF N
  <2>3. \A p \in DOMAIN nodes, k \in {1, 2} :
            After(0, nodes[p].destinations[k]) = nodes[p].destinations[k]
    BY <2>1, <2>2 DEF After
  <2>4. LookedAt([nodes |-> nodes, kept |-> DOMAIN nodes], 0)
    BY <1>0, <2>2, <2>3 DEF LookedAt, NodesOK
  <2> QED
    BY <1>1, <2>4
<1>3. ASSUME NEW n \in Nat, n \in S PROVE n + 1 \in S
  <2> SUFFICES ASSUME n + 1 <= N PROVE LookedAt(f[n + 1], n + 1)
    OBVIOUS
  <2>1. LookedAt(f[n], n)
    BY <1>0, <1>3
  <2>2. n + 1 \in 1 .. N /\ (n + 1) - 1 = n
    BY <1>0
  <2>3. f[n + 1] = LookAt(f[n], n + 1) /\ n + 1 \in DOMAIN nodes
    BY <1>0, <1>1, <2>2
  <2> QED
    BY <2>1, <2>3, LookAtKeeps
<1>4. N \in S
  <2> HIDE DEF S
  <2> QED
    BY <1>0, <1>2, <1>3, InductionOnSet
<1> QED
  BY <1>0, <1>1, <1>4

-----------------------------------------------------------------------------
(* The assembler *)

\* The inductive invariant: until optimize_graph has run, every DUP that it will
\* remove has one parent, which no variable is defined by.
Inv ==
    /\ at \in Nat \ {0}
    /\ phase \in {"parse", "connect", "extern", "optimize"} =>
          NodesOK(nodes) /\ DefinitionsOK(nodes, variables)
    /\ NoRedundantDup

LEMMA OptimizeClean ==
    ASSUME NodesOK(nodes), Optimize
    PROVE  NoRedundantDup'
<1> DEFINE N == Len(nodes)
<1>1. PICK g : g = Optimized(N)
  OBVIOUS
<1>2. nodes' = g.nodes /\ kept' = g.kept
  BY <1>1 DEF Optimize
<1>3. LookedAt(g, N)
  BY <1>1, AllLookedAt
<1>4. \A i \in DOMAIN nodes : i <= N
  <2>1. DOMAIN nodes = 1 .. Len(nodes) /\ Len(nodes) \in Nat
    BY SequenceHas DEF NodesOK
  <2> QED
    BY <2>1
<1> HIDE DEF N
<1>5. g.kept = {i \in DOMAIN nodes : ~Spare(nodes, i)}
  BY <1>3, <1>4 DEF LookedAt
<1> SUFFICES ASSUME NEW node \in g.kept
             PROVE  /\ g.nodes[node].optimizable => g.nodes[node].destinations[2] # None
                    /\ \A k \in {1, 2} : LET d == g.nodes[node].destinations[k]
                                         IN  d = None \/ d.node \in g.kept
  BY <1>2 DEF NoRedundantDup
<1>6. node \in DOMAIN nodes /\ ~Spare(nodes, node)
  BY <1>5
<1>7. \A k \in {1, 2} : g.nodes[node].destinations[k] = After(N, nodes[node].destinations[k])
  BY <1>3, <1>6 DEF LookedAt
<1>8. ASSUME g.nodes[node].optimizable PROVE g.nodes[node].destinations[2] # None
  <2>1. nodes[node].optimizable
    BY <1>3, <1>6, <1>8 DEF LookedAt
  <2>2. nodes[node].destinations[2] # None
    BY <1>6, <2>1 DEF Spare
  <2>3. LET d == nodes[node].destinations[2]
        IN  d = None \/ (d.node \in DOMAIN nodes /\ ~Spare(nodes, d.node))
    BY <1>6, <2>1, DupsLeadOn
  <2> QED
    BY <1>7, <2>2, <2>3 DEF After
<1>9. ASSUME NEW k \in {1, 2}
      PROVE  LET d == g.nodes[node].destinations[k] IN d = None \/ d.node \in g.kept
  <2> DEFINE d == nodes[node].destinations[k]
             e == g.nodes[node].destinations[k]
  <2>1. d = None \/ d.node \in DOMAIN nodes
    BY <1>6 DEF NodesOK, Inner
  <2>2. e = After(N, d)
    BY <1>7
  <2>3. CASE d = None \/ ~Spare(nodes, d.node)
    BY <1>5, <2>1, <2>2, <2>3 DEF After
  <2>4. CASE d # None /\ Spare(nodes, d.node)
    <3>1. d.node \in DOMAIN nodes /\ nodes[d.node].optimizable /\ d.node <= N
      BY <1>4, <2>1, <2>4 DEF Spare
    <3>2. e = nodes[d.node].destinations[1]
      BY <2>2, <2>4, <3>1 DEF After
    <3>3. LET c == nodes[d.node].destinations[1]
          IN  c = None \/ (c.node \in DOMAIN nodes /\ ~Spare(nodes, c.node))
      BY <3>1, DupsLeadOn
    <3> QED
      BY <1>5, <3>2, <3>3
  <2> QED
    BY <2>3, <2>4
<1> QED
  BY <1>8, <1>9


LEMMA InitInv == Init => Inv
<1> SUFFICES ASSUME Init PROVE Inv
  OBVIOUS
<1>1. <<>> \in Seq({}) /\ DOMAIN <<>> = {}
  OBVIOUS
<1>2. IsSequence(<<>>)
  BY <1>1, SequenceIs
<1>3. NodesOK(<<>>) /\ DefinitionsOK(<<>>, <<>>)
  BY <1>1, <1>2 DEF NodesOK, DefinitionsOK, Inner
<1> QED
  BY <1>3 DEF Init, Inv, NoRedundantDup

\* What is left to show of an action that reads a line.
LEMMA LineKeeps ==
    ASSUME Inv, NEW accepted, NextLine(accepted),
           NodesOK(nodes)', DefinitionsOK(nodes, variables)'
    PROVE  Inv'
BY DEF Inv, NextLine, NoRedundantDup

LEMMA Step == Inv /\ [Next]_vars => Inv'
<1> SUFFICES ASSUME Inv, [Next]_vars PROVE Inv'
  OBVIOUS
<1>0. ASSUME phase = "parse" PROVE NodesOK(nodes) /\ DefinitionsOK(nodes, variables)
  BY <1>0 DEF Inv
<1>1. CASE UNCHANGED vars
  BY <1>1 DEF vars, Inv, NoRedundantDup
<1>2. CASE ParseLabel \/ ParseExport \/ ParseExtern
  <2>1. PICK accepted : NextLine(accepted)
    BY <1>2 DEF ParseLabel, ParseExport, ParseExtern
  <2>2. phase = "parse" /\ UNCHANGED <<nodes, variables>>
    BY <1>2 DEF ParseLabel, ParseExport, ParseExtern, Reading
  <2>3. NodesOK(nodes)' /\ DefinitionsOK(nodes, variables)'
    BY <1>0, <2>2
  <2> QED
    BY <2>1, <2>3, LineKeeps
<1>3. CASE ParseAssign
  <2>1. PICK accepted : NextLine(accepted)
    BY <1>3 DEF ParseAssign
  <2> DEFINE new == Append(nodes, Node(Line.opcode, Line.args, <<None, None>>, FALSE))
             defined == Define(variables, Line.variable, Len(nodes) + 1)
  <2>2. phase = "parse" /\ nodes' = new /\ variables' = defined
    BY <1>3 DEF ParseAssign, Reading
  <2>3. NodesOK(nodes) /\ DefinitionsOK(nodes, variables)
    BY <1>0, <2>2
  <2>4. NodesOK(new) /\ Open(new, Len(nodes) + 1) /\ \A p : Open(nodes, p) => Open(new, p)
    BY <2>3, NodeAppended
  <2> HIDE DEF new
  <2>5. DefinitionsOK(new, variables)
    BY <2>3, <2>4 DEF DefinitionsOK
  <2>6. DefinitionsOK(new, defined)
    BY <2>4, <2>5, DefineKeeps
  <2> HIDE DEF defined
  <2>7. NodesOK(nodes)' /\ DefinitionsOK(nodes, variables)'
    BY <2>2, <2>4, <2>6
  <2> QED
    BY <2>1, <2>7, LineKeeps
<1>4. CASE ParseOut
  <2>1. PICK accepted : NextLine(accepted)
    BY <1>4 DEF ParseOut
  <2> DEFINE new == Append(nodes, Node(Line.opcode, Line.args, <<None, None>>, FALSE))
  <2>2. phase = "parse" /\ nodes' = new /\ variables' = variables
    BY <1>4 DEF ParseOut, Reading
  <2>3. NodesOK(nodes) /\ DefinitionsOK(nodes, variables)
    BY <1>0, <2>2
  <2>4. NodesOK(new) /\ \A p : Open(nodes, p) => Open(new, p)
    BY <2>3, NodeAppended
  <2> HIDE DEF new
  <2>5. DefinitionsOK(new, variables)
    BY <2>3, <2>4 DEF DefinitionsOK
  <2>6. NodesOK(nodes)' /\ DefinitionsOK(nodes, variables)'
    BY <2>2, <2>4, <2>5
  <2> QED
    BY <2>1, <2>6, LineKeeps
<1>5. CASE ParseBranch
  <2>1. PICK accepted : NextLine(accepted)
    BY <1>5 DEF ParseBranch
  <2> DEFINE first == Len(nodes) + 1
             second == Len(nodes) + 2
             outputs == <<To(first, INPUT_ONE), To(second, INPUT_ONE)>>
             new == nodes \o << DupNode(<<None, None>>), DupNode(<<None, None>>),
                                Node(Line.opcode, Line.args, outputs, FALSE) >>
             half == Define(variables, Line.variables[1], first)
             defined == Define(half, Line.variables[2], second)
  <2>2. phase = "parse" /\ nodes' = new /\ variables' = defined
    BY <1>5 DEF ParseBranch, Reading
  <2>3. NodesOK(nodes) /\ DefinitionsOK(nodes, variables)
    BY <1>0, <2>2
  <2>4. /\ NodesOK(new) /\ Open(new, first) /\ Open(new, second)
        /\ \A p : Open(nodes, p) => Open(new, p)
    BY <2>3, BranchAppended
  <2> HIDE DEF new, first, second
  <2>5. DefinitionsOK(new, variables)
    BY <2>3, <2>4 DEF DefinitionsOK
  <2>6. DefinitionsOK(new, half)
    BY <2>4, <2>5, DefineKeeps
  <2> HIDE DEF half
  <2>7. DefinitionsOK(new, defined)
    BY <2>4, <2>6, DefineKeeps
  <2> HIDE DEF defined
  <2>8. NodesOK(nodes)' /\ DefinitionsOK(nodes, variables)'
    BY <2>2, <2>4, <2>7
  <2> QED
    BY <2>1, <2>8, LineKeeps
<1>6. CASE ParseEnds \/ ConnectEnds \/ CheckExterns
  <2>1. /\ phase \in {"parse", "connect", "extern"} /\ UNCHANGED <<nodes, variables>>
        /\ phase' \in {"connect", "extern", "optimize", "error"}
        /\ at' \in {1, at}
    BY <1>6 DEF ParseEnds, ConnectEnds, CheckExterns
  <2> QED
    BY <2>1 DEF Inv, NoRedundantDup
<1>7. CASE Connect
  <2> DEFINE g == [nodes |-> nodes, variables |-> variables]
             h == ConnectInput(g, at, 1)
             i == ConnectInput(h, at, 2)
             new == [i.nodes EXCEPT ![at] = MoveLiteral(i.nodes[at])]
  <2>1. /\ phase = "connect" /\ at <= Len(nodes) /\ at' = at + 1 /\ phase' = phase
        /\ nodes' = new /\ variables' = i.variables
    BY <1>7 DEF Connect
  <2>2. NodesOK(nodes) /\ DefinitionsOK(nodes, variables) /\ at \in Nat \ {0}
    BY <2>1 DEF Inv
  <2>3. at \in DOMAIN nodes
    <3>1. DOMAIN nodes = 1 .. Len(nodes) /\ Len(nodes) \in Nat
      BY <2>2, SequenceHas DEF NodesOK
    <3> QED
      BY <2>1, <2>2, <3>1
  <2>4. GraphOK(g) /\ g.nodes = nodes
    BY <2>2, GraphMade
  <2> HIDE DEF g
  <2>5. GraphOK(h) /\ Extends(g.nodes, h.nodes)
    BY <2>3, <2>4, ConnectInputKeeps
  <2>6. at \in DOMAIN h.nodes
    BY <2>3, <2>4, <2>5 DEF Extends
  <2> HIDE DEF h
  <2>7. GraphOK(i) /\ Extends(h.nodes, i.nodes)
    BY <2>5, <2>6, ConnectInputKeeps
  <2>8. at \in DOMAIN i.nodes
    BY <2>6, <2>7 DEF Extends
  <2> HIDE DEF i
  <2>9. NodesOK(i.nodes) /\ DefinitionsOK(i.nodes, i.variables)
    BY <2>7 DEF GraphOK
  <2>10. NodesOK(new) /\ Extends(i.nodes, new)
    BY <2>8, <2>9, MoveLiteralKeeps
  <2> HIDE DEF new
  <2>11. DefinitionsOK(new, i.variables)
    BY <2>9, <2>10, DefinitionsStay
  <2>12. NodesOK(nodes)' /\ DefinitionsOK(nodes, variables)'
    <3>1. PICK ws : ws = i.variables
      OBVIOUS
    <3>2. PICK ns : ns = new
      OBVIOUS
    <3>3. nodes' = ns /\ variables' = ws /\ NodesOK(ns) /\ DefinitionsOK(ns, ws)
      BY <2>1, <2>10, <2>11, <3>1, <3>2
    <3> QED
      BY <3>3
  <2>13. at' \in Nat \ {0}
    BY <2>1, <2>2
  <2> QED
    BY <2>1, <2>12, <2>13 DEF Inv, NoRedundantDup
<1>8. CASE Optimize
  <2>1. NodesOK(nodes) /\ phase' = "emit" /\ at' = at
    BY <1>8 DEF Inv, Optimize
  <2>2. NoRedundantDup'
    BY <1>8, <2>1, OptimizeClean
  <2> QED
    BY <2>1, <2>2 DEF Inv
<1>9. CASE Emit
  <2>1. phase = "emit" /\ phase' \in {"done", "error"} /\ UNCHANGED <<at, nodes, kept>>
    BY <1>9 DEF Emit
  <2> QED
    BY <2>1 DEF Inv, NoRedundantDup
<1> QED
  BY <1>1, <1>2, <1>3, <1>4, <1>5, <1>6, <1>7, <1>8, <1>9 DEF Next

\* For every source, however its lines define and use their variables: no DUP
\* that the assembler has added is left with one destination, and no node that
\* is left leads to one that optimize_graph has removed, although it takes the
\* parents from before the first removal.
THEOREM RedundantDupsRemoved == Spec => []NoRedundantDup
<1>1. Inv => NoRedundantDup
  BY DEF Inv
<1> QED
  BY InitInv, Step, <1>1, PTL DEF Spec


-----------------------------------------------------------------------------
(* graph_to_instructions *)

\* The recursion over the nodes has a solution.
EmittedUpTo ==
    CHOOSE f : f = [i \in 0 .. Len(nodes) |-> IF i = 0 THEN <<>> ELSE EmitNode(f[i - 1], i)]

LEMMA EmittedDefined ==
    ASSUME Len(nodes) \in Nat
    PROVE  /\ Emitted = EmittedUpTo[Len(nodes)]
           /\ EmittedUpTo[0] = <<>>
           /\ \A i \in 1 .. Len(nodes) : EmittedUpTo[i] = EmitNode(EmittedUpTo[i - 1], i)
<1> DEFINE N == Len(nodes)
           S == {m \in Nat : \E f : f = [i \in 0 .. m |->
                                           IF i = 0 THEN <<>> ELSE EmitNode(f[i - 1], i)]}
<1>1. 0 \in S
  <2> DEFINE f == [i \in 0 .. 0 |-> <<>>]
  <2>1. f = [i \in 0 .. 0 |-> IF i = 0 THEN <<>> ELSE EmitNode(f[i - 1], i)]
    OBVIOUS
  <2> QED
    BY <2>1
<1>2. ASSUME NEW m \in Nat, m \in S PROVE m + 1 \in S
  <2>1. PICK f : f = [i \in 0 .. m |-> IF i = 0 THEN <<>> ELSE EmitNode(f[i - 1], i)]
    BY <1>2
  <2> DEFINE h == [i \in 0 .. (m + 1) |-> IF i = m + 1 THEN EmitNode(f[m], m + 1) ELSE f[i]]
  <2>2. ASSUME NEW i \in 0 .. (m + 1) PROVE h[i] = IF i = 0 THEN <<>> ELSE EmitNode(h[i - 1], i)
    <3>1. CASE i = m + 1
      <4>1. h[i] = EmitNode(f[m], m + 1) /\ i - 1 = m /\ i # 0
        BY <3>1
      <4>2. h[m] = f[m]
        OBVIOUS
      <4> QED
        BY <3>1, <4>1, <4>2
    <3>2. CASE i # m + 1
      <4>1. i \in 0 .. m /\ h[i] = f[i]
        BY <3>2
      <4>2. f[i] = IF i = 0 THEN <<>> ELSE EmitNode(f[i - 1], i)
        BY <2>1, <4>1
      <4>3. i # 0 => i - 1 \in 0 .. (m + 1) /\ i - 1 # m + 1
        BY <4>1
      <4>4. i # 0 => h[i - 1] = f[i - 1]
        BY <4>3
      <4> QED
        BY <4>1, <4>2, <4>4
    <3> QED
      BY <3>1, <3>2
  <2>3. h = [i \in 0 .. (m + 1) |-> IF i = 0 THEN <<>> ELSE EmitNode(h[i - 1], i)]
    <3>1. h = [i \in 0 .. (m + 1) |-> h[i]]
      OBVIOUS
    <3> HIDE DEF h
    <3> QED
      BY <2>2, <3>1
  <2>4. \E e : e = [i \in 0 .. (m + 1) |-> IF i = 0 THEN <<>> ELSE EmitNode(e[i - 1], i)]
    <3> HIDE DEF h
    <3> QED
      BY <2>3
  <2> QED
    BY <2>4
<1>3. N \in S
  <2> HIDE DEF S
  <2> QED
    BY <1>1, <1>2, InductionOnSet
<1> DEFINE f == EmittedUpTo
<1>4. \E e : e = [i \in 0 .. N |-> IF i = 0 THEN <<>> ELSE EmitNode(e[i - 1], i)]
  BY <1>3
<1>5. f = [i \in 0 .. N |-> IF i = 0 THEN <<>> ELSE EmitNode(f[i - 1], i)]
  BY <1>4 DEF EmittedUpTo
<1>6. Emitted = f[N]
  BY DEF Emitted, EmittedUpTo
<1> HIDE DEF f
<1>7. f[0] = <<>>
  BY <1>5
<1>8. ASSUME NEW i \in 1 .. N PROVE f[i] = EmitNode(f[i - 1], i)
  <2>1. i \in 0 .. N /\ i # 0
    OBVIOUS
  <2> QED
    BY <1>5, <2>1
<1> QED
  BY <1>6, <1>7, <1>8 DEF f

\* The nodes that become instructions, among the first n.
ToEmit(n) == {i \in kept : i <= n /\ ~IsSpecial(i)}

\* A list holds these nodes, each at its index.
Lists(list, n) ==
    /\ IsSequence(list) /\ Len(list) = Cardinality(ToEmit(n))
    /\ \A i \in DOMAIN list : list[i] \in ToEmit(n)
    /\ \A t \in ToEmit(n) : Index(t) + 1 \in DOMAIN list /\ list[Index(t) + 1] = t

\* Each node that becomes an instruction is the one at its index.
LEMMA EmittedLists ==
    ASSUME IsSequence(nodes), kept \subseteq DOMAIN nodes
    PROVE  Lists(Emitted, Len(nodes))
<1> DEFINE N == Len(nodes)
           f == EmittedUpTo
           S == {n \in Nat : n <= N => Lists(f[n], n)}
<1>0. N \in Nat /\ kept \subseteq 1 .. N
  BY SequenceHas
<1>1. /\ Emitted = f[N]
      /\ f[0] = <<>>
      /\ \A i \in 1 .. N : f[i] = EmitNode(f[i - 1], i)
  BY <1>0, EmittedDefined
<1> HIDE DEF f, N
<1>2. \A n \in Nat : IsFiniteSet(ToEmit(n)) /\ Cardinality(ToEmit(n)) \in Nat
  <2> SUFFICES ASSUME NEW n \in Nat
               PROVE  IsFiniteSet(ToEmit(n)) /\ Cardinality(ToEmit(n)) \in Nat
    OBVIOUS
  <2>1. ToEmit(n) \in SUBSET (1 .. N) /\ IsFiniteSet(1 .. N)
    BY <1>0, FS_Interval DEF ToEmit
  <2>2. IsFiniteSet(ToEmit(n))
    BY <2>1, FS_Subset
  <2> QED
    BY <2>2, FS_CardinalityType
<1>3. 0 \in S
  <2>1. ToEmit(0) = {}
    BY <1>0 DEF ToEmit
  <2>2. <<>> \in Seq({}) /\ DOMAIN <<>> = {} /\ Len(<<>>) = 0
    OBVIOUS
  <2>3. IsSequence(<<>>)
    BY <2>2, SequenceIs
  <2>4. Lists(<<>>, 0)
    BY <2>1, <2>2, <2>3, FS_EmptySet DEF Lists
  <2> QED
    BY <1>1, <2>4
<1>4. ASSUME NEW n \in Nat, n \in S PROVE n + 1 \in S
  <2> SUFFICES ASSUME n + 1 <= N PROVE Lists(f[n + 1], n + 1)
    OBVIOUS
  <2> DEFINE m == n + 1
             old == f[n]
  <2>1. Lists(old, n)
    BY <1>0, <1>4
  <2>2. m \in 1 .. N /\ m - 1 = n
    BY <1>0
  <2>3. f[m] = EmitNode(old, m)
    BY <1>1, <2>2
  <2>4. \A i \in kept : i \in Nat /\ (i <= m <=> i <= n \/ i = m) /\ (i < m <=> i <= n) /\ ~(m <= n)
    BY <1>0
  <2> HIDE DEF m, old
  <2>5. CASE m \in kept /\ ~IsSpecial(m)
    <3> DEFINE new == Append(old, m)
    <3>1. f[m] = new
      BY <2>3, <2>5 DEF EmitNode
    <3>2. ToEmit(m) = ToEmit(n) \cup {m} /\ m \notin ToEmit(n)
      BY <2>4, <2>5 DEF ToEmit
    <3>3. Cardinality(ToEmit(m)) = Cardinality(ToEmit(n)) + 1
      BY <1>2, <3>2, FS_AddElement
    <3>4. Index(m) = Cardinality(ToEmit(n))
      <4>1. {i \in kept : i < m /\ ~IsSpecial(i)} = ToEmit(n)
        BY <2>4 DEF ToEmit
      <4> QED
        BY <4>1 DEF Index
    <3>5. /\ IsSequence(new) /\ Len(new) = Len(old) + 1
          /\ \A i \in 1 .. Len(old) : new[i] = old[i]
          /\ new[Len(old) + 1] = m
      BY <2>1, SequenceAppended DEF Lists
    <3>6. Len(old) \in Nat /\ DOMAIN old = 1 .. Len(old) /\ DOMAIN new = 1 .. Len(new)
      BY <2>1, <3>5, SequenceHas DEF Lists
    <3> HIDE DEF new
    <3>7. Len(new) = Cardinality(ToEmit(m))
      BY <2>1, <3>3, <3>5 DEF Lists
    <3>8. ASSUME NEW i \in DOMAIN new PROVE new[i] \in ToEmit(m)
      <4>1. i \in DOMAIN old \/ i = Len(old) + 1
        BY <3>5, <3>6
      <4> QED
        BY <2>1, <3>2, <3>5, <3>6, <4>1 DEF Lists
    <3>9. ASSUME NEW t \in ToEmit(m)
          PROVE  Index(t) + 1 \in DOMAIN new /\ new[Index(t) + 1] = t
      <4>1. CASE t = m
        <5>1. Index(t) + 1 = Len(old) + 1
          BY <2>1, <3>4, <4>1 DEF Lists
        <5>2. Len(old) + 1 \in DOMAIN new
          BY <3>5, <3>6
        <5> QED
          BY <3>5, <4>1, <5>1, <5>2
      <4>2. CASE t # m
        <5>1. Index(t) + 1 \in DOMAIN old /\ old[Index(t) + 1] = t
          BY <2>1, <3>2, <4>2 DEF Lists
        <5>2. Index(t) + 1 \in DOMAIN new
          BY <3>5, <3>6, <5>1
        <5> QED
          BY <3>5, <3>6, <5>1, <5>2
      <4> QED
        BY <4>1, <4>2
    <3> QED
      BY <3>1, <3>5, <3>7, <3>8, <3>9 DEF Lists, m
  <2>6. CASE ~(m \in kept /\ ~IsSpecial(m))
    <3>1. f[m] = old
      BY <2>3, <2>6 DEF EmitNode
    <3>2. ToEmit(m) = ToEmit(n)
      BY <2>4, <2>6 DEF ToEmit
    <3> QED
      BY <2>1, <3>1, <3>2 DEF Lists, m
  <2> QED
    BY <2>5, <2>6
<1>5. N \in S
  <2> HIDE DEF S
  <2> QED
    BY <1>0, <1>3, <1>4, InductionOnSet
<1> QED
  BY <1>0, <1>1, <1>5 DEF N

\* The fields of a destination are found in it when there is room for the address.
LEMMA DestinationFields ==
    ASSUME NEW a \in Nat, a < AddressSpace, NEW input \in {INPUT_ONE, INPUT_TWO},
           NEW m \in {MATCHING_ONE, MATCHING_BOTH, MATCHING_ANY}
    PROVE  LET word == CreateDestination(a, input, m)
           IN  /\ DestinationToAddress(word) = a
               /\ DestinationToInput(word) = input
               /\ DestinationToMatchingFunction(word) = m
<1> DEFINE A == AddressSpace
           w == (2 * a + input) * 8 + m
<1>1. A \in Nat /\ DestinationSpace = 16 * A
  BY WidthAssumption, PowerPositive DEF AddressSpace, DestinationSpace
<1>2. input \in 0 .. 1 /\ m \in 0 .. 2
  BY DEF INPUT_ONE, INPUT_TWO, MATCHING_ONE, MATCHING_BOTH, MATCHING_ANY
<1>3. CreateDestination(a, input, m) = w % (16 * A)
  BY <1>1 DEF CreateDestination
<1> HIDE DEF A
<1>4. w \in Nat /\ w < 16 * A
  BY <1>1, <1>2 DEF A
<1>5. w \div 16 = a /\ (w \div 8) % 2 = input /\ w % 4 = m
  BY <1>2
<1>6. w % (16 * A) = w
  <2> DEFINE M == 16 * A
  <2>1. M \in Nat /\ M > 0 /\ w < M
    BY <1>1, <1>4
  <2> HIDE DEF M, w
  <2>2. w % M = w
    BY <1>4, <2>1
  <2> QED
    BY <2>2 DEF M
<1> HIDE DEF w
<1> QED
  BY <1>3, <1>5, <1>6 DEF DestinationToAddress, DestinationToInput, DestinationToMatchingFunction


-----------------------------------------------------------------------------
(* Operands *)

IsPair(inputs) == inputs = <<inputs[1], inputs[2]>>

\* A node that has not been connected is as its line gave it, or an added DUP.
AsWritten(x, i) ==
    \/ x.opcode = "DUP" /\ x.inputs = <<None, None>>
    \/ i \in DOMAIN parsed /\ x.opcode = parsed[i].opcode /\ x.inputs = parsed[i].inputs

\* One that has been connected.
Connected(x, i) ==
    Settled(x) /\ (x.opcode = "LOD" /\ i \notin Misfits => x.inputs[1] = None)

\* The inductive invariant: edges to second inputs are to instructions that
\* wait for both, and no literal is left alone on a second input.
OperandsInv ==
    /\ source \in Sources
    /\ phase = "parse" => parsed = <<>> /\ \A i \in DOMAIN nodes : IsPair(nodes[i].inputs)
    /\ phase = "connect" =>
          /\ \A i \in DOMAIN parsed : IsPair(parsed[i].inputs)
          /\ \A i \in DOMAIN nodes : IF i < at THEN Connected(nodes[i], i)
                                    ELSE AsWritten(nodes[i], i)
    /\ phase \in {"extern", "optimize", "emit"} => \A i \in DOMAIN nodes : Connected(nodes[i], i)
    /\ phase \notin {"done", "error"} => EdgesOK(nodes)
    /\ phase = "emit" => IsSequence(nodes) /\ kept \subseteq DOMAIN nodes
    /\ Len(image.instructions) <= AddressSpace => OperandsAgree

\* What an instruction tells of its node.
LEMMA InstructionFields ==
    ASSUME NEW x
    PROVE  /\ InstructionOf(x).opcode = x.opcode
           /\ InstructionOf(x).destination_1 = DestinationWord(x.destinations[1])
           /\ InstructionOf(x).destination_2 = DestinationWord(x.destinations[2])
           /\ InstructionOf(x).instruction_literal = "NONE" <=>
                 x.inputs[1] = None /\ x.inputs[2] = None
<1> DEFINE used == {k \in {1, 2} : x.inputs[k] # None}
           amount == CASE Cardinality(used) = 0 -> "NONE"
                       [] Cardinality(used) = 1 -> "ONE"
                       [] OTHER -> "TWO"
<1>1. /\ InstructionOf(x).opcode = x.opcode
      /\ InstructionOf(x).destination_1 = DestinationWord(x.destinations[1])
      /\ InstructionOf(x).destination_2 = DestinationWord(x.destinations[2])
      /\ InstructionOf(x).instruction_literal = amount
  BY Zenon DEF InstructionOf
<1>2. IsFiniteSet(used)
  <2>1. IsFiniteSet(1 .. 2)
    <3>1. 1 \in Int /\ 2 \in Int
      OBVIOUS
    <3> QED
      BY <3>1, FS_Interval, Zenon
  <2>2. used \in SUBSET (1 .. 2)
    OBVIOUS
  <2> QED
    BY <2>1, <2>2, FS_Subset
<1>3. Cardinality(used) = 0 <=> used = {}
  BY <1>2, FS_EmptySet
<1>4. used = {} <=> x.inputs[1] = None /\ x.inputs[2] = None
  OBVIOUS
<1>5. amount = "NONE" <=> Cardinality(used) = 0
  <2> HIDE DEF used
  <2> QED
    OBVIOUS
<1> HIDE DEF amount, used
<1> QED
  BY <1>1, <1>3, <1>4, <1>5

\* An edge becomes a destination that agrees with the instruction it leads to.
LEMMA EdgeAgrees ==
    ASSUME NEW t, NEW x, Connected(x, t), NEW a \in Nat, a < AddressSpace, NEW input,
           x.opcode \notin SpecialOpcodes,
           input \in {INPUT_ONE, INPUT_TWO},
           input = INPUT_TWO /\ t \notin Misfits =>
              x.opcode \notin OneInput /\ x.inputs = <<None, None>>
    PROVE  LET word == CreateDestination(a, input, Matching(x))
               m == DestinationToMatchingFunction(word)
           IN  /\ DestinationToAddress(word) = a
               /\ m = MATCHING_ANY <=> x.opcode = "MER"
               /\ t \notin Misfits \/ x.opcode # "LOD" =>
                     (m = MATCHING_BOTH <=> ReadsBothTokens(InstructionOf(x)))
               /\ t \notin Misfits /\ m = MATCHING_ONE => DestinationToInput(word) = INPUT_ONE
<1> DEFINE word == CreateDestination(a, input, Matching(x))
<1>1. Matching(x) \in {MATCHING_ONE, MATCHING_BOTH, MATCHING_ANY}
  BY DEF Matching
<1>2. /\ DestinationToAddress(word) = a
      /\ DestinationToInput(word) = input
      /\ DestinationToMatchingFunction(word) = Matching(x)
  BY <1>1, DestinationFields
<1> HIDE DEF word
<1>3. NumInputs(x.opcode) = 2 <=> x.opcode \notin OneInput /\ x.opcode # "MER"
  BY DEF NumInputs, MonadicOpcodes, OneInput, SpecialOpcodes
<1>4. Matching(x) = MATCHING_ANY <=> x.opcode = "MER"
  BY DEF Matching, MATCHING_ONE, MATCHING_BOTH, MATCHING_ANY
<1>5. Matching(x) = MATCHING_BOTH <=>
          x.opcode # "MER" /\ x.opcode \notin OneInput /\ x.inputs[1] = None
  BY DEF Matching, MATCHING_ONE, MATCHING_BOTH, MATCHING_ANY
<1>6. /\ InstructionOf(x).opcode = x.opcode
      /\ InstructionOf(x).instruction_literal = "NONE" <=> x.inputs[1] = None /\ x.inputs[2] = None
  BY InstructionFields
<1>7. input = INPUT_TWO /\ t \notin Misfits => x.inputs[1] = None
  OBVIOUS
<1>8. t \notin Misfits /\ Matching(x) = MATCHING_ONE => input = INPUT_ONE
  BY <1>5, <1>7 DEF Matching, MATCHING_ONE, MATCHING_BOTH, MATCHING_ANY
<1>9. /\ Settled(x)
      /\ x.opcode = "LOD" /\ t \notin Misfits => x.inputs[1] = None
      /\ "LOD" \notin OneInput
  BY DEF Connected, OneInput, SpecialOpcodes
<1>10. CASE x.opcode # "LOD"
  <2>1. Matching(x) = MATCHING_BOTH <=> ReadsBothTokens(InstructionOf(x))
    BY <1>3, <1>5, <1>6, <1>9, <1>10 DEF Settled, ReadsBothTokens
  <2> QED
    BY <1>2, <1>4, <1>8, <2>1 DEF word
<1>11. CASE x.opcode = "LOD"
  <2>1. t \notin Misfits => (Matching(x) = MATCHING_BOTH <=> ReadsBothTokens(InstructionOf(x)))
    BY <1>5, <1>6, <1>9, <1>11 DEF ReadsBothTokens
  <2> QED
    BY <1>2, <1>4, <1>8, <1>11, <2>1 DEF word
<1> QED
  BY <1>10, <1>11

\* The misfits are those of the lines, and have the same addresses as before.
LEMMA SameMisfits ==
    ASSUME UNCHANGED <<labels, parsed>>
    PROVE  Misfits' = Misfits
BY DEF Misfits, ArgumentsFit, IsNoLiteral

LEMMA SameAddresses ==
    ASSUME UNCHANGED <<labels, parsed, nodes, kept>>
    PROVE  MisfitAddresses' = MisfitAddresses
<1>1. Misfits' = Misfits
  BY SameMisfits
<1>2. ASSUME NEW i PROVE Index(i)' = Index(i) /\ IsSpecial(i)' = IsSpecial(i)
  BY DEF Index, IsSpecial
<1> QED
  BY <1>1, <1>2 DEF MisfitAddresses

\* What holds of the new nodes holds in the new state.
LEMMA Primed ==
    ASSUME Misfits' = Misfits, parsed' = parsed
    PROVE  /\ EdgesOK(nodes') => EdgesOK(nodes)'
           /\ \A i : Connected(nodes'[i], i) => Connected(nodes[i], i)'
           /\ \A i : AsWritten(nodes'[i], i) => AsWritten(nodes[i], i)'
BY DEF EdgesOK, EdgeOK, Connected, AsWritten, Settled

LEMMA EmitAgrees ==
    ASSUME phase = "emit", NoRedundantDup, IsSequence(nodes), kept \subseteq DOMAIN nodes,
           EdgesOK(nodes), \A i \in DOMAIN nodes : Connected(nodes[i], i),
           Emit, phase' = "done", Len(image'.instructions) <= AddressSpace
    PROVE  OperandsAgree'
<1> DEFINE N == Len(nodes)
           E == Emitted
<1>0. MisfitAddresses' = MisfitAddresses
  BY SameAddresses DEF Emit
<1>1. Lists(E, N)
  BY EmittedLists
<1>2. PICK ins : ins = [i \in DOMAIN E |-> InstructionOf(nodes[E[i]])]
  OBVIOUS
<1>3. image'.instructions = ins
  <2>1. \A names : ImageWith(names).instructions = ins
    BY <1>2, Zenon DEF ImageWith
  <2>2. \E names : image' = ImageWith(names)
    BY DEF Emit
  <2> QED
    BY <2>1, <2>2
<1> HIDE DEF N, E
<1>4. /\ IsSequence(E) /\ Len(E) \in Nat /\ DOMAIN E = 1 .. Len(E)
  BY <1>1, SequenceHas DEF Lists
<1>5. IsSequence(ins) /\ Len(ins) = Len(E) /\ DOMAIN ins = DOMAIN E
  <2>1. DOMAIN ins = 1 .. Len(E) /\ ins = [i \in 1 .. Len(E) |-> ins[i]]
    BY <1>2, <1>4
  <2> QED
    BY <1>4, <2>1, SequenceMade
<1>6. Len(E) <= AddressSpace
  BY <1>3, <1>5
<1> SUFFICES ASSUME NEW inst \in ToSet(ins),
                    NEW word \in {inst.destination_1, inst.destination_2}
                         \ {OUTPUTD_DESTINATION, OUTPUTS_DESTINATION, DEV_NULL_DESTINATION}
             PROVE  LET address == DestinationToAddress(word)
                        target == ins[address + 1]
                        m == DestinationToMatchingFunction(word)
                        fits == address \notin MisfitAddresses
                    IN  /\ m = MATCHING_ANY <=> target.opcode = "MER"
                        /\ fits \/ target.opcode # "LOD" =>
                              (m = MATCHING_BOTH <=> ReadsBothTokens(target))
                        /\ fits /\ m = MATCHING_ONE => DestinationToInput(word) = INPUT_ONE
  BY <1>3, <1>0 DEF OperandsAgree
<1>7. PICK i \in DOMAIN E : inst = InstructionOf(nodes[E[i]])
  BY <1>2, <1>5 DEF ToSet
<1> DEFINE node == E[i]
<1>8. node \in kept /\ node \in DOMAIN nodes
  BY <1>1, <1>7 DEF Lists, ToEmit
<1>9. PICK k \in {1, 2} : word = DestinationWord(nodes[node].destinations[k])
  BY <1>7, InstructionFields
<1>10. PICK d : d = nodes[node].destinations[k]
  OBVIOUS
<1>11. d # None
  BY <1>9, <1>10 DEF DestinationWord
<1>12. d.node \in kept /\ d.node \in DOMAIN nodes
  BY <1>8, <1>10, <1>11 DEF NoRedundantDup
<1>13. EdgeOK(nodes, d)
  BY <1>8, <1>10 DEF EdgesOK
<1> HIDE DEF node
<1>14. PICK t : t = d.node
  OBVIOUS
<1>15. PICK x : x = nodes[t]
  OBVIOUS
<1>16. nodes[d.node].opcode # "OUTD" /\ nodes[d.node].opcode # "OUTS"
  BY <1>9, <1>10, <1>11 DEF DestinationWord
<1>17. word = CreateDestination(Index(t), d.input, Matching(x))
  BY <1>9, <1>10, <1>11, <1>14, <1>15, <1>16 DEF DestinationWord
<1>18. t \in ToEmit(N)
  <2>1. DOMAIN nodes = 1 .. N /\ N \in Nat
    BY SequenceHas DEF N
  <2>2. t \in kept /\ t <= N
    BY <1>12, <1>14, <2>1
  <2>3. ~IsSpecial(t)
    BY <1>14, <1>16 DEF IsSpecial, SpecialOpcodes
  <2> QED
    BY <2>2, <2>3 DEF ToEmit
<1>19. Index(t) \in Nat
  <2> DEFINE B == {n \in kept : n < t /\ ~IsSpecial(n)}
  <2>1. B \in SUBSET (DOMAIN nodes) /\ DOMAIN nodes = 1 .. Len(nodes) /\ Len(nodes) \in Nat
    BY SequenceHas
  <2>2. IsFiniteSet(DOMAIN nodes)
    BY <2>1, FS_Interval
  <2>3. IsFiniteSet(B)
    BY <2>1, <2>2, FS_Subset
  <2> QED
    BY <2>3, FS_CardinalityType DEF Index
<1>20. Index(t) + 1 \in DOMAIN E /\ E[Index(t) + 1] = t
  BY <1>1, <1>18 DEF Lists
<1>21. Index(t) < AddressSpace
  <2>1. Index(t) + 1 <= Len(E)
    BY <1>4, <1>20
  <2>2. AddressSpace \in Nat
    BY WidthAssumption, PowerPositive DEF AddressSpace
  <2> QED
    BY <1>4, <1>6, <1>19, <2>1, <2>2
<1>22. ins[Index(t) + 1] = InstructionOf(x)
  BY <1>2, <1>15, <1>20
<1>23. /\ Connected(x, t)
       /\ x.opcode \notin SpecialOpcodes
       /\ d.input \in {INPUT_ONE, INPUT_TWO}
       /\ d.input = INPUT_TWO /\ t \notin Misfits =>
             x.opcode \notin OneInput /\ x.inputs = <<None, None>>
  BY <1>11, <1>12, <1>13, <1>14, <1>15, <1>16 DEF EdgeOK, SpecialOpcodes
<1>24. /\ DestinationToAddress(word) = Index(t)
       /\ DestinationToMatchingFunction(word) = MATCHING_ANY <=> x.opcode = "MER"
       /\ t \notin Misfits \/ x.opcode # "LOD" =>
             (DestinationToMatchingFunction(word) = MATCHING_BOTH <=>
                 ReadsBothTokens(InstructionOf(x)))
       /\ t \notin Misfits /\ DestinationToMatchingFunction(word) = MATCHING_ONE =>
             DestinationToInput(word) = INPUT_ONE
  BY <1>17, <1>19, <1>21, <1>23, EdgeAgrees
<1>25. InstructionOf(x).opcode = x.opcode
  BY InstructionFields
<1>26. Index(t) \notin MisfitAddresses => t \notin Misfits
  BY <1>18 DEF ToEmit, MisfitAddresses
<1> QED
  BY <1>22, <1>24, <1>25, <1>26


\* The arguments of the line that is read.
LEMMA LineFits ==
    ASSUME Inv, OperandsInv, NEW kind \in {"assign", "branch", "out"}, Reading(kind)
    PROVE  IsPair(Line.args)
<1>1. at \in Nat \ {0} /\ at <= Len(source.lines) /\ source.lines[at].kind = kind
  BY DEF Inv, Reading, Line
<1>2. source \in Sources /\ Len(source.lines) \in Nat
  BY LinesAssumption DEF OperandsInv
<1>3. at \in 1 .. Len(source.lines)
  BY <1>1, <1>2
<1> QED
  BY <1>1, <1>2, <1>3, LinesAssumption DEF Line, IsPair

\* What the assembler adds, before and after.
LEMMA DupFits ==
    ASSUME NEW x, x.opcode = "DUP", x.inputs = <<None, None>>, NEW i
    PROVE  IsPair(x.inputs) /\ AsWritten(x, i) /\ Connected(x, i)
<1>1. "DUP" \in OneInput
  BY DEF OneInput
<1> QED
  BY <1>1 DEF IsPair, AsWritten, Connected, Settled

\* These are about opcodes and inputs.
LEMMA FitsAlike ==
    ASSUME NEW x, NEW y, x.opcode = y.opcode, x.inputs = y.inputs, NEW i
    PROVE  /\ AsWritten(y, i) => AsWritten(x, i)
           /\ Connected(y, i) => Connected(x, i)
BY DEF AsWritten, Connected, Settled

\* Before the nodes are connected nothing is a misfit, and later more may be.
LEMMA EdgesAmongMore ==
    ASSUME NEW ns, EdgesOK(ns), Misfits = {}, nodes' = ns
    PROVE  EdgesOK(nodes)'
BY DEF EdgesOK, EdgeOK

LEMMA NoMisfits ==
    ASSUME parsed = <<>>
    PROVE  Misfits = {}
<1>1. DOMAIN <<>> = {}
  OBVIOUS
<1> QED
  BY <1>1 DEF Misfits

\* What is left to show of an action that reads a line.
LEMMA LineKeepsOperands ==
    ASSUME OperandsInv, phase = "parse", NEW accepted, NextLine(accepted),
           NEW ns, nodes' = ns, EdgesOK(ns), \A i \in DOMAIN ns : IsPair(ns[i].inputs)
    PROVE  OperandsInv'
<1>1. source' = source /\ source' \in Sources /\ phase' \in {"parse", "error"}
  BY DEF OperandsInv, NextLine
<1>2. OperandsAgree'
  BY <1>1 DEF OperandsAgree
<1>3. parsed = <<>> /\ parsed' = <<>>
  BY DEF OperandsInv, NextLine
<1>4. EdgesOK(nodes)'
  BY <1>3, NoMisfits, EdgesAmongMore
<1> QED
  BY <1>1, <1>2, <1>3, <1>4 DEF OperandsInv

\* The nodes of a line.
LEMMA LineNodes ==
    ASSUME NEW ns, \A i \in DOMAIN ns : IsPair(ns[i].inputs),
           NEW ms, NEW opcode, NEW inputs, Comes(ns, ms, opcode, inputs), IsPair(inputs)
    PROVE  \A i \in DOMAIN ms : IsPair(ms[i].inputs)
<1> SUFFICES ASSUME NEW i \in DOMAIN ms PROVE IsPair(ms[i].inputs)
  OBVIOUS
<1>1. CASE i \in DOMAIN ns /\ ms[i] = ns[i]
  BY <1>1
<1>2. CASE ms[i].opcode = opcode /\ ms[i].inputs = inputs
  BY <1>2
<1>3. CASE ms[i].opcode = "DUP" /\ ms[i].inputs = <<None, None>>
  BY <1>3 DEF IsPair
<1> QED
  BY <1>1, <1>2, <1>3 DEF Comes

\* An argument without a literal leaves no input.
LEMMA NoLiteralResolved ==
    ASSUME NEW inputs, IsPair(inputs), NEW k \in {1, 2}, IsNoLiteral(inputs[k])
    PROVE  Resolved(inputs, k) = [inputs EXCEPT ![k] = None]
<1>1. CASE inputs[k] = None
  <2>1. ~IsName(None)
    BY DEF IsName, None
  <2>2. [inputs EXCEPT ![k] = None] = inputs
    BY <1>1 DEF IsPair
  <2> QED
    BY <1>1, <2>1, <2>2 DEF Resolved
<1>2. CASE inputs[k] # None
  <2>1. IsName(Hole)
    BY DEF IsName, Hole, Name
  <2> QED
    BY <1>2, <2>1 DEF IsNoLiteral, Resolved
<1> QED
  BY <1>1, <1>2

\* An edge to the second input is made only when the first one is None.
LEMMA SecondMayConnect ==
    ASSUME NEW node, NEW x, AsWritten(x, node), \A i \in DOMAIN parsed : IsPair(parsed[i].inputs),
           NEW ns, ns[node].opcode = x.opcode, ns[node].inputs = Resolved(x.inputs, 1)
    PROVE  MayConnect(ns, node, 2)
<1> SUFFICES ASSUME NEW y, y = ns[node], node \notin Misfits,
                    IsName(y.inputs[2]), y.inputs[2] # Hole,
                    y.inputs[2].name \notin DOMAIN labels
             PROVE  y.opcode \notin OneInput /\ y.inputs = <<None, y.inputs[2]>>
  BY DEF MayConnect
<1>1. PICK a, b : x.inputs = <<a, b>>
  BY DEF AsWritten, IsPair
<1>2. y.inputs = <<a, b>> \/ y.inputs = <<None, b>>
  BY <1>1 DEF Resolved
<1>3. y.inputs[2] = b /\ x.inputs[1] = a /\ x.inputs[2] = b
  BY <1>1, <1>2
<1>4. b # None /\ IsNoLiteral(b)
  BY <1>3 DEF IsName, None, IsNoLiteral
<1>5. /\ node \in DOMAIN parsed /\ x.opcode = parsed[node].opcode
      /\ x.inputs = parsed[node].inputs
  BY <1>3, <1>4 DEF AsWritten
<1>6. ArgumentsFit(parsed[node])
  BY <1>5 DEF Misfits
<1>7. x.opcode \notin OneInput /\ IsNoLiteral(a)
  BY <1>3, <1>4, <1>5, <1>6 DEF ArgumentsFit
<1>8. IsPair(x.inputs)
  BY <1>1 DEF IsPair
<1>9. y.inputs = [x.inputs EXCEPT ![1] = None]
  BY <1>3, <1>7, <1>8, NoLiteralResolved
<1>10. y.inputs = <<None, b>>
  BY <1>1, <1>9
<1> QED
  BY <1>3, <1>7, <1>10

\* LOD without a literal has two inputs to wait for.
LEMMA LoadResolved ==
    ASSUME NEW node, node \notin Misfits, NEW x, x.opcode = "LOD",
           AsWritten(x, node),
           \A i \in DOMAIN parsed : IsPair(parsed[i].inputs)
    PROVE  Resolved(Resolved(x.inputs, 1), 2) = <<None, None>>
<1>1. node \in DOMAIN parsed /\ x.opcode = parsed[node].opcode /\ x.inputs = parsed[node].inputs
  BY DEF AsWritten
<1>2. PICK a, b : x.inputs = <<a, b>>
  BY <1>1 DEF IsPair
<1>3. x.inputs[1] = a /\ x.inputs[2] = b /\ IsPair(x.inputs)
  BY <1>2 DEF IsPair
<1>4. IsNoLiteral(a) /\ IsNoLiteral(b)
  BY <1>1, <1>3 DEF Misfits, ArgumentsFit
<1>5. Resolved(x.inputs, 1) = <<None, b>>
  <2>1. Resolved(x.inputs, 1) = [x.inputs EXCEPT ![1] = None]
    BY <1>3, <1>4, NoLiteralResolved
  <2> QED
    BY <1>2, <2>1
<1>6. PICK inputs : inputs = <<None, b>>
  OBVIOUS
<1>7. IsPair(inputs) /\ inputs[2] = b
  BY <1>6 DEF IsPair
<1>8. Resolved(inputs, 2) = [inputs EXCEPT ![2] = None]
  BY <1>4, <1>7, NoLiteralResolved
<1>9. Resolved(inputs, 2) = <<None, None>>
  BY <1>6, <1>8
<1> QED
  BY <1>5, <1>6, <1>9

\* A node is connected: its inputs are settled and those of the others stay.
LEMMA ConnectSettles ==
    ASSUME NodesOK(nodes), DefinitionsOK(nodes, variables), at \in DOMAIN nodes,
           EdgesOK(nodes), \A i \in DOMAIN parsed : IsPair(parsed[i].inputs),
           AsWritten(nodes[at], at), Connect
    PROVE  /\ EdgesOK(nodes') /\ Connected(nodes'[at], at)
           /\ \A j \in DOMAIN nodes' \ {at} :
                 \/ /\ j \in DOMAIN nodes
                    /\ nodes'[j].opcode = nodes[j].opcode /\ nodes'[j].inputs = nodes[j].inputs
                 \/ nodes'[j].opcode = "DUP" /\ nodes'[j].inputs = <<None, None>>
<1> DEFINE g == [nodes |-> nodes, variables |-> variables]
           h == ConnectInput(g, at, 1)
           i == ConnectInput(h, at, 2)
           new == [i.nodes EXCEPT ![at] = MoveLiteral(i.nodes[at])]
<1>1. nodes' = new
  BY DEF Connect
<1>2. GraphOK(g) /\ g.nodes = nodes
  BY GraphMade
<1> HIDE DEF g
<1>3. /\ GraphOK(h) /\ Extends(g.nodes, h.nodes)
      /\ Rewired(g.nodes, h.nodes, at, Resolved(g.nodes[at].inputs, 1))
      /\ EdgesOK(g.nodes) /\ MayConnect(g.nodes, at, 1) => EdgesOK(h.nodes)
  BY <1>2, ConnectInputKeeps
<1> HIDE DEF h
<1>4. EdgesOK(h.nodes)
  BY <1>2, <1>3 DEF MayConnect
<1>5. /\ DOMAIN nodes \subseteq DOMAIN h.nodes /\ at \in DOMAIN h.nodes
      /\ Rewired(nodes, h.nodes, at, Resolved(nodes[at].inputs, 1))
  BY <1>2, <1>3 DEF Extends
<1>6. MayConnect(h.nodes, at, 2)
  <2>1. h.nodes[at].opcode = nodes[at].opcode /\ h.nodes[at].inputs = Resolved(nodes[at].inputs, 1)
    BY <1>5 DEF Rewired
  <2> QED
    BY <2>1, SecondMayConnect
<1>7. /\ GraphOK(i) /\ Extends(h.nodes, i.nodes)
      /\ Rewired(h.nodes, i.nodes, at, Resolved(h.nodes[at].inputs, 2))
      /\ EdgesOK(h.nodes) /\ MayConnect(h.nodes, at, 2) => EdgesOK(i.nodes)
  BY <1>3, <1>5, ConnectInputKeeps
<1> HIDE DEF i
<1>8. EdgesOK(i.nodes) /\ NodesOK(i.nodes) /\ DOMAIN h.nodes \subseteq DOMAIN i.nodes
      /\ at \in DOMAIN i.nodes
  BY <1>4, <1>5, <1>6, <1>7 DEF Extends, GraphOK
<1>9. /\ NodesOK(new) /\ Extends(i.nodes, new)
      /\ Rewired(i.nodes, new, at, new[at].inputs) /\ Settled(new[at])
      /\ i.nodes[at].inputs = <<None, None>> => new[at].inputs = <<None, None>>
      /\ EdgesOK(i.nodes) => EdgesOK(new)
  BY <1>8, MoveLiteralKeeps
<1>10. DOMAIN new = DOMAIN i.nodes
  OBVIOUS
<1> HIDE DEF new
<1>11. ASSUME NEW j \in DOMAIN new \ {at}
       PROVE  \/ /\ j \in DOMAIN nodes
                 /\ new[j].opcode = nodes[j].opcode /\ new[j].inputs = nodes[j].inputs
              \/ new[j].opcode = "DUP" /\ new[j].inputs = <<None, None>>
  <2>1. new[j].opcode = i.nodes[j].opcode /\ new[j].inputs = i.nodes[j].inputs
    BY <1>9, <1>10 DEF Rewired
  <2>2. CASE j \notin DOMAIN h.nodes
    BY <1>7, <1>10, <2>1, <2>2 DEF Rewired
  <2>3. CASE j \in DOMAIN h.nodes
    <3>1. i.nodes[j].opcode = h.nodes[j].opcode /\ i.nodes[j].inputs = h.nodes[j].inputs
      BY <1>7, <2>3 DEF Rewired
    <3> QED
      BY <1>5, <2>1, <2>3, <3>1 DEF Rewired
  <2> QED
    BY <2>2, <2>3
<1>12. Connected(new[at], at)
  <2>1. new[at].opcode = nodes[at].opcode
    BY <1>5, <1>7, <1>8, <1>9 DEF Rewired
  <2>2. i.nodes[at].inputs = Resolved(Resolved(nodes[at].inputs, 1), 2)
    BY <1>5, <1>7 DEF Rewired
  <2>3. ASSUME nodes[at].opcode = "LOD", at \notin Misfits PROVE new[at].inputs[1] = None
    <3>1. i.nodes[at].inputs = <<None, None>>
      BY <2>2, <2>3, LoadResolved
    <3>2. new[at].inputs = <<None, None>>
      BY <1>9, <3>1
    <3> QED
      BY <3>2
  <2> QED
    BY <1>9, <2>1, <2>3 DEF Connected
<1> QED
  BY <1>1, <1>8, <1>9, <1>11, <1>12

\* optimize_graph leaves opcodes and inputs, and edges lead where those of the
\* removed DUPs did.
LEMMA OptimizeSettles ==
    ASSUME NodesOK(nodes), EdgesOK(nodes), \A i \in DOMAIN nodes : Connected(nodes[i], i), Optimize
    PROVE  /\ EdgesOK(nodes') /\ IsSequence(nodes') /\ kept' \subseteq DOMAIN nodes'
           /\ \A i \in DOMAIN nodes' : Connected(nodes'[i], i)
<1> DEFINE N == Len(nodes)
<1>1. PICK g : g = Optimized(N)
  OBVIOUS
<1>2. nodes' = g.nodes /\ kept' = g.kept
  BY <1>1 DEF Optimize
<1>3. LookedAt(g, N)
  BY <1>1, AllLookedAt
<1> HIDE DEF N
<1>4. IsSequence(g.nodes) /\ DOMAIN g.nodes = DOMAIN nodes /\ g.kept \subseteq DOMAIN nodes
  BY <1>3 DEF LookedAt
<1>5. \A i \in DOMAIN nodes :
          g.nodes[i].opcode = nodes[i].opcode /\ g.nodes[i].inputs = nodes[i].inputs
  BY <1>3 DEF LookedAt
<1>6. \A i \in DOMAIN g.nodes : Connected(g.nodes[i], i)
  BY <1>4, <1>5, FitsAlike
<1>7. ASSUME NEW e, EdgeOK(nodes, e), e = None \/ e.node \in DOMAIN nodes
      PROVE  EdgeOK(g.nodes, e)
  BY <1>5, <1>7 DEF EdgeOK
<1>8. ASSUME NEW p \in DOMAIN nodes, NEW k \in {1, 2}
      PROVE  EdgeOK(g.nodes, g.nodes[p].destinations[k])
  <2>1. PICK d : d = nodes[p].destinations[k]
    OBVIOUS
  <2>2. EdgeOK(nodes, d) /\ (d = None \/ d.node \in DOMAIN nodes)
    BY <2>1 DEF EdgesOK, NodesOK, Inner
  <2>3. g.nodes[p].destinations[k] = After(N, d)
    BY <1>3, <2>1 DEF LookedAt
  <2>4. CASE After(N, d) = d
    BY <1>7, <2>2, <2>3, <2>4
  <2>5. CASE After(N, d) # d
    <3>1. d # None /\ After(N, d) = nodes[d.node].destinations[1]
      BY <2>5 DEF After
    <3>2. PICK e : e = nodes[d.node].destinations[1]
      OBVIOUS
    <3>3. EdgeOK(nodes, e) /\ (e = None \/ e.node \in DOMAIN nodes)
      BY <2>2, <3>1, <3>2 DEF EdgesOK, NodesOK, Inner
    <3> QED
      BY <1>7, <2>3, <3>1, <3>2, <3>3
  <2> QED
    BY <2>4, <2>5
<1>9. EdgesOK(g.nodes)
  BY <1>4, <1>8 DEF EdgesOK
<1> QED
  BY <1>2, <1>4, <1>6, <1>9


LEMMA InitOperands == Init => OperandsInv
<1> SUFFICES ASSUME Init PROVE OperandsInv
  OBVIOUS
<1>1. DOMAIN <<>> = {}
  OBVIOUS
<1>2. EdgesOK(<<>>)
  BY <1>1 DEF EdgesOK
<1> QED
  BY <1>1, <1>2 DEF Init, OperandsInv, OperandsAgree

LEMMA OperandsStep == Inv /\ OperandsInv /\ [Next]_vars => OperandsInv'
<1> SUFFICES ASSUME Inv, OperandsInv, [Next]_vars PROVE OperandsInv'
  OBVIOUS
<1>0. phase = "parse" => /\ NodesOK(nodes) /\ EdgesOK(nodes) /\ parsed = <<>>
                         /\ \A i \in DOMAIN nodes : IsPair(nodes[i].inputs)
  BY DEF Inv, OperandsInv
<1>1. CASE UNCHANGED vars
  <2>1. /\ UNCHANGED <<source, phase, at, nodes, labels, kept, image, parsed>>
    BY <1>1 DEF vars
  <2>2. Misfits' = Misfits /\ MisfitAddresses' = MisfitAddresses
    BY <2>1, SameMisfits, SameAddresses
  <2>3. OperandsAgree => OperandsAgree'
    BY <2>1, <2>2 DEF OperandsAgree
  <2>4. /\ EdgesOK(nodes) => EdgesOK(nodes)'
        /\ \A i : Connected(nodes[i], i) => Connected(nodes[i], i)'
        /\ \A i : AsWritten(nodes[i], i) => AsWritten(nodes[i], i)'
    BY <2>1, <2>2, Primed
  <2> QED
    BY <2>1, <2>3, <2>4 DEF OperandsInv
<1>2. CASE ParseLabel \/ ParseExport \/ ParseExtern
  <2>1. PICK accepted : NextLine(accepted)
    BY <1>2 DEF ParseLabel, ParseExport, ParseExtern
  <2>2. phase = "parse" /\ nodes' = nodes
    BY <1>2 DEF ParseLabel, ParseExport, ParseExtern, Reading
  <2> QED
    BY <1>0, <2>1, <2>2, LineKeepsOperands
<1>3. CASE ParseAssign \/ ParseOut \/ ParseBranch
  <2> DEFINE y == Node(Line.opcode, Line.args, <<None, None>>, FALSE)
  <2>1. phase = "parse" /\ IsPair(Line.args)
    <3>1. PICK kind \in {"assign", "branch", "out"} : Reading(kind)
      BY <1>3 DEF ParseAssign, ParseOut, ParseBranch
    <3> QED
      BY <3>1, LineFits DEF Reading
  <2>2. PICK accepted : NextLine(accepted)
    BY <1>3 DEF ParseAssign, ParseOut, ParseBranch
  <2>3. PICK new : /\ nodes' = new
                   /\ Comes(nodes, new, Line.opcode, Line.args) /\ EdgesOK(new)
    <3>1. CASE ParseAssign \/ ParseOut
      <4>1. PICK new : new = Append(nodes, y)
        OBVIOUS
      <4>2. Comes(nodes, new, Line.opcode, Line.args) /\ EdgesOK(new)
        BY <1>0, <2>1, <4>1, NodeAppended
      <4>3. nodes' = new
        BY <3>1, <4>1 DEF ParseAssign, ParseOut
      <4> QED
        BY <4>2, <4>3
    <3>2. CASE ParseBranch
      <4>1. PICK new : new =
                nodes \o << DupNode(<<None, None>>), DupNode(<<None, None>>),
                            Node(Line.opcode, Line.args, <<To(Len(nodes) + 1, INPUT_ONE),
                                                           To(Len(nodes) + 2, INPUT_ONE)>>,
                                 FALSE) >>
        OBVIOUS
      <4>2. Comes(nodes, new, Line.opcode, Line.args) /\ EdgesOK(new)
        BY <1>0, <2>1, <4>1, BranchAppended
      <4>3. nodes' = new
        BY <3>2, <4>1 DEF ParseBranch
      <4> QED
        BY <4>2, <4>3
    <3> QED
      BY <1>3, <3>1, <3>2
  <2>4. \A i \in DOMAIN new : IsPair(new[i].inputs)
    BY <1>0, <2>1, <2>3, LineNodes
  <2> QED
    BY <2>1, <2>2, <2>3, <2>4, LineKeepsOperands
<1>4. CASE ParseEnds
  <2>1. /\ phase = "parse" /\ phase' = "connect" /\ at' = 1 /\ parsed' = nodes
        /\ UNCHANGED <<source, nodes, labels>>
    BY <1>4 DEF ParseEnds
  <2>2. \A i \in DOMAIN nodes : ~(i < 1)
    <3>1. DOMAIN nodes = 1 .. Len(nodes) /\ Len(nodes) \in Nat
      BY <1>0, <2>1, SequenceHas DEF NodesOK
    <3> QED
      BY <3>1
  <2>3. OperandsAgree'
    BY <2>1 DEF OperandsAgree
  <2>4. \A i \in DOMAIN nodes : AsWritten(nodes[i], i)'
    BY <2>1 DEF AsWritten
  <2>5. EdgesOK(nodes)'
    BY <1>0, <2>1, NoMisfits, EdgesAmongMore
  <2>6. \A i \in DOMAIN parsed' : IsPair(parsed'[i].inputs)
    BY <1>0, <2>1
  <2> QED
    BY <2>1, <2>2, <2>3, <2>4, <2>5, <2>6 DEF OperandsInv
<1>5. CASE Connect
  <2>1. /\ phase = "connect" /\ phase' = "connect" /\ at' = at + 1 /\ at <= Len(nodes)
        /\ UNCHANGED <<source, labels, parsed>>
    BY <1>5 DEF Connect
  <2>2. /\ NodesOK(nodes) /\ DefinitionsOK(nodes, variables) /\ EdgesOK(nodes)
        /\ at \in Nat \ {0} /\ \A i \in DOMAIN parsed : IsPair(parsed[i].inputs)
    BY <2>1 DEF Inv, OperandsInv
  <2>3. DOMAIN nodes = 1 .. Len(nodes) /\ Len(nodes) \in Nat
    BY <2>2, SequenceHas DEF NodesOK
  <2>4. at \in DOMAIN nodes /\ ~(at < at)
    BY <2>1, <2>2, <2>3
  <2>5. AsWritten(nodes[at], at)
    BY <2>1, <2>4 DEF OperandsInv
  <2>6. /\ EdgesOK(nodes') /\ Connected(nodes'[at], at)
        /\ \A j \in DOMAIN nodes' \ {at} :
              \/ /\ j \in DOMAIN nodes
                 /\ nodes'[j].opcode = nodes[j].opcode /\ nodes'[j].inputs = nodes[j].inputs
              \/ nodes'[j].opcode = "DUP" /\ nodes'[j].inputs = <<None, None>>
    BY <1>5, <2>2, <2>4, <2>5, ConnectSettles
  <2>7. ASSUME NEW j \in DOMAIN nodes'
        PROVE  IF j < at + 1 THEN Connected(nodes'[j], j) ELSE AsWritten(nodes'[j], j)
    <3>1. CASE j = at
      <4>1. at < at + 1
        BY <2>2
      <4> QED
        BY <2>6, <3>1, <4>1
    <3>2. CASE j # at /\ j \in DOMAIN nodes /\ nodes'[j].opcode = nodes[j].opcode
               /\ nodes'[j].inputs = nodes[j].inputs
      <4>1. j < at + 1 <=> j < at
        BY <2>2, <2>3, <3>2
      <4>2. IF j < at THEN Connected(nodes[j], j) ELSE AsWritten(nodes[j], j)
        BY <2>1, <3>2 DEF OperandsInv
      <4>3. /\ AsWritten(nodes[j], j) => AsWritten(nodes'[j], j)
            /\ Connected(nodes[j], j) => Connected(nodes'[j], j)
        BY <3>2, FitsAlike
      <4> QED
        BY <4>1, <4>2, <4>3
    <3>3. CASE nodes'[j].opcode = "DUP" /\ nodes'[j].inputs = <<None, None>>
      <4>1. AsWritten(nodes'[j], j) /\ Connected(nodes'[j], j)
        BY <3>3, DupFits
      <4> QED
        BY <4>1
    <3> QED
      BY <2>6, <3>1, <3>2, <3>3
  <2>8. Misfits' = Misfits
    BY <2>1, SameMisfits
  <2>9. OperandsAgree'
    BY <2>1 DEF OperandsAgree
  <2>10. \A j \in DOMAIN nodes' :
            IF j < at' THEN Connected(nodes[j], j)' ELSE AsWritten(nodes[j], j)'
    BY <2>1, <2>7, <2>8, Primed
  <2>11. EdgesOK(nodes)'
    BY <2>1, <2>6, <2>8, Primed
  <2> QED
    BY <2>1, <2>2, <2>9, <2>10, <2>11 DEF OperandsInv
<1>6. CASE ConnectEnds \/ CheckExterns
  <2>1. /\ phase \in {"connect", "extern"} /\ phase' \in {"extern", "optimize", "error"}
        /\ phase = "connect" => at > Len(nodes)
        /\ UNCHANGED <<source, nodes, labels, parsed>>
    BY <1>6 DEF ConnectEnds, CheckExterns
  <2>2. \A i \in DOMAIN nodes : Connected(nodes[i], i)
    <3>1. CASE phase = "connect"
      <4>1. DOMAIN nodes = 1 .. Len(nodes) /\ Len(nodes) \in Nat /\ at \in Nat
        BY <2>1, SequenceHas DEF Inv, NodesOK
      <4>2. \A i \in DOMAIN nodes : i < at
        BY <2>1, <3>1, <4>1
      <4> QED
        BY <3>1, <4>2 DEF OperandsInv
    <3>2. CASE phase = "extern"
      BY <3>2 DEF OperandsInv
    <3> QED
      BY <2>1, <3>1, <3>2
  <2>3. OperandsAgree'
    BY <2>1 DEF OperandsAgree
  <2>4. Misfits' = Misfits
    BY <2>1, SameMisfits
  <2>5. EdgesOK(nodes)' /\ \A i \in DOMAIN nodes : Connected(nodes[i], i)'
    BY <2>1, <2>2, <2>4, Primed DEF OperandsInv
  <2> QED
    BY <2>1, <2>3, <2>5 DEF OperandsInv
<1>7. CASE Optimize
  <2>1. /\ phase = "optimize" /\ phase' = "emit" /\ UNCHANGED <<source, labels, parsed>>
    BY <1>7 DEF Optimize
  <2>2. /\ NodesOK(nodes) /\ EdgesOK(nodes) /\ \A i \in DOMAIN nodes : Connected(nodes[i], i)
    BY <2>1 DEF Inv, OperandsInv
  <2>3. /\ EdgesOK(nodes') /\ IsSequence(nodes') /\ kept' \subseteq DOMAIN nodes'
        /\ \A i \in DOMAIN nodes' : Connected(nodes'[i], i)
    BY <1>7, <2>2, OptimizeSettles
  <2>4. OperandsAgree'
    BY <2>1 DEF OperandsAgree
  <2>5. Misfits' = Misfits
    BY <2>1, SameMisfits
  <2>6. EdgesOK(nodes)' /\ \A i \in DOMAIN nodes' : Connected(nodes[i], i)'
    BY <2>1, <2>3, <2>5, Primed
  <2> QED
    BY <2>1, <2>3, <2>4, <2>6 DEF OperandsInv
<1>8. CASE Emit
  <2>1. /\ phase = "emit" /\ phase' \in {"done", "error"} /\ source' = source
    BY <1>8 DEF Emit
  <2>2. ASSUME Len(image'.instructions) <= AddressSpace PROVE OperandsAgree'
    <3>1. CASE phase' = "done"
      <4>1. /\ NoRedundantDup /\ IsSequence(nodes) /\ kept \subseteq DOMAIN nodes
            /\ EdgesOK(nodes) /\ \A i \in DOMAIN nodes : Connected(nodes[i], i)
        BY <2>1 DEF Inv, OperandsInv
      <4> QED
        BY <1>8, <2>1, <2>2, <3>1, <4>1, EmitAgrees
    <3>2. CASE phase' # "done"
      BY <3>2 DEF OperandsAgree
    <3> QED
      BY <3>1, <3>2
  <2> QED
    BY <2>1, <2>2 DEF OperandsInv
<1> QED
  BY <1>1, <1>2, <1>3, <1>4, <1>5, <1>6, <1>7, <1>8 DEF Next

\* For every source, in an image that fits the address space: the matching
\* function of each destination, which the assembler chooses at the edge, agrees
\* with the tokens that the instruction store reads at its end, and a token
\* beside a literal is the first operand; for an instruction whose own arguments
\* misfit, only the number of tokens agrees, and not if it is a LOD.
THEOREM DestinationsMatchOperands ==
    Spec => [](Len(image.instructions) <= AddressSpace => OperandsAgree)
<1>1. OperandsInv => (Len(image.instructions) <= AddressSpace => OperandsAgree)
  BY DEF OperandsInv
<1>2. Init => Inv /\ OperandsInv
  BY InitInv, InitOperands
<1>3. Inv /\ OperandsInv /\ [Next]_vars => (Inv /\ OperandsInv)'
  BY Step, OperandsStep
<1> QED
  BY <1>1, <1>2, <1>3, PTL DEF Spec
=============================================================================
