--------------------------- MODULE ForceSemantics ---------------------------
(***************************************************************************)
(* What a force program means, statement by statement, as the reference    *)
(* for compiler.py; and a run of the image made from it, on a machine with *)
(* one order of execution (Machine has all orders).                        *)
(***************************************************************************)
EXTENDS Compiler, FunctionUnit, Instructions

-----------------------------------------------------------------------------
(* The program, sequentially *)

\* A state: the variables, the output, the value of the expression evaluated
\* last, and whether a return statement has been executed.
RECURSIVE Evaluate(_, _, _)
RECURSIVE Perform(_, _, _)

PerformAll(table, r, statements) ==
    FoldLeft(LAMBDA state, s : IF state.returned THEN state ELSE Perform(table, state, s),
             r, statements)

Arguments(table, r, args) ==
    FoldLeft(LAMBDA s, arg : LET after == Evaluate(table, s.state, arg)
                             IN  [state |-> after, values |-> Append(s.values, after.value)],
             [state |-> r, values |-> <<>>], args)

Applied(table, r, f, values) ==
    LET params == table[f].params
        frame == FoldLeft(LAMBDA m, i : (params[i] :> values[i]) @@ m, <<>>,
                          [i \in DOMAIN params |-> i])
        after == PerformAll(table, [r EXCEPT !.variables = frame], table[f].body)
    IN  [after EXCEPT !.variables = r.variables, !.returned = FALSE]

Evaluate(table, r, e) ==
    CASE e.kind = "number" -> [r EXCEPT !.value = ToWord(e.n)]
      [] e.kind = "variable" -> [r EXCEPT !.value = r.variables[e.name]]
      [] e.kind = "operation" ->
            LET left == Evaluate(table, r, e.left)
                right == Evaluate(table, left, e.right)
            IN  [right EXCEPT !.value =
                    ComputationResult([opcode |-> e.opcode, data_1 |-> left.value,
                                       data_2 |-> right.value, tag |-> NO_TAG], 0)]
      [] e.kind = "call" ->
            LET given == Arguments(table, r, e.args)
            IN  IF e.name = "OUTD"
                THEN [given.state EXCEPT !.output = Append(@, given.values[1])]
                ELSE Applied(table, given.state, e.name, given.values)

Perform(table, r, s) ==
    CASE s.kind = "assignment" ->
            LET after == Evaluate(table, r, s.value)
            IN  [after EXCEPT !.variables = (s.name :> after.value) @@ @]
      [] s.kind = "conditional" ->
            LET tested == Evaluate(table, r, s.condition)
            IN  PerformAll(table, tested, IF tested.value # 0 THEN s.then ELSE s.else)
      [] s.kind = "while_loop" ->
            LET tested == Evaluate(table, r, s.condition)
            IN  IF tested.value = 0 THEN tested
                ELSE Perform(table, PerformAll(table, tested, s.body), s)
      [] s.kind = "return_statement" -> [Evaluate(table, r, s.value) EXCEPT !.returned = TRUE]
      [] s.kind \in {"function_def", "export_statement", "extern_statement"} -> r
      [] OTHER -> Evaluate(table, r, s)

OutputOf(program) ==
    PerformAll(FunctionTable(program),
               [variables |-> <<>>, output |-> <<>>, value |-> 0, returned |-> FALSE],
               program).output

-----------------------------------------------------------------------------
(* The image, token by token *)

NoPartner == [none |-> TRUE]

Matched == INSTANCE MatchingStore
               WITH Incoming <- {}, waiting <- {}, outgoing <- <<>>, NoToken <- NoPartner

\* A machine: the tokens of this round and of the next, those that wait, the
\* tag area that is given out next, and the output.
Executed(m, packet) ==
    [m EXCEPT !.next = @ \o FunctionUnitResult(packet, m.area, 0),
              !.area = IF packet.opcode = "NTG" THEN @ + 1 ELSE @]

Delivered(m, token) ==
    LET pairs == Matched!SentAfter(m.waiting, token)
        stored == [m EXCEPT !.waiting = Matched!StoreAfter(@, token)]
        Second(pair) == IF pair.token_2 = NoPartner THEN 0 ELSE pair.token_2.data
        packets == IF pairs = <<>> THEN <<>>
                   ELSE Fetch([code |-> m.code], pairs[1], Second(pairs[1]))
    IN  CASE token.destination = OUTPUTD_DESTINATION -> [m EXCEPT !.output = Append(@, token.data)]
          [] token.destination = DEV_NULL_DESTINATION -> m
          [] OTHER -> FoldLeft(Executed, stored, packets)

\* Rounds, until no token is left.
RECURSIVE Rounds(_)
Rounds(m) == IF m.next = <<>> THEN m
             ELSE Rounds(FoldLeft(Delivered, [m EXCEPT !.next = <<>>], m.next))

Printed(code) ==
    Rounds(FoldLeft(Executed,
                    [code |-> code, next |-> <<>>, waiting |-> {}, area |-> 1, output |-> <<>>],
                    ReadyPackets(code))).output

-----------------------------------------------------------------------------
(* Property *)

Times(x, s) == Len(SelectSeq(s, LAMBDA y : y = x))

\* A compiled program is assembled, and prints what the source says, each number
\* as often, in some order: values meet only those of the same call and the same iteration,
\* a branch that is not taken prints nothing, and what leaves a loop, a branch
\* or a function is the value it has at its end.
PrintsAsWritten ==
    \A written \in source.outputs :
        /\ phase # "error"
        /\ phase = "done" =>
              LET printed == Printed(image.instructions)
              IN  \A x \in ToSet(written) \cup ToSet(printed) : Times(x, printed) = Times(x, written)
=============================================================================
