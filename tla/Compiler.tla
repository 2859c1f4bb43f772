------------------------------ MODULE Compiler ------------------------------
(***************************************************************************)
(* service/src/compiler.py: from the parse tree of a force program to the  *)
(* lines of a TASS source.                                                 *)
(*                                                                         *)
(* A visitor is an operator on the state of GenerateAssemblyPass: the      *)
(* lines so far, the TASS names that variables have at this point, the     *)
(* variable that holds the tag of the scope and the line that fetches it,  *)
(* if it has not been needed so far, the variable that guards constants,   *)
(* the results of return statements, and the name of the expression        *)
(* visited last.  Names that the compiler makes up are numbers.            *)
(*                                                                         *)
(* Python goes over a set of strings in an order that differs from run to  *)
(* run; order is that order, for all names of the program.                 *)
(***************************************************************************)
EXTENDS Assembler

\* Expressions and statements.
Number(n) == [kind |-> "number", n |-> n]
Variable(name) == [kind |-> "variable", name |-> name]
Operation(opcode, left, right) ==
    [kind |-> "operation", opcode |-> opcode, left |-> left, right |-> right]
Call(name, args) == [kind |-> "call", name |-> name, args |-> args]

Set(name, value) == [kind |-> "assignment", name |-> name, value |-> value]
If(condition, then, else) ==
    [kind |-> "conditional", condition |-> condition, then |-> then, else |-> else]
While(condition, body) == [kind |-> "while_loop", condition |-> condition, body |-> body]
Defun(name, params, body) ==
    [kind |-> "function_def", name |-> name, params |-> params, body |-> body]
Extern(name, params) == [kind |-> "extern_statement", name |-> name, params |-> params]
Export(name) == [kind |-> "export_statement", name |-> name]
Return(value) == [kind |-> "return_statement", value |-> value]

-----------------------------------------------------------------------------
(* The passes before *)

SpecialFunctions ==
    [OUTD |-> "OUTD", OUTS |-> "OUTS", OPEN |-> "OPN", READ |-> "RED", WRITE |-> "WRT",
     CLOSE |-> "CLS", HALT |-> "HLT", LOAD |-> "LOD", LISTDIR |-> "LS", SENDFILE |-> "SDF",
     UNLINK |-> "ULK", LSEEK |-> "LSK", RANDOM |-> "RND"]

\* All definitions and declarations of functions, those inside others too.
RECURSIVE FunctionsIn(_)
FunctionsIn(statements) ==
    LET Of(s) == CASE s.kind = "function_def" -> <<s>> \o FunctionsIn(s.body)
                   [] s.kind = "extern_statement" -> <<s>>
                   [] s.kind = "conditional" -> FunctionsIn(s.then) \o FunctionsIn(s.else)
                   [] s.kind = "while_loop" -> FunctionsIn(s.body)
                   [] OTHER -> <<>>
    IN  FlattenSeq([i \in DOMAIN statements |-> Of(statements[i])])

\* By name; the last one counts.
FunctionTable(statements) ==
    FoldLeft(LAMBDA table, f : (f.name :> f) @@ table, <<>>, FunctionsIn(statements))

\* UsedVariablesPass(True): the variables that are read or written.
RECURSIVE UsedIn(_)
UsedIn(tree) ==
    LET All(trees) == UNION {UsedIn(t) : t \in ToSet(trees)}
    IN  CASE tree.kind = "variable" -> {tree.name}
          [] tree.kind = "operation" -> UsedIn(tree.left) \cup UsedIn(tree.right)
          [] tree.kind = "call" -> All(tree.args)
          [] tree.kind = "assignment" -> {tree.name} \cup UsedIn(tree.value)
          [] tree.kind = "conditional" ->
                UsedIn(tree.condition) \cup All(tree.then) \cup All(tree.else)
          [] tree.kind = "while_loop" -> UsedIn(tree.condition) \cup All(tree.body)
          [] tree.kind = "function_def" -> All(tree.body)
          [] tree.kind = "return_statement" -> UsedIn(tree.value)
          [] OTHER -> {}

UsedInAll(trees) == UNION {UsedIn(t) : t \in ToSet(trees)}

-----------------------------------------------------------------------------
(* GenerateAssemblyPass *)

NoName == ""

Start(table, order) ==
    [lines |-> <<>>, variables |-> <<>>, num |-> 0, tag |-> NoName, firstCall |-> <<>>,
     guard |-> NoName, returns |-> {}, result |-> NoName, failed |-> FALSE,
     functions |-> table, order |-> order]

\* The i-th name that is made up from here on.
Temp(c, i) == ToString(c.num + i)

\* More lines, and n names that have been made up for them.
Put(c, lines, n) == [c EXCEPT !.lines = @ \o lines, !.num = @ + n]

SysExit(c) == [c EXCEPT !.failed = TRUE]

Ordered(c, names) == SelectSeq(c.order, LAMBDA name : name \in names)

\* Mutant: a constant is there whichever branch is taken.
CreateNumLiteralUnguarded(c, n) ==
    LET line == IF c.tag = NoName THEN <<Assign(Temp(c, 1), "DUP", Literal(n), None)>>
                ELSE Append(c.firstCall, Assign(Temp(c, 1), "CTG", Name(c.tag), Literal(n)))
    IN  [Put(c, line, 1) EXCEPT !.firstCall = IF c.tag = NoName THEN @ ELSE <<>>,
                                !.result = Temp(c, 1)]

\* A constant has the tag of its scope, and inside a conditional it is there
\* only if its branch is taken.
CreateNumLiteral(c, n) ==
    LET name == Temp(c, 1)
        raw == IF c.guard = NoName THEN name ELSE Temp(c, 2)
        line == IF c.tag = NoName THEN <<Assign(raw, "DUP", Literal(n), None)>>
                ELSE Append(c.firstCall, Assign(raw, "CTG", Name(c.tag), Literal(n)))
        guard == IF c.guard = NoName THEN <<>>
                 ELSE <<Branch(name, "_", "BRR", Name(raw), Name(c.guard))>>
    IN  [Put(c, line \o guard, 2) EXCEPT !.firstCall = IF c.tag = NoName THEN @ ELSE <<>>,
                                         !.result = name]

IsExternal(c, f) == c.functions[f].kind = "extern_statement"
ArgName(c, f, i) == f \o "_arg_" \o ToString(i - 1) \o (IF IsExternal(c, f) THEN "_export" ELSE "")
ReturnLocation(c, f) == f \o "_return_location" \o (IF IsExternal(c, f) THEN "_export" ELSE "")

\* Output has no value: what uses it as one gets Python's None for a name.
SpecialCall(c, f, args) ==
    LET opcode == SpecialFunctions[f]
    IN  IF opcode \in SpecialOpcodes
        THEN [Put(c, <<Out(opcode, args[1])>>, 0) EXCEPT !.result = "None"]
        ELSE [Put(c, <<Assign(Temp(c, 1), opcode, args[1], IF Len(args) = 2 THEN args[2] ELSE None)>>, 1)
                EXCEPT !.result = Temp(c, 1)]

\* A call has a new tag area: the arguments and the return location, a label
\* of the caller, are sent to the function with that tag, and the result gets
\* the old tag back.
NormalCall(c, f, args) ==
    LET newWithOld == Temp(c, 1)
        oldWithOld == Temp(c, 2)
        newWithNew == Temp(c, 3)
        oldWithNew == Temp(c, 4)
        label_ == Temp(c, 5)
        returned == Temp(c, 6)
        result == Temp(c, 7)
        lines ==
            << Branch(newWithOld, oldWithOld, "NTG", args[1], None),
               Assign(newWithNew, "CTG", Name(newWithOld), Name(newWithOld)),
               Assign(oldWithNew, "CTG", Name(newWithOld), Name(oldWithOld)) >>
            \o [i \in DOMAIN args |->
                   Assign(ArgName(c, f, i), "CTG", Name(newWithOld), args[i])]
            \o << Assign(ReturnLocation(c, f), "CTG", Name(newWithNew), Name(label_)),
                  Other("label", label_),
                  Assign(returned, "DUP", Hole, None),
                  Assign(result, "CTG", Name(oldWithNew), Name(returned)) >>
    IN  [Put(c, lines, 7) EXCEPT !.result = result]

NumParams(c, f) ==
    IF f \in DOMAIN SpecialFunctions
    THEN IF f \in {"OPEN", "WRITE", "LOAD", "SENDFILE", "LSEEK"} THEN 2 ELSE 1
    ELSE Len(c.functions[f].params)

\* The special functions come last in the list, and so hide others.
FunctionCall(c, f, args) ==
    IF f \notin DOMAIN SpecialFunctions \cup DOMAIN c.functions THEN SysExit(c)
    ELSE IF Len(args) # NumParams(c, f) THEN SysExit(c)
    ELSE IF f \in DOMAIN SpecialFunctions THEN SpecialCall(c, f, args)
    ELSE NormalCall(c, f, args)

RECURSIVE Expression(_, _)
Expression(c, e) ==
    CASE e.kind = "number" -> CreateNumLiteral(c, e.n)
      [] e.kind = "variable" ->
            IF e.name \in DOMAIN c.variables
            THEN [c EXCEPT !.result = c.variables[e.name]] ELSE SysExit(c)
      [] e.kind = "operation" ->
            LET left == Expression(c, e.left)
                both == Expression(left, e.right)
                name == Temp(both, 1)
            IN  [Put(both, <<Assign(name, e.opcode, Name(left.result), Name(both.result))>>, 1)
                    EXCEPT !.result = name]
      [] e.kind = "call" ->
            LET Argument(s, arg) == LET after == Expression(s.c, arg)
                                    IN  [c |-> after, args |-> Append(s.args, Name(after.result))]
                visited == FoldLeft(Argument, [c |-> c, args |-> <<>>], e.args)
            IN  FunctionCall(visited.c, e.name, visited.args)

Assignment(c, s) ==
    LET value == Expression(c, s.value)
        name == Temp(value, 1)
    IN  [Put(value, <<Assign(name, "DUP", Name(value.result), None)>>, 1)
            EXCEPT !.variables = (s.name :> name) @@ @]

ReturnStatement(c, s) ==
    LET value == Expression(c, s.value) IN [value EXCEPT !.returns = @ \cup {value.result}]

ExportStatement(c, s) ==
    IF s.name \notin DOMAIN c.functions THEN SysExit(c)
    ELSE Put(c, [i \in DOMAIN c.functions[s.name].params |->
                    Other("export", ArgName(c, s.name, i) \o "_export")]
                \o <<Other("export", ReturnLocation(c, s.name) \o "_export")>>, 0)

ExternStatement(c, s) ==
    Put(c, [i \in DOMAIN s.params |-> Other("extern", ArgName(c, s.name, i))]
           \o <<Other("extern", ReturnLocation(c, s.name))>>, 0)

RECURSIVE Block(_, _)

\* The names that variables have in a branch: k is 0 if the test holds, else 1.
InBranch(c, used, k) ==
    [v \in ToSet(used) |-> Temp(c, 2 * (CHOOSE i \in DOMAIN used : used[i] = v) + k)]

\* A variable that differs at the ends of the two branches is merged.
MergeBranches(c, then, else) ==
    LET merged == Ordered(c, {v \in DOMAIN then.variables \cap DOMAIN else.variables :
                                 then.variables[v] # else.variables[v]})
        Phi == [v \in ToSet(merged) |-> Temp(else, CHOOSE i \in DOMAIN merged : merged[i] = v)]
    IN  [Put(else, [i \in DOMAIN merged |->
                       Assign(Phi[merged[i]], "MER", Name(then.variables[merged[i]]),
                              Name(else.variables[merged[i]]))],
             Len(merged))
            EXCEPT !.guard = c.guard, !.variables = Phi @@ then.variables @@ @]

\* The two branches, with a 1 that goes into one of them to guard constants.
VisitBranches(c, s, tested, used, one) ==
    LET guards == Put(one, <<Branch(Temp(one, 1), Temp(one, 2), "BRR",
                                    Name(one.result), Name(tested.result))>>, 2)
        then == Block([guards EXCEPT !.guard = Temp(one, 1)], s.then)
        else == Block([then EXCEPT !.guard = Temp(one, 2),
                                   !.variables = InBranch(tested, used, 1) @@ tested.variables],
                      s.else)
    IN  MergeBranches(c, then, else)

\* Every variable that a branch mentions is sent into one branch.
SplitVariables(tested, used) ==
    LET true_ == InBranch(tested, used, 0)
        false_ == InBranch(tested, used, 1)
    IN  [Put(tested, [i \in DOMAIN used |->
                 Branch(true_[used[i]], false_[used[i]], "BRR",
                        Name(tested.variables[used[i]]), Name(tested.result))],
             2 * Len(used) + 1)
            EXCEPT !.variables = true_ @@ @]

Conditional(c, s) ==
    LET tested == Expression(c, s.condition)
        used == Ordered(tested, (UsedInAll(s.then) \cup UsedInAll(s.else))
                                \cap DOMAIN tested.variables)
    IN  VisitBranches(c, s, tested, used, CreateNumLiteral(SplitVariables(tested, used), 1))

\* Mutant: the iteration count of a value that leaves the loop stays.
LeavesLoopCounting(reset, value) == Assign(reset, "DUP", Name(value), None)

\* A value leaves the loop with iteration count 0.
LeavesLoop(reset, value) == Assign(reset, "SIL", Name(value), Literal(0))

\* Every variable that the loop mentions goes around it, in a tag area of the
\* loop that is obtained with the first variable that has a value before.
WhileLoop(c, s) ==
    LET used == Ordered(c, UsedIn(s.condition) \cup UsedInAll(s.body))
        defined == SelectSeq(used, LAMBDA v : v \in DOMAIN c.variables)
        NameOf(v, k) == Temp(c, 10 * (CHOOSE i \in DOMAIN used : used[i] = v) + k)
        Prior(v) == IF v \in DOMAIN c.variables THEN c.variables[v] ELSE NameOf(v, 0)
        Tagged(v) == NameOf(v, 1)
        Start_(v) == NameOf(v, 2)
        Last_(v) == NameOf(v, 3)
        Again(v) == NameOf(v, 4)
        Stop(v) == NameOf(v, 5)
        newWithOld == Temp(c, 1)
        oldWithOld == Temp(c, 2)
        oldWithNew == Temp(c, 3)
        a == Head(defined)
        newTag == << Branch(newWithOld, oldWithOld, "NTG", Name(Prior(a)), None),
                     Assign(oldWithNew, "CTG", Name(newWithOld), Name(oldWithOld)) >>
        Enter(v) == (IF v = a THEN newTag ELSE <<>>)
                    \o << Assign(Tagged(v), "CTG", Name(newWithOld), Name(Prior(v))),
                          Assign(Start_(v), "MER", Name(Tagged(v)), Name(Last_(v))) >>
        Lines(Of(_)) == FlattenSeq([i \in DOMAIN used |-> Of(used[i])])
        Within(state, lines, tag, Current(_)) ==
            [state EXCEPT !.lines = @ \o lines, !.tag = tag, !.firstCall = <<>>, !.guard = NoName,
                          !.variables = [v \in ToSet(used) |-> Current(v)] @@ @]
        entered == Within(Put(c, Lines(Enter), 10 * Len(used) + 10),
                          <<Assign(Temp(c, 4), "ETG", Name(Start_(a)), None)>>,
                          Temp(c, 4), Start_)
        tested == Expression(entered, s.condition)
        Leave(v) == << Branch(NameOf(v, 6), NameOf(v, 7), "BRR", Name(Start_(v)), Name(tested.result)),
                       Assign(Again(v), "ITG", Name(NameOf(v, 6)), None),
                       LeavesLoop(NameOf(v, 8), NameOf(v, 7)),
                       Assign(Stop(v), "CTG", Name(oldWithNew), Name(NameOf(v, 8))) >>
        again == Within(tested, <<Assign(Temp(c, 5), "ETG", Name(Again(a)), None)>> \o Lines(Leave),
                        Temp(c, 5), Again)
        body == Block(again, s.body)
    IN  IF defined = <<>> THEN SysExit(c)
        ELSE [Put(body, [i \in DOMAIN used |->
                            Assign(Last_(used[i]), "DUP", Name(body.variables[used[i]]), None)], 0)
                 EXCEPT !.tag = c.tag, !.firstCall = c.firstCall, !.guard = c.guard,
                        !.variables = [v \in ToSet(used) |-> Stop(v)] @@ @]

\* The parameters and the return location of a function are exported labels;
\* what its return statements yield is merged, in one of the orders that Python
\* may take: MER does not tell its inputs apart.
FunctionDef(c, s) ==
    LET f == s.name
        Internal(i) == Temp(c, 1 + i)
        entry == FlattenSeq([i \in DOMAIN s.params |->
                    << Other("label", ArgName(c, f, i) \o "_export"),
                       Assign(Internal(i), "DUP", Name(ArgName(c, f, i)), None) >>])
        values == [i \in DOMAIN s.params |-> i]
        inside == [Put(c, entry, 1 + Len(s.params)) EXCEPT
                      !.tag = Temp(c, 1),
                      !.firstCall = <<Assign(Temp(c, 1), "ETG", Name(Internal(1)), None)>>,
                      !.variables = FoldLeft(LAMBDA m, i : (s.params[i] :> Internal(i)) @@ m, @, values)]
        body == Block(inside, s.body)
        returns == SetToSeq(body.returns)
        Merged(i) == IF i = 1 THEN returns[1] ELSE Temp(body, i)
        exit == [i \in 1 .. (Len(returns) - 1) |->
                    Assign(Merged(i + 1), "MER", Name(Merged(i)), Name(returns[i + 1]))]
                \o << Other("label", ReturnLocation(c, f) \o "_export"),
                      Assign(Temp(body, 1), "DUP", Name(ReturnLocation(c, f)), None),
                      Assign("_", "RTD", Name(Merged(Len(returns))), Name(Temp(body, 1))) >>
    IN  IF returns = <<>> THEN SysExit(body)
        ELSE [Put(body, exit, 1 + Len(returns)) EXCEPT
                 !.variables = c.variables, !.returns = c.returns,
                 !.tag = c.tag, !.firstCall = c.firstCall]

Statement(c, s) ==
    CASE s.kind = "assignment" -> Assignment(c, s)
      [] s.kind = "conditional" -> Conditional(c, s)
      [] s.kind = "while_loop" -> WhileLoop(c, s)
      [] s.kind = "function_def" -> FunctionDef(c, s)
      [] s.kind = "return_statement" -> ReturnStatement(c, s)
      [] s.kind = "export_statement" -> ExportStatement(c, s)
      [] s.kind = "extern_statement" -> ExternStatement(c, s)
      [] OTHER -> Expression(c, s)

Block(c, statements) ==
    FoldLeft(LAMBDA state, s : IF state.failed THEN state ELSE Statement(state, s), c, statements)

Compile(program, order) == Block(Start(FunctionTable(program), order), program)
=============================================================================
