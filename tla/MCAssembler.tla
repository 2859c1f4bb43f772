---------------------------- MODULE MCAssembler ----------------------------
(***************************************************************************)
(* Assembler and Compiler for TLC: sources of the repository's tests       *)
(* (service/src/programs/assembly), with the images that were built from   *)
(* them, all sources of a few short lines, and compiled force programs.    *)
(***************************************************************************)
EXTENDS ForcePrograms, Delivery, TestImages

LOCAL N(name) == Name(name)
LOCAL L(n) == Literal(n)

Source(lines, images) == [lines |-> lines, images |-> images, outputs |-> {}]

-----------------------------------------------------------------------------
(* merge.tass, branching.tass, basic_loop.tass, test.tass,                  *)
(* single_function_call.tass and multiple_function_calls.tass              *)

MergeSource == <<
    Assign("x", "ADD", L(10), L(20)), Assign("y", "ADD", N("y"), L(10)),
    Assign("z", "MER", N("x"), N("y")), Out("OUTD", N("z")),
    Assign("a", "ADD", N("a"), L(100)), Assign("b", "ADD", N("z"), L(100)),
    Assign("c", "MER", N("a"), N("b")), Out("OUTD", N("c")) >>

BranchingSource == <<
    Assign("x", "ADD", L(10), L(20)), Assign("test", "LT", N("x"), L(0)),
    Branch("true_clause", "false_clause", "BRR", N("x"), N("test")),
    Assign("foo", "ADD", N("true_clause"), L(100)),
    Assign("bar", "ADD", N("false_clause"), L(10000)), Out("OUTD", N("foo")), Out("OUTD", N("bar")) >>

BasicLoopSource == <<
    Assign("x", "ADD", L(0), L(0)), Out("OUTD", N("x")),
    Branch("new_tag", "old_tag", "NTG", N("x"), None),
    Assign("x_init", "CTG", N("new_tag"), N("x")),
    Assign("old_tag_new", "CTG", N("new_tag"), N("old_tag")),
    Assign("x_mrg", "MER", N("x_init"), N("new_x")),
    Assign("test", "LT", N("x_mrg"), L(10)),
    Branch("next_x", "old_x", "BRR", N("x_mrg"), N("test")),
    Assign("loop_x", "ITG", N("next_x"), None), Assign("new_x", "ADD", N("loop_x"), L(1)),
    Out("OUTD", N("loop_x")), Assign("reset_x", "SIL", N("old_x"), L(0)),
    Assign("out_x", "CTG", N("old_tag_new"), N("reset_x")), Out("OUTD", N("out_x")),
    Assign("new_add_x", "ADD", N("out_x"), L(1)), Out("OUTD", N("new_add_x")) >>

TestSource == <<
    Assign("x", "ADD", L(10), L(20)), Assign("y", "SUB", L(40), L(10)),
    Assign("z", "LT", N("x"), N("y")), Out("OUTD", N("z")),
    Assign("a", "ADD", L(100), L(50)), Assign("b", "ADD", N("a"), L(500)), Out("OUTD", N("b")),
    Assign("c", "ADD", N("a"), L(1242)), Out("OUTD", N("c")),
    Assign("d", "NEG", N("z"), None), Out("OUTD", N("d")),
    Assign("e", "ADD", N("a"), L(10000)), Assign("f", "ADD", N("a"), L(20000)),
    Out("OUTD", N("e")), Out("OUTD", N("f")) >>

SingleCallSource == <<
    Assign("inside_x", "DUP", N("x_arg"), None), Out("OUTD", N("inside_x")),
    Assign("x_to_return", "ADD", N("inside_x"), L(10)),
    Assign("_", "RTD", N("x_to_return"), N("return_value")),
    Assign("arg", "DUP", L(10), None),
    Branch("new_tag_old", "old_tag_old", "NTG", N("arg"), None),
    Assign("new_tag_new", "CTG", N("new_tag_old"), N("new_tag_old")),
    Assign("old_tag_new", "CTG", N("new_tag_old"), N("old_tag_old")),
    Assign("tagged_x_arg", "CTG", N("new_tag_old"), N("arg")),
    Assign("x_arg", "DUP", N("tagged_x_arg"), None),
    Assign("return_value", "CTG", N("new_tag_new"), N("y")),
    Other("label", "y"), Assign("y_ret_tagged", "DUP", Hole, None),
    Assign("y_ret", "CTG", N("old_tag_new"), N("y_ret_tagged")), Out("OUTD", N("y_ret")) >>

\* A call of foo: its argument, and the names of its tags and results.
LOCAL CallOfFoo(arg, new_tag, old_tag, tagged, old_tag_new, y, ret_tagged, ret) == <<
    Branch(new_tag, old_tag, "NTG", N(arg), None),
    Assign(tagged, "CTG", N(new_tag), N(arg)),
    Assign(old_tag_new, "CTG", N(new_tag), N(old_tag)),
    Assign("x_arg", "DUP", N(tagged), None), Assign(new_tag, "ETG", N(tagged), None),
    Assign("return_location", "CTG", N(new_tag), N(y)),
    Other("label", y), Assign(ret_tagged, "DUP", Hole, None),
    Assign(ret, "CTG", N(old_tag_new), N(ret_tagged)), Out("OUTD", N(ret)) >>

MultipleCallsSource ==
    << Other("label", "x_arg_loc"), Assign("inside_x", "DUP", N("x_arg"), None),
       Out("OUTD", N("inside_x")), Assign("x_to_return", "ADD", N("inside_x"), L(10)),
       Other("label", "return_location_loc"),
       Assign("return_location_internal", "DUP", N("return_location"), None),
       Assign("_", "RTD", N("x_to_return"), N("return_location_internal")),
       Assign("arg_10", "DUP", L(10), None) >>
    \o CallOfFoo("arg_10", "x_new_tag", "x_old_tag", "tagged_x_arg", "x_old_tag_new",
            "y", "y_ret_tagged", "y_ret")
    \o << Assign("zeroed_out", "SUB", N("y_ret"), L(20)),
          Assign("new_input", "ADD", N("zeroed_out"), L(100)) >>
    \o CallOfFoo("new_input", "z_new_tag", "z_old_tag", "tagged_z_input", "z_old_tag_new",
            "z", "z_ret_tagged", "z_ret")
    \o << Other("export", "x_arg_loc"), Other("export", "return_location_loc") >>

ShippedSources ==
    {Source(MergeSource, {Merge.image}), Source(BranchingSource, {Branching.image}),
     Source(BasicLoopSource, {BasicLoop.image}), Source(TestSource, {Test.image}),
     Source(SingleCallSource, {SingleFunctionCall.image}),
     Source(MultipleCallsSource, {MultipleFunctionCalls.image})}

-----------------------------------------------------------------------------
(* Short sources *)

\* Definitions and uses of x and y, before and after each other, in which a
\* variable may have two definitions and more than four uses.
ShortLines == {Assign("x", "DUP", L(5), None), Assign("x", "MER", N("y"), N("x")),
               Assign("y", "ADD", N("x"), N("x")), Assign("y", "SUB", N("x"), L(1)),
               Branch("x", "y", "BRR", N("x"), N("y")), Out("OUTD", N("x"))}

\* Lines that can be wrong: labels, exports, an external symbol.
LinkLines == {Other("label", "l"), Other("export", "l"), Other("extern", "e"), Out("OUTD", N("x")),
              Assign("e", "CTG", N("x"), N("l")), Assign("x", "ADD", L(1), N("e")),
              Assign("x", "DUP", N("l"), None)}

\* Lines whose arguments do not fit, and others that send to them.
MisfitLines == {Branch("x", "y", "BRR", L(1), N("x")), Branch("x", "y", "NTG", N("x"), N("y")),
                Assign("x", "LOD", N("y"), L(1)), Assign("y", "LOD", N("x"), N("y")),
                Assign("x", "CTG", N("l"), N("y")), Other("label", "l"),
                Assign("y", "DUP", L(5), None)}

SourcesOf(lines, n) == {Source(s, {}) : s \in [1 .. n -> lines]}

-----------------------------------------------------------------------------
(* Compiled programs *)

\* All their names, in one of the orders that Python may go over them.
Names == <<"x", "y", "z", "i", "a", "b", "sum", "total", "done", "test", "foo">>

CompiledSources ==
    LET From(p, order) ==
            [lines |-> Compile(p, order).lines, images |-> {}, outputs |-> {OutputOf(p)}]
    IN  {From(p, order) : p \in ShippedForce \cup NestedForce, order \in {Names, Reverse(Names)}}
        \cup {From(p, Names) : p \in SmallForce}
        \cup {Source(Compile(HaltForce, <<>>).lines, {HaltProgram.image}),
              Source(Compile(SeekForce, <<"result", "fd">>).lines, {SeekProgram.image})}
        \cup {Source(Compile(p, <<>>).lines, {}) : p \in LoaderForce}

ASSUME AllCompile ==
    \A p \in ShippedForce \cup NestedForce \cup SmallForce : ~Compile(p, Names).failed

MCSources == ShippedSources \cup SourcesOf(ShortLines, 5) \cup SourcesOf(LinkLines, 4)
             \cup SourcesOf(MisfitLines, 4) \cup CompiledSources
=============================================================================
