--------------------------- MODULE ForcePrograms ---------------------------
(***************************************************************************)
(* Programs of service/src/programs/force, some with smaller numbers, and  *)
(* families of small ones.                                                 *)
(***************************************************************************)
EXTENDS ForceSemantics

LOCAL V(name) == Variable(name)
LOCAL C(n) == Number(n)
LOCAL x == V("x")
LOCAL y == V("y")
LOCAL z == V("z")
LOCAL i == V("i")
LOCAL Print_(e) == Call("OUTD", <<e>>)
LOCAL Add(a, b) == Operation("ADD", a, b)
LOCAL Less(a, b) == Operation("LT", a, b)
LOCAL Equal(a, b) == Operation("EQ", a, b)
LOCAL Increment(name) == Set(name, Add(V(name), C(1)))

BasicLoopForce ==
    << Set("x", C(0)), Print_(x),
       While(Less(x, C(10)), << Increment("x"), Print_(x) >>),
       Print_(Add(x, C(1))) >>

ComplexLoopForce ==
    << Set("x", C(0)), Print_(x),
       While(Less(x, C(3)), << Increment("x"), Print_(x), Set("z", C(10000)) >>),
       Print_(Add(x, C(1))), Print_(Add(z, x)) >>

ComplexLoop2Force ==
    << Defun("double", <<"x">>, << Return(Operation("MUL", x, x)) >>),
       Set("x", C(2)), Set("i", C(0)), Print_(x),
       While(Less(i, C(3)),
             << Set("x", Call("double", <<x>>)), Print_(x),
                If(Less(i, C(1000)), <<Increment("i")>>, <<>>) >>),
       Print_(x) >>

FactorialForce ==
    << Defun("factorial", <<"x">>,
          << Print_(x),
             If(Equal(x, C(0)), << Return(C(1)) >>,
                << Return(Operation("MUL", x, Call("factorial", <<Operation("SUB", x, C(1))>>))) >>) >>),
       Print_(Call("factorial", <<C(5)>>)) >>

LoopInFunctionForce ==
    << Defun("sum", <<"total">>,
          << Set("i", C(0)), Set("sum", C(0)), Set("done", C(0)),
             While(Equal(V("done"), C(0)),
                   << Set("sum", Add(V("sum"), i)), Increment("i"),
                      If(Equal(i, V("total")), <<Set("done", C(1))>>, <<>>) >>),
             Return(V("sum")) >>),
       Print_(Call("sum", <<C(10)>>)) >>

LoopInIfForce ==
    << If(Equal(C(0), C(0)),
          << Set("i", C(0)), While(Less(i, C(4)), <<Print_(i), Increment("i")>>) >>, <<>>) >>

SimpleBranchForce ==
    << Set("x", C(10)), Set("y", C(100)), Print_(x), Print_(y), Set("z", C(42)),
       If(Less(x, y),
          << If(Equal(x, C(10)), <<Set("x", C(10000))>>, <<Print_(x)>>) >>,
          << Set("x", C(0)), Set("x", Add(x, z)) >>),
       Print_(x), Print_(y), Print_(z) >>

SingleFunctionCallForce ==
    << Defun("foo", <<"a", "b">>,
          << Print_(V("a")), Print_(V("b")), Return(Add(Add(V("a"), V("b")), C(1))) >>),
       Set("y", Call("foo", <<C(10), C(100)>>)), Print_(y),
       Set("z", Call("foo", <<C(20), y>>)), Print_(z),
       Defun("id", <<"x">>, <<Return(x)>>),
       Print_(Call("id", <<C(1000)>>)) >>

OnlyInBranchForce ==
    << Set("test", C(0)),
       If(Equal(V("test"), C(0)), << Set("foo", C(10)), Print_(V("foo")) >>, <<>>),
       Print_(V("test")) >>

\* halt.force and seek.force; the text they print or write is 1001 to 1005, 20
\* and 104, and OUTS_LITERAL has been split.
LOCAL PrintText(n) == Call("OUTS", <<C(n)>>)
LOCAL Or(a, b) == Operation("OR", a, b)
LOCAL Xor(a, b) == Operation("XOR", a, b)

HaltForce ==
    << PrintText(1001), Set("output", C(0)), Set("result", Call("HALT", <<V("output")>>)),
       If(V("result"), << PrintText(1002), PrintText(1003) >>,
                       << PrintText(1004), PrintText(1005) >>) >>

SeekForce ==
    << Set("O_WRONLY", C(1)), Set("O_CREAT", C(16)), Set("O_TRUNC", C(32)), Set("O_RDONLY", C(0)),
       Set("O_RDWR", C(2)), Set("filename", C(20)),
       Set("fd", Call("OPEN", <<V("filename"), Or(V("O_CREAT"), Or(V("O_RDWR"), V("O_TRUNC")))>>)),
       Set("result", Call("WRITE", <<V("fd"), C(104)>>)),
       Set("offset", Xor(V("result"), V("result"))),
       Set("lseek_out", Call("LSEEK", <<V("fd"), V("offset")>>)),
       Set("result", Xor(V("lseek_out"), V("lseek_out"))),
       If(Equal(V("result"), C(0)),
          << Set("result", Call("READ", <<V("fd")>>)), Call("OUTS", <<V("result")>>) >>, <<>>) >>

\* loader_test_first.force and loader_test_second.force.
LoaderForce ==
    {<< Defun("test", <<"x">>, << PrintText(1001), Return(C(42)) >>),
        Export("test"), Call("LOAD", <<C(7), C(0)>>) >>,
     << Extern("test", <<"x">>), PrintText(1002), Set("result", Call("test", <<C(10)>>)),
        Print_(V("result")) >>}

ShippedForce == {BasicLoopForce, ComplexLoopForce, ComplexLoop2Force, FactorialForce,
                 LoopInFunctionForce, LoopInIfForce, SimpleBranchForce,
                 SingleFunctionCallForce, OnlyInBranchForce}

-----------------------------------------------------------------------------
(* Loops, branches and calls inside each other *)

\* A variable that only a branch inside a loop knows.
BranchInLoop ==
    << Set("x", C(0)),
       While(Less(x, C(3)),
             << If(Less(x, C(1)), <<Set("z", C(7)), Print_(z)>>, <<>>), Increment("x") >>),
       Print_(x) >>

\* A variable of one iteration that is used in the next.
AcrossIterations ==
    << Set("x", C(0)),
       While(Less(x, C(3)),
             << If(Less(x, C(1)), <<Set("z", C(7))>>, <<Print_(z)>>), Increment("x") >>),
       Print_(x) >>

LoopInBranchInLoop ==
    << Set("x", C(0)),
       While(Less(x, C(2)),
             << If(Less(x, C(1)),
                   << Set("i", C(0)), While(Less(i, C(2)), <<Print_(i), Increment("i")>>) >>, <<>>),
                Increment("x") >>),
       Print_(x) >>

LoopInLoop ==
    << Set("x", C(0)), Set("i", C(0)), Set("z", C(0)),
       While(Less(x, C(2)),
             << Set("i", C(0)),
                While(Less(i, C(2)), << Set("z", Add(z, x)), Increment("i"), Print_(i) >>),
                Increment("x") >>),
       Print_(z) >>

\* A function with a loop, called in the condition of another.
CallInCondition ==
    << Defun("f", <<"a">>,
          << Set("z", C(0)), While(Less(z, V("a")), <<Increment("z")>>), Return(z) >>),
       Set("x", C(2)),
       While(Less(C(0), Call("f", <<x>>)), << Set("x", Operation("SUB", x, C(1))), Print_(x) >>) >>

NestedForce == {BranchInLoop, AcrossIterations, LoopInBranchInLoop, LoopInLoop, CallInCondition}

-----------------------------------------------------------------------------
(* Families of small programs *)

\* A function with a branch and two returns.
LOCAL DefineF == Defun("f", <<"a">>,
    << If(Less(V("a"), C(2)), <<Return(Add(V("a"), C(5)))>>, <<Return(C(7))>>) >>)

Simple == {Set("y", Add(x, y)), Set("x", C(3)), Print_(y), Set("y", Call("f", <<x>>))}
Bodies == {<<>>} \cup {<<s>> : s \in Simple} \cup {<<s, t>> : s, t \in Simple}

Conditions == {Less(x, y), Less(y, x)}
Branches == {If(c, a, b) : c \in Conditions, a, b \in {<<>>} \cup {<<s>> : s \in Simple}}

\* At most three times around, with the counter first or last.
Loops(bodies) == {While(Less(i, C(2)), <<Increment("i")>> \o b) : b \in bodies}
                 \cup {While(Less(i, C(2)), b \o <<Increment("i")>>) : b \in bodies}

Framed(statements) ==
    << DefineF, Set("x", C(1)), Set("y", C(2)), Set("i", C(0)) >> \o statements \o <<Print_(x), Print_(y)>>

SmallForce == {Framed(<<s>>) : s \in Loops(Bodies) \cup {If(c, a, <<>>) : c \in Conditions, a \in Bodies}}
              \cup {Framed(<<s>>) : s \in Loops({<<b>> : b \in Branches})}
              \cup {Framed(<<b, l>>) : b \in Branches, l \in Loops({<<Set("y", Add(x, y))>>})}
=============================================================================
