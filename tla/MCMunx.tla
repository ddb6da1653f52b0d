------------------------------- MODULE MCMunx -------------------------------
(***************************************************************************)
(* The virtual machine on compiled programs, compared with what the        *)
(* programs mean, and families of programs, by name.                       *)
(***************************************************************************)
EXTENDS MunxMachineProps, MunxMeaning, MunxCompiler

CONSTANT Text      \* [Program -> syntax trees] that Image was compiled from

AsMeant ==
  LET meant == Meaning(Text[program])
  IN outcome = meant.outcome /\ globals = meant.globals

Ran == outcome \in {"ok", "failed"}

\* A trusted run of a compiled program does what its text means: it ends the
\* same way and leaves the same globals, through every nesting of loops,
\* conditions, matches and monitors, calls, breaks, returns and faults.
RunsAsMeant == Ran /\ Trusted => AsMeant

-----------------------------------------------------------------------------

I(n) == Literal(Int64(n))
Fail == Evaluate(Call("fail", <<I(1)>>))
Bump(x, n) == AddAssign(x, I(n))
Below_(x, n) == Binary("LT", Name(x), I(n))
When(c, then) == If(<<[cond |-> c, body |-> then]>>, <<>>)
Func(params, body) == [params |-> params, body |-> body]

-----------------------------------------------------------------------------
(* Every nesting, up to a depth, of the constructs around a statement   *)
(* that leaves, fails, calls or divides.                                   *)

Leaf ==
  [ break |-> Break,
    return |-> Return(I(7)),
    raise |-> Fail,
    advance |-> Bump("x", 100),
    call |-> Assign("x", Call("g", <<Name("x")>>)),
    divide |-> Assign("x", Binary("DIV", I(60), Binary("SUB", Name("x"), I(3)))) ]

\* The counter of a counted loop is bound afresh behind it.
Around(kind, d, body) ==
  LET n == "n" \o ToString(d) IN
  CASE kind = "loop" ->
         << Assign(n, I(0)), Loop(<<Below_(n, 2)>>, <<Bump(n, 1)>> \o body) >>
    [] kind = "counted" ->
         << Assign(n, I(0)), Loop(<<Below_(n, 2)>>, body \o <<Bump(n, 1)>>) >>
    [] kind = "if" ->
         << If(<< [cond |-> And(Name("x"), Below_("x", 3)), body |-> body],
                  [cond |-> Or(Not(Name("x")), Below_("x", 5)),
                   body |-> <<Bump("x", 30)>>] >>, <<Bump("x", 10)>>) >>
    [] kind = "match" ->
         << Match(Literal(Member("B")),
                  << [member |-> "A", body |-> <<Bump("x", 1000)>>],
                     [member |-> "B", body |-> body] >>) >>
    [] kind = "monitor" ->
         << Monitor(body \o <<Bump("x", 1)>>, "e", <<Bump("x", 20)>>) >>

Kind == {"loop", "counted", "if", "match", "monitor"}

\* The leaves that leave the block they are in.
Exits == {"break", "return", "raise"}

\* The nestings of a depth, by the names of their constructs and their leaf, but
\* for a break out of a counted loop: unrolled, it leaves the loop around it.
Nestings(depth, leaves) ==
  { kinds \o <<leaf>> : kinds \in [1 .. depth -> Kind], leaf \in leaves }
    \ { kinds \o <<"break">> :
          kinds \in {k \in [1 .. depth -> Kind] : "counted" \in Range(k)} }

RECURSIVE Nest(_, _)
Nest(s, d) ==
  IF d = Len(s) THEN <<Leaf[s[d]], Bump("x", 1)>>
  ELSE Around(s[d], d, Nest(s, d + 1)) \o <<Bump("x", 2)>>

\* Behind the nesting the function writes what it counted to the global r
\* and fails, which a handler left armed by mistake would trap.
Nested(s) ==
  [ init |-> << Assign("r", I(0)),
                Monitor(<<Assign("r", Call("f", <<I(1)>>))>>, "e",
                        <<Assign("s", I(50))>>) >>,
    functions |->
      [ f |-> Func(<<"x">>, Nest(s, 1) \o <<Assign("r", Name("x")), Fail>>),
        g |-> Func(<<"y">>, << When(Binary("LE", I(2), Name("y")), <<Fail>>),
                               Return(Binary("MUL", Name("y"), I(2))) >>) ] ]

-----------------------------------------------------------------------------
(* Programs about calls, scopes and the tiers *)

Only(stmts) == [init |-> stmts, functions |-> [f |-> Func(<<>>, <<>>)]]
Calls(body, args) ==
  [init |-> <<Assign("r", Call("f", args))>>,
   functions |-> [f |-> Func(<<"x">>, body)]]

Named ==
  [ recursion |->          \* without end: the depth limit raises
      Calls(<<Return(Binary("ADD", Call("f", <<Name("x")>>), I(1)))>>, <<I(1)>>),
    descent |->            \* to the limit and back, trapping on the way
      Calls(<<Monitor(<<Assign("x", Call("f", <<Binary("ADD", Name("x"), I(1))>>))>>,
                      "e", <<Bump("x", 5)>>), Return(Name("x"))>>, <<I(1)>>),
    arity |-> Calls(<<Return(Name("x"))>>, <<I(1), I(2)>>),
    callee |-> Only(<<Assign("f", I(1)), Evaluate(Call("f", <<>>))>>),
    overflow |->
      Only(<<Assign("x", I(MaxInt)), Bump("x", 1), Assign("y", I(1))>>),
    scope |->              \* locals shadow, globals are written through
      [init |-> <<Assign("a", I(1)), Assign("r", Call("f", <<I(2)>>))>>,
       functions |->
         [f |-> Func(<<"x">>, <<Assign("a", Name("x")), Assign("b", I(3)),
                                Return(Call("h", <<>>))>>),
          h |-> Func(<<>>, <<Return(Name("b"))>>)]],
    forever |->            \* a loop only a break leaves
      Only(<<Assign("x", I(0)),
             Loop(<<>>, <<Bump("x", 1), When(Binary("EQ", Name("x"), I(3)),
                                             <<Break>>)>>)>>),
    resumed |->            \* folding moves the code behind the first return
      Calls(<<Assign("y", Binary("ADD", I(2), I(3))),
              When(Name("x"), <<Return(Name("y"))>>), Return(I(2))>>, <<I(1)>>),
    kinds |->              \* operands that are no numbers
      Only(<<Monitor(<<Assign("x", Binary("DIV", Name("f"), Literal(Null)))>>, "e",
                     <<>>),
             Monitor(<<Assign("x", Binary("DIV", Literal(Null), I(2)))>>, "d",
                     <<Assign("x", Binary("LT", I(1), Name("f")))>>)>>),
    stray |-> Calls(<<Break, Return(I(4))>>, <<I(1)>>),
    folded |->             \* foldable expressions no jump leads to
      Only(<<Assign("x", Binary("ADD", Binary("MUL", I(2), I(3)), I(1))),
             Assign("y", Not(Binary("LT", I(1), I(2)))),
             When(Binary("EQ", I(2), I(2)), <<Assign("x", I(1))>>),
             Assign("z", Name("x")),
             Monitor(<<Assign("x", Binary("DIV", I(1), I(0)))>>, "e",
                     <<Assign("z", I(9))>>)>>) ]

-----------------------------------------------------------------------------

Interpreted == [jit |-> FALSE, pgo |-> FALSE, warmup |-> 0]
Jitted == [jit |-> TRUE, pgo |-> FALSE, warmup |-> 0]
Profiled == [jit |-> TRUE, pgo |-> TRUE, warmup |-> 0]
Warmed == [jit |-> TRUE, pgo |-> TRUE, warmup |-> 1]

\* Programs are named by sequences of strings.
Programs ==
  Nestings(1, DOMAIN Leaf) \cup Nestings(2, DOMAIN Leaf)
    \cup Nestings(3, Exits) \cup {<<p>> : p \in DOMAIN Named}
ProgramText == [s \in Programs |-> IF Len(s) = 1 THEN Named[s[1]] ELSE Nested(s)]
ProgramImage == [s \in Programs |-> CompileSource(ProgramText[s])]

\* The interpreter runs every program, the JIT those nested at most twice.
ProgramsInit == SafeInit /\ (mode.jit => Len(program) <= 3)
ProgramsSpec == ProgramsInit /\ [][Next]_vars /\ WF_vars(Interprets)

AllModes == {Interpreted, Jitted, Profiled, Warmed}
=============================================================================
