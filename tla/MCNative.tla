------------------------------ MODULE MCNative ------------------------------
(***************************************************************************)
(* Families of programs for the native compiler, by name.                  *)
(***************************************************************************)
EXTENDS NativeProps

I(n) == Literal(Int64(n))
Below_(x, n) == Binary("LT", Name(x), I(n))
Bump(x, n) == AddAssign(x, I(n))
When(c, then) == If(<<[cond |-> c, body |-> then]>>, <<>>)
Func(params, body) == [params |-> params, body |-> body]
Do(f, args) == Evaluate(Call(f, args))
Show_(names) == [i \in DOMAIN names |-> Do("print", <<Name(names[i])>>)]

\* A program of one package.
Package(functions, init) ==
  [name |-> "main", init |-> init, functions |-> functions, objects |-> {}]

Leaf ==
  [ break |-> Break,
    return |-> Return(I(7)),
    raise |-> Do("fail", <<I(1)>>),
    advance |-> Bump("x", 100),
    call |-> Assign("x", Call("g", <<Name("x")>>)),
    divide |-> Assign("x", Binary("DIV", I(60), Binary("SUB", Name("x"), I(3)))) ]

Around(kind, d, body) ==
  LET n == "n" \o ToString(d) IN
  CASE kind = "loop" ->
         << Assign(n, I(0)), Loop(<<Below_(n, 2)>>, <<Bump(n, 1)>> \o body) >>
    [] kind = "if" ->
         << If(<< [cond |-> Not(Below_("x", 2)), body |-> <<Bump("x", 30)>>],
                  [cond |-> Below_("x", 5), body |-> body] >>,
               <<Bump("x", 10)>>) >>
    [] kind = "forever" ->
         << Assign(n, I(0)),
            Loop(<<>>, <<Bump(n, 1), When(Binary("GT", Name(n), I(1)), <<Break>>)>>
                         \o body) >>

RECURSIVE Nest(_, _)
Nest(s, d) ==
  IF d = Len(s) THEN <<Leaf[s[d]]>>
  ELSE Around(s[d], d, Nest(s, d + 1)) \o <<Bump("x", 2)>>

Nested(s) ==
  <<Package([ f |-> Func(<<"x">>, Nest(s, 1) \o <<Return(Name("x"))>>),
              g |-> Func(<<"y">>, <<When(Binary("LE", I(2), Name("y")),
                                         <<Do("fail", <<I(1)>>)>>),
                                    Return(Binary("MUL", Name("y"), I(2)))>>) ],
            <<Assign("r", Call("f", <<I(1)>>))>> \o Show_(<<"r">>))>>

Kinds == {"loop", "if", "forever"}
Nests == { <<k, l>> : k \in Kinds, l \in DOMAIN Leaf }
           \cup { <<j, k, l>> : j \in Kinds, k \in Kinds, l \in DOMAIN Leaf }
-----------------------------------------------------------------------------
(* Single programs *)

S(text) == Literal(Str(text))
F(n) == Literal(Double(n))
Flat(op) == Binary(op, Name("x"), Name("y"))
Names == <<"ADD", "SUB", "MUL", "DIV", "MOD", "EQ", "NE", "LT", "GT", "LE", "GE">>
Shows(es) == Do("print", es)
NoFunctions == [f \in {} |-> 0]

\* A program that only has an initializer, and prints the expressions one by
\* one: a native program prints what it has when a later one fails.
Prints_(init, es) ==
  <<Package(NoFunctions,
            init \o [i \in DOMAIN es |-> Shows(<<es[i]>>)] \o <<Do("println", <<>>)>>)>>

Singles ==
  (<<"ops">> :> Prints_(<<Assign("x", I(7)), Assign("y", Minus(I(3)))>>,
                        [i \in DOMAIN Names |-> Flat(Names[i])]
                          \o <<Minus(Name("x")), Not(Name("x"))>>)) @@
  (<<"constants">> :>
     Prints_(<<If(<<[cond |-> Binary("LT", I(1), I(2)), body |-> <<Assign("x", I(1))>>]>>,
                  <<Assign("x", I(2))>>)>>,
             <<Name("x"), Binary("ADD", Binary("MUL", I(2), I(3)), I(4)),
               Binary("NE", I(2), I(3)), Binary("DIV", I(1), I(0))>>)) @@
  (<<"texts">> :>
     Prints_(<<Assign("s", S("abcdefghi"))>>,
             <<Call("concat", <<Name("s"), I(5)>>), ToString_(Not(Name("s"))), S("x"),
               Binary("EQ", Name("s"), S("x")), Binary("NE", Name("s"), S("x")),
               ArgvLen, ArgvAt(I(1))>>)) @@
  (<<"argument">> :> Prints_(<<>>, <<ArgvAt(I(0)), ArgvAt(I(2)), S("y")>>)) @@
  (<<"recursive">> :>
     <<Package([ f |-> Func(<<"n">>,
                   <<When(Binary("LE", Name("n"), I(0)), <<Return(I(1))>>),
                     Return(Binary("MUL", Name("n"),
                                   Call("f", <<Binary("SUB", Name("n"), I(1))>>)))>>) ],
               <<Assign("r", Call("f", <<I(2)>>))>> \o Show_(<<"r">>))>>) @@
  (<<"three">> :>
     <<Package([ f |-> Func(<<"a", "b", "c">>,
                   <<Assign("d", Binary("SUB", Name("a"), Name("b"))),
                     Return(Binary("SUB", Name("d"), Name("c")))>>),
                 g |-> Func(<<>>, <<Do("print", <<I(3)>>)>>) ],
               <<Assign("r", Call("f", <<I(9), I(4), I(2)>>)),
                 Assign("n", Call("g", <<>>))>> \o Show_(<<"r", "n">>))>>) @@
  \* These mean something else to the virtual machine, or nothing.
  (<<"floats">> :>
     Prints_(<<Assign("x", F(8)), Assign("y", I(2)), AddAssign("x", F(1))>>,
             <<Flat("ADD"), Flat("SUB"), Flat("MUL"), Flat("LT"), Flat("MOD"),
               Minus(Name("x")), ToString_(Name("x"))>>)) @@
  (<<"joins">> :>
     Prints_(<<Assign("s", Binary("ADD", S("a"), I(1)))>>,
             <<Name("s"), Literal(Char(65)), Binary("ADD", S("a"), F(1))>>)) @@
  (<<"wraps">> :>
     Prints_(<<Assign("x", I(MaxInt))>>, <<Binary("ADD", Name("x"), I(2)),
        Binary("DIV", Minus(Binary("ADD", Name("x"), I(1))), Minus(I(1)))>>)) @@
  (<<"pipes">> :>
     Prints_(<<Assign("p", Call("pipe", <<S("n"), Name("out")>>)),
               Evaluate(Insert("pipe", "p", I(5))), Do("sleep", <<I(1)>>),
               Assign("c", Call("channel", <<S("n")>>)),
               Evaluate(Insert("channel", "c", Extract("channel", "c")))>>,
             <<Extract("pipe", "p")>>)) @@
  (<<"packages">> :>
     << [Package([f |-> Func(<<"x">>, <<Return(Binary("ADD", Name("x"), I(1)))>>)],
                 <<Shows(<<I(1)>>)>>) EXCEPT !.name = "lib"],
        [Package([h |-> Func(<<>>, <<Return(Call("f", <<I(4)>>))>>)],
                 <<Shows(<<I(2), Call("h", <<>>)>>)>>) EXCEPT !.objects = {"thing"}] >>) @@
  \* And these do not compile.
  (<<"arguments">> :>
     <<Package([f |-> Func(<<"a", "b", "c", "d">>, <<Return(I(1))>>)], <<>>)>>) @@
  (<<"both">> :> Prints_(<<>>, <<And(I(1), I(0))>>))

Compared_ == Nests \cup {<<"ops">>, <<"constants">>, <<"texts">>, <<"argument">>,
                         <<"recursive">>, <<"three">>}

Sources == [s \in Nests |-> Nested(s)] @@ Singles

\* The texts of a program for Mach-O are not found where they are.
TextLess == {<<"ops">>, <<"recursive">>, <<"three">>, <<"packages">>, <<"loop", "call">>}
Targets ==
  Nests \X BOOLEAN \X {"elf64"}
    \cup (DOMAIN Singles) \X BOOLEAN \X {"elf64", "coff64"}
    \cup TextLess \X BOOLEAN \X {"macho64"}
Arguments == <<"one", "two">>
=============================================================================
