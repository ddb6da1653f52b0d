---------------------------- MODULE MunxMeaning -----------------------------
(***************************************************************************)
(* What a program means: the statements of the language evaluated on the   *)
(* syntax tree, without code, stacks, monitors or tiers.  This is the      *)
(* reference the compiled program is compared with; it follows the         *)
(* language's own description (src/README.md, "Runtime model" and          *)
(* "Control flow"), not the compiler.                                      *)
(***************************************************************************)
EXTENDS MunxBytecode, MunxSyntax, SequencesExt

\* An environment: the globals, the locals of the current call, the depth of
\* the call (0 is the package itself) and the functions of the program.
\* Evaluation gives the environment after it and how it ended: "next" with a
\* value, "break", "return" with a value, or "fault" with a payload.
Ends(env, how, v) == [env |-> env, how |-> how, v |-> v]
Next_(env) == Ends(env, "next", Null)
Raise(env, kind) == Ends(env, "fault", Exception(kind))

Local(env, x) == env.depth > 0 /\ x \in DOMAIN env.locals

Lookup(env, x) ==
  IF Local(env, x) THEN Ends(env, "next", env.locals[x])
  ELSE IF x \in DOMAIN env.globals THEN Ends(env, "next", env.globals[x])
  ELSE Raise(env, "error")

\* "a name that is new inside a function stays local to that call"
Bind(env, x, v) ==
  IF env.depth > 0 /\ (Local(env, x) \/ x \notin DOMAIN env.globals)
  THEN [env EXCEPT !.locals = (x :> v) @@ @]
  ELSE [env EXCEPT !.globals = (x :> v) @@ @]

Same(l, r) == values_equal(l, r) \/ (l = r /\ l[1] = "str")

\* Only a number other than zero divides.
Apply(env, op, l, r) ==
  LET a == as_integer(l)
      b == as_integer(r)
  IN CASE op = "EQ" -> Ends(env, "next", Flag(Same(l, r)))
       [] op = "NE" -> Ends(env, "next", Flag(~Same(l, r)))
       [] op \in {"DIV", "MOD"} /\ (~is_integral(r) \/ b = 0) ->
            Raise(env, "division_by_zero")
       [] ~(is_integral(l) /\ is_integral(r)) -> Raise(env, "error")
       [] op \in OrderOps -> Ends(env, "next", Flag(Ordered(op, a, b)))
       [] op = "GT" -> Ends(env, "next", Flag(Ordered("LT", b, a)))
       [] op = "GE" -> Ends(env, "next", Flag(Ordered("LE", b, a)))
       [] op = "MOD" -> Ends(env, "next", Int64(a - b * Quotient(a, b)))
       [] Overflows(Exact(op, a, b)) -> Raise(env, "overflow")
       [] OTHER -> Ends(env, "next", Int64(Exact(op, a, b)))

\* `e as string`.
Written(v) ==
  CASE v[1] = "str" -> v
    [] v = Null -> Str("null")
    [] v[1] = "bool" -> Str(IF v[2] THEN "true" ELSE "false")
    [] v[1] = "int" -> Str(ToString(v[2]))

\* print, println, concat and argv; everything printed goes to env.out.
NewLine == <<"newline">>
Print_(env, vs) == [env EXCEPT !.out = @ \o vs]
Standard == {"print", "println", "concat"}
CallStandard(env, f, args) ==
  CASE f = "print" -> Next_(Print_(env, args))
    [] f = "println" -> Next_(Print_(env, Append(args, NewLine)))
    [] f = "concat" ->
         Ends(env, "next", Str(Written(args[1])[2] \o Written(args[2])[2]))
Argument(env, index) ==
  IF is_integral(index) /\ as_integer(index) + 1 \in DOMAIN env.argv
  THEN Ends(env, "next", Str(env.argv[as_integer(index) + 1]))
  ELSE Raise(env, "error")

RECURSIVE Does(_, _)

\* Go on from an outcome unless something left the block there.
Then(r, next(_)) == IF r.how = "next" THEN next(r) ELSE r

DoAll(env, stmts) ==
  FoldLeft(LAMBDA r, stmt : Then(r, LAMBDA q : Does(q.env, stmt)),
           Next_(env), stmts)

EvalAll(env, es) ==
  FoldLeft(LAMBDA r, e :
             Then(r, LAMBDA q :
               Then(Does(q.env, e), LAMBDA w : [w EXCEPT !.v = Append(q.v, @)])),
           Ends(env, "next", <<>>), es)

CallFunction(env, f, args) ==
  IF \/ f[1] # "func"
     \/ Len(env.functions[f[2]].params) # Len(args)
     \/ env.depth >= CallDepthLimit
  THEN Raise(env, "error")
  ELSE LET def == env.functions[f[2]]
           bound == [x \in ToSet(def.params) |->
                       args[CHOOSE i \in DOMAIN args : def.params[i] = x]]
           r == DoAll([env EXCEPT !.depth = @ + 1, !.locals = bound], def.body)
       IN [env |-> [env EXCEPT !.globals = r.env.globals, !.out = r.env.out],
           how |-> IF r.how = "fault" THEN "fault" ELSE "next",
           v |-> IF r.how \in {"return", "fault"} THEN r.v ELSE Null]

Does(env, n) ==
  CASE n.k = "literal" -> Ends(env, "next", n.v)
    [] n.k = "name" -> Lookup(env, n.x)
    [] n.k = "not" ->
         Then(Does(env, n.e), LAMBDA r : [r EXCEPT !.v = Flag(~is_truthy(@))])
    [] n.k = "binary" ->
         Then(EvalAll(env, <<n.l, n.r>>),
              LAMBDA r : Apply(r.env, n.op, r.v[1], r.v[2]))
    [] n.k \in {"and", "or"} ->
         Then(Does(env, n.l),
              LAMBDA r : IF is_truthy(r.v) = (n.k = "or") THEN r
                         ELSE Does(r.env, n.r))
    [] n.k = "neg" -> Does(env, Binary("SUB", Literal(Int64(0)), n.e))
    [] n.k = "cast" ->
         Then(Does(env, n.e), LAMBDA r : [r EXCEPT !.v = Written(@)])
    [] n.k = "argv_len" -> Ends(env, "next", Int64(Len(env.argv)))
    [] n.k = "argv_at" -> Then(Does(env, n.e), LAMBDA r : Argument(r.env, r.v))
    [] n.k = "call" /\ n.f \in Standard ->
         Then(EvalAll(env, n.args), LAMBDA r : CallStandard(r.env, n.f, r.v))
    [] n.k = "call" ->
         Then(EvalAll(env, <<Name(n.f)>> \o n.args),
              LAMBDA r : CallFunction(r.env, Head(r.v), Tail(r.v)))
    [] n.k = "assign" ->
         Then(Does(env, n.e), LAMBDA r : Next_(Bind(r.env, n.x, r.v)))
    [] n.k = "add_assign" ->
         Does(env, Assign(n.x, Binary("ADD", Name(n.x), n.e)))
    [] n.k = "expr" -> Then(Does(env, n.e), LAMBDA r : Next_(r.env))
    [] n.k = "return" ->
         Then(Does(env, n.e), LAMBDA r : Ends(r.env, "return", r.v))
    [] n.k = "break" -> Ends(env, "break", Null)
    [] n.k = "if" ->
         IF n.branches = <<>> THEN DoAll(env, n.orelse)
         ELSE Then(Does(env, n.branches[1].cond),
                   LAMBDA r :
                     IF is_truthy(r.v) THEN DoAll(r.env, n.branches[1].body)
                     ELSE Does(r.env, [n EXCEPT !.branches = Tail(@)]))
    [] n.k = "loop" ->
         Then(IF n.cond = <<>> THEN Ends(env, "next", Flag(TRUE))
              ELSE Does(env, n.cond[1]),
              LAMBDA r :
                IF ~is_truthy(r.v) THEN Next_(r.env)
                ELSE LET b == DoAll(r.env, n.body)
                     IN IF b.how = "break" THEN Next_(b.env)
                        ELSE Then(b, LAMBDA q : Does(q.env, n)))
    [] n.k = "match" ->
         Then(Does(env, n.e),
              LAMBDA r :
                LET hits == {i \in DOMAIN n.cases :
                               values_equal(r.v, Member(n.cases[i].member))}
                IN IF hits = {} THEN Next_(r.env)
                   ELSE DoAll(r.env, n.cases[Min(hits)].body))
    [] n.k = "monitor" ->
         LET b == DoAll(env, n.body)
         IN IF b.how # "fault" THEN b
            ELSE DoAll(Bind(b.env, n.trap, b.v), n.handler)

\* How a program ends, what it printed and the globals it leaves.  A break or
\* return outside a loop or function ends the package (patch_stray_breaks).
MeaningWith(source, argv) ==
  LET names == DOMAIN source.functions
      start == [globals |-> [x \in names \cup {"fail"} |->
                               IF x = "fail" THEN Builtin(x) ELSE Function(x)],
                locals |-> <<>>, depth |-> 0, argv |-> argv, out |-> <<>>,
                functions |-> source.functions]
      r == DoAll(start, source.init)
  IN [outcome |-> IF r.how = "fault" THEN "failed" ELSE "ok",
      out |-> r.env.out, globals |-> r.env.globals]

Meaning(source) == MeaningWith(source, <<>>)
=============================================================================
