---------------------------- MODULE MunxCompiler ----------------------------
(***************************************************************************)
(* The bytecode compiler: what code_emitter emits for the control flow of  *)
(* the language.  A jump operand is kept relative to its own instruction   *)
(* while the code is put together, and made absolute once, by Resolve; a   *)
(* break is a jump whose target is not patched yet.                        *)
(***************************************************************************)
EXTENDS MunxBytecode, MunxSyntax, SequencesExt

\* The longest counted loop the compiler unrolls (k_max_loop_unroll).
CONSTANT MaxLoopUnroll

ASSUME MaxLoopUnrollAssumption == MaxLoopUnroll \in Nat

-----------------------------------------------------------------------------
(* Code with relative jumps *)

Op(op) == Encode(op, <<>>)
Jump(op, distance) == Encode(op, distance)

PendingBreak == [op |-> "BREAK"]
BreakJump == <<PendingBreak>> \o Tail(Jump("JMP", 0))

\* (mutant) the operand of a break is left at zero
BreaksAtZero(code) ==
  [i \in DOMAIN code |->
     IF code[i].op = "BREAK" THEN Jump("JMP", 0)[1] ELSE code[i]]

\* Make every pending break of the code jump to its end (loop_breaks_).
PatchBreaks(code) ==
  [i \in DOMAIN code |->
     IF code[i].op = "BREAK"
     THEN Jump("JMP", Len(code) - (i - 1))[1]
     ELSE code[i]]

\* Replace relative distances by the absolute pcs the operands hold.
Resolve(code) ==
  [i \in DOMAIN code |->
     IF code[i].op \in JumpOps
     THEN [code[i] EXCEPT !.arg = i - 1 + @]
     ELSE code[i]]

PushOf(v) ==
  CASE v[1] = "int" -> Encode("PUSH_INT", v)
    [] v[1] = "bool" -> Encode("PUSH_BOOL", v)
    [] v[1] = "enum" -> Encode("PUSH_ENUM", v)
    [] v = Null -> Encode("PUSH_NULL", v)

-----------------------------------------------------------------------------
(* Counted loops *)

int_literal(e) == e.k = "literal" /\ e.v[1] = "int"
references_identifier(e, x) == e.k = "name" /\ e.x = x

body_increments_counter(body, x) ==
  /\ body # <<>>
  /\ LET last == body[Len(body)]
         one(e) == int_literal(e) /\ e.v = Int64(1)
     IN \/ last.k = "add_assign" /\ last.x = x /\ one(last.e)
        \/ /\ last.k = "assign" /\ last.x = x
           /\ last.e.k = "binary" /\ last.e.op = "ADD"
           /\ references_identifier(last.e.l, x) /\ one(last.e.r)

\* The pcs past the last value of the counter: the bound of x < b or x <= b.
LoopLimit(cond) == cond.r.v[2] + (IF cond.op = "LE" THEN 1 ELSE 0)

\* Is init; loop the counted loop that try_emit_unrolled_loop replaces?
match_counted_loop(init, loop) ==
  /\ loop.k = "loop" /\ loop.cond # <<>>
  /\ init.k = "assign" /\ int_literal(init.e)
  /\ LET cond == loop.cond[1] IN
       /\ cond.k = "binary" /\ cond.op \in OrderOps
       /\ references_identifier(cond.l, init.x)
       /\ int_literal(cond.r)
       /\ body_increments_counter(loop.body, init.x)
       /\ LoopLimit(cond) - init.e.v[2] \in 1 .. MaxLoopUnroll

-----------------------------------------------------------------------------
(* Expressions and statements.  consts is const_locals_: the counters of    *)
(* the loops being unrolled and their values.                              *)

RECURSIVE Emit(_, _)

EmitEach(nodes, consts) ==
  FlattenSeq([i \in DOMAIN nodes |-> Emit(nodes[i], consts)])

\* The body without the increment, once for each value of the counter, which
\* is a constant in it; the counter itself is never stored.
EmitTrips(init, loop, consts) ==
  LET from == init.e.v[2]
      binding(n) == [x \in DOMAIN consts \cup {init.x} |->
                       IF x = init.x THEN n ELSE consts[x]]
  IN FlattenSeq([n \in 1 .. LoopLimit(loop.cond[1]) - from |->
                   EmitEach(Front(loop.body), binding(from + n - 1))])

\* emit_block_statements: an assignment followed by a counted loop over it
\* is replaced by the unrolled loop, which takes both statements.
EmitBlock(stmts, consts) ==
  LET counted(i) == i \in 1 .. Len(stmts) - 1
                      /\ match_counted_loop(stmts[i], stmts[i + 1])
  IN FlattenSeq([i \in DOMAIN stmts |->
       IF counted(i) THEN EmitTrips(stmts[i], stmts[i + 1], consts)
       ELSE IF counted(i - 1) THEN <<>>
       ELSE Emit(stmts[i], consts)])

\* An arm, and behind it the arms that are skipped when it was taken.
Arm(arm, others) ==
  arm.test
    \o Jump("JMP_IF_FALSE", Size.JMP_IF_FALSE + Len(arm.body) + Size.JMP)
    \o arm.body
    \o Jump("JMP", Size.JMP + Len(others))
    \o others

Arms(arms, last) == FoldRight(Arm, arms, last)

emit_expr(n, consts) ==
  CASE n.k = "literal" -> PushOf(n.v)
    [] n.k = "name" ->
         IF n.x \in DOMAIN consts
         THEN Encode("PUSH_INT", Int64(consts[n.x]))
         ELSE Encode("LOAD", n.x)
    [] n.k = "not" -> Emit(n.e, consts) \o Op("NOT")
    [] n.k = "binary" -> EmitEach(<<n.l, n.r>>, consts) \o Op(n.op)
    [] n.k \in {"and", "or"} ->
         LET right == Op("POP") \o Emit(n.r, consts)
             jump == IF n.k = "and" THEN "JMP_IF_FALSE" ELSE "JMP_IF_TRUE"
         IN Emit(n.l, consts) \o Op("DUP")
              \o Jump(jump, Size[jump] + Len(right)) \o right
    [] n.k = "call" ->
         EmitEach(<<Name(n.f)>> \o n.args, consts)
           \o Encode("CALL", Len(n.args))

emit_assignment(n, consts) ==
  (IF n.k = "add_assign"
   THEN Encode("LOAD", n.x) \o Emit(n.e, consts) \o Op("ADD")
   ELSE Emit(n.e, consts))
    \o Encode("STORE", n.x)

emit_if(n, consts) ==
  Arms([i \in DOMAIN n.branches |->
          [test |-> Emit(n.branches[i].cond, consts),
           body |-> EmitBlock(n.branches[i].body, consts)]],
       EmitBlock(n.orelse, consts))

emit_loop(n, consts) ==
  LET cond == EmitEach(n.cond, consts)
      body == EmitBlock(n.body, consts)
      exit == IF n.cond = <<>> THEN <<>>
              ELSE Jump("JMP_IF_FALSE",
                        Size.JMP_IF_FALSE + Len(body) + Size.JMP)
      round == cond \o exit \o body
  IN PatchBreaks(round \o Jump("JMP", -Len(round)))

\* The scrutinee stays below the body of the case, until the POP at the end.
emit_match(n, consts) ==
  LET test(member) ==
        Op("DUP") \o Encode("PUSH_ENUM", Member(member)) \o Op("EQ")
  IN Emit(n.e, consts)
       \o Arms([i \in DOMAIN n.cases |->
                  [test |-> test(n.cases[i].member),
                   body |-> EmitBlock(n.cases[i].body, consts)]], <<>>)
       \o Op("POP")

emit_monitor(n, consts) ==
  LET protected == EmitBlock(n.body, consts) \o Op("MONITOR_EXIT")
      handler == Encode("STORE", n.trap) \o EmitBlock(n.handler, consts)
  IN Jump("MONITOR_ENTER", Size.MONITOR_ENTER + Len(protected) + Size.JMP)
       \o protected
       \o Jump("JMP", Size.JMP + Len(handler))
       \o handler

Emit(n, consts) ==
  CASE n.k \in {"assign", "add_assign"} -> emit_assignment(n, consts)
    [] n.k = "expr" -> Emit(n.e, consts) \o Op("POP")
    [] n.k = "return" -> Emit(n.e, consts) \o Op("RET")
    [] n.k = "break" -> BreakJump
    [] n.k = "if" -> emit_if(n, consts)
    [] n.k = "loop" -> emit_loop(n, consts)
    [] n.k = "match" -> emit_match(n, consts)
    [] n.k = "monitor" -> emit_monitor(n, consts)
    [] OTHER -> emit_expr(n, consts)

-----------------------------------------------------------------------------
(* Blobs *)

\* The last argument is on top of the stack: bind in reverse order.
BindParameters(params) ==
  FlattenSeq([i \in DOMAIN params |->
                Encode("STORE", params[Len(params) - i + 1])])

emit_function_code(params, body) ==
  Resolve(PatchBreaks(BindParameters(params) \o EmitBlock(body, <<>>))
            \o PushOf(Null) \o Op("RET"))

emit_toplevel(stmts) ==
  Resolve(PatchBreaks(EmitBlock(stmts, <<>>)) \o Op("HALT"))

\* A source is [init |-> statements, functions |-> [name -> [params, body]]];
\* its image holds a blob for the package and one for each function.
CompileSource(source) ==
  [f \in DOMAIN source.functions \cup {Initializer} |->
     IF f = Initializer
     THEN [params |-> <<>>, code |-> emit_toplevel(source.init)]
     ELSE LET def == source.functions[f]
          IN [params |-> def.params,
              code |-> emit_function_code(def.params, def.body)]]
=============================================================================
