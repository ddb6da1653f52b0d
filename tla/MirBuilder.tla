----------------------------- MODULE MirBuilder -----------------------------
(***************************************************************************)
(* The front of the native compiler: mir_builder lowers syntax trees to    *)
(* the middle representation (MIR) that its three back ends share.         *)
(*                                                                         *)
(* An instruction is a record; its position in the code, counted from 0,   *)
(* names its result.  Control flow is labels and branches; the names of a  *)
(* function are numbered slots.  The builder's state is one record that    *)
(* every operator takes and returns.                                       *)
(***************************************************************************)
EXTENDS MunxSyntax, Integers, Sequences, SequencesExt

\* f itself, its values computed once.
Table(f) == f @@ <<>>

-----------------------------------------------------------------------------
(* Instructions *)

Instr == [op |-> "const", x |-> <<"null">>, args |-> <<>>, to |-> <<>>,
          ty |-> "value"]

Const(v) == [Instr EXCEPT !.x = v]
LoadLocal(slot) == [Instr EXCEPT !.op = "load_local", !.x = slot]
StoreLocal(slot, v) ==
  [Instr EXCEPT !.op = "store_local", !.x = slot, !.args = <<v>>]
Compute(op, args) == [Instr EXCEPT !.op = op, !.args = args]
CallOf(callee, args, ty) ==
  [Instr EXCEPT !.op = "call", !.x = callee, !.args = args, !.ty = ty]
Ret(args, ty) == [Instr EXCEPT !.op = "ret", !.args = args, !.ty = ty]
Br(block) == [Instr EXCEPT !.op = "br", !.to = <<block>>]
Cbr(cond, yes, no) ==
  [Instr EXCEPT !.op = "cbr", !.args = <<cond>>, !.to = <<yes, no>>]
Label(block) == [Instr EXCEPT !.op = "label", !.to = <<block>>]

BinaryOps == [ADD |-> "add", SUB |-> "sub", MUL |-> "mul", DIV |-> "div",
              MOD |-> "mod", EQ |-> "eq", NE |-> "ne", LT |-> "lt",
              GT |-> "gt", LE |-> "le", GE |-> "ge"]

-----------------------------------------------------------------------------
(* The builder's state *)

EmptyBuilder ==
  [ functions |-> <<>>, strings |-> <<>>, failed |-> FALSE,
    names |-> <<>>, code |-> <<>>, next_block |-> 0, breaks |-> <<>>,
    value |-> 0, known |-> {}, objects |-> {} ]

emit(b, in) == [b EXCEPT !.code = Append(@, in), !.value = Len(b.code)]

native_unsupported(b) == [b EXCEPT !.failed = TRUE]
emit_null(b) == emit(b, Const(<<"null">>))

\* A name gets the next slot of its function when it is first met.
Named(b, x) ==
  IF Contains(b.names, x) THEN b ELSE [b EXCEPT !.names = Append(@, x)]
local_slot(b, x) == (CHOOSE i \in DOMAIN b.names : b.names[i] = x) - 1

Interned(b, s) ==
  IF Contains(b.strings, s) THEN b ELSE [b EXCEPT !.strings = Append(@, s)]

load(b, x) ==
  LET named == Named(b, x) IN emit(named, LoadLocal(local_slot(named, x)))
store(b, x, v) ==
  LET named == Named(b, x) IN emit(named, StoreLocal(local_slot(named, x), v))
ReturnResult(b) == emit(b, Ret(<<b.value>>, "value"))

new_blocks(b, n) == [b EXCEPT !.next_block = @ + n]
place(b, block) == emit(b, Label(block))
jump(b, block) == emit(b, Br(block))

-----------------------------------------------------------------------------
(* Expressions *)

RECURSIVE Lower(_, _)

\* Lower the expressions in order: the builder behind them and their results.
LowerEach(b, es) ==
  FoldLeft(LAMBDA r, e : LET q == Lower(r.b, e)
                         IN [b |-> q, ids |-> Append(r.ids, q.value)],
           [b |-> b, ids |-> <<>>], es)

LowerBlock(b, stmts) == FoldLeft(Lower, b, stmts)

emit_literal(b, v) ==
  CASE v[1] = "str" -> emit(Interned(b, v[2]), Const(v))
    [] v[1] = "char" -> emit(b, Const(<<"int", v[2]>>))
    [] OTHER -> emit(b, Const(v))

PipeModes == [out |-> "munx_pipe_mode_out", in |-> "munx_pipe_mode_in",
              subscribe |-> "munx_pipe_mode_subscribe"]

emit_name(b, x) ==
  IF x \in DOMAIN PipeModes THEN emit(b, CallOf(PipeModes[x], <<>>, "value"))
  ELSE load(b, x)

\* The value is evaluated before the handle is loaded.
InsertInto(handle, n, value) ==
  emit(handle, CallOf(IF n.link = "pipe" THEN "munx_pipe_insert" ELSE "munx_channel_insert",
                      <<handle.value, value>>, "void"))
LoadAndInsert(b, n) == emit_null(InsertInto(load(b, n.x), n, b.value))
emit_insert(b, n) == LoadAndInsert(Lower(b, n.e), n)

ExtractFrom(handle, n) ==
  emit(handle, CallOf(IF n.link = "pipe" THEN "munx_pipe_extract" ELSE "munx_channel_extract",
                      <<handle.value>>, "value"))
emit_extract(b, n) == ExtractFrom(load(b, n.x), n)

\* A runtime function applied to the results of expressions.
RuntimeCall(b, callee, es) ==
  LET args == LowerEach(b, es) IN emit(args.b, CallOf(callee, args.ids, "value"))

emit_binary(b, n) ==
  LET operands == LowerEach(b, <<n.l, n.r>>)
  IN emit(operands.b, Compute(BinaryOps[n.op], operands.ids))

\* && and || fail the compilation behind both operands.
emit_short_circuit(b, n) ==
  emit_null(native_unsupported(LowerEach(b, <<n.l, n.r>>).b))

emit_unary(b, n) ==
  LET operand == Lower(b, n.e)
  IN emit(operand, Compute(n.k, <<operand.value>>))

emit_print(b, es) ==
  FoldLeft(LAMBDA r, e : LET q == Lower(r, e)
                         IN emit(q, Compute("print", <<q.value>>)),
           b, es)

\* Functions of the runtime by the name a program calls them by, with the
\* number of arguments they take.
RuntimeFunctions ==
  [ pipe |-> [callee |-> "munx_pipe_open", arity |-> 2],
    channel |-> [callee |-> "munx_channel_open", arity |-> 1],
    concat |-> [callee |-> "munx_concat", arity |-> 2] ]

emit_fail(b, es) ==
  LET message == IF es = <<>> THEN emit_literal(b, Str("fail"))
                 ELSE Lower(b, es[1])
  IN emit_null(emit(message, CallOf("munx_fail", <<message.value>>, "void")))

emit_sleep(b, es) ==
  IF Len(es) # 1 THEN emit_null(native_unsupported(b))
  ELSE LET time == Lower(b, es[1])
       IN emit_null(emit(time, CallOf("munx_sleep", <<time.value>>, "void")))

emit_call(b, n) ==
  CASE n.f \in {"likely", "unlikely"} /\ Len(n.args) = 1 -> Lower(b, n.args[1])
    [] n.f \in DOMAIN RuntimeFunctions ->
         LET known == RuntimeFunctions[n.f]
         IN IF Len(n.args) = known.arity
            THEN RuntimeCall(b, known.callee, n.args)
            ELSE emit_null(native_unsupported(b))
    [] n.f = "sleep" -> emit_sleep(b, n.args)
    [] n.f = "fail" -> emit_fail(b, n.args)
    [] n.f = "print" -> emit_null(emit_print(b, n.args))
    [] n.f = "println" ->
         emit_null(emit(emit_print(b, n.args), Compute("println", <<>>)))
    [] OTHER ->
         IF n.f \in b.objects THEN emit_null(LowerEach(b, n.args).b)
         ELSE IF n.f \in b.known
         THEN RuntimeCall(b, "munx_fn_" \o n.f, n.args)
         ELSE emit_null(native_unsupported(b))

-----------------------------------------------------------------------------
(* Statements *)

\* The value is evaluated before += loads the target.  A program that binds
\* print or println to a handle of the terminal keeps the runtime's.
StoreResult(b, x) == store(b, x, b.value)
AddTo(target, value) == emit(target, Compute("add", <<target.value, value>>))
Assigned(b, n) ==
  IF n.k = "add_assign" THEN StoreResult(AddTo(load(b, n.x), b.value), n.x)
                        ELSE StoreResult(b, n.x)
emit_assignment(b, n) ==
  LET rebinds == /\ n.x \in {"print", "println"}
                 /\ n.e.k = "call" /\ n.e.f \in {"fix", "open"}
  IN IF rebinds THEN b ELSE Assigned(Lower(b, n.e), n)

emit_return(b, n) == ReturnResult(Lower(b, n.e))

emit_break(b) ==
  IF b.breaks = <<>> THEN native_unsupported(b) ELSE jump(b, Last(b.breaks))

\* Condition, arm, and the label of what is tried when the condition fails.
emit_arm(b, arm, yes, no, join) ==
  LET cond == Lower(b, arm.cond)
      tested == emit(cond, Cbr(cond.value, yes, no))
  IN place(jump(LowerBlock(place(tested, yes), arm.body), join), no)

\* Every else-if takes two blocks of its own, ahead of its condition.
emit_if(b, n) ==
  LET yes == b.next_block
      join == yes + 2
      else_if(r, arm) ==
        emit_arm(new_blocks(r, 2), arm, r.next_block, r.next_block + 1, join)
      arms == FoldLeft(else_if,
                       emit_arm(new_blocks(b, 3), Head(n.branches), yes, yes + 1, join),
                       Tail(n.branches))
  IN place(jump(LowerBlock(arms, n.orelse), join), join)

emit_loop(b, n) ==
  LET head == b.next_block
      body == head + 1
      exit == head + 2
      entered == place(jump(new_blocks(b, 3), head), head)
      cond == Lower(entered, n.cond[1])
      tested == IF n.cond = <<>> THEN jump(entered, body)
                ELSE emit(cond, Cbr(cond.value, body, exit))
      round == LowerBlock([place(tested, body) EXCEPT !.breaks = Append(@, exit)],
                          n.body)
  IN place(jump([round EXCEPT !.breaks = Front(@)], head), exit)

\* Nothing is made of a program once it has failed to compile.
Lower(b, n) ==
  CASE b.failed -> b
    [] n.k = "literal" -> emit_literal(b, n.v)
    [] n.k = "name" -> emit_name(b, n.x)
    [] n.k = "binary" -> emit_binary(b, n)
    [] n.k \in {"and", "or"} -> emit_short_circuit(b, n)
    [] n.k \in {"not", "neg"} -> emit_unary(b, n)
    [] n.k = "call" -> emit_call(b, n)
    [] n.k = "cast" -> RuntimeCall(b, "munx_to_string", <<n.e>>)
    [] n.k = "argv_len" -> RuntimeCall(b, "munx_argv_len", <<>>)
    [] n.k = "argv_at" -> RuntimeCall(b, "munx_argv_get", <<n.e>>)
    [] n.k = "insert" -> emit_insert(b, n)
    [] n.k = "extract" -> emit_extract(b, n)
    [] n.k \in {"assign", "add_assign"} -> emit_assignment(b, n)
    [] n.k = "expr" -> Lower(b, n.e)
    [] n.k = "return" -> emit_return(b, n)
    [] n.k = "break" -> emit_break(b)
    [] n.k = "if" -> emit_if(b, n)
    [] n.k = "loop" -> emit_loop(b, n)
    [] OTHER -> native_unsupported(b)       \* match, monitor, ...

-----------------------------------------------------------------------------
(* Functions and packages *)

\* A fresh function whose first slots are its parameters.
Begin(b, params) ==
  place([b EXCEPT !.names = params, !.code = <<>>, !.next_block = 1], 0)

Finish(b, name, params, init, entry) ==
  [b EXCEPT !.functions =
     Append(@, [name |-> name, params |-> Len(params), names |-> b.names,
                code |-> b.code, init |-> init, entry |-> entry])]

\* A body that does not end in a return gets one that returns null.
Returned(body) ==
  IF Last(body.code).op = "ret" THEN body ELSE ReturnResult(emit_null(body))
emit_function(b, name, def) ==
  Finish(Returned(LowerBlock(Begin(b, def.params), def.body)),
         "munx_fn_" \o name, def.params, FALSE, FALSE)

\* A package is [name, init, functions, objects]; its functions come first.
emit_functions(b, package) ==
  FoldLeft(LAMBDA r, f : emit_function(r, f, package.functions[f]),
           b, SetToSeq(DOMAIN package.functions))
emit_package(b, package, entry) ==
  Finish(emit(LowerBlock(Begin(emit_functions(b, package), <<>>), package.init),
              Ret(<<>>, "void")),
         "munx_init_" \o package.name, <<>>, TRUE, entry)

\* The packages in the order of their imports, the entry package last.  All
\* their functions and objects are known before any of them is lowered.
Made(b) == [functions |-> b.functions, strings |-> b.strings, failed |-> b.failed]
build(packages) ==
  LET known == [EmptyBuilder EXCEPT
                  !.known = UNION {DOMAIN p.functions : p \in ToSet(packages)},
                  !.objects = UNION {p.objects : p \in ToSet(packages)}]
  IN Made(FoldLeft(LAMBDA r, i : emit_package(r, packages[i], i = Len(packages)),
                   known, [i \in DOMAIN packages |-> i]))

\* The order main calls the initializers in: the entry package's comes last.
InitsOf(functions) ==
  LET inits(entry) == SelectSeq([i \in DOMAIN functions |-> i],
                                LAMBDA i : functions[i].init
                                             /\ functions[i].entry = entry)
  IN inits(FALSE) \o inits(TRUE)
=============================================================================
