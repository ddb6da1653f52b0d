--------------------------- MODULE NativeRuntime ----------------------------
(***************************************************************************)
(* The C runtime that native programs are linked with (munx_value.c, and   *)
(* the helpers on strings of munx_pipe.c): what each function returns.     *)
(* Doubles are whole numbers here; their division is exact or not used.    *)
(***************************************************************************)
EXTENDS MirOptimizer

\* Not values: munx_rt_abort ended the process, or the processor did.
Aborts == <<"abort">>
Traps == <<"trap">>

is_num(v) == v[1] \in {"int", "f64", "bool"}
munx_as_i64(v) == IF v[1] = "bool" THEN (IF v[2] THEN 1 ELSE 0) ELSE v[2]

munx_truthy(v) ==
  CASE v[1] = "null" -> FALSE
    [] v[1] = "bool" -> v[2]
    [] v[1] \in {"int", "f64"} -> v[2] # 0
    [] v[1] = "str" -> v[2] # ""
    [] OTHER -> TRUE

munx_to_string(v) ==
  CASE v[1] = "null" -> Str("null")
    [] v[1] = "bool" -> Str(IF v[2] THEN "true" ELSE "false")
    [] v[1] \in {"int", "f64"} -> Str(ToString(v[2]))
    [] v[1] = "str" -> v
    [] OTHER -> Str("<value>")

munx_concat(a, b) == Str(munx_to_string(a)[2] \o munx_to_string(b)[2])

\* Sums of numbers, and texts joined with texts or integers.
JoinsText(a, b) == "str" \in {a[1], b[1]}
munx_add_text(a, b) ==
  IF {a[1], b[1]} \subseteq {"str", "int"} THEN munx_concat(a, b) ELSE Aborts

\* A double on either side makes the operation one on doubles, except mod.
Number(op, a, b) ==
  LET x == munx_as_i64(a)
      y == munx_as_i64(b)
      float == "f64" \in {a[1], b[1]}
  IN CASE ~is_num(a) \/ ~is_num(b) -> Aborts
       [] op \in {"div", "mod"} /\ y = 0 -> Aborts
       [] float /\ op \in NumberOps \ {"mod"} ->
            Double(CASE op = "add" -> x + y [] op = "sub" -> x - y
                     [] op = "mul" -> x * y [] op = "div" -> Quotient(x, y))
       [] op \in {"div", "mod"} /\ x = -MaxInt - 1 /\ y = -1 -> Traps
       [] op \in NumberOps -> Int64(Arithmetic(op, x, y))
       [] OTHER -> Flag(Compared(op, x, y))

munx_eq(a, b) ==
  Flag(CASE a[1] = "str" /\ b[1] = "str" -> a[2] = b[2]
         [] is_num(a) /\ is_num(b) -> munx_as_i64(a) = munx_as_i64(b)
         [] OTHER -> a = Null /\ b = Null)

munx_neg(a) ==
  CASE ~is_num(a) -> Aborts
    [] a[1] = "f64" -> Double(-a[2])
    [] OTHER -> Int64(Wrap(-munx_as_i64(a)))

munx_argv_get(argv, index) ==
  IF ~is_num(index) \/ munx_as_i64(index) \notin 0 .. Len(argv) - 1
  THEN Aborts ELSE Str(argv[munx_as_i64(index) + 1])

\* What an operation of the MIR computes (runtime_binop and its callers).
Computes(op, args) ==
  CASE op = "not" -> Flag(~munx_truthy(args[1]))
    [] op = "neg" -> munx_neg(args[1])
    [] op = "eq" -> munx_eq(args[1], args[2])
    [] op = "ne" -> Flag(~munx_truthy(munx_eq(args[1], args[2])))
    [] op = "add" /\ JoinsText(args[1], args[2]) ->
         munx_add_text(args[1], args[2])
    [] OTHER -> Number(op, args[1], args[2])

\* What a runtime function returns.  The functions on pipes and sleep are
\* seen through the trace of their calls; what a pipe yields is Null here.
Returns(callee, args, argv) ==
  CASE callee = "munx_fail" -> Aborts
    [] callee = "munx_concat" -> munx_concat(args[1], args[2])
    [] callee = "munx_to_string" -> munx_to_string(args[1])
    [] callee = "munx_argv_len" -> Int64(Len(argv))
    [] callee = "munx_argv_get" -> munx_argv_get(argv, args[1])
    [] OTHER -> Null

\* The calls an observer of the process sees, with their arguments.
Seen(callee, args) ==
  IF callee \in {"munx_concat", "munx_to_string", "munx_argv_len",
                 "munx_argv_get", "munx_fail"}
  THEN <<>> ELSE <<<<callee, args>>>>
=============================================================================
