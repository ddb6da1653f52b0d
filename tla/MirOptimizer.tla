---------------------------- MODULE MirOptimizer ----------------------------
(***************************************************************************)
(* optimize_mir: constant folding, jump threading and the removal of pure  *)
(* operations nothing uses, function by function.  An instruction keeps    *)
(* its position, because positions name results.                           *)
(***************************************************************************)
EXTENDS MirBuilder, MunxBytecode

\* How far resolve follows branches to branches.
ThreadLimit == 32

At(code, id) == code[id + 1]

-----------------------------------------------------------------------------
(* Constant folding *)

IsConst(in, type) == in.op = "const" /\ in.x[1] = type

\* What a % b leaves: the remainder has the sign of the dividend.
Remainder(a, b) == a - b * Quotient(a, b)

Compared(op, a, b) ==
  CASE op = "eq" -> a = b
    [] op = "ne" -> a # b
    [] op = "lt" -> a < b
    [] op = "gt" -> a > b
    [] op = "le" -> a <= b
    [] op = "ge" -> a >= b

CompareOps == {"eq", "ne", "lt", "gt", "le", "ge"}
NumberOps == {"add", "sub", "mul", "div", "mod"}

\* Arithmetic on int64_t, which the build leaves to the processor: it wraps.
Arithmetic(op, a, b) ==
  Wrap(CASE op = "add" -> a + b
         [] op = "sub" -> a - b
         [] op = "mul" -> a * b
         [] op = "div" -> Quotient(a, b)
         [] op = "mod" -> Remainder(a, b))

\* try_fold_binary: the constant, or <<>> when the operands do not fold.
try_fold_binary(op, l, r) ==
  IF IsConst(l, "int") /\ IsConst(r, "int")
  THEN LET a == l.x[2]
           b == r.x[2]
       IN IF op \in CompareOps THEN <<Const(Flag(Compared(op, a, b)))>>
          ELSE IF op \in {"div", "mod"} /\ b = 0 THEN <<>>
          ELSE <<Const(Int64(Arithmetic(op, a, b)))>>
  ELSE IF IsConst(l, "bool") /\ IsConst(r, "bool") /\ op \in {"eq", "ne"}
  THEN <<Const(Flag((l.x = r.x) = (op = "eq")))>>
  ELSE <<>>

\* What an instruction becomes, given the code folded up to it.
Folded(code, in) ==
  CASE in.op = "neg" /\ IsConst(At(code, in.args[1]), "int") ->
         Const(Int64(Wrap(-At(code, in.args[1]).x[2])))
    [] in.op = "not" /\ IsConst(At(code, in.args[1]), "bool") ->
         Const(Flag(~At(code, in.args[1]).x[2]))
    [] in.op \in NumberOps \cup CompareOps ->
         LET value == try_fold_binary(in.op, At(code, in.args[1]),
                                      At(code, in.args[2]))
         IN IF value = <<>> THEN in ELSE value[1]
    [] in.op = "cbr" /\ IsConst(At(code, in.args[1]), "bool") ->
         Br(IF At(code, in.args[1]).x[2] THEN in.to[1] ELSE in.to[2])
    [] OTHER -> in

const_fold_function(code) ==
  FoldLeft(LAMBDA done, i : [done EXCEPT ![i] = Folded(done, @)],
           code, [i \in DOMAIN code |-> i])

-----------------------------------------------------------------------------
(* Jump threading *)

\* Where a block begins: the last label of that name (block_at).
BlockAt(code, block) ==
  Max({i \in DOMAIN code : code[i].op = "label" /\ code[i].to = <<block>>})

HasBlock(code, block) ==
  \E i \in DOMAIN code : code[i].op = "label" /\ code[i].to = <<block>>

\* The first instruction of a block that is not a label, or past the end.
FirstIn(code, block) ==
  Min({i \in BlockAt(code, block) .. Len(code) + 1 :
         i > Len(code) \/ code[i].op # "label"})

\* The block at the end of a chain of blocks that only branch.
resolve(code, block) ==
  LET follow[n \in 0 .. ThreadLimit, at \in Nat] ==
        LET i == FirstIn(code, at)
        IN IF n > 0 /\ HasBlock(code, at) /\ i <= Len(code) /\ code[i].op = "br"
           THEN follow[n - 1, code[i].to[1]] ELSE at
  IN follow[ThreadLimit, block]

\* Targets are rewritten in order, each through the code as it stands.
jump_thread_function(code) ==
  FoldLeft(LAMBDA done, i :
             [done EXCEPT ![i].to =
                IF done[i].op \in {"br", "cbr"}
                THEN Table([k \in DOMAIN @ |-> resolve(done, @[k])]) ELSE @],
           code, [i \in DOMAIN code |-> i])

-----------------------------------------------------------------------------
(* Dead code *)

has_side_effect(op) ==
  op \in {"store_local", "print", "println", "call", "ret", "br", "cbr", "label"}

\* (mutant) only what an effect needs directly counts as used
DirectlyUsed(code) ==
  UNION {ToSet(code[i].args) :
           i \in {k \in DOMAIN code : has_side_effect(code[k].op)}}

\* The results that something with an effect needs, directly or not.
UsedResults(code) ==
  LET needs(ids) ==
        ids \cup UNION {ToSet(At(code, id).args) : id \in ids}
      closure[n \in 0 .. Len(code)] ==
        IF n = 0
        THEN UNION {ToSet(code[i].args) :
                      i \in {k \in DOMAIN code : has_side_effect(code[k].op)}}
        ELSE needs(closure[n - 1])
  IN closure[Len(code)]

\* A pure operation without a use becomes a null.
dce_function(code) ==
  LET used == UsedResults(code)
  IN Table([i \in DOMAIN code |->
              IF \/ has_side_effect(code[i].op)
                 \/ code[i].op \in {"const", "load_local"}
                 \/ i - 1 \in used
              THEN code[i] ELSE Const(Null)])

optimize_mir(module) ==
  LET optimize(code) ==
        dce_function(jump_thread_function(const_fold_function(code)))
  IN [module EXCEPT !.functions =
        Table([i \in DOMAIN @ |-> [@[i] EXCEPT !.code = optimize(@)]])]
=============================================================================
