---------------------------- MODULE LlvmEmitter -----------------------------
(***************************************************************************)
(* The LLVM back end (llvm_emitter.hpp): the text it writes for a function,*)
(* line by line.  A line is seen as the numbered value it defines, those   *)
(* it uses, and where it goes if it ends a block; LLVM itself asks that    *)
(* values are numbered in order, that a block ends once, and that a branch *)
(* finds its block.                                                        *)
(***************************************************************************)
EXTENDS AsmBackend

\* The names of blocks.
L(block) == <<"L", block>>
Bunreach(i) == <<"Bunreach", i>>
Lbody == <<"Lbody">>

Line(op, def, uses, to) == [op |-> op, def |-> def, uses |-> uses, to |-> to]
LabelLine(name) == Line("label", {}, {}, <<name>>)
BrLine(name) == Line("br", {}, {}, <<name>>)
UseLine(uses) == Line("use", {}, uses, <<>>)       \* a store, or a void call
RetLine(uses) == Line("ret", {}, uses, <<>>)

Terminates(line) == line.op \in {"br", "cbr", "ret"}

\* Text written so far: its lines, and the number of the next value.
Write_(r, line) == [r EXCEPT !.lines = Append(@, line)]
Define(r, uses) ==
  [r EXCEPT !.lines = Append(@, Line("def", {r.tmp}, uses, <<>>)), !.tmp = @ + 1]
Latest(r) == r.tmp - 1

store_call_result(r, uses) ==
  LET called == Define(r, uses) IN Write_(called, UseLine({Latest(called)}))

\* A value loaded, and taken apart into its tag and its payload.
load_mv_parts(r) ==
  LET loaded == Define(r, {})
  IN Define(Define(loaded, {Latest(loaded)}), {Latest(loaded)})
Parts(r) == {Latest(r) - 1, Latest(r)}

\* The values of a list of operands, all loaded ahead of their use.
RECURSIVE LoadAll(_, _)
LoadAll(r, n) ==
  IF n = 0 THEN [text |-> r, parts |-> {}]
  ELSE LET one == load_mv_parts(r)
           rest == LoadAll(one, n - 1)
       IN [rest EXCEPT !.parts = @ \cup Parts(one)]
Apply_(r, in) ==
  LET operands == LoadAll(r, Len(in.args))
  IN IF in.op = "call" /\ is_void_callee(in)
     THEN Write_(operands.text, UseLine(operands.parts))
     ELSE store_call_result(operands.text, operands.parts)

\* The address of a local, a value loaded, and a store between them.
CopyLocal(r, loads_local) ==
  LET address == Define(r, {})
      loaded == Define(address, IF loads_local THEN {Latest(address)} ELSE {})
  IN Write_(loaded, UseLine(IF loads_local THEN {Latest(loaded)}
                            ELSE {Latest(address), Latest(loaded)}))

ReturnLines(r, init, in) ==
  LET value == Define(r, {})        \* loaded, or a null without an operand
  IN IF init \/ in.ty = "void" THEN Write_(r, RetLine({}))
     ELSE Write_(value, RetLine({Latest(value)}))

BranchLines(r, in) ==
  LET parts == load_mv_parts(r)
      cond == Define(parts, Parts(parts))
  IN Write_(cond, Line("cbr", {}, {Latest(cond)}, <<L(in.to[1]), L(in.to[2])>>))

\* (mutant) a return does not end a block
BranchesOnly(in) == in.op \in {"br", "cbr"}

is_terminator(in) == in.op \in {"br", "cbr", "ret"}

\* A label ends the block before it, unless a terminator did.
LabelLines(r, code, i) ==
  LET falls == i > 1 /\ ~r.need_block /\ ~is_terminator(code[i - 1])
      ended == IF falls THEN Write_(r, BrLine(L(code[i].to[1]))) ELSE r
  IN [Write_(ended, LabelLine(L(code[i].to[1]))) EXCEPT !.need_block = FALSE]

\* Code behind a terminator gets a block that nothing goes to.
InstructionLines(r, fn, i) ==
  LET in == fn.code[i]
      at == IF r.need_block
            THEN [Write_(r, LabelLine(Bunreach(i - 1))) EXCEPT !.need_block = FALSE]
            ELSE r
      written ==
        CASE in.op = "const" ->
               IF in.x[1] = "str"
               THEN LET loaded == Define(at, {})
                    IN Write_(loaded, UseLine({Latest(loaded)}))
               ELSE store_call_result(at, {})
          [] in.op \in {"load_local", "store_local"} ->
               CopyLocal(at, in.op = "load_local")
          [] in.op = "print" ->
               LET parts == load_mv_parts(at) IN Write_(parts, UseLine(Parts(parts)))
          [] in.op = "println" -> Write_(at, UseLine({}))
          [] in.op = "ret" -> ReturnLines(at, fn.init, in)
          [] in.op = "br" -> Write_(at, BrLine(L(in.to[1])))
          [] in.op = "cbr" -> BranchLines(at, in)
          [] OTHER -> Apply_(at, in)
  IN IF is_terminator(in) THEN [written EXCEPT !.need_block = TRUE] ELSE written

\* Every local is null first, then the parameters are stored.
Prologue_(fn) ==
  LET null(r, k) ==
        LET address == Define(r, {})
            value == Define(address, {})
        IN Write_(value, UseLine({Latest(address), Latest(value)}))
      param(r, k) ==
        LET address == Define(r, {})
            pair == Define(Define(address, {}), {Latest(address) + 1})
        IN Write_(pair, UseLine({Latest(address), Latest(pair)}))
      up_to(n) == [k \in 1 .. n |-> k]
      start == [tmp |-> 0, lines |-> <<LabelLine(<<"entry">>)>>, need_block |-> FALSE]
      locals == FoldLeft(null, start, up_to(Len(fn.names)))
      stored == FoldLeft(param, locals, up_to(fn.params))
  IN IF Head(fn.code).op = "label"
     THEN Write_(stored, BrLine(L(Head(fn.code).to[1])))
     ELSE Write_(Write_(stored, BrLine(Lbody)), LabelLine(Lbody))

emit_function_body(fn) ==
  LET step(r, i) == IF fn.code[i].op = "label" THEN LabelLines(r, fn.code, i)
                    ELSE InstructionLines(r, fn, i)
      body == FoldLeft(step, Prologue_(fn), [i \in DOMAIN fn.code |-> i])
  IN IF is_terminator(Last(fn.code)) THEN body.lines
     ELSE ReturnLines(body, fn.init, Ret(<<>>, "value")).lines

-----------------------------------------------------------------------------
(* Blocks *)

BlockStarts(lines) == {k \in DOMAIN lines : lines[k].op = "label"}
\* The lines from a label to the next one.
BlockFrom(lines, k) ==
  LET later == {j \in BlockStarts(lines) : j > k}
  IN k .. (IF later = {} THEN Len(lines) ELSE Min(later) - 1)
NameAt(lines, k) == lines[k].to[1]

\* Values are numbered in the order of their definitions, and used in the
\* block that defines them.
NumberedInOrder(lines) ==
  LET defs == SelectSeq(lines, LAMBDA line : line.def # {})
  IN \A i \in DOMAIN defs : defs[i].def = {i - 1}
UsedWhereDefined(lines) ==
  \A k \in BlockStarts(lines) : \A j \in BlockFrom(lines, k) :
    lines[j].uses \subseteq UNION {lines[i].def : i \in k .. j - 1}

\* A block ends with its only terminator, and every branch finds its block.
BlocksEndOnce(lines) ==
  \A k \in BlockStarts(lines) :
    {j \in BlockFrom(lines, k) : Terminates(lines[j])} = {Max(BlockFrom(lines, k))}
BranchesFindBlocks(lines) ==
  /\ \A k, j \in BlockStarts(lines) :
       NameAt(lines, k) = NameAt(lines, j) => k = j
  /\ \A k \in DOMAIN lines :
       lines[k].op \in {"br", "cbr"} =>
         ToSet(lines[k].to) \subseteq {NameAt(lines, j) : j \in BlockStarts(lines)}

\* Where the MIR goes from a label: to the label that follows, or where its
\* first terminator goes.
FlowFrom(code, i) ==
  LET ends == CHOOSE j \in i + 1 .. Len(code) + 1 :
                /\ j > Len(code) \/ is_terminator(code[j]) \/ code[j].op = "label"
                /\ \A h \in i + 1 .. j - 1 :
                     ~is_terminator(code[h]) /\ code[h].op # "label"
  IN IF ends > Len(code) THEN {} ELSE {L(b) : b \in ToSet(code[ends].to)}
=============================================================================
