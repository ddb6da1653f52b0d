----------------------------- MODULE AsmBackend -----------------------------
(***************************************************************************)
(* The assembler back end: MIR to x86-64 machine code (codegen.hpp) in the *)
(* encodings of x64.hpp.  The text has one slot per byte: the first byte   *)
(* of an instruction holds the decoded instruction, the others Byte, so    *)
(* that displacements and relocations count bytes as the code does.        *)
(***************************************************************************)
EXTENDS NativeRuntime, AsmLayout

-----------------------------------------------------------------------------
(* Encodings *)

Byte == [op |-> "byte"]

\* An instruction: registers r and s, displacement d off %rbp, operand n.
X(op) == [op |-> op, r |-> "", s |-> "", d |-> 0, n |-> 0]

push(r) == [X("push") EXCEPT !.r = r]
pop(r) == [X("pop") EXCEPT !.r = r]
mov_rr(dst, src) == [X("mov_rr") EXCEPT !.r = dst, !.s = src]
mov_ri64(r, n) == [X("mov_ri64") EXCEPT !.r = r, !.n = n]
mov_ri32(r, n) == [X("mov_ri32") EXCEPT !.r = r, !.n = n]
sub_rsp(n) == [X("sub_rsp") EXCEPT !.n = n]
store64_rbp(r, d) == [X("store64") EXCEPT !.r = r, !.d = d]
load64_rbp(r, d) == [X("load64") EXCEPT !.r = r, !.d = d]
load8z_rbp(r, d) == [X("load8z") EXCEPT !.r = r, !.d = d]
store8_al_rbp(d) == [X("store8_al") EXCEPT !.d = d]
store8i_rbp(d, n) == [X("store8i") EXCEPT !.d = d, !.n = n]
store64i_rbp(d, n) == [X("store64i") EXCEPT !.d = d, !.n = n]
test_al == X("test_al")
xor_eax == X("xor_eax")
ret == X("ret")
movq_xmm0 == X("movq_xmm0")
\* Branches carry the block they go to until it is patched; calls and the
\* address of a text carry a symbol until they are relocated.
jmp_rel32(block) == [X("jmp") EXCEPT !.n = block]
jne_rel32(block) == [X("jne") EXCEPT !.n = block]
call_plt(name) == [X("call_plt") EXCEPT !.n = name]
call_local(name) == [X("call_local") EXCEPT !.n = name]
lea_rip_symbol(r, name) == [X("lea_rip") EXCEPT !.r = r, !.n = name]

\* Positions, not code: a label, and the start of a MIR instruction.
Here(block) == [X("here") EXCEPT !.n = block]
Mark(pc) == [X("mark") EXCEPT !.n = pc]

High(r) == IF r \in {"R8", "R9"} THEN 1 ELSE 0     \* needs a REX prefix
Disp(d) == IF d \in -128 .. 127 THEN 1 ELSE 4

\* The bytes of an instruction.
Length(ins) ==
  CASE ins.op \in {"push", "pop"} -> 1 + High(ins.r)
    [] ins.op = "ret" -> 1
    [] ins.op \in {"test_al", "xor_eax"} -> 2
    [] ins.op = "mov_rr" -> 3
    [] ins.op = "store8_al" -> 2 + Disp(ins.d)
    [] ins.op \in {"load64", "store64"} -> 3 + Disp(ins.d)
    [] ins.op = "load8z" -> 3 + High(ins.r) + Disp(ins.d)
    [] ins.op = "store8i" -> 3 + Disp(ins.d)
    [] ins.op \in {"jmp", "call_plt", "call_local", "movq_xmm0"} -> 5
    [] ins.op = "jne" -> 6
    [] ins.op \in {"mov_ri32", "sub_rsp", "lea_rip"} -> 7
    [] ins.op = "store64i" -> 7 + Disp(ins.d)
    [] ins.op = "mov_ri64" -> 10
    [] ins.op = "adjust_argv" -> 45

-----------------------------------------------------------------------------
(* Values in memory and registers                                          *)

\* A slot holds a value as a tag byte and, 8 bytes up, its payload.
load_munx_to_pair(slot, tag, as) ==
  << load8z_rbp(tag, slot), load64_rbp(as, slot + 8) >>
store_munx_from_ret(slot) ==
  << store8_al_rbp(slot), store64_rbp("RDX", slot + 8) >>
zero_munx_slot(slot) == << store8i_rbp(slot, "null"), store64i_rbp(slot + 8, 0) >>
copy_munx_slot(dst, src) ==
  << load8z_rbp("RAX", src), store8_al_rbp(dst),
     load64_rbp("RDX", src + 8), store64_rbp("RDX", dst + 8) >>

-----------------------------------------------------------------------------
(* Code of a function *)

\* A value is passed in a pair of registers; there are three pairs.
TagRegs == <<"RDI", "RDX", "R8">>
AsRegs == <<"RSI", "RCX", "R9">>
MaxArgs == 3

is_void_callee(in) ==
  in.ty = "void" \/ in.x \in {"munx_fail", "munx_sleep", "munx_pipe_insert",
                              "munx_channel_insert"}

do_call(layout, name, locals, args, result) ==
  FlattenSeq([k \in DOMAIN args |->
                load_munx_to_pair(v_disp(layout, args[k]), TagRegs[k], AsRegs[k])])
    \o << IF name \in locals THEN call_local(name) ELSE call_plt(name) >>
    \o result

Leave == << mov_rr("RSP", "RBP"), pop("RBP"), ret >>

emit_const(v) ==
  (CASE v[1] = "int" -> << mov_ri64("RDI", v[2]), call_plt("munx_i64") >>
     [] v[1] = "f64" -> << mov_ri64("RAX", v[2]), movq_xmm0, call_plt("munx_f64") >>
     [] v[1] = "bool" -> << mov_ri32("RDI", v[2]), call_plt("munx_bool") >>
     [] v[1] = "str" -> << lea_rip_symbol("RDI", ".L" \o v[2]), call_plt("munx_string") >>
     [] v[1] = "null" -> << call_plt("munx_null") >>)

\* The code of one MIR instruction whose result has the slot dst.
emit_instr(fn, layout, locals, in, dst) ==
  LET v(k) == v_disp(layout, in.args[k])
      keep == store_munx_from_ret(dst)
  IN CASE in.op = "label" -> << Here(in.to[1]) >>
       [] in.op = "const" -> emit_const(in.x) \o keep
       [] in.op = "load_local" -> copy_munx_slot(dst, local_disp(layout, in.x))
       [] in.op = "store_local" -> copy_munx_slot(local_disp(layout, in.x), v(1))
       [] in.op = "print" -> do_call(layout, "munx_print", {}, in.args, <<>>)
       [] in.op = "println" -> << call_plt("munx_println") >>
       [] in.op = "call" ->
            do_call(layout, in.x, locals, in.args,
                    IF is_void_callee(in) THEN <<>> ELSE keep)
       [] in.op = "ret" ->
            (IF fn.init \/ in.ty = "void" THEN <<>>
             ELSE load_munx_to_pair(v(1), "RAX", "RDX")) \o Leave
       [] in.op = "br" -> << jmp_rel32(in.to[1]) >>
       [] in.op = "cbr" ->
            load_munx_to_pair(v(1), "RDI", "RSI")
              \o << call_plt("munx_truthy"), test_al,
                    jne_rel32(in.to[1]), jmp_rel32(in.to[2]) >>
       [] OTHER -> do_call(layout, "munx_" \o in.op, {}, in.args, keep)

\* Parameters are stored as they came, everything else is null.  Code is in
\* pieces, one for a local, a parameter, a result or a MIR instruction.
prologue(fn, layout) ==
  << << push("RBP"), mov_rr("RBP", "RSP"), sub_rsp(layout.frame_size) >> >>
    \o [i \in 1 .. layout.n_locals |-> zero_munx_slot(local_disp(layout, i - 1))]
    \o [i \in 1 .. fn.params |->
          << mov_rr("RAX", TagRegs[i]),
             store8_al_rbp(local_disp(layout, i - 1)),
             store64_rbp(AsRegs[i], local_disp(layout, i - 1) + 8) >>]
    \o [i \in 1 .. layout.n_vals |-> zero_munx_slot(v_disp(layout, i - 1))]

epilogue(fn) == (IF fn.init THEN <<>> ELSE << call_plt("munx_null") >>) \o Leave

FunctionCode(fn, locals) ==
  LET layout == make_layout(Len(fn.names), Len(fn.code))
  IN prologue(fn, layout)
       \o [i \in DOMAIN fn.code |->
            << Mark(i - 1) >>
              \o emit_instr(fn, layout, locals, fn.code[i], v_disp(layout, i - 1))]
       \o << epilogue(fn) >>

\* More values than register pairs do not compile.
TooManyArgs(fn) ==
  \/ fn.params > MaxArgs
  \/ \E i \in DOMAIN fn.code : fn.code[i].op = "call" /\ Len(fn.code[i].args) > MaxArgs

\* main keeps argc and argv, adjusts them (45 bytes in all, seen as one
\* instruction), starts the session and calls the initializers.
MainCode(functions) ==
  LET inits == InitsOf(functions) IN
  << << push("RBP"), mov_rr("RBP", "RSP"), sub_rsp(32), X("adjust_argv"),
        call_plt("munx_set_argv"), call_plt("munx_pipe_session_begin") >> >>
    \o [i \in DOMAIN inits |->
          << Mark(i - 1), call_local(functions[inits[i]].name) >>]
    \o << << Mark(Len(inits)), xor_eax >> \o Leave >>

-----------------------------------------------------------------------------
(* Placing code in the text *)

\* Placed code: its text, the place of every label (of the last one, if a
\* block is labelled twice) and those of the marks, from its first byte.
PlaceOne(ins) ==
  CASE ins.op = "here" -> [text |-> <<>>, labels |-> (ins.n :> 0), marks |-> <<>>]
    [] ins.op = "mark" -> [text |-> <<>>, labels |-> <<>>, marks |-> <<0>>]
    [] OTHER -> [text |-> [k \in 1 .. Length(ins) |-> IF k = 1 THEN ins ELSE Byte],
                 labels |-> <<>>, marks |-> <<>>]

Shifted(marks, n) == Table([i \in DOMAIN marks |-> marks[i] + n])

Behind(a, b) ==
  LET n == Len(a.text)
  IN [ text |-> a.text \o b.text,
       labels |-> [block \in DOMAIN b.labels |-> b.labels[block] + n] @@ a.labels,
       marks |-> a.marks \o Shifted(b.marks, n) ]

\* The parts put together in their order, half by half.
Together(join(_, _), parts) ==
  LET run[i \in DOMAIN parts, j \in DOMAIN parts] ==
        LET half == (i + j) \div 2
        IN IF i = j THEN parts[i] ELSE join(run[i, half], run[half + 1, j])
  IN run[1, Len(parts)]

Placed(code) ==
  Together(Behind, [p \in DOMAIN code |->
                      Together(Behind, [i \in DOMAIN code[p] |-> PlaceOne(code[p][i])])])

\* Where the field of four bytes is that an instruction ends with.
Field(ins) == Length(ins) - 4

\* (mutant) a displacement counts from its own field
FromField(ins, at, target) == [ins EXCEPT !.n = target - (at + Field(ins))]

\* patch_rel32: a displacement counts from the end of its instruction.
patch_rel32(ins, at, target) ==
  LET disp_off == at + Field(ins) IN [ins EXCEPT !.n = target - (disp_off + 4)]

Branches(text) == {k \in DOMAIN text : text[k].op \in {"jmp", "jne"}}

Patched(placed) ==
  [k \in DOMAIN placed.text |->
     LET ins == placed.text[k]
     IN IF ins.op \in {"jmp", "jne"}
        THEN patch_rel32(ins, k - 1, placed.labels[ins.n]) ELSE ins]

\* Every branch finds its label, or the function does not compile.
MissingLabel(placed) ==
  \E k \in Branches(placed.text) : placed.text[k].n \notin DOMAIN placed.labels

-----------------------------------------------------------------------------
(* The object image *)

Symbol(name, bind, is_text, value) ==
  [name |-> name, bind |-> bind, is_text |-> is_text, value |-> value]

\* A symbol for every function that is called and has none yet, in the order
\* of the calls.
need_undef(symbols, names) ==
  LET known == {symbols[i].name : i \in DOMAIN symbols}
      new == SelectSeq([i \in DOMAIN names |-> i],
                       LAMBDA i : /\ names[i] \notin known
                                  /\ \A k \in 1 .. i - 1 : names[k] # names[i])
  IN symbols \o [i \in DOMAIN new |->
                   Symbol(names[new[i]], "undefined", TRUE, 0)]

\* Calls and the addresses of texts are relocated: symbols by the offset.
Relocatable == {"call_plt", "call_local", "lea_rip"}
RelocationsOf(text, start) ==
  LET relocated == {k \in DOMAIN text : text[k].op \in Relocatable}
      owner == [at \in {start + k - 1 + Field(text[k]) : k \in relocated} |->
                  CHOOSE k \in at - start - 4 .. at - start + 1 :
                    k \in relocated /\ at = start + k - 1 + Field(text[k])]
  IN [at \in DOMAIN owner |-> text[owner[at]].n]

\* Add the code of a function to the image, with what it refers to and marks
\* for its MIR instructions.
AddFunction(img, name, code, bind) ==
  LET start == Len(img.text)
      placed == Placed(code)
      external == SelectSeq(placed.text, LAMBDA ins : ins.op = "call_plt")
      undefs == need_undef(img.symbols, [i \in DOMAIN external |-> external[i].n])
  IN IF MissingLabel(placed) THEN [img EXCEPT !.failed = TRUE]
     ELSE [ img EXCEPT
              !.text = @ \o Patched(placed),
              !.symbols = Append(undefs, Symbol(name, bind, TRUE, start)),
              !.relocs = RelocationsOf(placed.text, start) @@ @,
              !.marks = Append(@, Shifted(placed.marks, start)) ]

\* emit_object: the texts are local symbols of .rodata, which holds them one
\* after another, each with a byte behind it.
emit_object(module) ==
  LET locals == {module.functions[i].name : i \in DOMAIN module.functions}
      size(i) == FoldLeft(LAMBDA n, s : n + Len(s) + 1, 0,
                          SubSeq(module.strings, 1, i))
      empty == [ text |-> <<>>, relocs |-> <<>>, marks |-> <<>>,
                 failed |-> \E fn \in ToSet(module.functions) : TooManyArgs(fn),
                 symbols |-> [i \in DOMAIN module.strings |->
                   Symbol(".L" \o module.strings[i], "local", FALSE, size(i - 1))],
                 rodata |-> [size |-> size(Len(module.strings)),
                   texts |-> [at \in {size(i - 1) : i \in DOMAIN module.strings} |->
                     module.strings[CHOOSE i \in DOMAIN module.strings :
                                      size(i - 1) = at]]] ]
      all == FoldLeft(LAMBDA img, fn :
                        AddFunction(img, fn.name, FunctionCode(fn, locals), "local"),
                      empty, module.functions)
  IN IF empty.failed THEN empty
     ELSE AddFunction(all, "main", MainCode(module.functions), "global")
=============================================================================
