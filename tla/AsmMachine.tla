----------------------------- MODULE AsmMachine -----------------------------
(***************************************************************************)
(* The assembler back end's program when it runs: the linked text on a     *)
(* machine with registers and a stack.  A step runs from one mark (the     *)
(* start of a MIR instruction, or of a call of main) to the next, so that  *)
(* the stack can be read as the frames of NativeMachine between steps.     *)
(* The runtime's functions leave junk in every register they may change    *)
(* and below the stack pointer.                                            *)
(***************************************************************************)
EXTENDS ObjectFile

CONSTANTS
  Source,   \* the packages of programs, by the programs' names
  Target,   \* what is compiled: <<program, whether optimised, object format>>
  Argv      \* the arguments of the process behind its name

\* compile_to_executable: a program that does not build has no object, nor one
\* with a call of too many arguments or a branch without its label.
Succeeding(results) ==
  Table([t \in {t \in DOMAIN results : ~results[t].failed} |-> results[t]])
Optimised(module, wanted) ==
  IF module.failed \/ ~wanted THEN module ELSE optimize_mir(module)
Built(t) == Optimised(build(Source[t[1]]), t[2])
Module == Succeeding(Table([t \in Target |-> Built(t)]))
Emitted(modules) == Succeeding(Table([t \in DOMAIN modules |-> emit_object(modules[t])]))
Serialized(emitted) == Table([t \in DOMAIN emitted |-> write_object(emitted[t], t[3])])
Object == Serialized(Emitted(Module))
LoadedAll(objects) == Table([t \in DOMAIN objects |-> Loaded(objects[t], t[3])])
Images == LoadedAll(Object)
Program == DOMAIN Images

VARIABLES
  program,     \* the target that runs
  cpu,         \* registers, stack, and what the process did
  stack        \* the stack read: the frames of the running calls, and the
               \* initializers main has still to call

vars == <<program, cpu, stack>>

Junk == "junk"
Registers == [RAX |-> Junk, RCX |-> Junk, RDX |-> Junk, RSI |-> Junk, RDI |-> Junk,
              R8 |-> Junk, R9 |-> Junk, XMM0 |-> Junk, RSP |-> Junk, RBP |-> Junk]
ExitAddress == -1

\* Stack addresses are negative and multiples of 8; the stack is kept as far
\* as it was written.
Cell(address) == -(address \div 8)
OnStack(m, address) == address % 8 = 0 /\ Cell(address) \in DOMAIN m.mem
Read(m, address) == IF OnStack(m, address) THEN m.mem[Cell(address)] ELSE Junk
Write(m, address, x) ==
  LET new == Cell(address) - Len(m.mem)
  IN IF new <= 0 THEN [m EXCEPT !.mem[Cell(address)] = x]
     ELSE [m EXCEPT !.mem = @ \o [i \in 1 .. new |-> IF i = new THEN x ELSE Junk]]

\* The tag and the payload of a value, and the value they make.
TagOf(v) == v[1]
PayloadOf(v) == IF v = Null THEN 0 ELSE v[2]
Value(tag, payload) == IF tag = "null" THEN Null ELSE <<tag, payload>>

-----------------------------------------------------------------------------
(* The runtime's functions, as the processor calls them                    *)

Arity(name) ==
  CASE name \in {"munx_add", "munx_sub", "munx_mul", "munx_div", "munx_mod",
                 "munx_eq", "munx_ne", "munx_lt", "munx_gt", "munx_le",
                 "munx_ge", "munx_concat", "munx_pipe_open",
                 "munx_pipe_insert", "munx_channel_insert"} -> 2
    [] name \in {"munx_neg", "munx_not", "munx_print", "munx_truthy",
                 "munx_fail", "munx_sleep", "munx_to_string", "munx_argv_get",
                 "munx_channel_open", "munx_pipe_extract",
                 "munx_channel_extract"} -> 1
    [] OTHER -> 0

Received(m, name) ==
  [k \in 1 .. Arity(name) |-> Value(m.reg[TagRegs[k]], m.reg[AsRegs[k]])]

Operators == [o \in {"munx_" \o op : op \in NumberOps \cup CompareOps
                                             \cup {"neg", "not"}} |->
                CHOOSE op \in NumberOps \cup CompareOps \cup {"neg", "not"} :
                  o = "munx_" \o op]

\* What a function answers; munx_truthy answers a flag in one register.
Answers(image, m, name) ==
  LET args == Received(m, name)
  IN CASE name = "munx_i64" -> Int64(m.reg["RDI"])
       [] name = "munx_f64" -> Double(m.reg["XMM0"])
       [] name = "munx_bool" -> Flag(m.reg["RDI"])
       [] name = "munx_string" -> Str(TextOf(image, m.reg["RDI"]))
       [] name = "munx_truthy" -> <<munx_truthy(args[1]), Junk>>
       [] name \in DOMAIN Operators -> Computes(Operators[name], args)
       [] OTHER -> Returns(name, args, m.argv)

Events(m, name) ==
  IF name \in {"munx_print", "munx_println"} THEN <<<<name, Received(m, name)>>>>
  ELSE IF name \in DOMAIN Operators \cup
            {"munx_i64", "munx_f64", "munx_bool", "munx_string", "munx_null",
             "munx_truthy", "munx_set_argv", "munx_pipe_session_begin"}
  THEN <<>> ELSE Seen(name, Received(m, name))

\* Everything a function may change, with its answer.
Clobbered(m, answer) ==
  [m EXCEPT
     !.reg = [Registers EXCEPT !["RSP"] = m.reg["RSP"], !["RBP"] = m.reg["RBP"],
                               !["RAX"] = TagOf(answer), !["RDX"] = PayloadOf(answer)],
     !.mem = SubSeq(@, 1, Min({Len(@), Cell(m.reg["RSP"])}))]

\* The runtime needs the stack pointer on a multiple of 16 when it is called.
CallImport(image, m, name) ==
  LET answer == Answers(image, m, name)
      aligned == [m EXCEPT !.aligned = @ /\ m.reg["RSP"] % 16 = 0]
      argv == [aligned EXCEPT
                 !.argv = IF name = "munx_set_argv"
                          THEN SubSeq(Argv, m.reg["RSI"], m.reg["RDI"]) ELSE @]
  IN CASE answer = Aborts -> [aligned EXCEPT !.outcome = "aborted"]
       [] answer = Traps -> [aligned EXCEPT !.outcome = "crashed"]
       [] OTHER -> [Clobbered(argv, answer) EXCEPT
                      !.rip = @ + 5, !.trace = @ \o Events(m, name)]

-----------------------------------------------------------------------------
(* Instructions                                                            *)

Push(m, x) == LET sp == m.reg["RSP"] - 8
              IN Write([m EXCEPT !.reg["RSP"] = sp], sp, x)

\* The instruction ins at the instruction pointer, which runs on to next.
One(image, m, ins) ==
  LET next == m.rip + Length(ins)
      at == m.reg["RBP"] + ins.d
      n == [m EXCEPT !.rip = next]
  IN CASE ins.op = "push" -> Push(n, m.reg[ins.r])
       [] ins.op = "pop" ->
            [n EXCEPT !.reg[ins.r] = Read(m, m.reg["RSP"]),
                      !.reg["RSP"] = @ + 8]
       [] ins.op = "ret" ->
            [m EXCEPT !.rip = Read(m, m.reg["RSP"]), !.reg["RSP"] = @ + 8]
       [] ins.op = "mov_rr" -> [n EXCEPT !.reg[ins.r] = m.reg[ins.s]]
       [] ins.op \in {"mov_ri64", "mov_ri32"} -> [n EXCEPT !.reg[ins.r] = ins.n]
       [] ins.op = "lea_rip" -> [n EXCEPT !.reg[ins.r] = ins.n.at]
       [] ins.op = "sub_rsp" -> [n EXCEPT !.reg["RSP"] = @ - ins.n]
       [] ins.op = "store64" -> Write(n, at, m.reg[ins.r])
       [] ins.op = "store8_al" -> Write(n, at, m.reg["RAX"])
       [] ins.op \in {"store8i", "store64i"} -> Write(n, at, ins.n)
       [] ins.op \in {"load64", "load8z"} -> [n EXCEPT !.reg[ins.r] = Read(m, at)]
       [] ins.op = "movq_xmm0" -> [n EXCEPT !.reg["XMM0"] = m.reg["RAX"]]
       [] ins.op = "test_al" -> [n EXCEPT !.zf = ~m.reg["RAX"]]
       [] ins.op = "xor_eax" -> [n EXCEPT !.reg["RAX"] = 0]
       [] ins.op = "jmp" -> [n EXCEPT !.rip = next + ins.n]
       [] ins.op = "jne" -> IF m.zf THEN n ELSE [n EXCEPT !.rip = next + ins.n]
       [] ins.op \in {"call_plt", "call_local"} ->
            IF ins.n.import = "" THEN [Push(n, next) EXCEPT !.rip = ins.n.at]
            ELSE CallImport(image, m, ins.n.import)
       [] ins.op = "adjust_argv" ->
            [n EXCEPT !.reg["RDI"] = IF @ <= 0 THEN 0 ELSE @ - 1,
                      !.reg["RSI"] = IF m.reg["RDI"] <= 0 THEN @ ELSE @ + 1]
       \* Inside an instruction, or outside the text.
       [] OTHER -> [m EXCEPT !.outcome = "crashed"]

Stopped(image, m) ==
  \/ m.outcome # "running"
  \/ m.rip \in image.stops

\* main's caller ends the process when main returns.
Ending(m) ==
  IF m.outcome = "running" /\ m.rip = ExitAddress
  THEN [m EXCEPT !.outcome = "ok"] ELSE m

RECURSIVE Continue(_, _)
Continue(image, m) ==
  LET at == m.rip + 1
      ins == IF at \in DOMAIN image.text THEN image.text[at] ELSE Byte
      next == Ending(One(image, m, ins))
  IN IF Stopped(image, next) THEN next ELSE Continue(image, next)

-----------------------------------------------------------------------------
(* What the stack shows                                                    *)

\* The function and the MIR instruction an address of the text belongs to:
\* marks and functions are in the order of the text.
FunctionAt(image, address) ==
  LET begun == {f \in DOMAIN image.marks : image.marks[f][1] <= address}
  IN IF begun = {} THEN 1 ELSE Cardinality(begun)
InstructionAt_(image, f, address) ==
  LET begun == {k \in DOMAIN image.marks[f] : image.marks[f][k] <= address}
  IN IF begun = {} THEN 0 ELSE Cardinality(begun) - 1
IsMain(image, f) == f = Len(image.marks)

ValueAt(m, address) == Value(Read(m, address), Read(m, address + 8))

FrameAt(fn, f, pc, m, rbp) ==
  LET layout == make_layout(Len(fn.names), Len(fn.code))
  IN [ fn |-> f, pc |-> pc,
       locals |-> [k \in DOMAIN fn.names |->
                     ValueAt(m, rbp + local_disp(layout, k - 1))],
       v |-> [k \in DOMAIN fn.code |->
                ValueAt(m, rbp + v_disp(layout, k - 1))] ]

\* The calls from main to the address at, in the frame at rbp; a caller is
\* inside the call its return address is behind.
RECURSIVE StackFrom(_, _, _, _, _)
StackFrom(functions, image, m, rbp, at) ==
  LET f == FunctionAt(image, at)
  IN IF IsMain(image, f)
     THEN [frames |-> <<>>, call |-> InstructionAt_(image, f, at)]
     ELSE LET below == StackFrom(functions, image, m, Read(m, rbp),
                                 Read(m, rbp + 8) - 1)
          IN [below EXCEPT !.frames =
                Append(@, FrameAt(functions[f], f, InstructionAt_(image, f, at),
                                  m, rbp))]

Shown(p, image, m) ==
  LET functions == Module[p].functions
      inits == InitsOf(functions)
      calls == StackFrom(functions, image, m, m.reg["RBP"], m.rip)
      called == IF calls.frames = <<>> THEN calls.call ELSE calls.call + 1
  IN IF m.rip = ExitAddress THEN [frames |-> <<>>, pending |-> <<>>]
     ELSE [frames |-> calls.frames,
           pending |-> SubSeq(inits, called + 1, Len(inits))]

-----------------------------------------------------------------------------

\* The process starts in main, whose return address is on the stack; argc
\* counts the name of the program, argv points at it.
Start(image) ==
  [ rip |-> image.entry,
    reg |-> [Registers EXCEPT !["RSP"] = -8, !["RDI"] = Len(Argv) + 1, !["RSI"] = 0],
    mem |-> <<ExitAddress>>,
    zf |-> FALSE, argv |-> <<>>, trace |-> <<>>, outcome |-> "running",
    aligned |-> TRUE ]

\* The run up to the first call of main is what a process does before the
\* program begins.
Init ==
  \E p \in Program :
    /\ program = p
    /\ cpu = Continue(Images[p], Start(Images[p]))
    /\ stack = [frames |-> <<>>, pending |-> InitsOf(Module[p].functions)]

Step ==
  /\ cpu.outcome = "running"
  /\ cpu' = Continue(Images[program], cpu)
  /\ stack' = Shown(program, Images[program], cpu')
  /\ UNCHANGED program

Over == cpu.outcome # "running" /\ UNCHANGED vars

Next == Step \/ Over
Spec == Init /\ [][Next]_vars

\* The C translation of the same module: the specification to implement.
Mir == INSTANCE NativeMachine
  WITH frames <- stack.frames, pending <- stack.pending,
       trace <- cpu.trace, outcome <- cpu.outcome

=============================================================================
