-------------------------- MODULE MunxMachineProps --------------------------
(***************************************************************************)
(* Properties of the virtual machine that can be stated on the machine     *)
(* alone, for whatever code it runs.                                       *)
(***************************************************************************)
EXTENDS MunxMachine

Payloads == {Exception(k) : k \in {"error", "overflow", "division_by_zero"}}

InRange(v) == v[1] = "int" => v[2] \in -MaxInt - 1 .. MaxInt

\* Type of the machine's state: every frame runs a blob of the image, in the
\* interpreter or on an existing unit, and an integer fits int64_t wherever
\* the program can read it.
TypeOK ==
  /\ program \in Program /\ mode \in Mode
  /\ outcome \in {"ready", "running", "ok", "failed", "crashed"}
  /\ fault \in {NoFault} \cup Payloads
  /\ \A x \in DOMAIN globals : InRange(globals[x])
  /\ \A i \in DOMAIN frames :
       LET f == frames[i] IN
       /\ f.fn \in Blob /\ f.pc \in Nat /\ f.unit \in 0 .. Len(units)
       /\ Len(f.ret) <= 1
       /\ \A k \in DOMAIN f.stack : InRange(f.stack[k])
       /\ \A x \in DOMAIN f.locals : InRange(f.locals[x])
       /\ \A m \in DOMAIN f.monitors : f.monitors[m].stack_depth \in Nat
  /\ \A fn \in Blob : cache[fn] \in 0 .. Len(units)

\* No instruction runs while a fault is pending: a pending fault is always on
\* its way out of a frame, to the caller or to the end of the run
\* (dispatch_runtime_trap and the checks after every opcode).  Without
\* warm-up: execute() hands a frame that failed to the JIT with its fault.
NoStrayFault ==
  mode.warmup = 0 /\ fault # NoFault => frames # <<>> /\ Top.ret # <<>>

\* The call depth stays within the limit whatever recurses into whatever,
\* through either tier: the package and CallDepthLimit functions.
RecursionBounded == Len(frames) <= CallDepthLimit + 1

-----------------------------------------------------------------------------
(* Code the JIT may fold *)

\* Folding is safe for a blob when every jump leads to an instruction the
\* folder recorded, and no literal bool is followed by a literal integer.
FoldsSafely(code) ==
  LET remap == FoldedCode(code).remap
      next(pc) == pc + Size[code[pc + 1].op]
  IN \A pc \in Pcs(code) :
       /\ code[pc + 1].op \in JumpOps => code[pc + 1].arg \in DOMAIN remap
       /\ code[pc + 1].op = "PUSH_BOOL" =>
            ~(Starts(code, next(pc)) /\ code[next(pc) + 1].op = "PUSH_INT")

\* The machine restricted to what it is trusted with: any code under the
\* interpreter, and in the JIT code that is safe to fold.
SafeInit == Init /\ (mode.jit => \A fn \in Blob : FoldsSafely(Source(fn).code))

\* The scheduler keeps running the thread; only stated of the interpreter,
\* where TLC can evaluate when a step is possible.
Interprets == ~mode.jit /\ (Run \/ Step)

Specialized == \E id \in DOMAIN units : units[id].profile_generation > 0

\* Neither of the two steps that change what a program does was taken: no
\* unit was specialised, and no frame was handed over at the end of a warm-up.
Trusted == mode.warmup = 0 /\ ~Specialized

-----------------------------------------------------------------------------
(* Invariants of trusted runs *)

\* Operands an instruction takes from the stack.
Takes(ins) ==
  CASE ins.op \in {"POP", "DUP", "STORE", "NOT", "JMP_IF_FALSE",
                   "JMP_IF_TRUE", "RET"} -> 1
    [] ins.op \in ArithmeticOps \cup OrderOps \cup {"EQ"} -> 2
    [] ins.op = "CALL" -> ins.arg + 1
    [] OTHER -> 0

\* Compiled code never underflows its operand stack, on any path through
\* conditions, loops, matches, breaks out of them and trap handlers, before
\* or after folding.
OperandsSuffice ==
  Dispatching /\ Trusted =>
    /\ Starts(CodeOf(Top), Top.pc)
    /\ Len(Top.stack) >= Takes(Instruction)

\* The regions of a blob that cover a pc, by the pc of their MONITOR_ENTER.
RegionsAt(code, pc) ==
  {e \in 0 .. pc - Size.MONITOR_ENTER :
     code[e + 1].op = "MONITOR_ENTER" /\ pc < code[e + 1].arg}

\* The pc of the instruction a frame is executing.
ExecutingPc(i) ==
  IF i < Len(frames) THEN frames[i].pc - Size.CALL ELSE frames[i].pc

\* A fault raised now would reach the trap the program text says, in every
\* active frame: the innermost monitor around the instruction, or the caller
\* when there is none ("unwind to the nearest monitor / trap in the current
\* frame, then to the caller").  Handlers left behind by a break or a return
\* out of a monitor never stand in the way.  A jump raises nothing, and the
\* one behind a MONITOR_EXIT still lies in the region it leaves.
TrapsFollowText ==
  Trusted =>
    \A i \in DOMAIN frames :
      frames[i].ret = <<>> /\ ~(i = Len(frames) /\ At({"JMP"})) =>
        LET f == frames[i]
            pc == ExecutingPc(i)
            armed == Covering(f.monitors, pc)
            regions == RegionsAt(CodeOf(f), pc)
        IN IF regions = {} THEN armed = <<>>
           ELSE /\ armed # <<>>
                /\ armed[Len(armed)].region_start =
                     (CHOOSE e \in regions : \A d \in regions : d <= e)
                       + Size.MONITOR_ENTER
                /\ armed[Len(armed)].stack_depth <= Len(f.stack)

\* Every interpreted run ends: no loop is entered again that the text would
\* have left, and no fault is raised again by its own handler.
RunEnds == ~mode.jit => <>(outcome \in {"ok", "failed", "crashed"})
=============================================================================
