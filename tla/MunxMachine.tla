---------------------------- MODULE MunxMachine -----------------------------
(***************************************************************************)
(* The virtual machine running one program: frames with their operand      *)
(* stacks, locals and monitors, the delivery of runtime faults to trap     *)
(* handlers, and the two tiers that execute a frame, the interpreter and   *)
(* the JIT with its code cache, warm-up and runtime profiles.              *)
(***************************************************************************)
EXTENDS JitOptimizer, FiniteSets

CONSTANTS
  Program,         \* the programs
  Image,           \* [Program -> images]: blobs by function name
  Mode             \* configurations [jit, pgo, warmup] of the environment

ASSUME MachineAssumption ==
  Mode \subseteq [jit : BOOLEAN, pgo : BOOLEAN, warmup : Nat]

VARIABLES
  program,    \* the program that runs
  image,      \* image_: its blobs
  mode,       \* MUNX_VM_JIT, MUNX_VM_PGO, MUNX_VM_JIT_WARMUP
  globals,    \* environment: values by name
  frames,     \* the active invocations, innermost last
  fault,      \* tls_runtime_fault: NoFault or its payload
  units,      \* the compiled_units, in order of creation
  cache,      \* jit_cache_: the unit of a blob, by function name
  profiles,   \* profile_registry: the interpreter's profile of each blob
  outcome     \* what the run came to: "running", "ok", "failed", "crashed"

vars == <<program, image, mode, globals, frames, fault, units, cache, profiles,
          outcome>>

jit_vars == <<units, cache, profiles>>

\* What a run never changes.
configuration == <<program, image, mode>>

Blob == DOMAIN image
Source(fn) == image[fn]

-----------------------------------------------------------------------------
(* Frames.  unit is 0 while the interpreter executes the frame; size is    *)
(* the length of the code the frame was started on, and ret is <<v>> once  *)
(* the dispatch loop was left with the value v.                            *)

Top == frames[Len(frames)]
Below == SubSeq(frames, 1, Len(frames) - 1)

CodeOf(f) == IF f.unit = 0 THEN Source(f.fn).code ELSE units[f.unit].code

Dispatching ==
  /\ outcome = "running" /\ frames # <<>>
  /\ Top.ret = <<>> /\ Top.pc < Len(CodeOf(Top))

\* The instruction the dispatch loop is at is one of ops.
At(ops) ==
  /\ Dispatching
  /\ Starts(CodeOf(Top), Top.pc)
  /\ InstructionAt(CodeOf(Top), Top.pc).op \in ops

Instruction == InstructionAt(CodeOf(Top), Top.pc)

\* The operand k from the top; null below the bottom, where pop() faults.
Peek(f, k) ==
  IF k > Len(f.stack) THEN Null ELSE f.stack[Len(f.stack) - k + 1]

Underflow(f, k) == IF k > Len(f.stack) THEN Exception("error") ELSE NoFault

Popped(f, k) ==
  [f EXCEPT !.stack = SubSeq(@, 1, IF k > Len(@) THEN 0 ELSE Len(@) - k)]

Pushed(f, v) == [f EXCEPT !.stack = Append(@, v)]

\* The frame past the instruction it is at.
Stepped(f) == [f EXCEPT !.pc = @ + Size[InstructionAt(CodeOf(f), f.pc).op]]

JumpedTo(f, target) == [f EXCEPT !.pc = target]

\* jump_target
OutOfCode(f, target) ==
  IF target > f.size THEN Exception("error") ELSE NoFault

-----------------------------------------------------------------------------
(* Faults *)

covers(monitor, pc) == pc >= monitor.region_start /\ pc < monitor.handler_pc

\* (mutant) handlers left behind stay armed
KeepsAllMonitors(monitors, pc) == monitors

\* The monitors left after dropping those that do not cover pc from the top.
Covering(monitors, pc) ==
  LET live == {i \in DOMAIN monitors : covers(monitors[i], pc)}
  IN SubSeq(monitors, 1,
            IF live = {} THEN 0
            ELSE CHOOSE i \in live : \A j \in live : j <= i)

\* (mutant) the operands under the monitor are lost
LosesOperands(stack, depth) == <<>>

Resized(stack, depth) ==
  [i \in 1 .. depth |-> IF i <= Len(stack) THEN stack[i] ELSE Null]

\* dispatch_runtime_trap: the frame continues at the innermost covering
\* handler with the payload on its stack.
Trapped(f, monitors, payload) ==
  LET handler == monitors[Len(monitors)]
  IN [f EXCEPT !.monitors = SubSeq(monitors, 1, Len(monitors) - 1),
               !.stack = Append(Resized(@, handler.stack_depth), payload),
               !.pc = handler.handler_pc]

\* (mutant) a trapped fault stays pending
FinishUncleared(under, f, pc, raised) ==
  LET pending == IF raised # NoFault THEN raised ELSE fault
      monitors == Covering(f.monitors, pc)
      trapped == pending # NoFault /\ monitors # <<>>
      left == [f EXCEPT !.monitors = <<>>, !.ret = <<Null>>]
  IN /\ frames' = Append(under, IF pending = NoFault THEN f
                               ELSE IF trapped THEN Trapped(f, monitors, pending)
                               ELSE left)
     /\ fault' = pending

\* What a dispatch loop does after the instruction at pc left the innermost
\* frame as f and raised a fault or none: go on, trap, or leave the frame.
Finish(under, f, pc, raised) ==
  LET pending == IF raised # NoFault THEN raised ELSE fault
      monitors == Covering(f.monitors, pc)
  IN IF pending = NoFault
     THEN /\ frames' = Append(under, f)
          /\ fault' = NoFault
     ELSE IF monitors # <<>>
     THEN /\ frames' = Append(under, Trapped(f, monitors, pending))
          /\ fault' = NoFault
     ELSE /\ frames' = Append(under, [f EXCEPT !.monitors = <<>>,
                                               !.ret = <<Null>>])
          /\ fault' = pending

Continue(f, raised) == Finish(Below, f, Top.pc, raised)

-----------------------------------------------------------------------------
(* The code cache *)

Unit(code, compiled, profile) ==
  [code |-> code, profile_generation |-> compiled, runtime_profile |-> profile]

stale_runtime(unit) ==
  /\ mode.pgo
  /\ is_mature(unit.runtime_profile)
  /\ unit.profile_generation < unit.runtime_profile.generation

\* get_jit_unit: the unit for a blob, and the units and the cache after it.
\* A stale unit is specialised in place, under the frames that run it.
get_jit_unit(fn) ==
  LET id == cache[fn]
      profile == profiles[fn]
      fresh == Unit(optimize_bytecode_with_profile(
                      Source(fn).code, profile,
                      mode.pgo /\ is_mature(profile)),
                    IF is_mature(profile) THEN profile.generation ELSE 0,
                    EmptyProfile)
  IN IF id # 0 /\ stale_runtime(units[id])
     THEN [unit |-> id, cache |-> cache,
           units |-> [units EXCEPT
             ![id] = Unit(apply_profile_optimization(
                            @.code, @.runtime_profile),
                          @.runtime_profile.generation,
                          @.runtime_profile)]]
     ELSE IF id # 0 /\ (~mode.pgo
                        \/ units[id].profile_generation >= profile.generation)
     THEN [unit |-> id, cache |-> cache, units |-> units]
     ELSE [unit |-> Len(units) + 1,
           cache |-> [cache EXCEPT ![fn] = Len(units) + 1],
           units |-> Append(units, fresh)]

Frame(fn, arguments, unit, size) ==
  [fn |-> fn, pc |-> 0, stack |-> arguments,
   locals |-> [x \in {Source(fn).params[i] : i \in DOMAIN Source(fn).params}
                 |-> Null],
   monitors |-> <<>>, unit |-> unit, size |-> size, ret |-> <<>>]

WarmingUp(fn) == mode.warmup > 0 /\ profiles[fn].interpret_runs < mode.warmup

\* execute(): start a frame in the tier its blob has reached.
Enter(under, fn, arguments) ==
  /\ IF mode.jit /\ ~WarmingUp(fn)
     THEN \E got \in {get_jit_unit(fn)} :
          /\ units' = got.units
          /\ cache' = got.cache
          /\ frames' = Append(under, Frame(fn, arguments, got.unit,
                                           Len(got.units[got.unit].code)))
          /\ UNCHANGED profiles
     ELSE /\ frames' = Append(under, Frame(fn, arguments, 0,
                                           Len(Source(fn).code)))
          /\ profiles' = IF mode.jit
                         THEN [profiles EXCEPT ![fn].interpret_runs = @ + 1]
                         ELSE profiles
          /\ UNCHANGED <<units, cache>>
  /\ UNCHANGED fault

-----------------------------------------------------------------------------
(* The machine starts: register_functions and install_prelude fill the     *)
(* globals, and run() executes the package initializer.                    *)

Init ==
  /\ program \in Program
  /\ image = Image[program]
  /\ mode \in Mode
  /\ globals = [x \in (Blob \ {Initializer}) \cup {"fail"} |->
                  IF x = "fail" THEN Builtin(x) ELSE Function(x)]
  /\ frames = <<>>
  /\ fault = NoFault
  /\ units = <<>>
  /\ cache = [fn \in Blob |-> 0]
  /\ profiles = [fn \in Blob |-> EmptyProfile]
  /\ outcome = "ready"

Run ==
  /\ outcome = "ready"
  /\ Enter(<<>>, Initializer, <<>>)
  /\ outcome' = "running"
  /\ UNCHANGED <<configuration, globals>>

-----------------------------------------------------------------------------
(* Instructions *)

\* What an instruction leaves alone that does not touch the environment or
\* the profiles.
Plain == UNCHANGED <<configuration, globals, jit_vars, outcome>>

Push ==
  /\ At(PushOps)
  /\ Continue(Pushed(Stepped(Top), Instruction.arg), NoFault)
  /\ Plain

Pop ==
  /\ At({"POP"})
  /\ Continue(Popped(Stepped(Top), 1), Underflow(Top, 1))
  /\ Plain

Dup ==
  /\ At({"DUP"})
  /\ Continue(Pushed(Stepped(Top), Peek(Top, 1)), Underflow(Top, 1))
  /\ Plain

\* load_name: a local, else a global; the initializer has no locals.
Load ==
  /\ At({"LOAD"})
  /\ LET x == Instruction.arg
         local == Top.fn # Initializer /\ x \in DOMAIN Top.locals
         known == local \/ x \in DOMAIN globals
         value == IF local THEN Top.locals[x]
                  ELSE IF known THEN globals[x] ELSE Null
     IN Continue(Pushed(Stepped(Top), value),
                 IF known THEN NoFault ELSE Exception("error"))
  /\ Plain

\* store_name: an existing local, else an existing global, else a new local;
\* the initializer always stores a global.
Store ==
  /\ At({"STORE"})
  /\ LET x == Instruction.arg
         value == Peek(Top, 1)
         global == \/ Top.fn = Initializer
                   \/ x \notin DOMAIN Top.locals /\ x \in DOMAIN globals
         f == Popped(Stepped(Top), 1)
     IN /\ globals' = IF global THEN (x :> value) @@ globals ELSE globals
        /\ Continue(IF global THEN f
                    ELSE [f EXCEPT !.locals = (x :> value) @@ @],
                    Underflow(Top, 1))
  /\ UNCHANGED <<configuration, jit_vars, outcome>>

Numbers(l, r) == is_integral(l) /\ is_integral(r)

\* a / b with no representable result, which the machine computes anyway.
Undefined(op, a, b) ==
  op = "DIV" /\ (b # 0 => Overflows(Quotient(a, b)))

\* What is no number counts as 0.0 behind the error it raises, and dividing
\* by that raises again, over the first.
NotNumbers(op, r) ==
  IF op = "DIV" /\ (~is_integral(r) \/ as_integer(r) = 0)
  THEN Exception("division_by_zero") ELSE Exception("error")

\* binary_arithmetic on integers: checked addition, subtraction and
\* multiplication.
Arithmetic ==
  /\ At(ArithmeticOps)
  /\ LET op == Instruction.op
         l == Peek(Top, 2)
         r == Peek(Top, 1)
         a == as_integer(l)
         b == as_integer(r)
         f == Popped(Stepped(Top), 2)
     IN IF ~Numbers(l, r)
        THEN Continue(Pushed(f, Null), NotNumbers(op, r))
        ELSE /\ ~Undefined(op, a, b)
             /\ Continue(Pushed(f, Int64(Wrap(Exact(op, a, b)))),
                         IF Overflows(Exact(op, a, b))
                         THEN Exception("overflow") ELSE NoFault)
  /\ Plain

\* The division follows its own check: throw_division_by_zero records the
\* fault and returns, and then the hardware divides.  What that does is
\* undefined: the process dies of SIGFPE, or the quotient is arbitrary and
\* the fault (none for an overflowing quotient) is delivered.
DivideUndefined ==
  /\ At({"DIV"})
  /\ LET l == Peek(Top, 2)
         r == Peek(Top, 1)
     IN /\ Numbers(l, r)
        /\ Undefined("DIV", as_integer(l), as_integer(r))
        /\ \/ /\ outcome' = "crashed"
              /\ UNCHANGED <<frames, fault>>
           \/ /\ Continue(Pushed(Popped(Stepped(Top), 2), Int64(0)),
                          IF as_integer(r) = 0
                          THEN Exception("division_by_zero") ELSE NoFault)
              /\ UNCHANGED outcome
  /\ UNCHANGED <<configuration, globals, jit_vars>>

Equal ==
  /\ At({"EQ"})
  /\ Continue(Pushed(Popped(Stepped(Top), 2),
                     Flag(values_equal(Peek(Top, 2), Peek(Top, 1)))),
              Underflow(Top, 2))
  /\ Plain

Compare ==
  /\ At(OrderOps)
  /\ LET l == Peek(Top, 2)
         r == Peek(Top, 1)
         f == Popped(Stepped(Top), 2)
     IN IF Numbers(l, r)
        THEN Continue(Pushed(f, Flag(Ordered(Instruction.op, as_integer(l),
                                             as_integer(r)))), NoFault)
        ELSE Continue(Pushed(f, Null), Exception("error"))
  /\ Plain

Negate ==
  /\ At({"NOT"})
  /\ Continue(Pushed(Popped(Stepped(Top), 1), Flag(~is_truthy(Peek(Top, 1)))),
              Underflow(Top, 1))
  /\ Plain

JumpAlways ==
  /\ At({"JMP"})
  /\ Continue(JumpedTo(Top, Instruction.arg), OutOfCode(Top, Instruction.arg))
  /\ Plain

\* A conditional jump also feeds the profile of the tier it runs in.
Branch ==
  /\ At({"JMP_IF_FALSE", "JMP_IF_TRUE"})
  /\ LET target == Instruction.arg
         taken == is_truthy(Peek(Top, 1)) = (Instruction.op = "JMP_IF_TRUE")
         f == Popped(Stepped(Top), 1)
     IN /\ Continue(IF taken THEN JumpedTo(f, target) ELSE f,
                    IF Top.stack = <<>> THEN Underflow(Top, 1)
                    ELSE OutOfCode(Top, target))
        /\ IF Top.unit = 0
           THEN /\ profiles' = [profiles EXCEPT ![Top.fn] =
                                  record_branch(@, Top.pc, taken)]
                /\ UNCHANGED units
           ELSE /\ units' = [units EXCEPT ![Top.unit].runtime_profile =
                               record_branch(@, Top.pc, taken)]
                /\ UNCHANGED profiles
  /\ UNCHANGED <<configuration, globals, cache, outcome>>

\* (mutant) the guard of the call depth is one too late
WithinOneMore == Len(frames) <= CallDepthLimit + 1

\* The guard of call_function: the package is the first of the frames.
WithinDepth == Len(frames) <= CallDepthLimit

\* call_value: a function is entered when its arity and the call depth
\* allow; the builtin fail raises; nothing else can be called.
CallValue ==
  /\ At({"CALL"})
  /\ LET n == Instruction.arg
         callee == Peek(Top, n + 1)
         arguments == [i \in 1 .. n |-> Peek(Top, n - i + 1)]
         f == Popped(Stepped(Top), n + 1)
         enters == /\ callee[1] = "func"
                   /\ Len(Source(callee[2]).params) = n
                   /\ WithinDepth
     IN IF enters
        THEN Enter(Append(Below, f), callee[2], arguments)
        ELSE /\ Continue(Pushed(f, Null), Exception("error"))
             /\ UNCHANGED jit_vars
  /\ UNCHANGED <<configuration, globals, outcome>>

\* RET and HALT leave the dispatch loop with a value.
Leave ==
  /\ At({"RET", "HALT"})
  /\ LET returns == Instruction.op = "RET"
         f == Stepped(Top)
         pc == IF Top.unit = 0 THEN f.pc ELSE Top.size
     IN /\ frames' = Append(Below,
              [Popped(f, IF returns THEN 1 ELSE 0) EXCEPT
                 !.pc = pc,
                 !.ret = <<IF returns THEN Peek(Top, 1) ELSE Null>>])
        /\ fault' = IF returns /\ Underflow(Top, 1) # NoFault
                    THEN Underflow(Top, 1) ELSE fault
  /\ Plain

MonitorEnter ==
  /\ At({"MONITOR_ENTER"})
  /\ LET handler == Instruction.arg
         f == Stepped(Top)
     IN Continue([f EXCEPT !.monitors =
                    Append(@, [region_start |-> f.pc, handler_pc |-> handler,
                               stack_depth |-> Len(f.stack)])],
                 OutOfCode(Top, handler))
  /\ Plain

MonitorExit ==
  /\ At({"MONITOR_EXIT"})
  /\ LET f == Stepped(Top)
     IN Continue([f EXCEPT !.monitors =
                    IF @ = <<>> THEN @ ELSE SubSeq(@, 1, Len(@) - 1)],
                 NoFault)
  /\ Plain

\* The JIT has no handler for a pc inside an instruction.
MissingHandler ==
  /\ Dispatching
  /\ Top.unit # 0
  /\ ~Starts(CodeOf(Top), Top.pc)
  /\ Continue(Top, Exception("error"))
  /\ Plain

\* The end of the code leaves the dispatch loop with null.
FallOff ==
  /\ outcome = "running" /\ frames # <<>>
  /\ Top.ret = <<>> /\ Top.pc >= Len(CodeOf(Top))
  /\ frames' = Append(Below, [Top EXCEPT !.ret = <<Null>>])
  /\ UNCHANGED fault
  /\ Plain

-----------------------------------------------------------------------------
(* Leaving a frame *)

Left == outcome = "running" /\ frames # <<>> /\ Top.ret # <<>>

\* The end of the warm-up: the run that completes it is over when execute()
\* hands the same frame to the JIT.
EndsWarmup == mode.jit /\ Top.unit = 0 /\ ~WarmingUp(Top.fn)

TierUp ==
  /\ Left /\ EndsWarmup
  /\ \E got \in {get_jit_unit(Top.fn)} :
       /\ units' = got.units
       /\ cache' = got.cache
       /\ frames' = Append(Below,
            [Top EXCEPT !.unit = got.unit, !.ret = <<>>,
                        !.size = Len(got.units[got.unit].code)])
  /\ UNCHANGED <<configuration, globals, fault, profiles, outcome>>

\* The value goes to the caller, or null in its place under a fault, which
\* is then the caller's at its CALL.
ReturnToCaller ==
  /\ Left /\ ~EndsWarmup /\ Len(frames) > 1
  /\ LET caller == frames[Len(frames) - 1]
         value == IF fault = NoFault THEN Top.ret[1] ELSE Null
     IN Finish(SubSeq(frames, 1, Len(frames) - 2), Pushed(caller, value),
               caller.pc - Size.CALL, NoFault)
  /\ Plain

\* run() reports a fault nobody trapped and ends.
EndRun ==
  /\ Left /\ ~EndsWarmup /\ Len(frames) = 1
  /\ frames' = <<>>
  /\ outcome' = IF fault = NoFault THEN "ok" ELSE "failed"
  /\ fault' = NoFault
  /\ UNCHANGED <<configuration, globals, jit_vars>>

Ended == outcome \in {"ok", "failed", "crashed"} /\ UNCHANGED vars

-----------------------------------------------------------------------------

Step ==
  \/ Push \/ Pop \/ Dup \/ Load \/ Store
  \/ Arithmetic \/ DivideUndefined \/ Equal \/ Compare \/ Negate
  \/ JumpAlways \/ Branch \/ CallValue \/ Leave
  \/ MonitorEnter \/ MonitorExit \/ MissingHandler \/ FallOff
  \/ TierUp \/ ReturnToCaller \/ EndRun

Next == Run \/ Step \/ Ended

Spec == Init /\ [][Next]_vars
=============================================================================
