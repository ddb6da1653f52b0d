--------------------------- MODULE NativeMachine ----------------------------
(***************************************************************************)
(* What the C translation of a module does when it runs (c_emitter.hpp):   *)
(* every function has an array of locals and one variable per instruction, *)
(* all null at first; a label is a C label, a branch a goto, and main calls *)
(* the initializers of the imported packages, then the entry package's.    *)
(*                                                                         *)
(* This is also what the assembler back end is checked against.            *)
(***************************************************************************)
EXTENDS NativeRuntime

CONSTANTS
  Program,    \* names of compiled programs
  Module,     \* [Program -> MIR modules]
  Argv        \* the arguments of the process

VARIABLES
  program,    \* the program that runs
  frames,     \* the stack of calls, the running function last
  pending,    \* the initializers main has still to call, in order
  trace,      \* what the process did that can be seen, in order
  outcome     \* "running", or how the process ended

mirVars == <<program, frames, pending, trace, outcome>>

Functions_ == Module[program].functions

MirInit ==
  /\ program \in Program
  /\ frames = <<>>
  /\ pending = InitsOf(Module[program].functions)
  /\ trace = <<>>
  /\ outcome = "running"

-----------------------------------------------------------------------------

Top == Last(frames)
In == Functions_[Top.fn].code[Top.pc + 1]
Arg(k) == Top.v[In.args[k] + 1]
Args == [k \in DOMAIN In.args |-> Arg(k)]

AtOp(ops) == outcome = "running" /\ frames # <<>> /\ In.op \in ops

\* The running frame moves on; or the process ends where it is.
Become(frame) ==
  /\ frames' = Append(Front(frames), frame)
  /\ UNCHANGED <<program, pending, outcome>>
Stops(how) ==
  /\ outcome' = how
  /\ UNCHANGED <<program, frames, pending, trace>>

\* A label is no statement: the next instruction is the first one behind it.
Settled(frame, pc) ==
  LET code == Functions_[frame.fn].code
  IN [frame EXCEPT !.pc =
        CHOOSE k \in pc .. Len(code) - 1 :
          code[k + 1].op # "label" /\ \A j \in pc .. k - 1 : code[j + 1].op = "label"]
Ahead(frame) == Settled(frame, frame.pc + 1)
WithResult(frame, x) == Ahead([frame EXCEPT !.v[frame.pc + 1] = x])

\* The runtime answers a value, or does not return.
Answer(x, events) ==
  \/ /\ x = Aborts
     /\ Stops("aborted")
  \/ /\ x = Traps
     /\ Stops("crashed")
  \/ /\ x \notin {Aborts, Traps}
     /\ Become(IF In.ty = "void" THEN Ahead(Top) ELSE WithResult(Top, x))
     /\ trace' = trace \o events

\* A call of function i: parameters first, every other variable null.
Activation(i, args) ==
  LET f == Functions_[i]
  IN Settled([ fn |-> i, pc |-> 0,
               locals |-> [k \in 1 .. Len(f.names) |->
                             IF k <= f.params THEN args[k] ELSE Null],
               v |-> [k \in DOMAIN f.code |-> Null] ], 0)

\* The code position of a label in the running function.
LabelAt(block) ==
  (CHOOSE i \in DOMAIN Functions_[Top.fn].code :
     LET in == Functions_[Top.fn].code[i]
     IN in.op = "label" /\ in.to = <<block>>) - 1

-----------------------------------------------------------------------------

Initialise ==
  /\ outcome = "running" /\ frames = <<>> /\ pending # <<>>
  /\ frames' = <<Activation(Head(pending), <<>>)>>
  /\ pending' = Tail(pending)
  /\ UNCHANGED <<program, trace, outcome>>

Exit ==
  /\ outcome = "running" /\ frames = <<>> /\ pending = <<>>
  /\ Stops("ok")

Constant == AtOp({"const"}) /\ Answer(In.x, <<>>)

Load ==
  /\ AtOp({"load_local"})
  /\ Become(WithResult(Top, Top.locals[In.x + 1]))
  /\ UNCHANGED trace

Store ==
  /\ AtOp({"store_local"})
  /\ Become(Ahead([Top EXCEPT !.locals[In.x + 1] = Arg(1)]))
  /\ UNCHANGED trace

Operate ==
  /\ AtOp(NumberOps \cup CompareOps \cup {"neg", "not"})
  /\ Answer(Computes(In.op, Args), <<>>)

Prints ==
  /\ AtOp({"print", "println"})
  /\ Become(Ahead(Top))
  /\ trace' = Append(trace, <<"munx_" \o In.op, Args>>)

Callee(name) == {i \in DOMAIN Functions_ : Functions_[i].name = name}

CallRuntime ==
  /\ AtOp({"call"}) /\ Callee(In.x) = {}
  /\ Answer(Returns(In.x, Args, Argv), Seen(In.x, Args))

CallFunction_ ==
  /\ AtOp({"call"})
  /\ \E i \in Callee(In.x) :
       frames' = Append(frames, Activation(i, Args))
  /\ UNCHANGED <<program, pending, trace, outcome>>

\* The result goes to the variable of the call; an initializer has none.
Return_ ==
  /\ AtOp({"ret"})
  /\ frames' = IF Len(frames) = 1 THEN <<>>
               ELSE LET rest == Front(frames)
                    IN Append(Front(rest), WithResult(Last(rest), Arg(1)))
  /\ UNCHANGED <<program, pending, trace, outcome>>

Goto ==
  /\ AtOp({"br"})
  /\ Become(Settled(Top, LabelAt(In.to[1])))
  /\ UNCHANGED trace

Branch ==
  /\ AtOp({"cbr"})
  /\ Become(Settled(Top, LabelAt(In.to[IF munx_truthy(Arg(1)) THEN 1 ELSE 2])))
  /\ UNCHANGED trace

Ended == outcome # "running" /\ UNCHANGED mirVars

MirNext ==
  \/ Initialise \/ Exit \/ Constant \/ Load \/ Store \/ Operate \/ Prints
  \/ CallRuntime \/ CallFunction_ \/ Return_ \/ Goto \/ Branch \/ Ended

MirSpec == MirInit /\ [][MirNext]_mirVars
=============================================================================
