---------------------------- MODULE MunxBytecode ----------------------------
(***************************************************************************)
(* Values and bytecode of the munx virtual machine.                        *)
(*                                                                         *)
(* A value is a tuple headed by its type.  A code blob is a sequence with  *)
(* one slot per byte: the slot of an opcode holds the decoded instruction, *)
(* the slots of its operand bytes hold Operand, so a pc of the source is   *)
(* an index here (pc p is slot p + 1) and a jump into the middle of an     *)
(* instruction can be told from a jump to one.                             *)
(***************************************************************************)
EXTENDS Integers, Sequences

CONSTANTS
  MaxInt,          \* the largest integer; int64_t scaled down for TLC
  CallDepthLimit   \* call_depth_limit, 512 in the code

ASSUME BytecodeAssumption ==
  MaxInt \in Nat \ {0} /\ CallDepthLimit \in Nat \ {0}

-----------------------------------------------------------------------------
(* Values *)

Null == <<"null">>
Int64(n) == <<"int", n>>
Flag(b) == <<"bool", b>>
Member(m) == <<"enum", m>>
Function(f) == <<"func", f>>
Builtin(b) == <<"builtin", b>>
Exception(kind) == <<"exn", kind>>

\* The payload of a raised fault, or none pending.
NoFault == <<"none">>

is_integral(v) == v[1] \in {"int", "bool"}

as_integer(v) ==
  IF v[1] = "bool" THEN (IF v[2] THEN 1 ELSE 0) ELSE v[2]

\* A function, a builtin and an exception are objects: true like any
\* value that is neither null nor a zero.
is_truthy(v) ==
  CASE v[1] = "bool" -> v[2]
    [] v[1] = "int" -> v[2] # 0
    [] OTHER -> v # Null

\* A function, a builtin or an exception equals nothing, not even itself.
values_equal(l, r) ==
  IF is_integral(l) /\ is_integral(r)
  THEN as_integer(l) = as_integer(r)
  ELSE l = r /\ l[1] \in {"null", "enum"}

\* (mutant) integers do not wrap, and so never overflow
Unbounded(n) == n

\* Two's complement: what an unchecked C++ operation leaves in the register.
Wrap(n) == ((n + MaxInt + 1) % (2 * MaxInt + 2)) - MaxInt - 1

Overflows(n) == Wrap(n) # n

\* C++ integer division truncates towards zero.
Quotient(a, b) ==
  LET size(n) == IF n < 0 THEN -n ELSE n
      magnitude == size(a) \div size(b)
  IN IF (a < 0) = (b < 0) THEN magnitude ELSE -magnitude

ArithmeticOps == {"ADD", "SUB", "MUL", "DIV"}
OrderOps == {"LT", "LE"}

\* The mathematical result of an arithmetic opcode; b # 0 for DIV.
Exact(op, a, b) ==
  CASE op = "ADD" -> a + b
    [] op = "SUB" -> a - b
    [] op = "MUL" -> a * b
    [] op = "DIV" -> Quotient(a, b)

Ordered(op, a, b) == IF op = "LT" THEN a < b ELSE a <= b

\* The blob of a package's top-level statements.
Initializer == "package"

-----------------------------------------------------------------------------
(* Instructions *)

\* Encoded size of each opcode: one byte, and its operands.
Size == [ PUSH_INT |-> 9, PUSH_BOOL |-> 2, PUSH_NULL |-> 1, PUSH_ENUM |-> 17,
          POP |-> 1, DUP |-> 1, LOAD |-> 9, STORE |-> 9,
          ADD |-> 1, SUB |-> 1, MUL |-> 1, DIV |-> 1,
          EQ |-> 1, LT |-> 1, LE |-> 1, NOT |-> 1,
          JMP |-> 5, JMP_IF_FALSE |-> 5, JMP_IF_TRUE |-> 5,
          CALL |-> 2, RET |-> 1, HALT |-> 1,
          MONITOR_ENTER |-> 5, MONITOR_EXIT |-> 1 ]

PushOps == {"PUSH_INT", "PUSH_BOOL", "PUSH_NULL", "PUSH_ENUM"}
JumpOps == {"JMP", "JMP_IF_FALSE", "JMP_IF_TRUE", "MONITOR_ENTER"}

Operand == [op |-> "operand"]

\* One instruction as the bytes it occupies.
Encode(op, arg) ==
  <<[op |-> op, arg |-> arg]>> \o [i \in 1 .. Size[op] - 1 |-> Operand]

\* Is there an instruction at pc?
Starts(code, pc) == pc \in 0 .. Len(code) - 1 /\ code[pc + 1].op # "operand"

InstructionAt(code, pc) == code[pc + 1]

\* The pcs of the instructions of a blob, as a set and in order.
Pcs(code) == {pc \in 0 .. Len(code) - 1 : Starts(code, pc)}
PcSequence(code) ==
  SelectSeq([i \in DOMAIN code |-> i - 1], LAMBDA pc : Starts(code, pc))
=============================================================================
