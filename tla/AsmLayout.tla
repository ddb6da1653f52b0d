----------------------------- MODULE AsmLayout ------------------------------
(***************************************************************************)
(* The stack frame of a function (fn_layout in codegen.hpp): 16 bytes for  *)
(* each local and each result, below the frame pointer.                    *)
(***************************************************************************)
EXTENDS Integers

SlotSize == 16

local_disp(L, i) == -((i + 1) * SlotSize)
v_disp(L, i) == -((L.n_locals + i + 1) * SlotSize)

\* (mutant) a frame with room for one more register
WithRegister(n_locals, n_vals) ==
  [n_locals |-> n_locals, n_vals |-> n_vals,
   frame_size |-> (n_locals + n_vals) * SlotSize + 40]

\* A frame has at least 32 bytes.
make_layout(n_locals, n_vals) ==
  LET size == ((((n_locals + n_vals) * SlotSize) + 15) \div 16) * 16
  IN [n_locals |-> n_locals, n_vals |-> n_vals,
      frame_size |-> IF size < 32 THEN 32 ELSE size]
=============================================================================
