--------------------------- MODULE AsmLayoutProofs ---------------------------
(***************************************************************************)
(* The stack frames the assembler back end lays out, for functions of any  *)
(* size: what NativeProps checks on programs rests on these facts.         *)
(***************************************************************************)
EXTENDS AsmLayout, TLAPS

\* The slots of a layout, by the distance of their first byte from %rbp.
Locals(L) == {local_disp(L, i) : i \in 0 .. L.n_locals - 1}
Values(L) == {v_disp(L, i) : i \in 0 .. L.n_vals - 1}

\* A slot reaches from its first byte up; two of them share no byte.
Apart(a, b) == a + SlotSize <= b \/ b + SlotSize <= a

\* Rounding up to 16 changes nothing, so that the frame is exactly its slots,
\* or the least frame.
LEMMA FrameIsItsSlots ==
  ASSUME NEW n_locals \in Nat, NEW n_vals \in Nat
  PROVE  LET L == make_layout(n_locals, n_vals)
             slots == (n_locals + n_vals) * 16
         IN /\ L.n_locals = n_locals
            /\ L.n_vals = n_vals
            /\ L.frame_size = IF slots < 32 THEN 32 ELSE slots
<1> DEFINE n == n_locals + n_vals
<1>1. n \in Nat
  OBVIOUS
<1>2. ((n * 16 + 15) \div 16) * 16 = n * 16
  BY <1>1
<1> QED
  BY <1>2 DEF make_layout, SlotSize

\* make_layout: the frame keeps %rsp on a multiple of 16 once %rbp is pushed,
\* and is never below its least size.
THEOREM FrameKeepsAlignment ==
  ASSUME NEW n_locals \in Nat, NEW n_vals \in Nat
  PROVE  LET L == make_layout(n_locals, n_vals)
         IN /\ L.frame_size \in Nat
            /\ L.frame_size % 16 = 0
            /\ L.frame_size >= 32
<1> DEFINE n == n_locals + n_vals
           L == make_layout(n_locals, n_vals)
<1>1. n \in Nat /\ n * 16 \in Nat /\ (n * 16) % 16 = 0 /\ 32 % 16 = 0
  OBVIOUS
<1>2. L.frame_size = IF n * 16 < 32 THEN 32 ELSE n * 16
  BY FrameIsItsSlots
<1> HIDE DEF L
<1>3. L.frame_size \in Nat /\ L.frame_size % 16 = 0 /\ L.frame_size >= 32
  <2>1. CASE n * 16 < 32
    BY <2>1, <1>1, <1>2
  <2>2. CASE ~(n * 16 < 32)
    BY <2>2, <1>1, <1>2
  <2> QED
    BY <2>1, <2>2
<1> QED
  BY <1>3 DEF L

\* Every slot lies in the frame: below the saved %rbp, not below %rsp.
THEOREM SlotsInFrame ==
  ASSUME NEW n_locals \in Nat, NEW n_vals \in Nat
  PROVE  LET L == make_layout(n_locals, n_vals)
         IN \A a \in Locals(L) \cup Values(L) :
              a \in Int /\ -L.frame_size <= a /\ a + SlotSize <= 0
<1> DEFINE L == make_layout(n_locals, n_vals)
<1>1. /\ L.n_locals = n_locals /\ L.n_vals = n_vals
      /\ L.frame_size \in Int
      /\ (n_locals + n_vals) * 16 <= L.frame_size
  <2> DEFINE slots == (n_locals + n_vals) * 16
  <2>1. slots \in Int
    OBVIOUS
  <2>2. L.frame_size = IF slots < 32 THEN 32 ELSE slots
    BY FrameIsItsSlots
  <2>3. L.n_locals = n_locals /\ L.n_vals = n_vals
    BY FrameIsItsSlots
  <2> HIDE DEF L, slots
  <2>4. L.frame_size \in Int /\ slots <= L.frame_size
    BY <2>1, <2>2
  <2> QED
    BY <2>3, <2>4 DEF slots
<1> HIDE DEF L
<1>2. ASSUME NEW i \in 0 .. L.n_locals - 1
      PROVE  /\ local_disp(L, i) \in Int
             /\ -L.frame_size <= local_disp(L, i)
             /\ local_disp(L, i) + SlotSize <= 0
  BY <1>1 DEF local_disp, SlotSize
<1>3. ASSUME NEW i \in 0 .. L.n_vals - 1
      PROVE  /\ v_disp(L, i) \in Int
             /\ -L.frame_size <= v_disp(L, i)
             /\ v_disp(L, i) + SlotSize <= 0
  BY <1>1 DEF v_disp, SlotSize
<1>4. \A a \in Locals(L) \cup Values(L) :
        a \in Int /\ -L.frame_size <= a /\ a + SlotSize <= 0
  BY <1>2, <1>3 DEF Locals, Values
<1> QED
  BY <1>4 DEF L

\* No two slots share a byte (local_disp and v_disp): two different locals,
\* two different results, and a local and a result each have slots apart, so
\* that storing a result never overwrites a local or another result.
THEOREM SlotsApart ==
  ASSUME NEW n_locals \in Nat, NEW n_vals \in Nat
  PROVE  LET L == make_layout(n_locals, n_vals)
             locals == 0 .. n_locals - 1
             vals == 0 .. n_vals - 1
         IN /\ \A i, j \in locals :
                 i # j => Apart(local_disp(L, i), local_disp(L, j))
            /\ \A i, j \in vals :
                 i # j => Apart(v_disp(L, i), v_disp(L, j))
            /\ \A i \in locals, j \in vals :
                 Apart(local_disp(L, i), v_disp(L, j))
<1> DEFINE L == make_layout(n_locals, n_vals)
           locals == 0 .. n_locals - 1
           vals == 0 .. n_vals - 1
<1>1. L.n_locals = n_locals /\ L.n_vals = n_vals
  BY FrameIsItsSlots
<1> HIDE DEF L
<1>2. ASSUME NEW i \in locals, NEW j \in locals, i # j
      PROVE  Apart(local_disp(L, i), local_disp(L, j))
  <2>1. i < j \/ j < i
    BY <1>2
  <2> QED
    BY <2>1, <1>1 DEF Apart, local_disp, SlotSize
<1>3. ASSUME NEW i \in vals, NEW j \in vals, i # j
      PROVE  Apart(v_disp(L, i), v_disp(L, j))
  <2>1. i < j \/ j < i
    BY <1>3
  <2> QED
    BY <2>1, <1>1 DEF Apart, v_disp, SlotSize
<1>4. ASSUME NEW i \in locals, NEW j \in vals
      PROVE  Apart(local_disp(L, i), v_disp(L, j))
  <2>1. i + 1 <= n_locals
    OBVIOUS
  <2> QED
    BY <2>1, <1>1 DEF Apart, local_disp, v_disp, SlotSize
<1> QED
  BY <1>2, <1>3, <1>4 DEF L
=============================================================================
