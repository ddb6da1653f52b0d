---------------------------- MODULE JitOptimizer ----------------------------
(***************************************************************************)
(* What the JIT does to bytecode before it dispatches it: the constant     *)
(* folder and jump threader (optimize_bytecode) and the specialisation on  *)
(* a branch profile (apply_profile_optimization).                          *)
(***************************************************************************)
EXTENDS MunxBytecode, SequencesExt

CONSTANTS
  StrongEvents,     \* executions before a branch may be called biased: 32
  MatureEvents,     \* branch executions that make a profile mature: 256
  GenerationMarks   \* executions of a branch that start a generation:
                    \* 32, 128 and 512

ASSUME ProfileAssumption ==
  /\ StrongEvents \in Nat /\ MatureEvents \in Nat
  /\ GenerationMarks \subseteq Nat

\* A pass over the code is a function from the number of instructions done
\* to the singleton of what it has come to, which TLC evaluates step by step.
TheOne(singleton) == CHOOSE x \in singleton : TRUE

-----------------------------------------------------------------------------
(* Branch profiles *)

\* A site of a profile: how often the branch was taken and not taken.
Total(site) == site.taken + site.not_taken

strongly_taken(site) ==
  Total(site) >= StrongEvents /\ site.taken * 20 >= Total(site) * 19

strongly_not_taken(site) ==
  Total(site) >= StrongEvents /\ site.not_taken * 20 >= Total(site) * 19

EmptyProfile == [branches |-> <<>>, generation |-> 0, interpret_runs |-> 0]

record_branch(profile, pc, taken) ==
  LET old == IF pc \in DOMAIN profile.branches THEN profile.branches[pc]
             ELSE [taken |-> 0, not_taken |-> 0]
      new == IF taken THEN [old EXCEPT !.taken = @ + 1]
             ELSE [old EXCEPT !.not_taken = @ + 1]
  IN [profile EXCEPT
        !.branches = (pc :> new) @@ @,
        !.generation = IF Total(new) \in GenerationMarks THEN @ + 1 ELSE @]

is_mature(profile) ==
  LET events == FoldFunction(LAMBDA site, sum : sum + Total(site), 0,
                             profile.branches)
  IN events >= MatureEvents \/ profile.interpret_runs >= 1

\* A strongly biased branch becomes a POP, or a POP and a JMP; every other
\* instruction is copied.  No jump target is moved.
apply_profile_optimization(code, profile) ==
  LET sites == profile.branches
      biased(pc, which(_)) ==
        /\ code[pc + 1].op \in {"JMP_IF_FALSE", "JMP_IF_TRUE"}
        /\ pc \in DOMAIN sites
        /\ which(sites[pc])
      copy(out, pc) ==
        IF biased(pc, strongly_not_taken) THEN out \o Encode("POP", <<>>)
        ELSE IF biased(pc, strongly_taken)
        THEN out \o Encode("POP", <<>>) \o Encode("JMP", code[pc + 1].arg)
        ELSE out \o Encode(code[pc + 1].op, code[pc + 1].arg)
      pcs == PcSequence(code)
      done[n \in 0 .. Len(pcs)] ==
        IF n = 0 THEN {<<>>} ELSE {copy(out, pcs[n]) : out \in done[n - 1]}
  IN TheOne(done[Len(pcs)])

-----------------------------------------------------------------------------
(* Constant folding *)

\* The folder's state: the code emitted, where the instructions of the
\* source went, and the literals held back (pending) with the pc to record
\* for them when they are emitted.
NoPc == -1

FolderStart == [out |-> <<>>, remap |-> <<>>, pending |-> <<>>, pc |-> NoPc]

RecordPc(f, pc) == [f EXCEPT !.remap = (pc :> Len(f.out)) @@ @]

PushLiteral(v) ==
  Encode(IF v[1] = "bool" THEN "PUSH_BOOL" ELSE "PUSH_INT", v)

\* flush_pending
Flush(f) ==
  LET noted == IF f.pending # <<>> /\ f.pc # NoPc THEN RecordPc(f, f.pc) ELSE f
  IN IF f.pending = <<>> THEN f
     ELSE [noted EXCEPT
             !.out = @ \o FlattenSeq([i \in DOMAIN f.pending |->
                                        PushLiteral(f.pending[i])]),
             !.pending = <<>>, !.pc = NoPc]

Hold(f, vs, pc) == [f EXCEPT !.pending = vs, !.pc = pc]

HoldsInts(f, n) == Len(f.pending) = n /\ f.pending[1][1] = "int"
HoldsFlag(f) == Len(f.pending) = 1 /\ f.pending[1][1] = "bool"

\* try_fold_binary_int and try_fold_compare_int: <<>> when not folded.
Folded(op, a, b) ==
  CASE op = "DIV" /\ b = 0 -> <<>>
    [] op \in ArithmeticOps /\ ~(op = "DIV" /\ b = 0) ->
         <<Int64(Wrap(Exact(op, a, b)))>>
    [] op = "EQ" -> <<Flag(a = b)>>
    [] op \in OrderOps -> <<Flag(Ordered(op, a, b))>>

\* One turn of the folder's loop, for the instruction at pc.
Fold(f, pc, ins) ==
  LET foldable == ins.op \in ArithmeticOps \cup OrderOps \cup {"EQ"}
      emitted == Encode(ins.op, ins.arg)
      noted == RecordPc(f, pc)
      copied == LET flushed == RecordPc(Flush(f), pc)
                IN [flushed EXCEPT !.out = @ \o emitted]
  IN CASE ins.op = "PUSH_INT" ->
            IF HoldsInts(f, 1)
            THEN [f EXCEPT !.pending = Append(@, ins.arg)]
            ELSE IF HoldsInts(f, 2)
            THEN Hold(Flush(f), <<ins.arg>>, pc)
            ELSE Hold(f, <<ins.arg>>, pc)       \* a pending bool is dropped
       [] ins.op = "PUSH_BOOL" ->
            IF f.pending = <<>> THEN Hold(f, <<ins.arg>>, pc) ELSE copied
       [] foldable /\ HoldsInts(f, 2) ->
            LET value == Folded(ins.op, f.pending[1][2], f.pending[2][2])
            IN IF value # <<>> THEN Hold(noted, value, pc)
               ELSE [noted EXCEPT
                       !.out = @ \o PushLiteral(f.pending[1])
                                 \o PushLiteral(f.pending[2]) \o emitted,
                       !.pending = <<>>, !.pc = NoPc]
       [] foldable /\ HoldsInts(f, 1) ->
            [noted EXCEPT !.out = @ \o PushLiteral(f.pending[1]) \o emitted,
                          !.pending = <<>>, !.pc = NoPc]
       [] ins.op = "NOT" /\ HoldsFlag(f) ->
            [noted EXCEPT !.pending = <<Flag(~f.pending[1][2])>>]
       [] ins.op = "POP" /\ f.pending # <<>> ->
            [noted EXCEPT !.pending = <<>>, !.pc = NoPc]
       [] OTHER -> copied

\* (mutant) jumps keep their targets although the code moved
SameTarget(remap, pc) == pc

\* Where a jump to the source pc goes: where the instruction went, else
\* where the nearest recorded one before it went.
RemapTarget(remap, pc) ==
  LET before == {p \in DOMAIN remap : p <= pc}
  IN IF before = {} THEN pc
     ELSE remap[CHOOSE p \in before : \A q \in before : q <= p]

\* Follow a chain of at most 32 jumps from the target.
ThreadTarget(code, target) ==
  LET follow[n \in 0 .. 32, t \in Nat] ==
        IF n > 0 /\ Starts(code, t) /\ code[t + 1].op = "JMP"
        THEN follow[n - 1, code[t + 1].arg] ELSE t
  IN follow[32, target]

\* The first pass over a blob.
FoldedCode(code) ==
  LET pcs == PcSequence(code)
      folding[n \in 0 .. Len(pcs)] ==
        IF n = 0 THEN {FolderStart}
        ELSE {Fold(f, pcs[n], InstructionAt(code, pcs[n])) :
                f \in folding[n - 1]}
  IN Flush(TheOne(folding[Len(pcs)]))

\* The second pass rewrites the jumps in place, in order: a target is
\* threaded through the jumps as they stand when its turn comes.
optimize_bytecode(code) ==
  LET folded == FoldedCode(code)
      jumps == SelectSeq(PcSequence(folded.out),
                         LAMBDA pc : folded.out[pc + 1].op \in JumpOps)
      threading[n \in 0 .. Len(jumps)] ==
        IF n = 0 THEN {folded.out}
        ELSE {[done EXCEPT ![jumps[n] + 1].arg =
                 ThreadTarget(done, RemapTarget(folded.remap, @))] :
               done \in threading[n - 1]}
  IN TheOne(threading[Len(jumps)])

optimize_bytecode_with_profile(code, profile, pgo) ==
  IF pgo THEN optimize_bytecode(apply_profile_optimization(code, profile))
  ELSE optimize_bytecode(code)
=============================================================================
