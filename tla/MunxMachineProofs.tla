--------------------------- MODULE MunxMachineProofs ---------------------------
(***************************************************************************)
(* Proofs that faults are never left pending over an instruction and that  *)
(* recursion is bounded, for every set of programs and every image.        *)
(***************************************************************************)
EXTENDS MunxMachineProps, SequenceTheorems, TLAPS

\* A sequence of whatever elements.
IsSequence(s) == \E S : s \in Seq(S)

FrameFields == {"fn", "pc", "stack", "locals", "monitors", "unit", "size", "ret"}

\* The JIT runs every frame from its first instruction.
Compiled == mode.jit /\ ~(mode.warmup > 0)

FrameOk(f) == DOMAIN f = FrameFields /\ (Compiled => f.unit # 0)

FrameList(s) == IsSequence(s) /\ \A i \in 1 .. Len(s) : FrameOk(s[i])

\* A fault of a machine without warm-up is on its way out of the last frame.
Leaving(s, f) == f # NoFault => s # <<>> /\ s[Len(s)].ret # <<>>

-----------------------------------------------------------------------------
(* Sequences *)

\* An element put on a sequence is its last, and the others stay.
LEMMA Appended ==
  ASSUME NEW s, NEW e, IsSequence(s)
  PROVE  /\ IsSequence(Append(s, e))
         /\ Len(s) \in Nat
         /\ Len(Append(s, e)) = Len(s) + 1
         /\ Append(s, e)[Len(s) + 1] = e
         /\ \A i \in 1 .. Len(s) : Append(s, e)[i] = s[i]
         /\ Append(s, e) # <<>>
<1>1. PICK S : s \in Seq(S)
  BY DEF IsSequence
<1>2. s \in Seq(S \cup {e}) /\ e \in S \cup {e}
  BY <1>1
<1>3. Append(s, e) \in Seq(S \cup {e})
  BY <1>2
<1>4. IsSequence(Append(s, e))
  BY <1>3 DEF IsSequence
<1>5. QED
  BY <1>2, <1>4

\* The first elements of a sequence are a sequence of them.
LEMMA Prefixed ==
  ASSUME NEW s, IsSequence(s), NEW n \in 0 .. Len(s)
  PROVE  /\ IsSequence(SubSeq(s, 1, n))
         /\ Len(SubSeq(s, 1, n)) = n
         /\ \A i \in 1 .. n : SubSeq(s, 1, n)[i] = s[i]
<1>1. PICK S : s \in Seq(S)
  BY DEF IsSequence
<1>2. SubSeq(s, 1, n) \in Seq(S)
  BY <1>1
<1>3. IsSequence(SubSeq(s, 1, n))
  BY <1>2 DEF IsSequence
<1>4. QED
  BY <1>1, <1>3

\* Replacing an element changes no other.
LEMMA Replaced ==
  ASSUME NEW s, NEW i, NEW e, IsSequence(s)
  PROVE  IsSequence([s EXCEPT ![i] = e])
<1>1. PICK S : s \in Seq(S)
  BY DEF IsSequence
<1>2. CASE i \in DOMAIN s
  <2>1. s \in Seq(S \cup {e}) /\ e \in S \cup {e} /\ i \in 1 .. Len(s)
    BY <1>1, <1>2
  <2>2. [s EXCEPT ![i] = e] \in Seq(S \cup {e})
    BY <2>1, ExceptSeq
  <2>3. QED
    BY <2>2 DEF IsSequence
<1>3. CASE i \notin DOMAIN s
  <2>1. s = [j \in 1 .. Len(s) |-> s[j]] /\ DOMAIN s = 1 .. Len(s)
    BY <1>1
  <2>2. [s EXCEPT ![i] = e] = s
    BY <1>3, <2>1
  <2>3. QED
    BY <2>2
<1>4. QED
  BY <1>2, <1>3

\* Frames stay frames when one is put on them, which is then the innermost.
LEMMA FramePut ==
  ASSUME NEW s, NEW f, FrameList(s), FrameOk(f)
  PROVE  /\ FrameList(Append(s, f))
         /\ Len(Append(s, f)) = Len(s) + 1
         /\ Append(s, f) # <<>>
         /\ Append(s, f)[Len(Append(s, f))] = f
BY Appended DEF FrameList

\* The frames below some depth are frames.
LEMMA FramesTaken ==
  ASSUME NEW s, FrameList(s), NEW n \in 0 .. Len(s)
  PROVE  FrameList(SubSeq(s, 1, n)) /\ Len(SubSeq(s, 1, n)) = n
BY Prefixed DEF FrameList

\* What the instructions do to a frame leaves it one.
LEMMA FrameKept ==
  ASSUME NEW f, FrameOk(f)
  PROVE  /\ FrameOk(Stepped(f))
         /\ \A k : FrameOk(Popped(f, k))
         /\ \A v : FrameOk(Pushed(f, v))
         /\ \A target : FrameOk(JumpedTo(f, target))
         /\ \A ms : FrameOk([f EXCEPT !.monitors = ms])
         /\ \A xs : FrameOk([f EXCEPT !.locals = xs])
         /\ \A ms, r : /\ FrameOk([f EXCEPT !.monitors = ms, !.ret = r])
                       /\ [f EXCEPT !.monitors = ms, !.ret = r].ret = r
         /\ \A ms, payload : FrameOk(Trapped(f, ms, payload))
BY DEF FrameOk, FrameFields, Stepped, Popped, Pushed, JumpedTo, Trapped

-----------------------------------------------------------------------------
(* The dispatch loop after an instruction *)

\* After an instruction the innermost frame either goes on without a
\* fault pending, or is left.
LEMMA Finishing ==
  ASSUME NEW under, NEW f, NEW pc, NEW raised,
         FrameList(under), FrameOk(f), Finish(under, f, pc, raised)
  PROVE  /\ FrameList(frames')
         /\ Len(frames') = Len(under) + 1
         /\ Leaving(frames', fault')
<1> DEFINE pending == IF raised # NoFault THEN raised ELSE fault
           monitors == Covering(f.monitors, pc)
           left == [f EXCEPT !.monitors = <<>>, !.ret = <<Null>>]
<1>1. CASE pending = NoFault
  BY <1>1, FramePut DEF Finish, Leaving
<1>2. CASE pending # NoFault /\ monitors # <<>>
  <2>1. frames' = Append(under, Trapped(f, monitors, pending)) /\ fault' = NoFault
    BY <1>2 DEF Finish
  <2>2. FrameOk(Trapped(f, monitors, pending))
    BY FrameKept
  <2>3. QED
    BY <2>1, <2>2, FramePut DEF Leaving
<1>3. CASE pending # NoFault /\ monitors = <<>>
  <2>1. frames' = Append(under, left)
    BY <1>3 DEF Finish
  <2>2. FrameOk(left) /\ left.ret = <<Null>>
    BY FrameKept
  <2>3. QED
    BY <2>1, <2>2, FramePut DEF Leaving
<1>4. QED
  BY <1>1, <1>2, <1>3

-----------------------------------------------------------------------------
(* Entering a frame *)

\* The code cache always gives a unit, and keeps the sequence of units one.
LEMMA CacheGives ==
  ASSUME NEW fn, IsSequence(units)
  PROVE  get_jit_unit(fn).unit # 0 /\ IsSequence(get_jit_unit(fn).units)
<1> DEFINE id == cache[fn]
           profile == profiles[fn]
           fresh == Unit(optimize_bytecode_with_profile(
                           Source(fn).code, profile,
                           mode.pgo /\ is_mature(profile)),
                         IF is_mature(profile) THEN profile.generation ELSE 0,
                         EmptyProfile)
           again == Unit(apply_profile_optimization(
                           units[id].code, units[id].runtime_profile),
                         units[id].runtime_profile.generation,
                         units[id].runtime_profile)
<1> HIDE DEF fresh, again
<1>1. IsSequence([units EXCEPT ![id] = again])
  BY Replaced
<1>2. IsSequence(Append(units, fresh)) /\ Len(units) + 1 # 0
  BY Appended
<1>3. CASE id # 0 /\ stale_runtime(units[id])
  BY <1>1, <1>3 DEF get_jit_unit, again
<1>4. CASE /\ ~(id # 0 /\ stale_runtime(units[id]))
           /\ id # 0
           /\ ~mode.pgo \/ units[id].profile_generation >= profile.generation
  BY <1>4 DEF get_jit_unit
<1>5. CASE /\ ~(id # 0 /\ stale_runtime(units[id]))
           /\ ~(/\ id # 0
                /\ ~mode.pgo \/ units[id].profile_generation >= profile.generation)
  BY <1>2, <1>5 DEF get_jit_unit, fresh
<1>6. QED
  BY <1>3, <1>4, <1>5

\* A frame that is entered is put on the others, compiled when it has to be.
LEMMA Entering ==
  ASSUME NEW under, NEW fn, NEW arguments,
         FrameList(under), IsSequence(units), Enter(under, fn, arguments)
  PROVE  /\ FrameList(frames')
         /\ Len(frames') = Len(under) + 1
         /\ IsSequence(units')
         /\ fault' = fault
<1>1. fault' = fault
  BY DEF Enter
<1>2. CASE mode.jit /\ ~WarmingUp(fn)
  <2>1. PICK got \in {get_jit_unit(fn)} :
          /\ units' = got.units
          /\ frames' = Append(under, Frame(fn, arguments, got.unit,
                                           Len(got.units[got.unit].code)))
    BY <1>2 DEF Enter
  <2>2. got.unit # 0 /\ IsSequence(got.units)
    BY CacheGives
  <2>3. FrameOk(Frame(fn, arguments, got.unit, Len(got.units[got.unit].code)))
    BY <2>2 DEF Frame, FrameOk, FrameFields
  <2>4. QED
    BY <1>1, <2>1, <2>2, <2>3, FramePut
<1>3. CASE ~(mode.jit /\ ~WarmingUp(fn))
  <2>1. /\ frames' = Append(under, Frame(fn, arguments, 0, Len(Source(fn).code)))
        /\ units' = units
    BY <1>3 DEF Enter
  <2>2. ~Compiled
    BY <1>3 DEF Compiled, WarmingUp
  <2>3. FrameOk(Frame(fn, arguments, 0, Len(Source(fn).code)))
    BY <2>2 DEF Frame, FrameOk, FrameFields
  <2>4. QED
    BY <1>1, <2>1, <2>3, FramePut
<1>4. QED
  BY <1>2, <1>3

-----------------------------------------------------------------------------
(* The inductive invariant *)

\* frames and units are sequences, the call depth is bounded, no fault is
\* pending over an instruction, and nothing runs before the run starts.
Invariant ==
  /\ FrameList(frames)
  /\ IsSequence(units)
  /\ Len(frames) <= CallDepthLimit + 1
  /\ ~(mode.warmup > 0) => Leaving(frames, fault)
  /\ outcome = "ready" => frames = <<>>

\* What the invariant says of a frame the dispatch loop is in.
LEMMA InFrame ==
  ASSUME Invariant, outcome = "running", frames # <<>>
  PROVE  /\ FrameOk(Top)
         /\ FrameList(Below)
         /\ Len(frames) \in Nat /\ Len(frames) > 0
         /\ Len(Below) = Len(frames) - 1
         /\ Top.ret = <<>> /\ ~(mode.warmup > 0) => fault = NoFault
<1>1. PICK S : frames \in Seq(S)
  BY DEF Invariant, FrameList, IsSequence
<1>2. Len(frames) \in Nat /\ Len(frames) > 0
  BY <1>1
<1>3. FrameOk(Top)
  BY <1>2 DEF Invariant, FrameList, Top
<1>4. FrameList(Below) /\ Len(Below) = Len(frames) - 1
  <2>1. Len(frames) - 1 \in 0 .. Len(frames) /\ FrameList(frames)
    BY <1>2 DEF Invariant
  <2>2. QED
    BY <2>1, FramesTaken DEF Below
<1>5. Top.ret = <<>> /\ ~(mode.warmup > 0) => fault = NoFault
  BY DEF Invariant, Leaving, Top
<1>6. QED
  BY <1>2, <1>3, <1>4, <1>5

\* A step that leaves the mode alone and ends in good frames keeps it.
LEMMA Kept ==
  ASSUME FrameList(frames'), IsSequence(units'),
         Len(frames') <= CallDepthLimit + 1,
         ~(mode.warmup > 0) => Leaving(frames', fault'),
         mode' = mode, outcome' # "ready"
  PROVE  Invariant'
<1>1. Compiled' = Compiled
  BY DEF Compiled
<1>2. \A f : FrameOk(f)' = FrameOk(f)
  BY <1>1 DEF FrameOk
<1>3. FrameList(frames)'
  BY <1>2 DEF FrameList, FrameOk, Compiled
<1>4. QED
  BY <1>3 DEF Invariant, Leaving, IsSequence

\* Going on after an instruction keeps it.
LEMMA Continuing ==
  ASSUME Invariant, outcome = "running", frames # <<>>,
         NEW f, NEW raised, FrameOk(f), Continue(f, raised),
         IsSequence(units'), mode' = mode, outcome' = outcome
  PROVE  Invariant'
<1>1. FrameList(Below) /\ Len(Below) + 1 = Len(frames)
  BY InFrame
<1>2. /\ FrameList(frames')
      /\ Len(frames') = Len(Below) + 1
      /\ Leaving(frames', fault')
  BY <1>1, Finishing DEF Continue
<1>3. Len(frames') <= CallDepthLimit + 1
  BY <1>1, <1>2 DEF Invariant
<1>4. QED
  BY <1>2, <1>3, Kept

-----------------------------------------------------------------------------
(* Every step *)

\* The instructions that work on the innermost frame and the globals.
LEMMA PlainSteps ==
  ASSUME Invariant,
         \/ Push \/ Pop \/ Dup \/ Load \/ Store \/ Arithmetic \/ Equal
         \/ Compare \/ Negate \/ JumpAlways \/ MonitorEnter \/ MonitorExit
         \/ MissingHandler
  PROVE  Invariant'
<1>1. outcome = "running" /\ frames # <<>>
  BY DEF Push, Pop, Dup, Load, Store, Arithmetic, Equal, Compare, Negate,
         JumpAlways, MonitorEnter, MonitorExit, MissingHandler, At, Dispatching
<1>2. mode' = mode /\ outcome' = outcome /\ IsSequence(units')
  BY DEF Invariant, Push, Pop, Dup, Load, Store, Arithmetic, Equal, Compare,
         Negate, JumpAlways, MonitorEnter, MonitorExit, MissingHandler, Plain,
         configuration, jit_vars
<1>3. FrameOk(Top) /\ FrameOk(Stepped(Top))
  BY <1>1, InFrame, FrameKept
<1>4. SUFFICES \E f, raised : FrameOk(f) /\ Continue(f, raised)
  BY <1>1, <1>2, Continuing
<1>5. CASE Push
  BY <1>3, <1>5, FrameKept DEF Push
<1>6. CASE Pop
  BY <1>3, <1>6, FrameKept DEF Pop
<1>7. CASE Dup
  BY <1>3, <1>7, FrameKept DEF Dup
<1>8. CASE Load
  BY <1>3, <1>8, FrameKept DEF Load
<1>9. CASE Store
  BY <1>3, <1>9, FrameKept DEF Store
<1>10. CASE Arithmetic
  BY <1>3, <1>10, FrameKept DEF Arithmetic
<1>11. CASE Equal
  BY <1>3, <1>11, FrameKept DEF Equal
<1>12. CASE Compare
  BY <1>3, <1>12, FrameKept DEF Compare
<1>13. CASE Negate
  BY <1>3, <1>13, FrameKept DEF Negate
<1>14. CASE JumpAlways
  BY <1>3, <1>14, FrameKept DEF JumpAlways
<1>15. CASE MonitorEnter
  BY <1>3, <1>15, FrameKept DEF MonitorEnter
<1>16. CASE MonitorExit
  BY <1>3, <1>16, FrameKept DEF MonitorExit
<1>17. CASE MissingHandler
  BY <1>3, <1>17 DEF MissingHandler
<1>18. QED
  BY <1>5, <1>6, <1>7, <1>8, <1>9, <1>10, <1>11, <1>12, <1>13, <1>14, <1>15,
     <1>16, <1>17

\* The division the hardware makes of an impossible quotient.
LEMMA DivideStep == ASSUME Invariant, DivideUndefined PROVE Invariant'
<1>1. outcome = "running" /\ frames # <<>>
  BY DEF DivideUndefined, At, Dispatching
<1>2. mode' = mode /\ IsSequence(units')
  BY DEF Invariant, DivideUndefined, configuration, jit_vars
<1>3. CASE outcome' = "crashed" /\ UNCHANGED <<frames, fault>>
  BY <1>2, <1>3, Kept DEF Invariant
<1>4. CASE UNCHANGED outcome /\ \E f, raised : FrameOk(f) /\ Continue(f, raised)
  BY <1>1, <1>2, <1>4, Continuing
<1>5. FrameOk(Top) /\ FrameOk(Stepped(Top))
  BY <1>1, InFrame, FrameKept
<1>6. QED
  BY <1>3, <1>4, <1>5, FrameKept DEF DivideUndefined

\* A conditional jump, which also writes a profile.
LEMMA BranchStep == ASSUME Invariant, Branch PROVE Invariant'
<1>1. outcome = "running" /\ frames # <<>>
  BY DEF Branch, At, Dispatching
<1>2. FrameOk(Top)
  BY <1>1, InFrame
<1>3. \E f, raised : FrameOk(f) /\ Continue(f, raised)
  BY <1>2, FrameKept DEF Branch
<1>4. IsSequence(units')
  <2>1. CASE units' = units
    BY <2>1 DEF Invariant
  <2>2. CASE \E i, r : units' = [units EXCEPT ![i].runtime_profile = r]
    <3>1. PICK i, r : units' = [units EXCEPT ![i].runtime_profile = r]
      BY <2>2
    <3>2. units' = [units EXCEPT ![i] = [units[i] EXCEPT !.runtime_profile = r]]
      BY <3>1
    <3>3. QED
      BY <3>2, Replaced DEF Invariant
  <2>3. QED
    BY <2>1, <2>2 DEF Branch
<1>5. mode' = mode /\ outcome' = outcome
  BY DEF Branch, configuration
<1>6. QED
  BY <1>1, <1>3, <1>4, <1>5, Continuing

\* A call enters a frame within the depth limit, or goes on with a fault.
LEMMA CallStep == ASSUME Invariant, CallValue PROVE Invariant'
<1> DEFINE n == Instruction.arg
           f == Popped(Stepped(Top), n + 1)
<1>1. outcome = "running" /\ frames # <<>> /\ Top.ret = <<>>
  BY DEF CallValue, At, Dispatching
<1>2. FrameOk(Top) /\ FrameList(Below) /\ Len(Below) + 1 = Len(frames)
      /\ Len(frames) \in Nat
  BY <1>1, InFrame
<1>3. FrameOk(f) /\ \A v : FrameOk(Pushed(f, v))
  BY <1>2, FrameKept
<1>4. mode' = mode /\ outcome' = outcome
  BY DEF CallValue, configuration
<1>5. CASE \E fn, arguments : /\ WithinDepth
                              /\ Enter(Append(Below, f), fn, arguments)
  <2>1. FrameList(Append(Below, f)) /\ Len(Append(Below, f)) = Len(frames)
    BY <1>2, <1>3, FramePut
  <2>2. /\ FrameList(frames')
        /\ Len(frames') = Len(frames) + 1
        /\ IsSequence(units')
        /\ fault' = fault
    BY <1>5, <2>1, Entering DEF Invariant
  <2>3. Len(frames') <= CallDepthLimit + 1
    BY <1>2, <1>5, <2>2, BytecodeAssumption DEF WithinDepth
  <2>4. ~(mode.warmup > 0) => Leaving(frames', fault')
    BY <1>1, <2>2, InFrame DEF Leaving
  <2>5. QED
    BY <1>1, <1>4, <2>2, <2>3, <2>4, Kept
<1>6. CASE Continue(Pushed(f, Null), Exception("error")) /\ UNCHANGED jit_vars
  <2>1. IsSequence(units')
    BY <1>6 DEF Invariant, jit_vars
  <2>2. QED
    BY <1>1, <1>3, <1>4, <1>6, <2>1, Continuing
<1>7. QED
  BY <1>5, <1>6 DEF CallValue

\* Leaving the dispatch loop, by an instruction or at the end of the code.
LEMMA LeaveStep == ASSUME Invariant, Leave \/ FallOff PROVE Invariant'
<1>1. outcome = "running" /\ frames # <<>> /\ Top.ret = <<>>
  BY DEF Leave, FallOff, At, Dispatching
<1>2. FrameOk(Top) /\ FrameList(Below) /\ Len(Below) + 1 = Len(frames)
  BY <1>1, InFrame
<1>3. FrameOk(Popped(Stepped(Top), 0)) /\ FrameOk(Popped(Stepped(Top), 1))
  BY <1>2, FrameKept
<1>4. \E f : FrameOk(f) /\ f.ret # <<>> /\ frames' = Append(Below, f)
  <2>1. CASE Leave
    <3> DEFINE k == IF Instruction.op = "RET" THEN 1 ELSE 0
               g == Popped(Stepped(Top), k)
               pc == IF Top.unit = 0 THEN Stepped(Top).pc ELSE Top.size
               v == IF Instruction.op = "RET" THEN Peek(Top, 1) ELSE Null
               h == [g EXCEPT !.pc = pc, !.ret = <<v>>]
    <3>1. frames' = Append(Below, h)
      BY <2>1 DEF Leave
    <3>2. FrameOk(g)
      BY <1>3
    <3> HIDE DEF g, pc, v
    <3>3. FrameOk(h) /\ h.ret # <<>>
      BY <3>2 DEF FrameOk, FrameFields
    <3> HIDE DEF h
    <3>4. QED
      BY <3>1, <3>3
  <2>2. CASE FallOff
    <3> DEFINE h == [Top EXCEPT !.ret = <<Null>>]
    <3>1. frames' = Append(Below, h)
      BY <2>2 DEF FallOff
    <3>2. FrameOk(h) /\ h.ret = <<Null>>
      BY <1>2 DEF FrameOk, FrameFields
    <3> HIDE DEF h
    <3>3. QED
      BY <3>1, <3>2
  <2>3. QED
    BY <2>1, <2>2
<1>5. /\ FrameList(frames')
      /\ Len(frames') = Len(frames)
      /\ Leaving(frames', fault')
  BY <1>2, <1>4, FramePut DEF Leaving
<1>6. mode' = mode /\ outcome' = outcome /\ IsSequence(units')
  BY DEF Invariant, Leave, FallOff, Plain, configuration, jit_vars
<1>7. QED
  BY <1>1, <1>5, <1>6, Kept DEF Invariant

-----------------------------------------------------------------------------
(* Out of a frame *)

\* The end of a warm-up, which a machine without one never comes to.
LEMMA TierUpStep == ASSUME Invariant, TierUp PROVE Invariant'
<1>1. outcome = "running" /\ frames # <<>>
  BY DEF TierUp, Left
<1>2. FrameOk(Top) /\ FrameList(Below) /\ Len(Below) + 1 = Len(frames)
  BY <1>1, InFrame
<1>3. mode.warmup > 0
  BY <1>2 DEF TierUp, EndsWarmup, WarmingUp, FrameOk, Compiled
<1>4. PICK got \in {get_jit_unit(Top.fn)} :
        /\ units' = got.units
        /\ frames' = Append(Below,
             [Top EXCEPT !.unit = got.unit, !.ret = <<>>,
                         !.size = Len(got.units[got.unit].code)])
  BY DEF TierUp
<1>5. IsSequence(units')
  BY <1>4, CacheGives DEF Invariant
<1>6. FrameOk([Top EXCEPT !.unit = got.unit, !.ret = <<>>,
                          !.size = Len(got.units[got.unit].code)])
  BY <1>2, <1>3 DEF FrameOk, FrameFields, Compiled
<1>7. FrameList(frames') /\ Len(frames') = Len(frames)
  BY <1>2, <1>4, <1>6, FramePut
<1>8. mode' = mode /\ outcome' = outcome
  BY DEF TierUp, configuration
<1>9. QED
  BY <1>1, <1>3, <1>5, <1>7, <1>8, Kept DEF Invariant

\* The caller goes on with the value, or with the fault.
LEMMA ReturnStep == ASSUME Invariant, ReturnToCaller PROVE Invariant'
<1> DEFINE under == SubSeq(frames, 1, Len(frames) - 2)
           caller == frames[Len(frames) - 1]
           value == IF fault = NoFault THEN Top.ret[1] ELSE Null
<1>1. outcome = "running" /\ frames # <<>> /\ Len(frames) > 1
  BY DEF ReturnToCaller, Left
<1>2. Len(frames) \in Nat
  BY <1>1, InFrame
<1>3. FrameList(under) /\ Len(under) = Len(frames) - 2
  <2>1. Len(frames) - 2 \in 0 .. Len(frames)
    BY <1>1, <1>2
  <2>2. QED
    BY <2>1, FramesTaken DEF Invariant
<1>4. FrameOk(Pushed(caller, value))
  <2>1. FrameOk(caller)
    BY <1>1, <1>2 DEF Invariant, FrameList
  <2>2. QED
    BY <2>1, FrameKept
<1>5. /\ FrameList(frames')
      /\ Len(frames') = Len(frames) - 1
      /\ Leaving(frames', fault')
  <2>1. Finish(under, Pushed(caller, value), caller.pc - Size.CALL, NoFault)
    BY DEF ReturnToCaller
  <2> HIDE DEF under, caller, value
  <2>2. /\ FrameList(frames')
        /\ Len(frames') = Len(under) + 1
        /\ Leaving(frames', fault')
    BY <1>3, <1>4, <2>1, Finishing
  <2>3. QED
    BY <1>2, <1>3, <2>2
<1>6. mode' = mode /\ outcome' = outcome /\ IsSequence(units')
  BY DEF Invariant, ReturnToCaller, Plain, configuration, jit_vars
<1>7. Len(frames') <= CallDepthLimit + 1
  BY <1>2, <1>5, BytecodeAssumption DEF Invariant
<1>8. QED
  BY <1>1, <1>5, <1>6, <1>7, Kept

\* The first frame is entered, and the last one left.
LEMMA EndStep == ASSUME Invariant, EndRun \/ Run \/ Ended PROVE Invariant'
<1>1. mode' = mode
  BY DEF EndRun, Run, Ended, vars, configuration
<1>2. FrameList(<<>>) /\ Len(<<>>) = 0
  BY DEF FrameList, IsSequence
<1>3. CASE EndRun
  <2>1. frames' = <<>> /\ fault' = NoFault /\ outcome' # "ready"
        /\ IsSequence(units')
    BY <1>3 DEF EndRun, Invariant, jit_vars
  <2>2. QED
    BY <1>1, <1>2, <2>1, Kept, BytecodeAssumption DEF Leaving
<1>4. CASE Run
  <2>1. frames = <<>> /\ outcome' = "running"
    BY <1>4 DEF Run, Invariant
  <2>2. Enter(<<>>, Initializer, <<>>)
    BY <1>4 DEF Run
  <2>3. FrameList(frames') /\ Len(frames') = 1 /\ IsSequence(units')
        /\ fault' = fault
    <3>1. IsSequence(units)
      BY DEF Invariant
    <3>2. /\ FrameList(frames')
          /\ Len(frames') = Len(<<>>) + 1
          /\ IsSequence(units')
          /\ fault' = fault
      BY <1>2, <2>2, <3>1, Entering
    <3>3. QED
      BY <1>2, <3>2
  <2>4. ~(mode.warmup > 0) => fault = NoFault
    BY <2>1 DEF Invariant, Leaving
  <2>5. QED
    BY <1>1, <2>1, <2>3, <2>4, Kept, BytecodeAssumption DEF Leaving
<1>5. CASE Ended
  BY <1>5, Kept DEF Ended, vars, Invariant
<1>6. QED
  BY <1>3, <1>4, <1>5

-----------------------------------------------------------------------------
(* Theorems *)

LEMMA InvariantHolds == Spec => []Invariant
<1>1. Init => Invariant
  BY BytecodeAssumption
  DEF Init, Invariant, FrameList, IsSequence, Leaving
<1>2. Invariant /\ [Next]_vars => Invariant'
  <2>1. SUFFICES ASSUME Invariant, [Next]_vars PROVE Invariant'
    OBVIOUS
  <2>2. CASE Next
    BY <2>1, <2>2, PlainSteps, DivideStep, BranchStep, CallStep, LeaveStep,
       TierUpStep, ReturnStep, EndStep DEF Next, Step
  <2>3. CASE UNCHANGED vars
    BY <2>1, <2>3 DEF vars, Invariant, FrameList, FrameOk, Compiled,
                      IsSequence, Leaving
  <2>4. QED
    BY <2>1, <2>2, <2>3
<1>3. QED
  BY <1>1, <1>2, PTL DEF Spec

\* The call depth never exceeds the limit, for every image, limit and mode
\* (the guard of call_function, in both tiers).
THEOREM CallDepthIsBounded == Spec => []RecursionBounded
<1>1. Invariant => RecursionBounded
  BY DEF Invariant, RecursionBounded
<1>2. QED
  BY <1>1, InvariantHolds, PTL

\* Without warm-up no instruction of either tier runs over a pending fault:
\* the checks of the two dispatch loops, of call_value and of execute()
\* together leave none behind.
THEOREM FaultsAreCollected == Spec => []NoStrayFault
<1>1. Invariant => NoStrayFault
  BY DEF Invariant, NoStrayFault, Leaving, Top
<1>2. QED
  BY <1>1, InvariantHolds, PTL
=============================================================================
