---------------------------- MODULE NativeProps -----------------------------
(***************************************************************************)
(* What native programs promise, whichever back end they come from.        *)
(***************************************************************************)
EXTENDS AsmMachine, LlvmEmitter, MunxMeaning

CONSTANT Comparable     \* the sources whose meaning MunxMeaning covers

\* Between marks the linked machine code takes the steps of the C translation
\* of the same MIR, on the values its stack frames hold: codegen.hpp's slots,
\* pairs of registers, patched branches and relocations lose nothing.
MirSteps == Mir!MirSpec

\* The runtime may use aligned moves: every call codegen.hpp emits into it
\* finds the stack pointer on a multiple of 16.
StackAligned == cpu.aligned

\* A native program prints what its text means and ends the same way: it exits
\* where the text runs to its end, and aborts where the text fails.
PrintedBy(trace) ==
  [i \in DOMAIN trace |->
     IF trace[i][1] = "munx_print" THEN trace[i][2][1] ELSE NewLine]
DidAsMeant ==
  LET meant == MeaningWith(Source[program[1]][1], Argv)
  IN /\ cpu.outcome = IF meant.outcome = "ok" THEN "ok" ELSE "aborted"
     /\ PrintedBy(cpu.trace) = meant.out
NativeAsMeant ==
  program[1] \in Comparable /\ cpu.outcome # "running" => DidAsMeant

-----------------------------------------------------------------------------
(* Object files *)

\* A relocation names, through the tables of the file, the symbol its
\* instruction was emitted for, and every such instruction has one.
RelocationsNameSymbols(t, object, image) ==
  LET fields == {k - 1 + Field(image.text[k]) :
                   k \in {i \in DOMAIN image.text : image.text[i].op \in Relocatable}}
  IN /\ DOMAIN object.relocs = fields
     /\ \A at \in fields :
          NameOf(object, SymbolAt(object, t[3], object.relocs[at])) = image.relocs[at]

\* The parts of a file follow one another without overlap.
PartsApart(parts) ==
  \A i \in 1 .. Len(parts) - 1 : parts[i].at + parts[i].size <= parts[i + 1].at

\* The groups a file announces are those of its table: local symbols first in
\* ELF; local, defined and undefined symbols in a row in Mach-O.
InGroup(object, from, n, binds) ==
  \A i \in from + 1 .. from + n : object.symtab[i].bind \in binds
GroupsHold(t, object) ==
  LET g == object.groups
      total == Len(object.symtab)
  IN CASE t[3] = "elf64" ->
            LET locals == g.first_nonlocal - Reserved("elf64")
            IN /\ InGroup(object, 0, locals, {"local"})
               /\ InGroup(object, locals, total - locals, {"global", "undefined"})
       [] t[3] = "macho64" ->
            /\ InGroup(object, 0, g.iextdefsym, {"local"})
            /\ InGroup(object, g.iextdefsym, g.nextdef, {"global"})
            /\ InGroup(object, g.iundefsym, g.nundef, {"undefined"})
            /\ g.iundefsym + g.nundef = total
       [] t[3] = "coff64" -> g.nsyms = total

Holds(t, object, module) ==
  /\ RelocationsNameSymbols(t, object, emit_object(module))
  /\ PartsApart(object.layout.parts) /\ GroupsHold(t, object)
Consistent == {t \in Program : Holds(t, Object[t], Module[t])}

\* What a linker reads back from the file of a program is what was emitted.
ObjectReadsBack == program \in Consistent

-----------------------------------------------------------------------------
(* LLVM *)

\* LLVM takes the text of every function: values are numbered in order and
\* used in the block that defines them, a block ends with its only
\* terminator, and every branch finds its block.
Accepted(lines) ==
  /\ NumberedInOrder(lines) /\ UsedWhereDefined(lines)
  /\ BlocksEndOnce(lines) /\ BranchesFindBlocks(lines)

\* And its blocks go where the MIR goes from their labels.
SameFlow(fn, lines) ==
  LET goes(k) == ToSet(lines[Max(BlockFrom(lines, k))].to)
  IN \A i \in {j \in DOMAIN fn.code : fn.code[j].op = "label"} :
       \A k \in BlockStarts(lines) :
         NameAt(lines, k) = L(fn.code[i].to[1]) => goes(k) = FlowFrom(fn.code, i)

Taken(fn, lines) == Accepted(lines) /\ SameFlow(fn, lines)
Follows(functions) ==
  \A i \in DOMAIN functions : Taken(functions[i], emit_function_body(functions[i]))
Translated == {t \in Program : Follows(Module[t].functions)}

\* The text written for LLVM is one it takes, with the flow of the MIR.
LlvmFollowsMir == program \in Translated
=============================================================================
