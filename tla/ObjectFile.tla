----------------------------- MODULE ObjectFile -----------------------------
(***************************************************************************)
(* The object writers (elf64.hpp, macho64.hpp, coff.hpp): what a linker    *)
(* reads back from the file an object image is written to.  Files are seen *)
(* as their symbol table, string table, relocations and layout.            *)
(***************************************************************************)
EXTENDS AsmBackend

Formats == {"elf64", "macho64", "coff64"}

IsLocal(s) == s.bind = "local"
IsGlobal(s) == s.bind = "global"
IsUndefined(s) == s.bind = "undefined"
IsOutside(s) == s.bind # "local"

\* (mutant) symbols stay in the order they were met
Unordered(img, format) == img.symbols

\* The symbols in the order of the file.  ELF keeps three entries ahead of
\* them and its local symbols first; Mach-O groups them by their binding.
Ordered_(img, format) ==
  CASE format = "elf64" ->
         SelectSeq(img.symbols, IsLocal) \o SelectSeq(img.symbols, IsOutside)
    [] format = "macho64" ->
         SelectSeq(img.symbols, IsLocal) \o SelectSeq(img.symbols, IsGlobal)
           \o SelectSeq(img.symbols, IsUndefined)
    [] format = "coff64" -> img.symbols

Reserved(format) == IF format = "elf64" THEN 3 ELSE 0

\* The offset of the first name in a string table.  COFF counts the length of
\* the table in front of it and keeps names of up to eight bytes elsewhere.
FirstName(format) == IF format = "coff64" THEN 4 ELSE 1
Inline(format, name) == format = "coff64" /\ Len(name) <= 8

\* intern: the string table grows by a name and a zero.
intern(table, format, name) ==
  IF Inline(format, name) THEN table
  ELSE [table EXCEPT !.size = @ + Len(name) + 1,
                     !.names = @ @@ (table.size :> name)]

Entry(s, inline, at) ==
  [ inline |-> inline, at |-> at, name |-> IF inline THEN s.name ELSE "", bind |-> s.bind, value |-> s.value,
    section |-> IF s.bind = "undefined" THEN "none"
                ELSE IF s.is_text THEN "text" ELSE "rodata" ]

\* The tables behind a symbol; index is the map from names to entries.
add_sym(tables, format, s) ==
  LET inline == Inline(format, s.name)
  IN [ strings |-> intern(tables.strings, format, s.name),
       symtab |-> Append(tables.symtab, Entry(s, inline, tables.strings.size)),
       index |-> (s.name :> Reserved(format) + Len(tables.symtab)) @@ tables.index ]

Tables(img, format) ==
  FoldLeft(LAMBDA t, s : add_sym(t, format, s),
           [ strings |-> [size |-> FirstName(format), names |-> <<>>],
             symtab |-> <<>>, index |-> <<>> ],
           Ordered_(img, format))

\* Relocations, by their offset; those whose symbol is not in the table are
\* left out.
Relocations(img, index) ==
  LET known == {at \in DOMAIN img.relocs : img.relocs[at] \in DOMAIN index}
  IN [at \in known |-> index[img.relocs[at]]]

-----------------------------------------------------------------------------
(* Layout: the parts of the file in order, each with its first byte         *)

Aligned(n, to) == ((n + to - 1) \div to) * to

\* Parts: the size and alignment of each.
LaidOut(first, parts) ==
  FoldLeft(LAMBDA r, p :
             LET at == Aligned(r.end, p.align)
             IN [end |-> at + p.size,
                 parts |-> Append(r.parts, [of |-> p.of, at |-> at, size |-> p.size])],
           [end |-> first, parts |-> <<>>], parts)

Part(of, size, align) == [of |-> of, size |-> size, align |-> align]

\* The texts of the section names in an ELF file are lost: their literal
\* starts with the zero that ends it, and one byte is left.
Layout(img, format, tables, n_relocs) ==
  LET text == Part("text", Len(img.text), 1)
      rodata == Part("rodata", img.rodata.size, 1)
      n_syms == Reserved(format) + Len(tables.symtab)
      strings == Part("strings", tables.strings.size, 1)
  IN CASE format = "elf64" ->
            LaidOut(64, << text, rodata, Part("relocs", 24 * n_relocs, 8),
                           Part("names", 1, 1), Part("symbols", 24 * n_syms, 8),
                           strings, Part("sections", 7 * 64, 8) >>)
       [] format = "macho64" ->
            LaidOut(32 + 72 + 2 * 80 + 24 + 80,
                    << text, rodata, Part("relocs", 8 * n_relocs, 8),
                       Part("symbols", 16 * n_syms, 8), strings >>)
       [] format = "coff64" ->
            LaidOut(20 + 2 * 40,
                    << text, Part("relocs", 10 * n_relocs, 1), rodata,
                       Part("symbols", 18 * n_syms, 1), strings >>)

\* The counts a file gives for its groups of symbols.
Groups(img, format) ==
  LET locals == Len(SelectSeq(img.symbols, IsLocal))
      globals == Len(SelectSeq(img.symbols, IsGlobal))
  IN CASE format = "elf64" -> [first_nonlocal |-> 3 + locals]
       [] format = "macho64" ->
            [iextdefsym |-> locals, nextdef |-> globals,
             iundefsym |-> locals + globals,
             nundef |-> Len(SelectSeq(img.symbols, IsUndefined))]
       [] format = "coff64" -> [nsyms |-> Len(img.symbols)]

write_object(img, format) ==
  LET tables == Tables(img, format)
      relocs == Relocations(img, tables.index)
  IN [ text |-> img.text, rodata |-> img.rodata, marks |-> img.marks,
       symtab |-> tables.symtab, strings |-> tables.strings.names,
       relocs |-> relocs, groups |-> Groups(img, format),
       layout |-> Layout(img, format, tables, Cardinality(DOMAIN relocs)),
       rodata_at |-> IF format = "macho64" THEN Len(img.text) ELSE 0 ]

-----------------------------------------------------------------------------
(* What a linker does with the file                                        *)

\* The entry a relocation names, and the name of an entry.
SymbolAt(obj, format, index) == obj.symtab[index - Reserved(format) + 1]
NameOf(obj, entry) ==
  IF entry.inline THEN entry.name
  ELSE IF entry.at \in DOMAIN obj.strings THEN obj.strings[entry.at] ELSE "?"

\* Where the program's sections and the functions it imports are placed: the
\* text from 0, then the read-only data.  A symbol's value counts from the
\* start of its section and the address the file gives that section.
RodataBase(obj) == Aligned(Len(obj.text), 16)
Imported(name) == [import |-> name, at |-> 0]
At_(address) == [import |-> "", at |-> address]
AddressOf(obj, entry) ==
  CASE entry.section = "none" -> Imported(NameOf(obj, entry))
    [] entry.section = "text" -> At_(entry.value)
    [] entry.section = "rodata" ->
         At_(RodataBase(obj) + entry.value - obj.rodata_at)

\* Every relocated instruction goes to the address of its symbol; a field no
\* relocation names stays 0, the address of the next instruction.
Linked(obj, format) ==
  [k \in DOMAIN obj.text |->
     LET ins == obj.text[k]
         field == k - 1 + Field(ins)
     IN IF ins.op \notin Relocatable THEN ins
        ELSE IF field \in DOMAIN obj.relocs
        THEN [ins EXCEPT !.n = AddressOf(obj, SymbolAt(obj, format, obj.relocs[field]))]
        ELSE [ins EXCEPT !.n = At_(field + 4)]]

\* The process image; it starts at main.
Loaded(obj, format) ==
  [ text |-> Linked(obj, format) \o <<>>, marks |-> obj.marks,
    stops |-> UNION {ToSet(obj.marks[f]) : f \in DOMAIN obj.marks},
    texts |-> obj.rodata.texts, rodata |-> RodataBase(obj),
    entry |-> (CHOOSE e \in ToSet(obj.symtab) : NameOf(obj, e) = "main").value ]

TextOf(image, address) ==
  LET at == address - image.rodata
  IN IF at \in DOMAIN image.texts THEN image.texts[at] ELSE "?"
=============================================================================
