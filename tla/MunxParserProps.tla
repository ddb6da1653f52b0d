--------------------------- MODULE MunxParserProps ----------------------------
(***************************************************************************)
(* What a parser of the language owes to its texts: those the grammar      *)
(* allows are read as what they say, and of the others either the error is *)
(* recorded or nothing was passed over.                                    *)
(***************************************************************************)
EXTENDS MunxText

VARIABLES
  written,     \* the statements the text was written from
  edited,      \* TRUE when a token of the text was then dropped or put in
  turns        \* how often the loop over the statements has turned

Package == "pkg"
Write(imports, statements) == ProgramText(Package, imports, statements)

(***************************************************************************)
(* The tree of a text of the grammar is the one it was written from: no    *)
(* error, no operator bound to the wrong operand, no form taken for        *)
(* another (parse_statement, parse_postfix, parse_array_or_typed_array,    *)
(* looks_like_braced_destructure and looks_like_call_type_args all guess   *)
(* from the tokens ahead), and the parser comes to an end.                 *)
(***************************************************************************)
ReadsBack ==
  ~edited => /\ Alive(parser) /\ ~parser.failed
             /\ stage = "done" => /\ Head(parser.s) = Package
                                  /\ parser.c = written

\* Words that only hold others together, or have two spellings.
Joints == {"(", ")", "{", "}", "[", "]", ",", ":", ";", "<", ">", "void", "delete", "free",
           "load_package", "load_packages"}
Words(ts) == SelectSeq(ts, LAMBDA t : t \notin Joints \cup {End})
(***************************************************************************)
(* A text that parses without an error has every one of its words in the   *)
(* tree, in order: the rewinds of parse_assign_or_expr, parse_statement    *)
(* and parse_array_or_typed_array lose nothing, and no loop of a list      *)
(* stops early and leaves the rest unread.                                 *)
(***************************************************************************)
NothingSkipped ==
  stage = "done" /\ ~parser.failed =>
    Words(parser.ts) = Words(ProgramText(parser.s[1], Tail(parser.s), parser.c))

(***************************************************************************)
(* The parser is lost only on a text it has already found an error in:     *)
(* error() records and returns, so what is read through a missing node or  *)
(* a loop that no longer moves comes after it.                             *)
(***************************************************************************)
LostOnlyAfterAnError == ~Alive(parser) => parser.failed

(***************************************************************************)
(* Where the analyzer asks for recovery, the loop over the statements of   *)
(* the file moves on: synchronize() stops in front of a brace or a keyword *)
(* without consuming it, so every turn that returns has to move some other *)
(* way, and there are no more turns than tokens.  A turn need not return:  *)
(* the loops over the statements of a block have no recovery (parse_block, *)
(* parse_statement), so that the analyzer hangs at a `)` inside a block.   *)
(* They hang only in front of a word that synchronize would have skipped.  *)
(***************************************************************************)
EveryTurnMoves ==
  parser.recover =>
    /\ turns < parser.at
    /\ parser.dead = "stuck" => cur(parser) \notin Boundaries \cup {"{", "}", ";", End}
=============================================================================
