----------------------------- MODULE MunxSyntax -----------------------------
(***************************************************************************)
(* Syntax trees of the language.  A tree is a record whose field k is the  *)
(* kind of the node; every compiler of the language starts from one.       *)
(***************************************************************************)

\* Values of literals, apart from integers and Booleans.
Str(s) == <<"str", s>>
Double(n) == <<"f64", n>>     \* a whole number held as a double
Char(c) == <<"char", c>>      \* a character, by its code

Literal(v) == [k |-> "literal", v |-> v]
Name(x) == [k |-> "name", x |-> x]
Not(e) == [k |-> "not", e |-> e]
Minus(e) == [k |-> "neg", e |-> e]
Binary(op, l, r) == [k |-> "binary", op |-> op, l |-> l, r |-> r]
And(l, r) == [k |-> "and", l |-> l, r |-> r]
Or(l, r) == [k |-> "or", l |-> l, r |-> r]
Call(f, args) == [k |-> "call", f |-> f, args |-> args]
\* `e as string`, argv.len and argv[e].
ToString_(e) == [k |-> "cast", e |-> e]
ArgvLen == [k |-> "argv_len"]
ArgvAt(e) == [k |-> "argv_at", e |-> e]
\* x <- e, <- x (a pipe) and x :=> e, <=: x (a channel).
Insert(link, x, e) == [k |-> "insert", link |-> link, x |-> x, e |-> e]
Extract(link, x) == [k |-> "extract", link |-> link, x |-> x]

Assign(x, e) == [k |-> "assign", x |-> x, e |-> e]
AddAssign(x, e) == [k |-> "add_assign", x |-> x, e |-> e]
Evaluate(e) == [k |-> "expr", e |-> e]
Return(e) == [k |-> "return", e |-> e]
Break == [k |-> "break"]
\* branches: a sequence of [cond, body]; orelse is <<>> when there is no else.
If(branches, orelse) ==
  [k |-> "if", branches |-> branches, orelse |-> orelse]
\* A loop without a condition has cond = <<>>, any other <<expression>>.
Loop(cond, body) == [k |-> "loop", cond |-> cond, body |-> body]
\* cases: a sequence of [member, body].
Match(e, cases) == [k |-> "match", e |-> e, cases |-> cases]
Monitor(body, trap, handler) ==
  [k |-> "monitor", body |-> body, trap |-> trap, handler |-> handler]
=============================================================================
