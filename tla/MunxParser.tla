----------------------------- MODULE MunxParser ------------------------------
(***************************************************************************)
(* The recursive-descent parser.  A source text is a sequence of tokens, a *)
(* token is written as it is spelled.  An error is recorded and parsing    *)
(* goes on; what the parser then reads through a missing subtree crashes   *)
(* it, and a loop that consumes nothing never ends.                        *)
(*                                                                         *)
(* A tree is a node of some kind k with names s and children c.  A parse   *)
(* function takes and returns the state of the parser: the tokens, the     *)
(* lookahead, whether an error was recorded, whether it is "crashed" or    *)
(* "stuck", the names and children read so far for the node at hand, and   *)
(* the last tree completed.                                                *)
(***************************************************************************)
EXTENDS Integers, Sequences, SequencesExt, TLC

Node(k, s, c) == [k |-> k, s |-> s, c |-> c]
Missing == Node("missing", <<>>, <<>>)
Name(x) == Node("name", <<x>>, <<>>)
NameList(names) == Node("list", names, <<>>)
List(nodes) == Node("list", <<>>, nodes)
Named(t) == Node("type", <<t>>, <<>>)

-----------------------------------------------------------------------------
(* Tokens *)

Punctuation ==
  {"(", ")", "{", "}", "[", "]", ",", ":", ";", ".", "::", "=", "+=", "==", "!=",
   "<", ">", "<=", ">=", "+", "-", "*", "/", "%", "!", "&", "|", "^", "~", "&&",
   "||", "=>", "->", "<-", ":=>", "<=:"}
Literals == {"1", "2", "2.5", "\"s\"", "'c'", "true", "null", "r\"x\""}
End == "END"
\* Any other spelling is a name the program chose, or "_".
Reserved == Punctuation \cup Literals \cup {End}

Start(ts, recover) ==
  [ts |-> ts, recover |-> recover, at |-> 1, failed |-> FALSE, dead |-> "no",
   s |-> <<>>, c |-> <<>>, tree |-> Missing]

cur(p) == p.ts[p.at]
Alive(p) == p.dead = "no"
check(p, t) == cur(p) = t
check_name(p) == cur(p) \notin Reserved
advance(p) == IF check(p, End) THEN p ELSE [p EXCEPT !.at = @ + 1]
\* (mutant) what is found while recovering is not recorded
MutedInRecovery(p) == IF p.recover THEN p ELSE [p EXCEPT !.failed = TRUE]
error(p) == [p EXCEPT !.failed = TRUE]
match(p, t) == IF check(p, t) THEN advance(p) ELSE p
expect(p, t) == IF check(p, t) THEN advance(p) ELSE error(p)
expect_name(p) ==
  IF check_name(p) THEN [advance(p) EXCEPT !.s = Append(@, cur(p))]
                   ELSE [error(p) EXCEPT !.s = Append(@, "")]

\* Reading a member of a node that is not there.
Deref(p, node) == IF Alive(p) /\ node = Missing THEN [p EXCEPT !.dead = "crashed"] ELSE p
Stuck(p) == [p EXCEPT !.dead = "stuck"]
Closed(p, t) == IF Alive(p) THEN expect(p, t) ELSE p

With(p, nodes) == [p EXCEPT !.s = <<>>, !.c = nodes]
Add(p, node) == [p EXCEPT !.c = Append(@, node)]
Made(p, k) == [p EXCEPT !.tree = Node(k, p.s, p.c)]

-----------------------------------------------------------------------------
(* Productions are sequences of items: a token to expect, "<name>", a part *)
(* that becomes a child, or a list of such parts up to the token behind it.*)

Parts == {"<type>", "<expr>", "<block>", "<param>", "<entry>", "<field>",
          "<target>", "<ident>"}
ListOf ==
  "<names>" :> "<name>" @@ "<types>" :> "<type>" @@ "<exprs>" :> "<expr>" @@
  "<params>" :> "<param>" @@ "<entries>" :> "<entry>" @@ "<fields>" :> "<field>" @@
  "<idents>" :> "<ident>"

RECURSIVE Part(_, _), Run(_, _), More(_, _)

\* q has read a child of the node p was reading.
Child(p, q) == [q EXCEPT !.s = p.s, !.c = Append(p.c, q.tree)]
Read(p, part) ==
  IF part = "<name>" THEN expect_name(p) ELSE Child(p, Part(part, With(p, <<>>)))

\* do { ... } while (match(COMMA))
More(p, part) ==
  IF Alive(p) /\ check(p, ",") THEN More(Read(advance(p), part), part) ELSE p
OneOrMore(p, part) == Child(p, Made(More(Read(With(p, <<>>), part), part), "list"))

\* Type parameters, or the type behind a colon, where they are given.
Optional == [generic |-> [starts |-> "<", items |-> <<"<", "<names>", ">">>, default |-> List(<<>>)],
             returns |-> [starts |-> ":", items |-> <<":", "<type>">>, default |-> Named("void")]]

Run(p, items) ==
  IF items = <<>> \/ ~Alive(p) THEN p
  ELSE LET item == Head(items)
           rest == Tail(items)
       IN  IF item \in DOMAIN Optional /\ check(p, Optional[item].starts)
           THEN Run(p, Optional[item].items \o rest)
           ELSE Run(CASE item \in Parts \cup {"<name>"} -> Read(p, item)
                      [] item \in DOMAIN ListOf ->
                           IF check(p, items[2]) THEN Add(p, List(<<>>))
                           ELSE OneOrMore(p, ListOf[item])
                      [] item \in DOMAIN Optional -> Add(p, Optional[item].default)
                      [] OTHER -> expect(p, item),
                    rest)

Form(p, k, items) == Made(Run(With(p, <<>>), items), k)
\* A form is its kind of node and its items.
Shaped(p, form) == Form(p, form[1], form[2])

-----------------------------------------------------------------------------
(* Types *)

TypeForms ==
  "tuple" :> <<"tuple", <<"tuple", "[", "<types>", "]">>>> @@
  "map" :> <<"map", <<"map", "[", "<type>", "=>", "<type>", "]">>>> @@
  "[" :> <<"array", <<"[", "<type>", "]">>>> @@
  "Lambda" :> <<"lambda", <<"Lambda", "[", "{", "<types>", "}", "=>", "<type>", "]">>>>
parse_type(p) ==
  Shaped(p, IF cur(p) \in DOMAIN TypeForms THEN TypeForms[cur(p)] ELSE <<"type", <<"<name>">>>>)

-----------------------------------------------------------------------------
(* Expressions *)

CompilerForms ==
  {"reflexpr", "members", "function_members", "meta_params", "params", "construct"}
parse_compiler_call_expr(p) ==
  LET n == IF cur(advance(p)) \in CompilerForms THEN advance(p) ELSE error(advance(p))
      q == Run(With(advance(n), <<>>), <<"(", "<exprs>", ")">>)
  IN  [q EXCEPT !.tree =
         Node("call", <<>>, <<Node("name", <<"::", cur(n)>>, <<>>), List(<<>>)>> \o q.c)]

parse_branch_hint(p) ==
  LET q == Run(With(advance(p), <<>>), <<"(", "<expr>", ")">>)
  IN  [q EXCEPT !.tree = Node("call", <<>>, <<Name(cur(p)), List(<<>>), List(q.c)>>)]

\* [T][...] is a typed array, whatever T names.
LooksTyped(p) ==
  /\ p.at + 3 <= Len(p.ts)
  /\ p.ts[p.at + 1] \notin Reserved /\ p.ts[p.at + 2] = "]" /\ p.ts[p.at + 3] = "["
parse_array_or_typed_array(p) ==
  Shaped(p, IF LooksTyped(p) THEN <<"typed", <<"[", "<type>", "]", "[", "<exprs>", "]">>>>
                             ELSE <<"list_of", <<"[", "<exprs>", "]">>>>)

\* { } and { a, ... } are tuples, { k: v, ... } are the entries of a map.
Rest(p, part, k) == Made(Run(More(p, part), <<"}">>), k)
Entry(first, value) == With(value, <<Node("entry", <<>>, <<first.tree, value.tree>>)>>)
Braced(first) ==
  CASE ~Alive(first) -> first
    [] check(first, ":") -> Rest(Entry(first, Part("<expr>", advance(first))), "<entry>", "entries")
    [] OTHER -> Rest(With(first, <<first.tree>>), "<expr>", "tuple_of")
parse_braced(p) ==
  IF check(advance(p), "}") THEN Made(With(advance(advance(p)), <<>>), "tuple_of")
                            ELSE Braced(Part("<expr>", advance(p)))

Group(p) == Closed(Part("<expr>", advance(p)), ")")

parse_lambda ==
  <<"function", <<"lambda", "(", "<params>", ")", ":", "<type>", "=>", "<block>">>>>
parse_map_literal ==
  <<"map_of", <<"map", "[", "<type>", "=>", "<type>", "]", "{", "<entries>", "}">>>>
PrimaryForms ==
  "cast" :> <<"cast", <<"cast", "[", "<type>", "]", "(", "<expr>", ")">>>> @@
  "alloc" :> <<"alloc", <<"alloc", "[", "<expr>", "]", "[", "<exprs>", "]">>>> @@
  "delete" :> <<"free", <<"delete", "<name>">>>> @@
  "free" :> <<"free", <<"free", "<name>">>>> @@
  "simd" :> <<"simd", <<"simd", "(", "<expr>", ")">>>> @@
  "lambda" :> parse_lambda @@ "map" :> parse_map_literal @@
  "this_package" :> <<"name", <<"<name>">>>>
NameForm(p) == IF check(advance(p), "::") THEN <<"member_of", <<"<name>", "::", "<name>">>>>
                                          ELSE <<"name", <<"<name>">>>>

parse_primary(p) ==
  CASE cur(p) \in Literals -> [advance(p) EXCEPT !.tree = Node("literal", <<cur(p)>>, <<>>)]
    [] cur(p) \in {"likely", "unlikely"} -> parse_branch_hint(p)
    [] check(p, "::") -> parse_compiler_call_expr(p)
    [] check(p, "[") -> parse_array_or_typed_array(p)
    [] check(p, "{") -> parse_braced(p)
    [] check(p, "(") -> Group(p)
    [] check_name(p) /\ cur(p) \notin {"likely", "unlikely"} ->
         Shaped(p, IF cur(p) \in DOMAIN PrimaryForms THEN PrimaryForms[cur(p)] ELSE NameForm(p))
    [] OTHER -> [error(p) EXCEPT !.tree = Missing]

\* True when <...>( follows: the scan crosses everything but a semicolon.
RECURSIVE ClosesBeforeCall(_, _, _)
ClosesBeforeCall(ts, i, depth) ==
  CASE ts[i] \in {End, ";"} -> FALSE
    [] ts[i] = "<" -> ClosesBeforeCall(ts, i + 1, depth + 1)
    [] ts[i] = ">" /\ depth = 1 -> ts[i + 1] = "("
    [] ts[i] = ">" /\ depth > 1 -> ClosesBeforeCall(ts, i + 1, depth - 1)
    [] OTHER -> ClosesBeforeCall(ts, i + 1, depth)
looks_like_call_type_args(p) ==
  check(p, "<") /\ ClosesBeforeCall(p.ts, p.at + 1, 1)

\* What may follow an expression; a call without type arguments has none.
PostfixForm(p) ==
  CASE check(p, ".") -> <<"member", <<".", "<name>">>>>
    [] looks_like_call_type_args(p) -> <<"call", <<"<", "<types>", ">", "(", "<exprs>", ")">>>>
    [] check(p, "(") -> <<"call", <<"(", "<exprs>", ")">>>>
    [] check(p, "[") -> <<"index", <<"[", "<expr>", "]">>>>
    [] OTHER -> <<>>
Applied(e, form) ==
  LET called == form[1] = "call" /\ check(e, "(")
  IN  Made(Run(With(Deref(e, e.tree), <<e.tree>> \o (IF called THEN <<List(<<>>)>> ELSE <<>>)),
               form[2]), form[1])
RECURSIVE Postfix(_)
Postfix(e) ==
  IF Alive(e) /\ PostfixForm(e) # <<>> THEN Postfix(Applied(e, PostfixForm(e))) ELSE e
parse_postfix(p) == Postfix(parse_primary(p))

RECURSIVE parse_unary(_)
parse_unary(p) ==
  CASE cur(p) \in {"<-", "<=:"} -> Form(advance(p), cur(p), <<"<name>">>)
    [] cur(p) \in {"!", "~", "-"} ->
         LET e == parse_unary(advance(p))
         IN  [e EXCEPT !.tree = Node(cur(p), <<>>, <<e.tree>>)]
    [] OTHER -> parse_postfix(p)

\* Binary operators, from the loosest to the tightest.
Levels == << {"||"}, {"&&"}, {"==", "!="}, {"<", ">", "<=", ">="},
             {"+", "-"}, {"*", "/", "%"} >>
RECURSIVE parse_binary(_, _), Climb(_, _)
\* (mutant) a second operator of the level is left to the right operand
ClimbRight(left, n) ==
  IF Alive(left) /\ cur(left) \in Levels[n]
  THEN LET right == parse_binary(advance(left), n)
       IN  [Deref(right, left.tree) EXCEPT
              !.tree = Node(cur(left), <<>>, <<left.tree, right.tree>>)]
  ELSE left
Climb(left, n) ==
  IF Alive(left) /\ cur(left) \in Levels[n]
  THEN LET right == parse_binary(advance(left), n + 1)
       IN  Climb([Deref(right, left.tree) EXCEPT
                    !.tree = Node(cur(left), <<>>, <<left.tree, right.tree>>)], n)
  ELSE left
parse_binary(p, n) ==
  IF n > Len(Levels) THEN parse_unary(p) ELSE Climb(parse_binary(p, n + 1), n)

parse_pipe(p) ==
  LET left == parse_binary(p, 1)
  IN  IF Alive(left) /\ cur(left) \in {"->", ":=>"}
      THEN Made(Run(With(Deref(advance(left), left.tree), <<left.tree>>), <<"<name>">>),
                cur(left))
      ELSE left

-----------------------------------------------------------------------------
(* Parts *)

\* name: type <constraint>[expr]
parse_field(p) ==
  LET f == Run(With(p, <<>>), <<"<name>", ":", "<type>">>)
      keyword == advance(f)
      bound == advance(IF check(keyword, "constraint") THEN keyword ELSE error(keyword))
  IN  IF Alive(f) /\ check(f, "<")
      THEN Made(Run(bound, <<">", "[", "<expr>", "]">>), "field") ELSE Made(f, "field")

parse_target(p) ==
  IF check(p, "_") THEN [advance(p) EXCEPT !.tree = Node("discard", <<>>, <<>>)]
                   ELSE Form(p, "target", <<"<name>">>)

SimpleParts ==
  "<param>" :> <<"param", <<"<name>", ":", "<type>">>>> @@
  "<entry>" :> <<"entry", <<"<expr>", ":", "<expr>">>>> @@
  "<ident>" :> <<"name", <<"<name>">>>>

RECURSIVE Statements(_), parse_statement(_)
\* The statements of a block; missing ones are left out.
StatementRead(p, q) ==
  match([q EXCEPT !.c = IF q.tree = Missing THEN p.c ELSE Append(p.c, q.tree), !.s = p.s], ";")
Moved(p, r) == IF Alive(r) /\ r.at = p.at THEN Stuck(r) ELSE r
Statements(p) ==
  IF ~Alive(p) \/ cur(p) \in {"}", End} THEN p
  ELSE Statements(Moved(p, StatementRead(p, parse_statement(With(p, <<>>)))))
BlockOf(p) == IF Alive(p) THEN Made(expect(p, "}"), "block") ELSE p
parse_block(p) == BlockOf(Statements(With(expect(p, "{"), <<>>)))

Part(part, p) ==
  CASE part = "<type>" -> parse_type(p)
    [] part = "<expr>" -> parse_pipe(p)
    [] part = "<block>" -> parse_block(p)
    [] part = "<field>" -> parse_field(p)
    [] part = "<target>" -> parse_target(p)
    [] part \in DOMAIN SimpleParts -> Shaped(p, SimpleParts[part])

-----------------------------------------------------------------------------
(* Statements *)

maybe_attach_lambda_call(p) ==
  IF Alive(p) /\ p.tree.k = "function" /\ check(p, "(")
  THEN Applied(p, <<"call", <<"(", "<exprs>", ")">>>>) ELSE p

\* { a, b } or a, b in front of = or +=.
RECURSIVE SkipNames(_)
SkipNames(p) ==
  IF ~check_name(p) THEN p
  ELSE IF check(advance(p), ",") THEN SkipNames(advance(advance(p))) ELSE advance(p)
looks_like_braced_destructure(p) ==
  LET q == SkipNames(advance(p))
  IN  check(p, "{") /\ check(q, "}") /\ cur(advance(q)) \in {"=", "+="}

parse_targets(p) ==
  IF check(p, "{") THEN expect(OneOrMore(With(advance(p), <<>>), "<target>"), "}")
                   ELSE OneOrMore(With(p, <<>>), "<target>")
ExpressionOf(e) ==
  IF e.tree = Missing THEN e ELSE Made(With(e, <<e.tree>>), "expr")
ExpressionStatement(p) == ExpressionOf(maybe_attach_lambda_call(Part("<expr>", p)))
Bound(value) == IF value.tree = Missing /\ value.recover THEN Name("") ELSE value.tree
Assignment(targets, value) ==
  Made(With(value, Append(targets.c, Bound(value))), "assign" \o cur(targets))
AssignmentTo(targets) ==
  Assignment(targets, maybe_attach_lambda_call(Part("<expr>", advance(targets))))

\* (mutant) names that are no targets are not given back
WithoutRewind(p, targets) ==
  IF cur(targets) \in {"=", "+="} THEN AssignmentTo(targets) ELSE ExpressionStatement(targets)
\* The errors of targets that were none remain.
AssignOrRewind(p, targets) ==
  IF cur(targets) \in {"=", "+="} THEN AssignmentTo(targets)
  ELSE ExpressionStatement(IF targets.failed THEN error(p) ELSE p)
parse_assign_or_expr(p) ==
  IF check(p, "{") \/ check_name(p) THEN AssignOrRewind(p, parse_targets(p))
                                    ELSE ExpressionStatement(p)

\* likely(e) and unlikely(e) around a condition are a hint to its branch.
Hinted(c) == /\ c.k = "call" /\ Len(c.c[3].c) = 1 /\ c.c[1].k = "name"
             /\ c.c[1].s[1] \in {"likely", "unlikely"}
Branch(c) ==
  IF Hinted(c[1]) THEN Node("branch", c[1].c[1].s, <<c[1].c[3].c[1], c[2]>>)
                  ELSE Node("branch", <<>>, c)
BranchOf(q) == IF Alive(q) THEN [q EXCEPT !.tree = Branch(q.c)] ELSE q
parse_branch(p) == BranchOf(Run(With(p, <<>>), <<"<expr>", "<block>">>))
RECURSIVE Branches(_)
Else(p) ==
  CASE ~Alive(p) \/ ~check(p, "else") -> p
    [] check(p, "else") /\ check(advance(p), "if") -> Branches(advance(advance(p)))
    [] OTHER -> Run(p, <<"else", "<block>">>)
Branches(p) == Else(Child(p, parse_branch(p)))
parse_if(p) == Made(Branches(With(p, <<>>)), "if")

RECURSIVE Cases(_)
Cases(p) ==
  IF Alive(p) /\ check(p, "case")
  THEN Cases(Child(p, Form(p, "case", <<"case", "<name>", "::", "<name>", "<block>">>)))
  ELSE p
parse_match(p) ==
  Made(Run(Cases(Run(With(p, <<>>), <<"<expr>", "{">>)), <<"}">>), "match")

Joined(q) ==
  [q EXCEPT !.tree =
     Node("expr", <<>>, <<Node("call", <<>>, <<Name("join"), List(<<>>)>> \o q.c)>>)]
parse_join(p) == Joined(Run(With(p, <<>>), <<"[", "<idents>", "]">>))

\* The default arm is the last one that is read.
RECURSIVE Arms(_)
ArmForm(p) ==
  IF check(p, "default") THEN <<"default", <<"default", "=>", "<expr>">>>>
  ELSE <<"case", <<"case", "typeid", "(", "<name>", ")", "=>", "<expr>">>>>
ArmRead(p, arm) == match(Child(p, Shaped(arm, ArmForm(arm))), ";")
NextArms(p, r) == IF ~Alive(r) \/ Last(r.c).k = "default" THEN r ELSE Arms(Moved(p, r))
Arms(p) == IF ~Alive(p) \/ cur(p) \in {"}", End} THEN p
           ELSE NextArms(p, ArmRead(p, expect(p, "::")))
parse_compiler_stmt(p) ==
  LET q == advance(p)
  IN  CASE check(q, "reflect_for") ->
             Form(q, "reflect_for",
                  <<"reflect_for", "(", "<name>", "of", "<expr>", ")", "<block>">>)
        [] check(q, "match") ->
             Made(Run(Arms(Run(With(q, <<>>), <<"match", "<expr>", "{">>)), <<"}">>),
                  "typeid_match")
        [] OTHER -> [error(q) EXCEPT !.tree = Node("break", <<>>, <<>>)]

DeclarationForms ==
  "func" :> <<"func", <<"func", "<name>", "generic", "(", "<params>", ")", "returns", "<block>">>>> @@
  "enum" :> <<"enum", <<"enum", "<name>", "{", "<names>", "}">>>> @@
  "object" :> <<"object", <<"object", "<name>", "{", "<fields>", "}">>>> @@
  "trait" :> <<"trait", <<"trait", "<name>", "{", "<fields>", "}">>>>
ControlForms ==
  "loop" :> <<"loop", <<"loop", "<expr>", "<block>">>>> @@
  "monitor" :> <<"monitor", <<"monitor", "<block>", "trap", "(", "<name>", ":", "<type>", ")",
                              "<block>">>>>
StatementForms ==
  DeclarationForms @@ ControlForms @@
  "lock" :> <<"lock", <<"lock", "<name>">>>> @@
  "acquire" :> <<"acquire", <<"acquire", "<name>">>>> @@
  "release" :> <<"release", <<"release", "<name>">>>> @@
  "return" :> <<"return", <<"return", "<expr>">>>> @@
  "break" :> <<"break", <<"break">>>>
StatementForm(p) ==
  CASE check(p, "loop") /\ check(advance(p), "{") -> <<"loop", <<"loop", "<block>">>>>
    [] check(p, "return") /\ cur(advance(p)) \in {"}", ";", End} -> <<"return", <<"return">>>>
    [] OTHER -> StatementForms[cur(p)]

Imports == {"load_package", "load_packages"}
\* Behind lock and insert a semicolon is taken here already.
parse_statement(p) ==
  LET q == advance(p)
      f == IF cur(p) \in Imports THEN error(p) ELSE p
  IN  CASE check(p, "::") -> parse_compiler_stmt(p)
        [] check(p, "if") -> parse_if(q)
        [] check(p, "match") -> parse_match(q)
        [] check(p, "join") -> parse_join(q)
        [] cur(p) \in DOMAIN StatementForms ->
             LET r == Shaped(p, StatementForm(p)) IN IF check(p, "lock") THEN match(r, ";") ELSE r
        [] check(p, "{") /\ ~looks_like_braced_destructure(p) -> parse_block(p)
        [] OTHER ->
             IF check_name(p) /\ check(q, "insert")
             THEN match(Form(f, "insert", <<"<name>", "insert", "(", "<expr>", ",",
                                            "<expr>", ")">>), ";")
             ELSE parse_assign_or_expr(f)

-----------------------------------------------------------------------------
(* parse_program *)

RECURSIVE Header(_)
ImportList(p, q) == [q EXCEPT !.s = p.s \o Last(q.c).s, !.c = <<>>]
parse_load_packages(p) ==
  expect(ImportList(p, OneOrMore(expect(advance(p), "{"), "<name>")), "}")
Header(p) ==
  CASE Alive(p) /\ check(p, "load_package") -> Header(Run(p, <<"load_package", "<name>">>))
    [] Alive(p) /\ check(p, "load_packages") -> Header(parse_load_packages(p))
    [] OTHER -> p
parse_header(p) == Header(Run(p, <<"package", "<name>">>))

Boundaries == {"func", "enum", "object", "trait", "if", "loop", "match", "monitor",
               "lock", "return", "break", "join"}
RECURSIVE synchronize(_)
synchronize(p) ==
  CASE cur(p) \in Boundaries \cup {"}", End} -> p
    [] check(p, ";") -> advance(p)
    [] OTHER -> synchronize(advance(p))
\* (mutant) a boundary that is already there is not stepped over
SynchronizedOnly(p) == synchronize(p)
\* What the loop does when it has consumed nothing.
Resynchronized(p) ==
  LET q == synchronize(p) IN IF q.at = p.at THEN advance(q) ELSE q
Unmoved(p) == IF p.recover THEN Resynchronized(p) ELSE Stuck(p)
TurnedTo(p, r) == IF Alive(r) /\ r.at = p.at THEN Unmoved(r) ELSE r

VARIABLES
  parser,      \* tokens_, token_pos_, the first error, and the tree so far
  stage        \* "header", "statements" or "done"
vars == <<parser, stage>>

ParseHeader ==
  /\ stage = "header"
  /\ parser' = parse_header(parser)
  /\ stage' = "statements"

ParseStatement ==
  /\ stage = "statements" /\ Alive(parser) /\ ~check(parser, End)
  /\ parser' = TurnedTo(parser, StatementRead(parser, parse_statement(With(parser, <<>>))))
  /\ UNCHANGED stage

Finish ==
  /\ stage = "statements" /\ Alive(parser) /\ check(parser, End)
  /\ stage' = "done"
  /\ UNCHANGED parser

Begin(ts, recover) == parser = Start(ts, recover) /\ stage = "header"
Next == ParseHeader \/ ParseStatement \/ Finish
=============================================================================
