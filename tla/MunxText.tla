------------------------------- MODULE MunxText -------------------------------
(***************************************************************************)
(* How the grammar of the language writes a tree down: the words of each   *)
(* form, the precedence of the operators, parentheses where the precedence *)
(* calls for them, and a semicolon after every statement.  Nothing here is *)
(* taken from the parser, which is judged against it.                      *)
(***************************************************************************)
EXTENDS MunxParser

LOCAL Inner(seqs) == FlattenSeq(seqs)
LOCAL Commas(seqs) ==
  Inner([i \in DOMAIN seqs |-> IF i = 1 THEN seqs[i] ELSE <<",">> \o seqs[i]])

\* The looser the operator, the lower.
Tightness ==
  "->" :> 0 @@ ":=>" :> 0 @@ "||" :> 1 @@ "&&" :> 2 @@ "==" :> 3 @@ "!=" :> 3 @@
  "<" :> 4 @@ ">" :> 4 @@ "<=" :> 4 @@ ">=" :> 4 @@ "+" :> 5 @@ "-" :> 5 @@
  "*" :> 6 @@ "/" :> 6 @@ "%" :> 6
PrefixTightness == 7
PostfixTightness == 8
Tight(t) ==
  IF t.k \in {"<-", "<=:", "!", "~"} \/ (t.k = "-" /\ Len(t.c) = 1) THEN PrefixTightness
  ELSE IF t.k \in DOMAIN Tightness THEN Tightness[t.k]
  ELSE PostfixTightness

RECURSIVE Text(_)
Texts(nodes) == [i \in DOMAIN nodes |-> Text(nodes[i])]
Listed(t) == Commas(Texts(t.c) \o [i \in DOMAIN t.s |-> <<t.s[i]>>])
Atleast(t, n) == IF Tight(t) < n THEN <<"(">> \o Text(t) \o <<")">> ELSE Text(t)
\* An array of one name in front of a bracket would be the type of a typed array.
Operand(t) == IF t.k = "list_of" THEN <<"(">> \o Text(t) \o <<")">>
                                 ELSE Atleast(t, PostfixTightness)
Generic(t) == IF t.c \o t.s = <<>> THEN <<>> ELSE <<"<">> \o Listed(t) \o <<">">>
\* An expression where a brace or a :: would begin a statement.
Apart(t) == IF Head(Text(t)) \in {"{", "::"} THEN <<"(">> \o Text(t) \o <<")">> ELSE Text(t)
Typing(t) == IF t = Named("void") THEN <<>> ELSE <<":">> \o Text(t)
Ended(nodes) == Inner([i \in DOMAIN nodes |-> Text(nodes[i]) \o <<";">>])
Marked(hint, condition) ==
  IF hint = <<>> THEN condition ELSE hint \o <<"(">> \o condition \o <<")">>

ExpressionText(t) ==
  CASE t.k = "member_of" -> <<t.s[1], "::", t.s[2]>>
    [] t.k \in {"name", "literal"} -> t.s
    [] t.k = "call" -> Operand(t.c[1]) \o Generic(t.c[2]) \o <<"(">> \o Listed(t.c[3]) \o <<")">>
    [] t.k = "member" -> Operand(t.c[1]) \o <<".", t.s[1]>>
    [] t.k = "index" -> Operand(t.c[1]) \o <<"[">> \o Text(t.c[2]) \o <<"]">>
    [] t.k = "cast" -> <<"cast", "[">> \o Text(t.c[1]) \o <<"]", "(">> \o Text(t.c[2]) \o <<")">>
    [] t.k = "alloc" ->
         <<"alloc", "[">> \o Text(t.c[1]) \o <<"]", "[">> \o Listed(t.c[2]) \o <<"]">>
    [] t.k = "free" -> <<"free", t.s[1]>>
    [] t.k = "simd" -> <<"simd", "(">> \o Text(t.c[1]) \o <<")">>
    [] t.k = "function" ->
         <<"lambda", "(">> \o Listed(t.c[1]) \o <<")", ":">> \o Text(t.c[2]) \o <<"=>">>
           \o Text(t.c[3])
    [] t.k = "map_of" ->
         <<"map", "[">> \o Text(t.c[1]) \o <<"=>">> \o Text(t.c[2]) \o <<"]", "{">>
           \o Listed(t.c[3]) \o <<"}">>
    [] t.k = "list_of" -> <<"[">> \o Listed(t.c[1]) \o <<"]">>
    [] t.k = "typed" -> <<"[">> \o Text(t.c[1]) \o <<"]", "[">> \o Listed(t.c[2]) \o <<"]">>
    [] t.k \in {"entries", "tuple_of"} -> <<"{">> \o Listed(t) \o <<"}">>
    [] t.k = "entry" -> Text(t.c[1]) \o <<":">> \o Text(t.c[2])
    [] t.k \in {"->", ":=>"} -> Atleast(t.c[1], 1) \o <<t.k, t.s[1]>>
    [] t.k \in {"<-", "<=:"} -> <<t.k, t.s[1]>>
    [] Len(t.c) = 1 -> <<t.k>> \o Atleast(t.c[1], PrefixTightness)
    [] OTHER -> Atleast(t.c[1], Tight(t)) \o <<t.k>> \o Atleast(t.c[2], Tight(t) + 1)

TypeText(t) ==
  CASE t.k = "tuple" -> <<"tuple", "[">> \o Listed(t.c[1]) \o <<"]">>
    [] t.k = "map" -> <<"map", "[">> \o Text(t.c[1]) \o <<"=>">> \o Text(t.c[2]) \o <<"]">>
    [] t.k = "array" -> <<"[">> \o Text(t.c[1]) \o <<"]">>
    [] t.k = "lambda" ->
         <<"Lambda", "[", "{">> \o Listed(t.c[1]) \o <<"}", "=>">> \o Text(t.c[2]) \o <<"]">>
    [] t.k = "param" -> <<t.s[1], ":">> \o Text(t.c[1])
    [] t.k = "field" ->
         <<t.s[1], ":">> \o Text(t.c[1])
           \o (IF Len(t.c) = 1 THEN <<>>
               ELSE <<"<", "constraint", ">", "[">> \o Text(t.c[2]) \o <<"]">>)
    [] OTHER -> t.s

IfText(t) ==
  Inner([i \in DOMAIN t.c |->
           (IF i = 1 THEN <<>> ELSE <<"else">>)
             \o (IF t.c[i].k = "block" THEN Text(t.c[i])
                 ELSE <<"if">> \o Marked(t.c[i].s, Text(t.c[i].c[1])) \o Text(t.c[i].c[2]))])
TargetsText(t) ==
  Commas([i \in DOMAIN t.c |-> IF t.c[i].k = "discard" THEN <<"_">> ELSE t.c[i].s])

\* join [a, b] is kept as a call of join.
IsJoin(t) == t.k = "call" /\ t.c[1] = Name("join")

StatementText(t) ==
  CASE t.k = "expr" /\ IsJoin(t.c[1]) -> <<"join", "[">> \o Listed(t.c[1].c[3]) \o <<"]">>
    [] t.k = "expr" /\ ~IsJoin(t.c[1]) -> Apart(t.c[1])
    [] t.k = "assign=" -> TargetsText(t.c[1]) \o <<"=">> \o Text(t.c[2])
    [] t.k = "assign+=" -> <<"{">> \o TargetsText(t.c[1]) \o <<"}", "+=">> \o Text(t.c[2])
    [] t.k = "block" -> <<"{">> \o Ended(t.c) \o <<"}">>
    [] t.k = "func" -> <<"func", t.s[1]>> \o Generic(t.c[1]) \o <<"(">> \o Listed(t.c[2]) \o <<")">>
                         \o Typing(t.c[3]) \o Text(t.c[4])
    [] t.k \in {"enum", "object", "trait"} ->
         <<t.k, t.s[1], "{">> \o Listed(t.c[1]) \o <<"}">>
    [] t.k = "if" -> IfText(t)
    [] t.k = "loop" ->
         <<"loop">> \o (IF Len(t.c) = 1 THEN <<>> ELSE Apart(t.c[1])) \o Text(Last(t.c))
    [] t.k = "match" ->
         <<"match">> \o Text(t.c[1]) \o <<"{">> \o Inner(Texts(Tail(t.c))) \o <<"}">>
    [] t.k = "case" /\ Len(t.s) = 2 -> <<"case", t.s[1], "::", t.s[2]>> \o Text(t.c[1])
    [] t.k = "monitor" ->
         <<"monitor">> \o Text(t.c[1]) \o <<"trap", "(", t.s[1], ":">> \o Text(t.c[2])
           \o <<")">> \o Text(t.c[3])
    [] t.k \in {"lock", "acquire", "release"} -> <<t.k, t.s[1]>>
    [] t.k = "return" -> <<"return">> \o Inner(Texts(t.c))
    [] t.k = "break" -> <<"break">>
    [] t.k = "insert" ->
         <<t.s[1], "insert", "(">> \o Commas(Texts(t.c)) \o <<")">>
    [] t.k = "reflect_for" ->
         <<"::", "reflect_for", "(", t.s[1], "of">> \o Text(t.c[1]) \o <<")">> \o Text(t.c[2])
    [] t.k = "typeid_match" ->
         <<"::", "match">> \o Text(t.c[1]) \o <<"{">> \o Ended(Tail(t.c)) \o <<"}">>
    [] t.k = "case" /\ Len(t.s) = 1 ->
         <<"::", "case", "typeid", "(", t.s[1], ")", "=>">> \o Text(t.c[1])
    [] t.k = "default" -> <<"::", "default", "=>">> \o Text(t.c[1])

Text(t) ==
  CASE t.k \in {"type", "tuple", "map", "array", "lambda", "param", "field"} -> TypeText(t)
    [] t.k \in {"expr", "assign=", "assign+=", "block", "func", "enum", "object", "trait",
                "if", "loop", "match", "case", "default", "monitor", "lock", "acquire",
                "release", "return", "break", "insert", "reflect_for", "typeid_match"} ->
         StatementText(t)
    [] OTHER -> ExpressionText(t)

ProgramText(package, imports, statements) ==
  <<"package", package>> \o Inner([i \in DOMAIN imports |-> <<"load_package", imports[i]>>])
    \o Ended(statements)
=============================================================================
