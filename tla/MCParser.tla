------------------------------ MODULE MCParser --------------------------------
(***************************************************************************)
(* The texts the parser is given: every binary operator under every other  *)
(* on either side, every form of expression in every place of every other, *)
(* every statement with every expression and every block with every        *)
(* statement; and each of a shorter list of texts with any one token       *)
(* dropped, or any one of some tokens put in anywhere.                     *)
(***************************************************************************)
EXTENDS MunxParserProps

a == Name("a")
b == Name("b")
int == Named("int")
One == Node("literal", <<"1">>, <<>>)
None == List(<<>>)
Block(statements) == Node("block", <<>>, statements)
Do(e) == Node("expr", <<>>, <<e>>)
Call(f, args) == Node("call", <<>>, <<f, None, List(args)>>)
Bind(e) == Node("assign=", <<>>, <<List(<<Node("target", <<"a">>, <<>>)>>), e>>)
Binary(op, l, r) == Node(op, <<>>, <<l, r>>)
BinaryOps == UNION {Levels[n] : n \in DOMAIN Levels}

Types == {int, Node("tuple", <<>>, <<List(<<int, Named("T")>>)>>),
          Node("tuple", <<>>, <<None>>), Node("map", <<>>, <<Named("string"), int>>),
          Node("array", <<>>, <<int>>), Node("lambda", <<>>, <<List(<<int>>), Named("T")>>),
          Node("array", <<>>, <<Node("array", <<>>, <<Named("T")>>)>>)}
Param(t) == Node("param", <<"a">>, <<t>>)
Field(t) == Node("field", <<"a">>, <<t>>)
Lambda(t, block) == Node("function", <<>>, <<List(<<Param(t)>>), t, block>>)

\* Every form of expression around e.
Around(e) ==
  {Binary("+", e, b), Binary("*", a, e), Binary("&&", e, e), Binary("<", a, e), Binary("-", b, e)}
    \cup {Node(op, <<>>, <<e>>) : op \in {"!", "~", "-"}}
    \cup {Node("->", <<"a">>, <<e>>), Node(":=>", <<"a">>, <<e>>),
          Node("member", <<"a">>, <<e>>), Node("index", <<>>, <<e, One>>),
          Node("index", <<>>, <<a, e>>), Call(e, <<>>), Call(a, <<e, b>>),
          Node("call", <<>>, <<a, List(<<int, Named("T")>>), List(<<e>>)>>),
          Node("cast", <<>>, <<int, e>>), Node("alloc", <<>>, <<e, None>>),
          Node("alloc", <<>>, <<One, List(<<e, b>>)>>), Node("simd", <<>>, <<e>>),
          Node("map_of", <<>>, <<int, int, List(<<Node("entry", <<>>, <<e, e>>)>>)>>),
          Node("list_of", <<>>, <<List(<<e>>)>>), Node("list_of", <<>>, <<List(<<a, e>>)>>),
          Node("typed", <<>>, <<int, List(<<e>>)>>),
          Node("tuple_of", <<>>, <<e>>), Node("tuple_of", <<>>, <<a, e>>),
          Node("entries", <<>>, <<Node("entry", <<>>, <<a, e>>), Node("entry", <<>>, <<e, b>>)>>),
          Call(Name("likely"), <<e>>), Lambda(int, Block(<<Node("return", <<>>, <<e>>)>>)),
          Call(Node("name", <<"::", "members">>, <<>>), <<e, a>>)}
Plain ==
  {a, One, Node("literal", <<"\"s\"">>, <<>>), Name("this_package"), None,
   Node("literal", <<"null">>, <<>>), Node("member_of", <<"E", "A">>, <<>>),
   Node("<-", <<"a">>, <<>>), Node("<=:", <<"a">>, <<>>), Node("free", <<"a">>, <<>>),
   Node("tuple_of", <<>>, <<>>), Node("list_of", <<>>, <<None>>),
   Node("typed", <<>>, <<int, None>>), Node("map_of", <<>>, <<int, int, None>>)} \ {None}
Expressions == Plain \cup Around(a)

\* Not among them: a < b && a > (...), which the parser takes for a call of a.
Operators ==
  {Binary(o, Binary(q, a, b), One) : o, q \in BinaryOps}
    \cup {Binary(o, One, Binary(q, a, b)) : o, q \in BinaryOps}
Nested == UNION {Around(e) : e \in Expressions}

\* Every statement that holds e.
With1(e) ==
  {Do(e), Bind(e), Node("return", <<>>, <<e>>),
   Node("assign+=", <<>>,
        <<List(<<Node("target", <<"a">>, <<>>), Node("discard", <<>>, <<>>)>>), e>>),
   Node("insert", <<"a">>, <<b, e>>),
   Node("if", <<>>, <<Node("branch", <<>>, <<e, Block(<<>>)>>)>>),
   Node("if", <<>>, <<Node("branch", <<"unlikely">>, <<e, Block(<<>>)>>)>>),
   Node("loop", <<>>, <<e, Block(<<Node("break", <<>>, <<>>)>>)>>),
   Node("match", <<>>, <<e, Node("case", <<"E", "A">>, <<Block(<<Do(a)>>)>>),
                         Node("case", <<"E", "B">>, <<Block(<<>>)>>)>>),
   Node("typeid_match", <<>>, <<e, Node("case", <<"Int">>, <<b>>), Node("default", <<>>, <<e>>)>>),
   Node("object", <<"O">>, <<List(<<Field(int), Node("field", <<"b">>, <<int, e>>)>>)>>)}
Hinting(e) == e.k = "call" /\ e.c[1] = Name("likely")
Simple ==
  {Node("return", <<>>, <<>>), Node("break", <<>>, <<>>), Bind(b), Do(Call(Name("join"), <<a, b>>)),
   Node("enum", <<"E">>, <<NameList(<<"A", "B">>)>>), Node("enum", <<"E">>, <<None>>)}
    \cup {Node(k, <<"a">>, <<>>) : k \in {"lock", "acquire", "release"}}
    \cup {Node("trait", <<"O">>, <<List(<<Field(t)>>)>>) : t \in Types}
\* Every statement that holds a block.
Over(s) ==
  LET block == Block(<<s, s>>)
  IN  {block, Node("loop", <<>>, <<block>>), Bind(Lambda(int, block)),
       Node("if", <<>>, <<Node("branch", <<>>, <<a, block>>), Node("branch", <<>>, <<b, block>>), block>>),
       Node("func", <<"f">>, <<None, None, Named("void"), block>>),
       Node("match", <<>>, <<a, Node("case", <<"E", "A">>, <<block>>)>>),
       Node("monitor", <<"a">>, <<block, Named("exception"), block>>),
       Node("reflect_for", <<"a">>, <<b, block>>)}
    \cup {Node("func", <<"f">>, <<NameList(<<"T">>), List(<<Param(t), Param(int)>>), t, block>>) :
            t \in Types}
Statements0 == UNION {With1(e) : e \in {x \in Expressions : ~Hinting(x)}} \cup Simple

Programs == {<<Bind(e)>> : e \in Operators \cup Nested} \cup {<<s>> : s \in Statements0}
              \cup {<<t>> : t \in UNION {Over(s) : s \in With1(a) \cup Simple}}
Edited == {<<Bind(e)>> : e \in Expressions} \cup {<<s, Bind(a)>> : s \in With1(a) \cup Simple}
            \cup {<<t>> : t \in Over(Bind(a))}

Insertions == {"(", ")", "{", "}", "[", "]", ",", "=", ";", "::", "+", "<", "a", "func", "else"}
Dropped(ts, i) == SubSeq(ts, 1, i - 1) \o SubSeq(ts, i + 1, Len(ts))
PutIn(ts, i, t) == SubSeq(ts, 1, i - 1) \o <<t>> \o SubSeq(ts, i, Len(ts))

Untouched ==
  \E program \in Programs \cup Edited, recover \in BOOLEAN, imports \in {<<>>, <<"io", "json">>} :
    /\ program \notin Edited => imports = <<>> /\ ~recover
    /\ Begin(Append(Write(imports, program), End), recover)
    /\ written = program /\ edited = FALSE
Touched ==
  \E program \in Edited, recover \in BOOLEAN :
    LET ts == Write(<<"io">>, program)
    IN  \E i \in 1..Len(ts) :
          /\ \/ Begin(Append(Dropped(ts, i), End), recover)
             \/ \E t \in Insertions : Begin(Append(PutIn(ts, i, t), End), recover)
          /\ written = <<>> /\ edited = TRUE
Init == (Untouched \/ Touched) /\ turns = 0

NextText ==
  /\ \/ (ParseHeader \/ Finish) /\ UNCHANGED turns
     \/ ParseStatement /\ turns' = turns + 1
  /\ UNCHANGED <<written, edited>>
Spec == Init /\ [][NextText]_<<vars, written, edited, turns>>
=============================================================================
