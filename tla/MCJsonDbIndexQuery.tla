------------------------- MODULE MCJsonDbIndexQuery -------------------------
(* A small instance of JsonDbIndexQuery for TLC. *)
EXTENDS JsonDbIndexQuery

MCUuid == {10, 20, 30}
MCProperty == {"_type", "a", "b"}
Thing(type, a, b) == [p \in MCProperty |-> CASE p = "_type" -> type [] p = "a" -> a [] p = "b" -> b]
MCFirstObject == {Thing(10, 10, Undefined), Thing(10, 30, 10), Thing(20, 20, 10)}
MCObject == MCFirstObject \cup {Thing(20, 21, 10), Thing(10, Undefined, 10), Thing(10, Number(20), 20)}
MCFirstTables == {[u \in MCUuid |-> CASE u = 10 -> Thing(10, 10, Undefined)
                                     [] u = 20 -> Thing(20, 20, 10)
                                     [] u = 30 -> Thing(10, 30, 10)]}
MCFirstIndexes == {{"_type", "a"}, {"_type", "b"}}
MCPropertyType == [p \in MCProperty |-> "string"]
MCObjectTypes == [p \in MCProperty |-> IF p = "b" THEN {20} ELSE {}]
MCLimit == {-1, 1}
MCReadable == [guest |-> {10}, root |-> {10, 20}]

MCLiteral == [t \in {"10", "20", "number"} |-> CASE t = "10" -> 10 [] t = "20" -> 20 [] t = "number" -> Number(20)]
MCPattern == [t \in {"/2.*/"} |-> 20]
MCVariable == {"%v"}

Ask1(owner, text, bindings) == [owner |-> owner, text |-> text, bindings |-> bindings]
Root(text) == Ask1("root", text, <<>>)

MCAsked == {
    Root(<<"[", "?", "_type", "=", "10", "]">>),
    Root(<<"[", "/", "a", "]">>),
    Ask1("guest", <<"[", "/", "a", "]">>, <<>>),
    Root(<<"[", "?", "a", "!=", "20", "]", "[", "\\", "a", "]">>),
    Ask1("root", <<"[", "?", "a", ">", "%v", "]", "[", "?", "_type", "!=", "20", "]">>, [v \in {"%v"} |-> 10]),
    Ask1("root", <<"[", "?", "a", ">", "%v", "]", "[", "?", "_type", "!=", "20", "]">>, <<>>),
    Root(<<"[", "?", "a", "=", "20", "|", "b", "notExists", "]", "[", "/", "b", "]">>),
    Root(<<"[", "?", "_type", "in", "[", "10", ",", "20", "]", "]", "[", "?", "b", "->", "a", "=", "10", "]">>),
    Root(<<"[", "/", "b", "]">>),
    Root(<<"[", "?", "a", "!=~", "/2.*/", "]">>),
    Root(<<"[", "?", "_type", "=", "10", "|", "_type", "!=", "10", "]">>),
    Root(<<"[", "?", "b", "->", "_type", "=", "10", "]">>),
    Root(<<"[", "?", "b", "->", "b", "->", "a", "=", "10", "]">>),
    Root(<<"[", "?", "a", "=", "number", "]">>),
    Root(<<"[", "?", "a", "like", "20", "]">>),
    Root(<<"[", "?", "a", "startsWith", "20", "]", "[", "=", "{", "k", ":", "b", "->", "a", "}", "]", "[", "/", "b", "]">>),
    Root(<<"[", "?", "_uuid", "<=", "20", "]", "[", "\\", "_uuid", "]">>)}

MCQuery == {q \in {Read(a) : a \in MCAsked} : q.ok}

\* Queries of up to two conditions, with an order, a map, or a count.
Operand(op) ==
    CASE op = "=" -> {[operand |-> <<"10">>, value |-> 10, values |-> {}],
                      [operand |-> <<"%v">>, value |-> Undefined, values |-> {}]}
      [] op = "in" -> {[operand |-> <<"[", "10", ",", "20", "]">>, value |-> Nested, values |-> {10, 20}],
                       [operand |-> <<"[", "10", "]">>, value |-> Nested, values |-> {10}],
                       [operand |-> <<"[", "]">>, value |-> Nested, values |-> {}],
                       [operand |-> <<"[", "[", "10", "]", "]">>, value |-> Nested, values |-> {Nested}],
                       [operand |-> <<"[", "[", "]", "]">>, value |-> Nested, values |-> {Nested}],
                       [operand |-> <<"[", "{", "}", "]">>, value |-> Nested, values |-> {Nested}],
                       [operand |-> <<"[", "{", "k", ":", "10", "}", "]">>, value |-> Nested, values |-> {Nested}]}
      [] op = "exists" -> {[operand |-> <<>>, value |-> Undefined, values |-> {}]}
      [] op = "=~" -> {[operand |-> <<"/2.*/">>, value |-> 20, values |-> {}]}

SampleTerm ==
    UNION {{o @@ [property |-> "a", op |-> op, join |-> join] : o \in Operand(op), join \in {<<>>, <<"b">>, <<"b", "c">>}} :
              op \in {"=", "in", "exists", "=~"}}
Few == {t \in SampleTerm : t.op \in {"=", "exists"} /\ Len(t.join) < 2}
Part(terms, order, map, aggregate) ==
    [ok |-> TRUE, terms |-> terms, order |-> order, map |-> map, aggregate |-> aggregate]
Up == [property |-> "a", ascending |-> TRUE]
Down == [property |-> "b", ascending |-> FALSE]

MCSample ==
    {Part(<<orTerm>>, order, <<>>, "") : orTerm \in {<<t>> : t \in SampleTerm} \cup {<<t, u>> : t, u \in Few},
                                         order \in {<<>>, <<Up>>}}
    \cup {Part(<<<<t>>, <<u>>>>, order, <<>>, "") : t, u \in Few, order \in {<<>>, <<Down>>}}
    \cup {Part(terms, order, map, aggregate) :
             terms \in {<<>>} \cup {<<<<t>>>> : t \in Few}, order \in {<<Up>>, <<Down>>},
             map \in {<<>>, <<<<"k", <<"b", "a">>>>>>, <<<<"k", <<"a">>>>, <<"l", <<"b">>>>>>},
             aggregate \in {"", "count"}}

\* The parser reads these as they are written, see UnderstoodAsWritten.
ASSUME ParserIsSound == UnderstoodAsWritten(MCSample)
=============================================================================
