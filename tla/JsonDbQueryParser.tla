--------------------------- MODULE JsonDbQueryParser ---------------------------
(***************************************************************************)
(* The text of a query and what JsonDbQueryParser makes of it.  A text is  *)
(* a sequence of tokens, as JsonDbQueryTokenizer cuts it; a token is a     *)
(* string, "" at the end of the text.  Not modelled: names in quotes,      *)
(* variables for names.                                                    *)
(***************************************************************************)
EXTENDS Integers, SequencesExt

CONSTANTS
    Literal,    \* tokens that are values: "10" :> 10, ...
    Pattern,    \* tokens that are regular expressions: "/1.*/" :> 10, ...
    Variable    \* tokens that are variables

ASSUME ParserAssumption == "" \notin DOMAIN Literal \cup DOMAIN Pattern \cup Variable

Undefined == -1

\* An array or an object inside of an array.
Nested == 1000

\* What is left of a text, as the tokenizer hands it out.
pop(text) == IF text = <<>> THEN "" ELSE Head(text)
Rest(text) == IF text = <<>> THEN text ELSE Tail(text)

-----------------------------------------------------------------------------
\* A value; a variable has the value it is bound to, if it is.
parseJsonLiteral(token, bindings) ==
    LET known == Literal @@ bindings
    IN [ok |-> token \in DOMAIN Literal \cup Variable,
        value |-> IF token \in DOMAIN known THEN known[token] ELSE Undefined]

RECURSIVE parseJsonArray(_), parseJsonObject(_)

\* A value inside of an array or object, where nothing is bound.
Inner(text) ==
    CASE pop(text) = "[" -> parseJsonArray([rest |-> Rest(text), ok |-> TRUE, values |-> {}])
      [] pop(text) = "{" -> parseJsonObject([rest |-> Rest(text), ok |-> TRUE])
      [] OTHER -> parseJsonLiteral(pop(text), <<>>) @@ [rest |-> Rest(text)]

\* The elements of an array.  Whether it was well formed is what its last value
\* says, whatever came before.
parseJsonArray(read) ==
    LET After(found) ==
            LET array == [rest |-> Rest(found.rest), ok |-> found.ok, value |-> Nested,
                          values |-> read.values \cup {found.value}]
            IN IF pop(found.rest) = "," THEN parseJsonArray(array)
               ELSE [array EXCEPT !.ok = @ /\ pop(found.rest) = "]"]
    IN IF pop(read.rest) \in {"", "]", "|"}
       THEN [rest |-> Rest(read.rest), ok |-> read.ok, value |-> Nested, values |-> read.values]
       ELSE After(Inner(read.rest))

parseJsonObject(read) ==
    LET text == read.rest
        After(found) ==
            IF pop(found.rest) = "," THEN parseJsonObject([rest |-> Rest(found.rest), ok |-> found.ok])
            ELSE [rest |-> Rest(found.rest), ok |-> found.ok /\ pop(found.rest) = "}", value |-> Nested]
    IN CASE pop(text) \in {"", "}", "|"} -> [rest |-> Rest(text), ok |-> read.ok, value |-> Nested]
         [] pop(text) \notin {"", "}", "|"} /\ pop(Rest(text)) # ":" ->
                [rest |-> Rest(Rest(text)), ok |-> FALSE, value |-> Nested]
         [] OTHER -> After(Inner(Rest(Rest(text))))

\* A regular expression, or a variable that is bound to one.
parsePattern(token, bindings) ==
    LET known == Pattern @@ bindings
    IN [ok |-> token \in DOMAIN known,
        value |-> IF token \in DOMAIN known THEN known[token] ELSE Undefined]

\* The operand of a condition: a value, or for an array its elements.
parseValue(op, text, bindings) ==
    LET Single(found) == found @@ [values |-> {}]
    IN IF op \in {"exists", "notExists"} THEN [ok |-> TRUE, rest |-> text, value |-> Undefined, values |-> {}]
       ELSE IF op \in {"=~", "!=~"} THEN Single(parsePattern(pop(text), bindings) @@ [rest |-> Rest(text)])
       ELSE IF pop(text) \in {"[", "{"} THEN Single(Inner(text))
       ELSE Single(parseJsonLiteral(pop(text), bindings) @@ [rest |-> Rest(text)])

RECURSIVE Path(_, _)

\* a -> b -> c: the properties before the last, and the last.
Path(text, joins) ==
    IF pop(Rest(text)) = "->" THEN Path(Rest(Rest(text)), Append(joins, pop(text)))
    ELSE [join |-> joins, property |-> pop(text), rest |-> Rest(text)]

parseTerm(text, bindings) ==
    LET Compared(path, op, operand) ==
            [ok |-> operand.ok, rest |-> operand.rest,
             term |-> [property |-> path.property, op |-> op, join |-> path.join,
                       value |-> operand.value, values |-> operand.values]]
        Of(path) == Compared(path, pop(path.rest), parseValue(pop(path.rest), Rest(path.rest), bindings))
    IN Of(Path(IF pop(text) = "|" THEN Rest(text) ELSE text, <<>>))

RECURSIVE parseOrTerm(_, _, _)

\* The conditions up to the bracket; one may follow another without a bar.
parseOrTerm(text, terms, bindings) ==
    LET After(parsed) ==
            IF parsed.ok /\ pop(parsed.rest) # "]"
            THEN parseOrTerm(parsed.rest, Append(terms, parsed.term), bindings)
            ELSE [ok |-> parsed.ok, terms |-> Append(terms, parsed.term), rest |-> parsed.rest]
    IN After(parseTerm(text, bindings))

RECURSIVE parseMap(_, _)

\* { key : path, ... }
parseMap(text, map) ==
    LET After(path, end) ==
            IF pop(Rest(text)) # ":" \/ end \notin {",", "}"} THEN [ok |-> FALSE, map |-> map, rest |-> text]
            ELSE parseMap(IF end = "," THEN Rest(path.rest) ELSE path.rest,
                          Append(map, <<pop(text), Append(path.join, path.property)>>))
        Of(path) == After(path, pop(path.rest))
    IN IF pop(text) \in {"", "}"} THEN [ok |-> TRUE, map |-> map, rest |-> Rest(text)]
       ELSE Of(Path(Rest(Rest(text)), <<>>))

\* One part of a query: its sign, and the text behind that.
parsePart(query, sign, text, bindings) ==
    LET WithTerm(read) == [query EXCEPT !.terms = Append(@, read.terms), !.ok = read.ok, !.rest = read.rest]
        WithMap(read) == [query EXCEPT !.map = read.map, !.ok = read.ok /\ pop(text) = "{", !.rest = read.rest]
        order == [property |-> pop(text), ascending |-> sign \in {"/", ">"}]
    IN CASE sign = "?" -> WithTerm(parseOrTerm(text, <<>>, bindings))
         [] sign = "=" -> WithMap(parseMap(Rest(text), query.map))
         [] sign \in {"/", "\\", ">", "<"} -> [query EXCEPT !.order = Append(@, order), !.rest = Rest(text)]
         [] sign = "count" -> [query EXCEPT !.aggregate = "count", !.rest = text]
         [] sign = "*" -> [query EXCEPT !.rest = text]
         [] OTHER -> [query EXCEPT !.ok = FALSE]

RECURSIVE parseParts(_, _)

\* What is not in brackets ends the query, and is no error but at its beginning.
parseParts(query, bindings) ==
    LET After(part) ==
            IF ~part.ok \/ pop(part.rest) # "]" THEN [part EXCEPT !.ok = FALSE]
            ELSE parseParts([part EXCEPT !.rest = Rest(@)], bindings)
    IN IF pop(query.rest) # "[" THEN query
       ELSE After(parsePart(query, pop(Rest(query.rest)), Rest(Rest(query.rest)), bindings))

Empty(ok) == [ok |-> ok, terms |-> <<>>, order |-> <<>>, aggregate |-> "", map |-> <<>>]

\* A query without conditions and order is ordered by type.
WithOrder(query) ==
    IF query.terms # <<>> \/ query.order # <<>> THEN query
    ELSE [query EXCEPT !.order = <<[property |-> "_type", ascending |-> TRUE]>>]

Parsed(text, bindings) == parseParts(Empty(TRUE) @@ [rest |-> text], bindings)

parse(text, bindings) ==
    LET Of(parsed) ==
            IF ~parsed.ok THEN Empty(FALSE) ELSE WithOrder([f \in DOMAIN Empty(TRUE) |-> parsed[f]])
    IN IF pop(text) # "[" THEN Empty(FALSE) ELSE Of(Parsed(text, bindings))

-----------------------------------------------------------------------------
(***************************************************************************)
(* How a query is written according to its documentation, and the queries  *)
(* of one or two parts: [operand |-> its tokens, value, values] are what   *)
(* Operand(op) holds.                                                      *)
(***************************************************************************)
Separated(parts, separator) ==
    FoldLeft(LAMBDA text, part : IF text = <<>> THEN part ELSE text \o <<separator>> \o part, <<>>, parts)

WrittenPath(path) == Separated([i \in DOMAIN path |-> <<path[i]>>], "->")

WrittenTerm(t) == WrittenPath(Append(t.join, t.property)) \o <<t.op>> \o t.operand

WrittenOrTerm(orTerm) ==
    <<"[", "?">> \o Separated([i \in DOMAIN orTerm |-> WrittenTerm(orTerm[i])], "|") \o <<"]">>

WrittenOrder(order) == <<"[", IF order.ascending THEN "/" ELSE "\\", order.property, "]">>

WrittenMap(map) ==
    IF map = <<>> THEN <<>>
    ELSE <<"[", "=", "{">>
         \o Separated([i \in DOMAIN map |-> <<map[i][1], ":">> \o WrittenPath(map[i][2])], ",") \o <<"}", "]">>

Written(query) ==
    FlattenSeq([i \in DOMAIN query.terms |-> WrittenOrTerm(query.terms[i])]
               \o [i \in DOMAIN query.order |-> WrittenOrder(query.order[i])])
    \o WrittenMap(query.map) \o IF query.aggregate = "" THEN <<>> ELSE <<"[", query.aggregate, "]">>

\* What a written query is to mean.
Meant(query) ==
    LET Term(t) == [f \in DOMAIN t \ {"operand"} |-> t[f]]
    IN WithOrder([query EXCEPT !.terms = [i \in DOMAIN @ |-> [j \in DOMAIN @[i] |-> Term(@[i][j])]]])

\* What is written is what is understood; and a text that lacks a token is
\* refused, unless that is the bar between two conditions, an array ends with a
\* comma, or the query seems to end before the text: what is left is not read.
UnderstoodAsWritten(queries) ==
    LET texts == {Written(q) : q \in queries}
    IN /\ \A q \in queries : parse(Written(q), <<>>) = Meant(q)
       /\ \A text \in texts : \A i \in DOMAIN text : \A lacking \in {RemoveAt(text, i)} :
            parse(lacking, <<>>).ok =>
                \/ lacking \in texts \/ text[i] = "|" \/ Parsed(lacking, <<>>).rest # <<>>
                \/ \E j \in 2..Len(lacking) : lacking[j - 1] = "," /\ lacking[j] = "]"
=============================================================================
