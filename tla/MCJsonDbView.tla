---------------------------- MODULE MCJsonDbView ----------------------------
EXTENDS JsonDbView

\* Two contents of one source type with different keys, one of another source
\* type and one of a type no function is for.
Type(content) == CASE content \in {"a", "c"} -> "A" [] content = "b" -> "B" [] OTHER -> "Other"
KeyName(content) == CASE content = "a" -> "k1" [] content = "c" -> "k2" [] OTHER -> None

\* A Reduce object has one source type.
TypesOf(content) == IF content \in Reduce THEN {"A"} ELSE {"A", "B"}
=============================================================================
