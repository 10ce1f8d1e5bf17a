------------------------ MODULE MCJsonDbObjectTable ------------------------
EXTENDS JsonDbObjectTable

\* Every object has a _type; only one of the two contents has the property of
\* the user's index, and an Index object does not.
FieldOf(i, content) ==
    CASE i = "type" -> IF content = "index" THEN "Index" ELSE "Item"
      [] content = "a" -> "x"
      [] OTHER -> "none"
=============================================================================
