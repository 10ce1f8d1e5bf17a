--------------------------- MODULE MCQmlPartition ---------------------------
EXTENDS QmlPartition

\* One object is for the default partition, one for the other.
MCFirstName == <<"", "B">>
=============================================================================
