------------------------------ MODULE MCDBServer ------------------------------
(* A small instance of DBServer for TLC. *)
EXTENDS DBServer

Fixed(name, default) == [name |-> name, removable |-> FALSE, default |-> default]
Stick(name, default) == [name |-> name, removable |-> TRUE, default |-> default]

MCConfig == {
    <<Stick("p", TRUE)>>,
    <<Stick("p", FALSE), Fixed("q", FALSE)>>,
    <<Fixed("q", FALSE), Fixed("r", TRUE), Fixed("q", TRUE)>>,
    <<Fixed("q", FALSE), Fixed("p", TRUE)>>,
    <<Fixed("q", FALSE), Fixed("q", TRUE)>>,
    <<Stick("default", FALSE)>>}
MCWatcher == [c1 |-> {"a", "w1"}, c2 |-> {"w2"}]
MCPartitionWatcher == [c1 |-> "w1", c2 |-> "w2"]
MCAsked == [c1 |-> "", c2 |-> "p"]
Other == [NoObject EXCEPT !.uuid = <<"Other", "o">>, !.type = "other"]
MCRequest ==
    {<<Watch("a", name)>> : name \in {"", "p", "r"}}
    \cup {<<Deleted(Watch("a", ""))>>, <<Other, Watch("a", "q")>>,
          <<Deleted(Watch("a", "")), Deleted(Other)>>,
          <<Deleted(Record("p", FALSE, FALSE))>>, <<Record("q", FALSE, FALSE)>>,
          <<[Watch("a", "") EXCEPT !.type = "other"]>>}
===============================================================================
