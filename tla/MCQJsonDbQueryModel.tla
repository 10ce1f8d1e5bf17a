------------------------ MODULE MCQJsonDbQueryModel ------------------------
(* A small instance of QJsonDbQueryModel for TLC. *)
EXTENDS QJsonDbQueryModel

MCUuid == 1..3
MCPartition == 1..2
MCHome == [u \in Uuid |-> IF u = 2 THEN 2 ELSE 1]
MCContent == 1..3
MCIndexValue == <<1, 1, 2>>
MCFirst == {<<3, 1, 1>>}
=============================================================================
