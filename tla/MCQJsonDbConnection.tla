------------------------ MODULE MCQJsonDbConnection ------------------------
(* A small instance of QJsonDbConnection for TLC. *)
EXTENDS QJsonDbConnection
=============================================================================
