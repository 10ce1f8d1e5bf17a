------------------------ MODULE MCJsonDbNotification ------------------------
(* A small instance of JsonDbNotification for TLC. *)
EXTENDS JsonDbNotification

MCValue == {1, 2}
MCMatching == {1, 2}
MCFirst == {[k \in Key |-> IF k = one THEN 1 ELSE 0] : one \in {CHOOSE k \in Key : TRUE}}
=============================================================================
