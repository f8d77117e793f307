--------------------------- MODULE MCEdgeIngestion ---------------------------
(* Small instances of EdgeIngestion for TLC. *)
EXTENDS EdgeIngestion

CONSTANTS adapter, sensor, switch, command

MCNumber == 0..3

(* A sensor reports changes of 2 and more, a switch every change *)
MCChangeThreshold == [p \in Point |-> IF p = sensor THEN 2 ELSE Null]
=============================================================================
