---------------------------- MODULE MCEdgeOutbox ----------------------------
(* Small instances of EdgeOutbox for TLC. *)
EXTENDS EdgeOutbox, TLC

CONSTANTS w1, w2, w3

MCRetryBackoff == <<1>>

MCNoBackoff == <<>>

(* Workers on the wall clock *)
MCWallClock == [w \in Worker |-> {0}]

(* w1 is a source adapter whose observations are stamped up to a second off *)
MCAdapterClock == [w \in Worker |-> IF w = w1 THEN {-1, 1} ELSE {0}]

MCSymmetry == Permutations(Worker)
=============================================================================
