--------------------------- MODULE MCConfigOutbox ---------------------------
(* Small instances of ConfigOutbox for TLC. *)
EXTENDS ConfigOutbox, TLC

CONSTANTS p1, p2, a1, a2

(* Every revision is of one agent, or each of an agent of its own *)
MCOneAgent == [revision \in Revision |-> a1]

MCTwoAgents == [revision \in Revision |-> IF revision = 1 THEN a1 ELSE a2]

MCSymmetry == Permutations(Publisher)
=============================================================================
