-------------------------- MODULE MCConfigDelivery --------------------------
(* Two renders of one agent code, by one asset or by two.                  *)
EXTENDS ConfigDelivery, TLC
Names == Permutations(Owner) \union Permutations(Rev) \union Permutations(Source)
=============================================================================
