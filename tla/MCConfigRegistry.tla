-------------------------- MODULE MCConfigRegistry --------------------------
(* One chain of tenant, asset and agent, two sources, one point.           *)
EXTENDS ConfigRegistry, TLC
Codes == Permutations(SourceCode) \union Permutations(Client)
=============================================================================
