---------------------------- MODULE MCAssetGraph ----------------------------
(* Small instances of AssetGraph for TLC. *)
EXTENDS AssetGraph, TLC

CONSTANTS a1, a2, n1, n2, b1, b2, p1, p2, c1, c2, c3

MCSymmetry ==
  Permutations(Client) \cup Permutations(Node) \cup Permutations(Binding)
    \cup Permutations(Point) \cup Permutations(CatalogNode)
=============================================================================
