---------------------------- MODULE MCTradesSync ----------------------------
EXTENDS TradesSync, TLC

(* Nodes and values are interchangeable *)
Symmetry == Permutations(Node) \cup Permutations(Value)

=============================================================================
