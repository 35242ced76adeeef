--------------------------- MODULE MCClusterConfig ---------------------------
(* A configuration and two updates of it *)
EXTENDS ClusterConfig, TLC

(* The last one has a cluster secret, which is imported *)
LastSecret == {2}

(* Every update adds a contract and removes one; the last brings one back *)
FewContracts == 0 :> {"a", "d"} @@ 1 :> {"b", "d"} @@ 2 :> {"a", "b"}

=============================================================================
