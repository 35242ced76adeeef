-------------------------- MODULE MCPriceConsensus --------------------------
(* The data of three nodes; and the prices computed from such data *)
EXTENDS AssetPrice

(* Three sources give prices, one gives trades *)
FourSources == 1..4
MixedSources == <<"price", "price", "price", "volume">>

(* Volumes and quote volumes: none, and prices of 10.0 and 1.7 *)
SomeTrades == {<<0, 0>>, <<40, 4>>, <<7, 4>>}

=============================================================================
