------------------------- MODULE MCConnectorManager -------------------------
(* Instances of ConnectorManager for TLC. *)
EXTENDS ConnectorManager, TLC

Simetria == Permutations(Lives) \cup Permutations(Conexoes)
=============================================================================
