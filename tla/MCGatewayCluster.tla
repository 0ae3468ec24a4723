-------------------------- MODULE MCGatewayCluster --------------------------
(***************************************************************************)
(* Instances of GatewayCluster for TLC.                                    *)
(***************************************************************************)
EXTENDS GatewayCluster

============================================================================
