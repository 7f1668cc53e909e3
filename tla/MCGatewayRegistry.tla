-------------------------- MODULE MCGatewayRegistry --------------------------
(* GatewayRegistry with a few requests at a time.                             *)
EXTENDS GatewayRegistry, TLC

=============================================================================
