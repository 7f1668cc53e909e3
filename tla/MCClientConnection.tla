------------------------- MODULE MCClientConnection -------------------------
(* ClientConnection with two gateways and two servers.                        *)
EXTENDS ClientConnection, TLC

=============================================================================
