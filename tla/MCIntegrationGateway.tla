------------------------ MODULE MCIntegrationGateway ------------------------
(* Small instances of IntegrationGateway for TLC.                          *)
EXTENDS IntegrationGatewayProperties

CONSTANTS c1, c2, c3
=============================================================================
