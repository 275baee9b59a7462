---------------------------- MODULE MCGatewayRoutes ----------------------------
(* Names for the small instance of GatewayRoutes that TLC explores. *)
EXTENDS GatewayRoutes

CONSTANTS a, w1, x, y

=============================================================================
