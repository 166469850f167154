------------------------------ MODULE MCGateway -----------------------------
(* Gateway for TLC: one currency, two symbols and so a master and one more  *)
(* WebSocket stream.  The back-off (MCRest), chart data (MCRest) and the    *)
(* trades of the drop copy (MCDropCopy) are switched off here: this is      *)
(* about logins, downloads and updates crossing between streams.            *)
EXTENDS Gateway
=============================================================================
