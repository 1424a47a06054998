--------------------------- MODULE MCBlockRequests ---------------------------
(* Model-checking instance of BlockRequests. *)
EXTENDS BlockRequests

CONSTANTS p1, p2

MCPeers == {p1, p2}
MCInRange == 0 .. NBlocks - 1
=============================================================================
