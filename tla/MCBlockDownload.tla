--------------------------- MODULE MCBlockDownload ---------------------------
(* Model-checking instance of BlockDownload. *)
EXTENDS BlockDownload

CONSTANTS p1, p2

MCPeers == {p1, p2}
MCOnePastTheEnd == 0 .. NBlocks
=============================================================================
