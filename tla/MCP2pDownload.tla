---------------------------- MODULE MCP2pDownload ----------------------------
(* Model-checking instances of P2pDownload. *)
EXTENDS P2pDownload, TLC

CONSTANTS w1, w2, p1, p2, n1, n2

MCWorker == {w1}
MCWorkers == {w1, w2}
MCOnePeer == {p1}
MCPeers == {p1, p2}
MCOneNar == {n1}
MCNars == {n1, n2}
MCNoBootstrap == {}

\* Peers are interchangeable where none of them is a bootstrap peer.
PeerSymmetry == Permutations(MCPeers)
\* So are workers.
WorkerSymmetry == Permutations(MCWorkers)
=============================================================================
