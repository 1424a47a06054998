----------------------------- MODULE MCPeerBook ------------------------------
(* Model-checking instance of PeerBook. *)
EXTENDS PeerBook, TLC

CONSTANTS q1, q2, loop, lan1, pub1

\* Two processes, with a loopback address among the configured ones.
MCProcs == {q1, q2}
MCContacts == {loop, lan1, pub1}
MCUnusable == {loop}
MCPrivate == {lan1}
MCOwn == {pub1}
MCBootstrap == {loop}
MCLimits == {1, 2}
MCSymmetry == Permutations(MCProcs)
=============================================================================
