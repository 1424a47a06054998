------------------------------- MODULE MCSeeds -------------------------------
(* Model-checking instances of Seeds. *)
EXTENDS Seeds, TLC

CONSTANTS n1, n2, p1, p2, c1, c2

MCNar == {n1}
MCNars == {n1, n2}
MCPaths == {p1, p2}
MCClient == {c1}
MCClients == {c1, c2}

\* Two store paths with different contents, and two with the same contents.
MCOnto == (p1 :> n1) @@ (p2 :> n2)
MCTwins == (p1 :> n1) @@ (p2 :> n1)

\* Requests are interchangeable.
ClientSymmetry == Permutations(MCClients)
=============================================================================
