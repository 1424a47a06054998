------------------------------ MODULE MCServing ------------------------------
(* Model-checking instance of Serving. *)
EXTENDS Serving

MCListeners == {"history", "transfers"}
\* No byte, one block and a part, and two blocks.
MCSizes == {0, 3, 4}
MCRates == {0, 3}
\* In range, in part or past the end, by size.
MCIndexLists == {<<1, 0>>}
=============================================================================
