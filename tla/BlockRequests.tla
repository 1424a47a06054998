---------------------------- MODULE BlockRequests ----------------------------
(***************************************************************************)
(* The block scheduler together with the GetBlocks requests that are       *)
(* really open: those that dispatch_block_requests has handed to the swarm *)
(* task and that have neither been answered nor failed.  The scheduler     *)
(* does not see them; it keeps a ledger of slots (in_flight) and corrects  *)
(* it by notifications that name a peer and no request.                    *)
(*                                                                         *)
(* This is the daemon's only download, so every notification about blocks  *)
(* ends one of its requests, and the peers run this code, so an answer has *)
(* no index that its request did not name (serve_blocks).                  *)
(***************************************************************************)
EXTENDS BlockDownload

VARIABLES
  sent,           \* dispatches so far; one makes at most one request per peer
  open            \* open[p]: pairs of a request to p, by its dispatch, and an index it names

reqVars == <<vars, sent, open>>

ReqTypeOK ==
  /\ sent \in Nat
  /\ open \in [Peers -> SUBSET ((0 .. sent - 1) \X Block)]

ReqInit == Init /\ sent = 0 /\ open = [p \in Peers |-> {}]

\* The batch of p in a dispatch: what it newly gives to p, a block that has
\* expired there and is given to p again included.
Batch(p) == {i \in Block : block_states'[i] = p /\ (block_states[i] = p => i \in Expired(p))}

SendBatches ==
  /\ open' = [p \in Peers |-> open[p] \cup ({sent} \X Batch(p))]
  /\ sent' = sent + 1

\* The request k to p has had its one response, or its one failure.
Close(p, k) ==
  /\ \E i \in Block : <<k, i>> \in open[p]
  /\ open' = [open EXCEPT ![p] = {x \in @ : x[1] # k}]
  /\ UNCHANGED sent

Answered(p, k, data) ==
  /\ \A x \in data : <<k, x[1]>> \in open[p]
  /\ BlocksReceived(p, data) \/ BlocksPanic(p, data)
  /\ Close(p, k)

\* BlockResponse::Error, which the loop ignores.
Refused(p, k) == OtherNotification /\ Close(p, k)

\* OutboundFailure: refused, broken off, or not answered within 10 s.
Failed(p, k) == BlockRequestFailed(p) /\ Close(p, k)

NoRequest ==
  /\ OverallDeadline \/ OtherNotification \/ RecvError \/ Elapsed \/ Finish \/ Returned
  /\ UNCHANGED <<sent, open>>

ReqNext ==
  \/ Start /\ SendBatches
  \/ Pass /\ SendBatches
  \/ \E p \in Peers : \E k \in 0 .. sent - 1 :
       \/ \E data \in SUBSET (Block \X Data) : Answered(p, k, data)
       \/ Refused(p, k)
       \/ Failed(p, k)
  \/ NoRequest

ReqSpec == ReqInit /\ [][ReqNext]_reqVars

(***************************************************************************)
(* Properties                                                              *)
(***************************************************************************)

\* The blocks that p has been asked for and has neither sent nor refused are
\* its slots, and beyond them at most max_in_flight_blocks_per_peer for each
\* failure counted against p: a peer that has never failed in this download is
\* within the limit, and requeueing cannot flood one faster than it fails.
OutstandingBounded ==
  \A p \in Peers :
    Cardinality(open[p]) <= Cardinality(in_flight[p]) + MaxInFlight * failures[p]

\* docs/configuration.md on max_in_flight_blocks_per_peer: "Maximum outstanding
\* block requests kept active per peer during a P2P download."
OutstandingWithinLimit == \A p \in Peers : Cardinality(open[p]) <= MaxInFlight

\* docs/swarm-protocol.md on the download loop: "For each peer, if peer has blocks
\* we need AND peer has < 4 outstanding requests: Select pending blocks this peer
\* has".  A peer with no request open and no block InFlight has room: no pending
\* block that it advertises waits.  One may (README, section 6).
IdlePeersAreAsked ==
  pc = "recv" =>
    \A i \in Block : \A p \in receivers :
      /\ block_states[i] = Pending /\ i \in available[p]
      /\ open[p] = {}
      => \E j \in Block : block_states[j] = p
=============================================================================
