---------------------------- MODULE BlockDownload ----------------------------
(***************************************************************************)
(* The block scheduler of one P2P NAR download: the loop of                *)
(* download_blocks_from_peers in src/daemon.rs and the ActiveDownload of   *)
(* src/swarm/downloader.rs that it fills.                                  *)
(*                                                                         *)
(* The environment is every notification the swarm task may broadcast.     *)
(* Notifications name a peer and no NAR, and every download of the daemon  *)
(* subscribes to the same channel, so a response or a failure may come     *)
(* from any peer at any time, whether or not this download asked for it.   *)
(***************************************************************************)
EXTENDS Integers, FiniteSets

CONSTANTS
  Peers,          \* peers that notifications can name
  NBlocks,        \* BlockInfo.block_count
  WireIndex,      \* block indices that occur on the wire (u32 in BlockData)
  MaxInFlight,    \* config.max_in_flight_blocks_per_peer.max(1)
  StallTimeout,   \* config.stall_timeout_secs
  OverallTimeout, \* block_download_overall_timeout_secs(..)
  MaxLate,        \* bound: how late a wake-up after the 1 s receive timeout is
  MaxBurst        \* bound: notifications handled within one unit of the clock

Block == 0 .. NBlocks - 1

Pending  == "Pending"
Complete == "Complete"

ASSUME PeersAssumption ==
  /\ IsFiniteSet(Peers)
  /\ Pending \notin Peers
  /\ Complete \notin Peers

ASSUME BoundsAssumption ==
  /\ NBlocks \in Nat
  /\ Block \subseteq WireIndex
  /\ WireIndex \subseteq Nat
  /\ MaxInFlight \in Nat \ {0}
  /\ StallTimeout \in Nat
  /\ OverallTimeout \in Nat
  /\ MaxLate \in Nat
  /\ MaxBurst \in Nat

(***************************************************************************)
(* Block contents are told apart only by whether they are the bytes of the *)
(* NAR the narinfo names.  A hash learnt in the handshake is identified    *)
(* with the contents it matches; "unmatched" is a hash no block has (a     *)
(* short one padded with zeros) and "missing" an index past the end of the *)
(* hash list.                                                              *)
(***************************************************************************)
Data    == {"nar", "other"}
NoData  == "none"
Hash    == Data \cup {"unmatched", "missing"}

VARIABLES
  pc,             \* program point: "start", "top", "recv", "exit", "done", "panicked"
  why,            \* which break ended the loop
  now,            \* tokio::time::Instant::now()
  burst,          \* notifications handled since the clock last moved
  stall_deadline,
  receivers,      \* peers of the handshakes: the keys of peer_states and receivers
  available,      \* PeerFetchState.available
  in_flight,      \* PeerFetchState.in_flight
  failures,       \* PeerFetchState.failures
  block_states,   \* Pending, Complete, or the peer of InFlight
  requested_at,   \* BlockFetchState::InFlight.requested_at
  block_hashes,   \* BlockInfo.block_hashes, from the first handshake
  blocks,         \* DownloadResult.blocks of each receiver
  result          \* what the function returns

peerVars  == <<in_flight, failures>>
blockVars == <<block_states, requested_at>>
fixedVars == <<receivers, available, block_hashes>>
clockVars == <<now, burst>>
vars == <<pc, why, now, burst, stall_deadline, receivers, available, in_flight,
          failures, block_states, requested_at, block_hashes, blocks, result>>

Results == {"none", "Ok", "Incomplete", "HashMismatch"}

TypeOK ==
  /\ pc \in {"start", "top", "recv", "exit", "done", "panicked"}
  /\ why \in {"none", "complete", "deadline", "stall", "noproviders", "channel"}
  /\ now \in Nat
  /\ burst \in 0 .. MaxBurst
  /\ stall_deadline \in Nat
  /\ receivers \in SUBSET Peers
  /\ available \in [Peers -> SUBSET Block]
  /\ in_flight \in [Peers -> SUBSET Block]
  /\ failures \in [Peers -> Nat]
  /\ block_states \in [Block -> Peers \cup {Pending, Complete}]
  /\ requested_at \in [Block -> Nat]
  /\ block_hashes \in [Block -> Hash]
  /\ blocks \in [Peers -> [Block -> Data \cup {NoData}]]
  /\ result \in Results

(***************************************************************************)
(* ActiveDownload                                                          *)
(***************************************************************************)
Holds(p, i) == blocks[p][i] # NoData

\* Fault: blocks are stored without comparing their digest.
AcceptedData_Unverified(p, data) ==
  {x \in data : /\ p \in receivers
                /\ x[1] \in Block
                /\ ~Holds(p, x[1])}

\* record_blocks, over the (index, data) pairs of one response: what it stores.
\* An index the receiver already holds is a duplicate.
AcceptedData(p, data) ==
  {x \in data : /\ p \in receivers
                /\ x[1] \in Block
                /\ x[2] = block_hashes[x[1]]
                /\ ~Holds(p, x[1])}

\* block_hashes[idx] is evaluated for each in-range index of a receiver's
\* response: a hash list shorter than block_count makes it panic.
HashIndexPanics(p, data) ==
  /\ p \in receivers
  /\ \E x \in data : x[1] \in Block /\ block_hashes[x[1]] = "missing"

\* is_complete: one receiver holds every block, or each block has a holder.
IsComplete ==
  \/ \E p \in receivers : \A i \in Block : Holds(p, i)
  \/ \A i \in Block : \E p \in receivers : Holds(p, i)

\* assemble: any holder's copy of each block (HashMap order), then the length
\* and SHA-256 of the whole.  Contents that are not the NAR's fail one of the
\* two, whichever comes first; no NAR is empty.
AssembleResults ==
  LET Genuine(i) == \E p \in receivers : blocks[p][i] = "nar"
      Foreign(i) == \E p \in receivers : blocks[p][i] = "other"
  IN  (IF Block # {} /\ \A i \in Block : Genuine(i) THEN {"Ok"} ELSE {})
      \cup (IF \E i \in Block : Foreign(i) THEN {"Incomplete", "HashMismatch"} ELSE {})
      \cup (IF Block = {} THEN {"HashMismatch"} ELSE {})

(***************************************************************************)
(* Scheduling                                                              *)
(***************************************************************************)
Init ==
  /\ pc = "start" /\ why = "none" /\ result = "none"
  /\ now = 0 /\ burst = 0
  /\ stall_deadline = StallTimeout
  /\ receivers \in SUBSET Peers
  /\ available \in [Peers -> SUBSET Block]
  /\ \A p \in Peers \ receivers : available[p] = {}
  /\ in_flight = [p \in Peers |-> {}]
  /\ failures = [p \in Peers |-> 0]
  /\ block_states = [i \in Block |-> Pending]
  /\ requested_at = [i \in Block |-> 0]
  /\ block_hashes \in [Block -> Hash]
  /\ \A i, j \in Block : i < j /\ block_hashes[i] = "missing" => block_hashes[j] = "missing"
  /\ receivers = {} => \A i \in Block : block_hashes[i] = "missing"
  /\ blocks = [p \in Peers |-> [i \in Block |-> NoData]]

(***************************************************************************)
(* dispatch_block_requests walks the pending blocks in index order and     *)
(* gives each to a peer that advertises it and has room, least loaded      *)
(* first, then fewest failures; equal keys are broken by HashMap order,    *)
(* that is, arbitrarily.  An assignment maps each pending block to the     *)
(* chosen peer, or to Pending if there is none.                            *)
(***************************************************************************)
Load(flight, asg, i, p) ==
  Cardinality(flight[p] \cup {j \in DOMAIN asg : j < i /\ asg[j] = p})

\* Fault: the room test keeps the last slot of every peer free.
Candidates_LastSlotUnused(flight, asg, i) ==
  {p \in receivers : i \in available[p] /\ Load(flight, asg, i, p) < MaxInFlight - 1}

\* Fault: one pass hands out one block only.
Candidates_OnePerPass(flight, asg, i) ==
  {p \in receivers : /\ i \in available[p]
                     /\ Load(flight, asg, i, p) < MaxInFlight
                     /\ \A j \in DOMAIN asg : j < i => asg[j] = Pending}

Candidates(flight, asg, i) ==
  {p \in receivers : i \in available[p] /\ Load(flight, asg, i, p) < MaxInFlight}

Preferred(flight, fails, asg, i, p) ==
  \A q \in Candidates(flight, asg, i) :
    \/ Load(flight, asg, i, p) < Load(flight, asg, i, q)
    \/ /\ Load(flight, asg, i, p) = Load(flight, asg, i, q)
       /\ fails[p] <= fails[q]

Assignments(states, flight, fails) ==
  {asg \in [{i \in Block : states[i] = Pending} -> receivers \cup {Pending}] :
     \A i \in DOMAIN asg :
       IF Candidates(flight, asg, i) = {}
         THEN asg[i] = Pending
         ELSE /\ asg[i] \in Candidates(flight, asg, i)
              /\ Preferred(flight, fails, asg, i, asg[i])}

Dispatch(states, flight, fails, at) ==
  \E asg \in Assignments(states, flight, fails) :
    /\ block_states' = [i \in Block |-> IF i \in DOMAIN asg THEN asg[i] ELSE states[i]]
    /\ in_flight' = [p \in Peers |-> flight[p] \cup {i \in DOMAIN asg : asg[i] = p}]
    /\ failures' = fails
    /\ requested_at' = [i \in Block |->
         IF i \in DOMAIN asg /\ asg[i] # Pending THEN now ELSE at[i]]

\* requeue_expired_blocks: the blocks it takes back, by the peer they were with.
Expired(p) ==
  {i \in Block : block_states[i] = p /\ now - requested_at[i] >= StallTimeout}

RequeueExpiredThenDispatch ==
  LET gone == UNION {Expired(p) : p \in Peers}
  IN  Dispatch([i \in Block |-> IF i \in gone THEN Pending ELSE block_states[i]],
               [p \in Peers |-> in_flight[p] \ Expired(p)],
               [p \in Peers |-> failures[p] + Cardinality(Expired(p))],
               [i \in Block |-> IF i \in gone THEN 0 ELSE requested_at[i]])

Idle(flight) == \A p \in Peers : flight[p] = {}

(***************************************************************************)
(* The steps of the loop.  Nothing is awaited between the deadline check   *)
(* and the receive, so a pass from the top to the receive is one step.     *)
(***************************************************************************)
Exit(reason) == pc' = "exit" /\ why' = reason

\* The dispatch before the loop.
Start ==
  /\ pc = "start"
  /\ Dispatch(block_states, in_flight, failures, requested_at)
  /\ pc' = "top"
  /\ UNCHANGED <<why, clockVars, stall_deadline, fixedVars, blocks, result>>

\* Fault: the deadline is noticed and the loop goes on.
OverallDeadline_NoBreak ==
  /\ pc = "top"
  /\ now >= OverallTimeout
  /\ pc' = "top" /\ why' = "deadline"
  /\ UNCHANGED <<clockVars, stall_deadline, fixedVars, peerVars, blockVars, blocks, result>>

OverallDeadline ==
  /\ pc = "top"
  /\ now >= OverallTimeout
  /\ Exit("deadline")
  /\ UNCHANGED <<clockVars, stall_deadline, fixedVars, peerVars, blockVars, blocks, result>>

Pass ==
  /\ pc = "top"
  /\ now < OverallTimeout
  /\ RequeueExpiredThenDispatch
  /\ IF now > stall_deadline THEN Exit("stall")
     ELSE IF Idle(in_flight') /\ \E i \in Block : block_states'[i] # Complete
       THEN Exit("noproviders")
       ELSE pc' = "recv" /\ UNCHANGED why
  /\ UNCHANGED <<clockVars, stall_deadline, fixedVars, blocks, result>>

\* A notification is taken from the channel within the 1 s receive timeout.
Notified ==
  /\ pc = "recv"
  /\ \/ now' = now + 1 /\ burst' = 0
     \/ now' = now /\ burst < MaxBurst /\ burst' = burst + 1

\* Fault: the indices of a response are entered instead of removed.
FlightAfterResponse_Entered(p, indices) == [in_flight EXCEPT ![p] = @ \cup indices]

\* update_peer_after_block_response
FlightAfterResponse(p, indices) == [in_flight EXCEPT ![p] = @ \ indices]

\* Fault: a block is marked complete only for the peer it was requested from.
StatesAfterResponse_OwnerOnly(p, indices, accepted) ==
  [i \in Block |->
     IF i \in indices /\ block_states[i] = p
       THEN IF i \in accepted THEN Complete ELSE Pending
       ELSE block_states[i]]

\* Fault: every block that was not accepted is requeued, whoever it is with.
StatesAfterResponse_RequeueAll(p, indices, accepted) ==
  [i \in Block |->
     IF i \in accepted THEN Complete
     ELSE IF i \in indices THEN Pending
     ELSE block_states[i]]

\* mark_accepted_blocks, then requeue_rejected_blocks
StatesAfterResponse(p, indices, accepted) ==
  [i \in Block |->
     IF i \in accepted THEN Complete
     ELSE IF i \in indices /\ block_states[i] = p THEN Pending
     ELSE block_states[i]]

\* BlockResponse::Blocks: record_block_response, then the completion test.
BlocksReceived(p, data) ==
  LET stored   == AcceptedData(p, data)
      accepted == {x[1] : x \in stored}
      indices  == {x[1] : x \in data}
  IN
  /\ Notified
  /\ ~HashIndexPanics(p, data)
  /\ blocks' = [blocks EXCEPT ![p] =
       [i \in Block |-> IF i \in accepted THEN CHOOSE d \in Data : <<i, d>> \in stored
                        ELSE blocks[p][i]]]
  /\ in_flight' = FlightAfterResponse(p, indices)
  /\ block_states' = StatesAfterResponse(p, indices, accepted)
  /\ requested_at' = [i \in Block |->
       IF block_states'[i] \in {Pending, Complete} THEN 0 ELSE requested_at[i]]
  /\ stall_deadline' = IF accepted # {} THEN now' + StallTimeout ELSE stall_deadline
  /\ UNCHANGED <<fixedVars, failures, result>>
  /\ IF IsComplete' THEN Exit("complete") ELSE pc' = "top" /\ UNCHANGED why

BlocksPanic(p, data) ==
  /\ Notified
  /\ HashIndexPanics(p, data)
  /\ pc' = "panicked"
  /\ UNCHANGED <<why, stall_deadline, fixedVars, peerVars, blockVars, blocks, result>>

\* Fault: the requeued blocks keep their slots at the failed peer.
FlightAfterFailure_Kept(p, requeued) == in_flight

FlightAfterFailure(p, requeued) == [in_flight EXCEPT ![p] = @ \ requeued]

\* BlockRequestFailed: requeue_in_flight_blocks_for_peer.
BlockRequestFailed(p) ==
  LET requeued == {i \in Block : block_states[i] = p}
  IN
  /\ Notified
  /\ block_states' = [i \in Block |-> IF i \in requeued THEN Pending ELSE block_states[i]]
  /\ requested_at' = [i \in Block |-> IF i \in requeued THEN 0 ELSE requested_at[i]]
  /\ in_flight' = FlightAfterFailure(p, requeued)
  /\ failures' = [failures EXCEPT ![p] = IF requeued # {} THEN @ + 1 ELSE @]
  /\ pc' = "top"
  /\ UNCHANGED <<why, stall_deadline, fixedVars, blocks, result>>

\* Any other notification: ProvidersFound, a HandshakeReply, a block error.
OtherNotification ==
  /\ Notified
  /\ pc' = "top"
  /\ UNCHANGED <<why, stall_deadline, fixedVars, peerVars, blockVars, blocks, result>>

\* RecvError: the receiver lagged behind the broadcast channel, or it closed.
RecvError ==
  /\ Notified
  /\ Exit("channel")
  /\ UNCHANGED <<stall_deadline, fixedVars, peerVars, blockVars, blocks, result>>

\* The 1 s receive timeout elapsed; the task may be woken late.
Elapsed ==
  /\ pc = "recv"
  /\ now' \in now + 1 .. now + 1 + MaxLate
  /\ burst' = 0
  /\ pc' = "top"
  /\ UNCHANGED <<why, stall_deadline, fixedVars, peerVars, blockVars, blocks, result>>

\* After the loop: Incomplete, or what assemble makes of the blocks.
Finish ==
  /\ pc = "exit"
  /\ pc' = "done"
  /\ result' \in IF IsComplete THEN AssembleResults ELSE {"Incomplete"}
  /\ UNCHANGED <<why, clockVars, stall_deadline, fixedVars, peerVars, blockVars, blocks>>

\* The function has returned, or its task has unwound.
Returned == pc \in {"done", "panicked"} /\ UNCHANGED vars

Next ==
  \/ Start \/ OverallDeadline \/ Pass
  \/ \E p \in Peers : \E data \in SUBSET (WireIndex \X Data) :
       BlocksReceived(p, data) \/ BlocksPanic(p, data)
  \/ \E p \in Peers : BlockRequestFailed(p)
  \/ OtherNotification \/ RecvError \/ Elapsed
  \/ Finish \/ Returned

Spec == Init /\ [][Next]_vars

\* The task that runs the loop is polled again whenever it is ready, and the
\* receive never waits longer than its timeout.
FairSpec == Spec /\ WF_vars(Next)

(***************************************************************************)
(* Properties                                                              *)
(***************************************************************************)

\* The two ledgers of requests agree: a block is InFlight at a peer only if it
\* takes one of that peer's slots, and a taken slot is for a block that is
\* InFlight there or that another peer has completed meanwhile.
SlotAccounting ==
  /\ \A i \in Block : block_states[i] \in Peers => i \in in_flight[block_states[i]]
  /\ \A p \in Peers : \A i \in in_flight[p] : block_states[i] \in {p, Complete}

\* The ledger of slots never books more than max_in_flight_blocks_per_peer for a
\* peer.  BlockRequests relates the ledger to the requests that are open.
CapacityRespected == \A p \in Peers : Cardinality(in_flight[p]) <= MaxInFlight

\* The scheduler's Complete and the blocks ActiveDownload holds never part: a
\* block is Complete exactly when some receiver's copy of it was accepted, also
\* when the copy came late or from a peer it was not requested from.
TrackersAgree ==
  \A i \in Block : block_states[i] = Complete <=> \E p \in receivers : Holds(p, i)

\* A pass leaves no block waiting while a receiver that advertises it has a
\* free slot: before each receive, dispatch_block_requests has used all room.
NoIdleCapacity ==
  pc = "recv" =>
    \A i \in Block : \A p \in receivers :
      block_states[i] = Pending /\ i \in available[p]
        => Cardinality(in_flight[p]) = MaxInFlight

\* "Block download has pending blocks with no available providers" is only ever
\* said of a download in which no receiver advertises any missing block.
GiveUpJustified ==
  why = "noproviders" =>
    \A i \in Block : \A p \in receivers :
      i \in available[p] => block_states[i] = Complete

\* If the hashes of the first handshake are the NAR's, then a download that
\* collects every block returns the NAR: assemble cannot fail after is_complete.
GenuineHashesSucceed ==
  /\ pc = "done"
  /\ Block # {}
  /\ \A i \in Block : block_hashes[i] = "nar" /\ block_states[i] = Complete
  => result = "Ok"

AcceptedKept ==
  /\ \A i \in Block : block_states[i] = Complete => block_states'[i] = Complete
  /\ \A p \in Peers : \A i \in Block : Holds(p, i) => blocks'[p][i] = blocks[p][i]

\* A completed block is never requested again and an accepted copy is never
\* replaced, by whatever later response, failure or expiry.
AcceptedIsFinal == [][AcceptedKept]_vars

\* Every download ends, however the swarm behaves: with a result, or with the
\* unwinding that a short hash list causes.
Termination == <>(pc \in {"done", "panicked"})

\* src/daemon.rs on normalize_block_hashes: "Older or malformed peers may send a
\* short hash vector; padding preserves the current rejection behavior": hashes
\* that are not there reject blocks and do not unwind the download.  They do
\* (README, section 6).
ShortHashesReject == pc # "panicked"
=============================================================================
