------------------------ MODULE BlockDownload_proofs ------------------------
(***************************************************************************)
(* Theorems about the block scheduler, for any number of peers and blocks, *)
(* any limits and any notifications, and about the requests it has open.   *)
(***************************************************************************)
EXTENDS BlockRequests, FiniteSetTheorems, TLAPS

(***************************************************************************)
(* Facts about sets of block indices                                       *)
(***************************************************************************)

\* Every set of block indices is finite.
LEMMA BlockSetsFinite ==
  ASSUME NEW T \in SUBSET Block
  PROVE  IsFiniteSet(T) /\ Cardinality(T) \in Nat
<1>1. IsFiniteSet(Block)
  BY FS_Interval, BoundsAssumption DEF Block
<1> QED
  BY <1>1, FS_Subset, FS_CardinalityType

\* A nonempty set of block indices has a largest element.
LEMMA LargestIndex ==
  ASSUME NEW T \in SUBSET Block, T # {}
  PROVE  \E m \in T : \A j \in T : j <= m
<1> DEFINE Up == {NBlocks - i : i \in T}
<1>1. Up \subseteq Nat /\ Up # {}
  <2>1. \A i \in Block : NBlocks - i \in Nat
    BY BoundsAssumption DEF Block
  <2>2. Up \subseteq Nat
    BY <2>1
  <2>3. Up # {}
    OBVIOUS
  <2> QED
    BY <2>2, <2>3
<1>2. PICK x \in Up : \A y \in Up : <<y, x>> \notin OpToRel(<, Nat)
  BY <1>1, WFMin, NatLessThanWellFounded
<1>3. \A y \in Up : ~(y < x)
  BY <1>1, <1>2 DEF OpToRel
<1>4. PICK m \in T : x = NBlocks - m
  OBVIOUS
<1>5. ASSUME NEW j \in T PROVE j <= m
  <2>1. NBlocks - j \in Up
    OBVIOUS
  <2>2. ~(NBlocks - j < NBlocks - m)
    BY <1>3, <1>4, <2>1
  <2>3. j \in Int /\ m \in Int /\ NBlocks \in Int
    BY BoundsAssumption DEF Block
  <2> QED
    BY <2>2, <2>3
<1> QED
  BY <1>5

(***************************************************************************)
(* What a dispatch does to the two ledgers                                 *)
(***************************************************************************)
Slots(states, flight) ==
  /\ \A i \in Block : states[i] \in Peers => i \in flight[states[i]]
  /\ \A p \in Peers : \A i \in flight[p] : states[i] \in {p, Complete}

Capacity(flight) == \A p \in Peers : Cardinality(flight[p]) <= MaxInFlight

NewFlight(flight, asg) ==
  [p \in Peers |-> flight[p] \cup {i \in DOMAIN asg : asg[i] = p}]

NewStates(states, asg) ==
  [i \in Block |-> IF i \in DOMAIN asg THEN asg[i] ELSE states[i]]

BlockStateType == [Block -> Peers \cup {Pending, Complete}]

ChoosesWell(states, flight, asg) ==
  /\ DOMAIN asg = {i \in Block : states[i] = Pending}
  /\ \A i \in DOMAIN asg : asg[i] \in Peers \cup {Pending}
  /\ \A i \in DOMAIN asg : asg[i] = Pending => Candidates(flight, asg, i) = {}
  /\ \A i \in DOMAIN asg : asg[i] # Pending => asg[i] \in Candidates(flight, asg, i)

\* What an assignment is: a choice for each pending block, and only for those.
LEMMA AssignmentFacts ==
  ASSUME receivers \in SUBSET Peers,
         NEW states \in BlockStateType,
         NEW flight \in [Peers -> SUBSET Block],
         NEW fails,
         NEW asg \in Assignments(states, flight, fails)
  PROVE  ChoosesWell(states, flight, asg)
<1>1. asg \in [{i \in Block : states[i] = Pending} -> receivers \cup {Pending}]
  BY DEF Assignments
<1>2. \A i \in DOMAIN asg :
        IF Candidates(flight, asg, i) = {}
          THEN asg[i] = Pending
          ELSE /\ asg[i] \in Candidates(flight, asg, i)
               /\ Preferred(flight, fails, asg, i, asg[i])
  BY DEF Assignments
<1>3. Pending \notin receivers
  BY PeersAssumption
<1>4. \A i \in DOMAIN asg : Candidates(flight, asg, i) \subseteq receivers
  BY DEF Candidates
<1> QED
  BY <1>1, <1>2, <1>3, <1>4 DEF ChoosesWell

\* dispatch_block_requests never takes a peer over its limit: look at the last
\* block given to the peer; all the others were counted when it was chosen.
LEMMA DispatchCapacity ==
  ASSUME receivers \in SUBSET Peers,
         NEW states \in BlockStateType,
         NEW flight \in [Peers -> SUBSET Block], Capacity(flight),
         NEW fails,
         NEW asg \in Assignments(states, flight, fails)
  PROVE  Capacity(NewFlight(flight, asg))
<1> SUFFICES ASSUME NEW p \in Peers
             PROVE  Cardinality(NewFlight(flight, asg)[p]) <= MaxInFlight
  BY DEF Capacity
<1>0. ChoosesWell(states, flight, asg)
  BY AssignmentFacts
<1> DEFINE A == {i \in DOMAIN asg : asg[i] = p}
<1>1. NewFlight(flight, asg)[p] = flight[p] \cup A
  BY DEF NewFlight
<1>2. A \in SUBSET Block
  BY <1>0 DEF ChoosesWell
<1>3. CASE A = {}
  <2>1. flight[p] \cup A = flight[p]
    BY <1>3
  <2> QED
    BY <1>1, <2>1 DEF Capacity
<1>4. CASE A # {}
  <2>1. PICK m \in A : \A j \in A : j <= m
    BY <1>2, <1>4, LargestIndex
  <2> DEFINE B == {j \in DOMAIN asg : j < m /\ asg[j] = p}
  <2>2. A = B \cup {m} /\ m \notin B
    <3>1. \A j \in A : j \in Int
      BY <1>2, BoundsAssumption DEF Block
    <3>2. \A j \in A : j = m \/ j < m
      BY <2>1, <3>1
    <3> QED
      BY <3>1, <3>2
  <2>3. flight[p] \cup B \in SUBSET Block
    BY <1>2, <2>2
  <2>4. Cardinality(flight[p] \cup B) < MaxInFlight
    <3>1. p \in Candidates(flight, asg, m)
      BY <1>0, PeersAssumption DEF ChoosesWell
    <3> QED
      BY <3>1 DEF Candidates, Load
  <2> DEFINE U == flight[p] \cup B
  <2>5. flight[p] \cup A = U \cup {m}
    BY <2>2
  <2>6. IsFiniteSet(U) /\ Cardinality(U) \in Nat /\ MaxInFlight \in Nat
    BY <2>3, BlockSetsFinite, BoundsAssumption
  <2> HIDE DEF U
  <2>7. Cardinality(U \cup {m}) = IF m \in U THEN Cardinality(U) ELSE Cardinality(U) + 1
    BY <2>6, FS_AddElement
  <2>8. Cardinality(U) < MaxInFlight
    BY <2>4 DEF U
  <2>9. Cardinality(U \cup {m}) <= MaxInFlight
    BY <2>6, <2>7, <2>8
  <2>10. NewFlight(flight, asg)[p] = U \cup {m}
    BY <1>1, <2>5
  <2> QED
    BY <2>9, <2>10
<1> QED
  BY <1>3, <1>4

\* dispatch_block_requests keeps the block states and the slots in step.
LEMMA DispatchSlots ==
  ASSUME receivers \in SUBSET Peers,
         NEW states \in BlockStateType,
         NEW flight \in [Peers -> SUBSET Block], Slots(states, flight),
         NEW fails,
         NEW asg \in Assignments(states, flight, fails)
  PROVE  Slots(NewStates(states, asg), NewFlight(flight, asg))
<1>0. ChoosesWell(states, flight, asg)
  BY AssignmentFacts
<1>1. ASSUME NEW i \in Block, NewStates(states, asg)[i] \in Peers
      PROVE  i \in NewFlight(flight, asg)[NewStates(states, asg)[i]]
  BY <1>0, <1>1 DEF ChoosesWell, Slots, NewStates, NewFlight
<1>2. ASSUME NEW p \in Peers, NEW i \in NewFlight(flight, asg)[p]
      PROVE  NewStates(states, asg)[i] \in {p, Complete}
  <2>1. CASE i \in DOMAIN asg
    <3>1. states[i] = Pending
      BY <1>0, <2>1 DEF ChoosesWell
    <3>2. i \notin flight[p]
      BY <3>1, PeersAssumption DEF Slots, Pending, Complete
    <3> QED
      BY <1>0, <2>1, <3>2 DEF ChoosesWell, NewStates, NewFlight
  <2>2. CASE i \notin DOMAIN asg
    BY <2>2 DEF NewStates, NewFlight, Slots
  <2> QED
    BY <2>1, <2>2
<1> QED
  BY <1>1, <1>2 DEF Slots

\* dispatch_block_requests leaves a block pending only if every receiver that
\* advertises it is at its limit.
LEMMA DispatchExhaustive ==
  ASSUME receivers \in SUBSET Peers,
         NEW states \in BlockStateType,
         NEW flight \in [Peers -> SUBSET Block],
         NEW fails,
         NEW asg \in Assignments(states, flight, fails),
         NEW i \in Block, NewStates(states, asg)[i] = Pending,
         NEW p \in receivers, i \in available[p]
  PROVE  Cardinality(NewFlight(flight, asg)[p]) >= MaxInFlight
<1>0. ChoosesWell(states, flight, asg)
  BY AssignmentFacts
<1> DEFINE B == {j \in DOMAIN asg : j < i /\ asg[j] = p}
<1>1. i \in DOMAIN asg /\ asg[i] = Pending
  BY <1>0 DEF ChoosesWell, NewStates
<1>2. ~(Cardinality(flight[p] \cup B) < MaxInFlight)
  BY <1>0, <1>1 DEF ChoosesWell, Candidates, Load
<1>3. NewFlight(flight, asg)[p] \in SUBSET Block
  BY <1>0 DEF ChoosesWell, NewFlight
<1>4. flight[p] \cup B \in SUBSET NewFlight(flight, asg)[p]
  BY DEF NewFlight
<1>5. IsFiniteSet(NewFlight(flight, asg)[p]) /\ Cardinality(NewFlight(flight, asg)[p]) \in Nat
  BY <1>3, BlockSetsFinite
<1>6. IsFiniteSet(flight[p] \cup B) /\ Cardinality(flight[p] \cup B) \in Nat
  BY <1>3, <1>4, BlockSetsFinite
<1>7. Cardinality(flight[p] \cup B) <= Cardinality(NewFlight(flight, asg)[p])
  BY <1>4, <1>5, FS_Subset
<1> QED
  BY <1>2, <1>5, <1>6, <1>7, BoundsAssumption

\* A dispatch from well-formed ledgers: types, both ledgers, which blocks are
\* complete, and that no room is left unused.
Dispatched(states, fails) ==
  /\ block_states' \in BlockStateType
  /\ in_flight' \in [Peers -> SUBSET Block]
  /\ failures' = fails
  /\ requested_at' \in [Block -> Nat]
  /\ Slots(block_states', in_flight')
  /\ Capacity(in_flight')
  /\ \A i \in Block : block_states'[i] = Complete <=> states[i] = Complete
  /\ \A i \in Block : \A p \in receivers :
       block_states'[i] = Pending /\ i \in available[p]
         => Cardinality(in_flight'[p]) >= MaxInFlight

\* What dispatch_block_requests does to the invariant, as one fact for its callers.
LEMMA DispatchStep ==
  ASSUME TypeOK,
         NEW states \in BlockStateType,
         NEW flight \in [Peers -> SUBSET Block],
         NEW fails \in [Peers -> Nat],
         NEW at \in [Block -> Nat],
         Slots(states, flight), Capacity(flight),
         Dispatch(states, flight, fails, at)
  PROVE  Dispatched(states, fails)
<1>1. receivers \in SUBSET Peers /\ now \in Nat
  BY DEF TypeOK
<1>2. PICK asg \in Assignments(states, flight, fails) :
        /\ block_states' = NewStates(states, asg)
        /\ in_flight' = NewFlight(flight, asg)
        /\ failures' = fails
        /\ requested_at' = [i \in Block |->
             IF i \in DOMAIN asg /\ asg[i] # Pending THEN now ELSE at[i]]
  BY DEF Dispatch, NewStates, NewFlight
<1>3. ChoosesWell(states, flight, asg)
  BY <1>1, AssignmentFacts
<1>4. block_states' \in BlockStateType
  BY <1>2, <1>3 DEF BlockStateType, NewStates, ChoosesWell
<1>5. in_flight' \in [Peers -> SUBSET Block]
  BY <1>2, <1>3 DEF NewFlight, ChoosesWell
<1>6. requested_at' \in [Block -> Nat]
  BY <1>1, <1>2
<1>7. Slots(block_states', in_flight')
  BY <1>1, <1>2, DispatchSlots
<1>8. Capacity(in_flight')
  BY <1>1, <1>2, DispatchCapacity
<1>9. \A i \in Block : block_states'[i] = Complete <=> states[i] = Complete
  BY <1>2, <1>3, PeersAssumption DEF NewStates, ChoosesWell, Pending, Complete
<1>10. \A i \in Block : \A p \in receivers :
        block_states'[i] = Pending /\ i \in available[p]
          => Cardinality(in_flight'[p]) >= MaxInFlight
  BY <1>1, <1>2, DispatchExhaustive
<1> QED
  BY <1>2, <1>4, <1>5, <1>6, <1>7, <1>8, <1>9, <1>10 DEF Dispatched

(***************************************************************************)
(* The inductive invariant                                                 *)
(***************************************************************************)
Ledgers == Slots(block_states, in_flight) /\ Capacity(in_flight)

\* A receiver keeps only data that matches the hash learnt for its index.
ContentsMatch ==
  \A p \in Peers : \A i \in Block : blocks[p][i] \in {NoData, block_hashes[i]}

\* The loop is left at most once, and then for the recorded reason.
LeftOnce ==
  /\ pc \in {"start", "top", "recv", "panicked"} => why = "none"
  /\ pc # "done" => result = "none"

IInv ==
  /\ TypeOK
  /\ Ledgers
  /\ TrackersAgree
  /\ ContentsMatch
  /\ LeftOnce
  /\ NoIdleCapacity
  /\ GiveUpJustified
  /\ GenuineHashesSucceed

\* The ledger part of the invariant is the two properties the runs check.
LEMMA LedgersAre == Ledgers <=> SlotAccounting /\ CapacityRespected
BY DEF Ledgers, Slots, Capacity, SlotAccounting, CapacityRespected

\* A download that has not started satisfies the invariant.
LEMMA InitIInv == Init => IInv
<1> SUFFICES ASSUME Init PROVE IInv
  OBVIOUS
<1>1. TypeOK
  BY BoundsAssumption DEF Init, TypeOK, Results, NoData
<1>2. Ledgers
  BY PeersAssumption, BoundsAssumption, FS_EmptySet DEF Init, Ledgers, Slots, Capacity
<1>3. TrackersAgree
  BY <1>1 DEF Init, TrackersAgree, Holds, Pending, Complete, TypeOK
<1> QED
  BY <1>1, <1>2, <1>3
  DEF Init, IInv, ContentsMatch, LeftOnce, NoIdleCapacity, GiveUpJustified, GenuineHashesSucceed

(***************************************************************************)
(* Each step of the loop preserves it                                      *)
(***************************************************************************)

\* A step that touches neither ledger nor blocks.
LEMMA QuietStep ==
  ASSUME IInv, UNCHANGED <<fixedVars, peerVars, blockVars, blocks>>
  PROVE  Ledgers' /\ TrackersAgree' /\ ContentsMatch'
BY DEF IInv, fixedVars, peerVars, blockVars, Ledgers, Slots, Capacity, TrackersAgree,
       ContentsMatch, Holds

\* The clock after a notification.
LEMMA NotifiedClock ==
  ASSUME IInv, Notified
  PROVE  now' \in Nat /\ burst' \in 0 .. MaxBurst /\ pc = "recv" /\ why = "none" /\ result = "none"
BY BoundsAssumption DEF IInv, TypeOK, Notified, LeftOnce

\* Notifications of other downloads, bus errors and waiting change no ledger.
LEMMA QuietActions ==
  ASSUME IInv,
         \/ OverallDeadline \/ OtherNotification \/ RecvError \/ Elapsed
         \/ \E p \in Peers : \E data \in SUBSET (WireIndex \X Data) : BlocksPanic(p, data)
  PROVE  IInv'
<1>1. UNCHANGED <<stall_deadline, fixedVars, peerVars, blockVars, blocks, result>>
  BY DEF OverallDeadline, OtherNotification, RecvError, Elapsed, BlocksPanic
<1>2. Ledgers' /\ TrackersAgree' /\ ContentsMatch'
  BY <1>1, QuietStep
<1>3. now' \in Nat /\ burst' \in 0 .. MaxBurst
  BY BoundsAssumption
  DEF IInv, TypeOK, OverallDeadline, OtherNotification, RecvError, Elapsed, BlocksPanic,
      Notified, clockVars
<1>4. \/ pc' = "exit" /\ why' \in {"deadline", "channel"} /\ result = "none"
      \/ pc' \in {"top", "panicked"} /\ why' = "none" /\ result = "none"
  BY DEF IInv, LeftOnce, OverallDeadline, OtherNotification, RecvError, Elapsed, BlocksPanic,
         Notified, Exit
<1>5. TypeOK'
  BY <1>1, <1>3, <1>4 DEF IInv, TypeOK, fixedVars, peerVars, blockVars
<1> QED
  BY <1>1, <1>2, <1>4, <1>5
  DEF IInv, LeftOnce, NoIdleCapacity, GiveUpJustified, GenuineHashesSucceed

\* The first dispatch.
LEMMA StartStep == ASSUME IInv, Start PROVE IInv'
<1>1. Dispatched(block_states, failures)
  BY DispatchStep DEF IInv, Ledgers, Start, TypeOK, BlockStateType
<1>2. Ledgers'
  BY <1>1 DEF Dispatched, Ledgers
<1>3. TypeOK'
  BY <1>1 DEF Dispatched, BlockStateType, IInv, TypeOK, Start, fixedVars, clockVars
<1>4. TrackersAgree'
  BY <1>1 DEF Dispatched, IInv, TrackersAgree, Holds, Start, fixedVars
<1> QED
  BY <1>2, <1>3, <1>4
  DEF IInv, Start, ContentsMatch, LeftOnce, NoIdleCapacity, GiveUpJustified,
      GenuineHashesSucceed, fixedVars

\* requeue_expired_blocks leaves the ledgers in step, ready for the dispatch.
LEMMA ExpireStep ==
  ASSUME IInv, RequeueExpiredThenDispatch
  PROVE  /\ Dispatched(block_states, failures')
         /\ failures' \in [Peers -> Nat]
<1> DEFINE gone   == UNION {Expired(p) : p \in Peers}
           states == [i \in Block |-> IF i \in gone THEN Pending ELSE block_states[i]]
           flight == [p \in Peers |-> in_flight[p] \ Expired(p)]
           fails  == [p \in Peers |-> failures[p] + Cardinality(Expired(p))]
           at     == [i \in Block |-> IF i \in gone THEN 0 ELSE requested_at[i]]
<1>1. \A p \in Peers : Expired(p) \in SUBSET Block
  BY DEF Expired
<1>2. \A i \in Block : i \in gone <=> block_states[i] \in Peers /\ i \in Expired(block_states[i])
  BY DEF Expired
<1>3. states \in BlockStateType
  BY DEF IInv, TypeOK, BlockStateType
<1>4. flight \in [Peers -> SUBSET Block]
  BY DEF IInv, TypeOK
<1>5. fails \in [Peers -> Nat]
  BY <1>1, BlockSetsFinite DEF IInv, TypeOK
<1>6. at \in [Block -> Nat]
  BY DEF IInv, TypeOK
<1>7. Slots(states, flight)
  <2>1. ASSUME NEW i \in Block, states[i] \in Peers PROVE i \in flight[states[i]]
    BY <1>2, <2>1, PeersAssumption DEF IInv, Ledgers, Slots
  <2>2. ASSUME NEW p \in Peers, NEW i \in flight[p] PROVE states[i] \in {p, Complete}
    <3>1. i \in in_flight[p] /\ i \notin Expired(p) /\ i \in Block
      BY DEF IInv, TypeOK
    <3>2. block_states[i] \in {p, Complete}
      BY <3>1 DEF IInv, Ledgers, Slots
    <3>3. i \notin gone
      BY <1>2, <3>1, <3>2, PeersAssumption
    <3> QED
      BY <3>1, <3>2, <3>3
  <2> QED
    BY <2>1, <2>2 DEF Slots
<1>8. Capacity(flight)
  <2> SUFFICES ASSUME NEW p \in Peers PROVE Cardinality(flight[p]) <= MaxInFlight
    BY DEF Capacity
  <2>1. in_flight[p] \in SUBSET Block /\ Cardinality(in_flight[p]) <= MaxInFlight
    BY DEF IInv, TypeOK, Ledgers, Capacity
  <2>2. flight[p] \in SUBSET in_flight[p]
    OBVIOUS
  <2>3. Cardinality(flight[p]) <= Cardinality(in_flight[p])
    BY <2>1, <2>2, BlockSetsFinite, FS_Subset
  <2>4. flight[p] \in SUBSET Block
    BY <2>1, <2>2
  <2>5. Cardinality(flight[p]) \in Nat /\ Cardinality(in_flight[p]) \in Nat
    BY <2>1, <2>4, BlockSetsFinite
  <2> HIDE DEF flight
  <2> QED
    BY <2>1, <2>3, <2>5, BoundsAssumption
<1>9. Dispatch(states, flight, fails, at)
  BY DEF RequeueExpiredThenDispatch
<1>10. Dispatched(states, fails)
  <2> HIDE DEF states, flight, fails, at
  <2> QED
    BY <1>3, <1>4, <1>5, <1>6, <1>7, <1>8, <1>9, DispatchStep DEF IInv
<1>11. \A i \in Block : states[i] = Complete <=> block_states[i] = Complete
  BY <1>2, PeersAssumption DEF Pending, Complete
<1> QED
  <2> HIDE DEF states, fails
  <2> QED
    BY <1>5, <1>10, <1>11 DEF Dispatched

\* One pass of the loop up to its receive: requeue, dispatch, give up or wait.
LEMMA PassStep == ASSUME IInv, Pass PROVE IInv'
<1>1. Dispatched(block_states, failures') /\ failures' \in [Peers -> Nat]
  BY ExpireStep DEF Pass
<1>2. /\ UNCHANGED <<now, burst, stall_deadline, receivers, available, block_hashes, blocks, result>>
      /\ \/ pc' = "exit" /\ why' = "stall"
         \/ /\ pc' = "exit" /\ why' = "noproviders"
            /\ Idle(in_flight')
         \/ pc' = "recv" /\ why' = why
      /\ why = "none" /\ result = "none"
  BY DEF Pass, Exit, IInv, LeftOnce, clockVars, fixedVars
<1>3. TypeOK'
  BY <1>1, <1>2 DEF Dispatched, BlockStateType, IInv, TypeOK
<1>4. Ledgers'
  BY <1>1 DEF Dispatched, Ledgers
<1>5. TrackersAgree' /\ ContentsMatch'
  BY <1>1, <1>2 DEF Dispatched, IInv, TrackersAgree, ContentsMatch, Holds
<1>6. NoIdleCapacity'
  <2> SUFFICES ASSUME NEW i \in Block, NEW p \in receivers,
                      block_states'[i] = Pending, i \in available[p]
               PROVE  Cardinality(in_flight'[p]) = MaxInFlight
    BY <1>2 DEF NoIdleCapacity
  <2>1. p \in Peers
    BY DEF IInv, TypeOK
  <2>2. in_flight'[p] \in SUBSET Block
    BY <1>3, <2>1 DEF TypeOK
  <2>3. Cardinality(in_flight'[p]) \in Nat
    BY <2>2, BlockSetsFinite
  <2>4. Cardinality(in_flight'[p]) >= MaxInFlight /\ Cardinality(in_flight'[p]) <= MaxInFlight
    BY <1>1, <2>1 DEF Dispatched, Capacity
  <2> QED
    BY <2>3, <2>4, BoundsAssumption
<1>7. GiveUpJustified'
  <2> SUFFICES ASSUME NEW i \in Block, NEW p \in receivers, i \in available[p],
                      why' = "noproviders"
               PROVE  block_states'[i] = Complete
    BY <1>2 DEF GiveUpJustified
  <2>1. p \in Peers /\ Idle(in_flight')
    BY <1>2 DEF IInv, TypeOK
  <2>2. in_flight'[p] = {}
    BY <2>1 DEF Idle
  <2>3. Cardinality(in_flight'[p]) = 0
    BY <2>2, FS_EmptySet
  <2>4. block_states'[i] # Pending
    BY <1>1, <2>3, BoundsAssumption DEF Dispatched
  <2>5. block_states'[i] \notin Peers
    BY <1>1, <2>1 DEF Dispatched, Slots, Idle
  <2> QED
    BY <1>1, <2>4, <2>5 DEF Dispatched, BlockStateType
<1> QED
  BY <1>2, <1>3, <1>4, <1>5, <1>6, <1>7 DEF IInv, LeftOnce, GenuineHashesSucceed

\* record_block_response: update_peer_after_block_response frees the slots of
\* exactly the blocks whose state the rest of the function settles.
LEMMA BlocksReceivedStep ==
  ASSUME IInv, NEW p \in Peers, NEW data \in SUBSET (WireIndex \X Data),
         BlocksReceived(p, data)
  PROVE  IInv'
<1> DEFINE sto == AcceptedData(p, data)
           acc == {x[1] : x \in sto}
           ind == {x[1] : x \in data}
<1>1. now' \in Nat /\ burst' \in 0 .. MaxBurst /\ pc = "recv" /\ why = "none" /\ result = "none"
  BY NotifiedClock DEF BlocksReceived
<1>2. ASSUME NEW i \in acc
      PROVE  /\ p \in receivers /\ i \in Block /\ i \in ind
             /\ block_hashes[i] \in Data /\ blocks[p][i] = NoData
             /\ (CHOOSE d \in Data : <<i, d>> \in sto) = block_hashes[i]
  <2>1. PICK x \in sto : x[1] = i
    OBVIOUS
  <2>2. /\ x \in data /\ p \in receivers /\ i \in Block
        /\ x[2] = block_hashes[i] /\ blocks[p][i] = NoData
    BY <2>1 DEF AcceptedData, Holds
  <2>3. x \in WireIndex \X Data
    BY <2>2
  <2>4. x = <<i, block_hashes[i]>> /\ block_hashes[i] \in Data
    BY <2>1, <2>2, <2>3
  <2>5. \A d \in Data : <<i, d>> \in sto => d = block_hashes[i]
    BY DEF AcceptedData
  <2>6. <<i, block_hashes[i]>> \in sto
    BY <2>4
  <2> HIDE DEF sto
  <2>7. (CHOOSE d \in Data : <<i, d>> \in sto) = block_hashes[i]
    BY <2>4, <2>5, <2>6
  <2> QED
    BY <2>1, <2>2, <2>4, <2>7
<1>3. /\ blocks' = [blocks EXCEPT ![p] =
           [i \in Block |-> IF i \in acc THEN CHOOSE d \in Data : <<i, d>> \in sto
                            ELSE blocks[p][i]]]
      /\ in_flight' = [in_flight EXCEPT ![p] = @ \ ind]
      /\ block_states' = [i \in Block |->
           IF i \in acc THEN Complete
           ELSE IF i \in ind /\ block_states[i] = p THEN Pending
           ELSE block_states[i]]
      /\ requested_at' = [i \in Block |->
           IF block_states'[i] \in {Pending, Complete} THEN 0 ELSE requested_at[i]]
      /\ UNCHANGED <<receivers, available, block_hashes, failures, result>>
      /\ \/ pc' = "exit" /\ why' = "complete"
         \/ pc' = "top" /\ why' = "none"
  BY <1>1 DEF BlocksReceived, FlightAfterResponse, StatesAfterResponse, fixedVars, Exit
<1> HIDE DEF sto, acc, ind
<1>4. \A i \in Block : blocks'[p][i] = IF i \in acc THEN block_hashes[i] ELSE blocks[p][i]
  BY <1>2, <1>3 DEF IInv, TypeOK
<1>5. /\ \A q \in Peers \ {p} : blocks'[q] = blocks[q]
       /\ DOMAIN blocks' = Peers /\ DOMAIN blocks'[p] = Block
  BY <1>3 DEF IInv, TypeOK
<1>6. TypeOK'
  <2>1. blocks' \in [Peers -> [Block -> Data \cup {NoData}]]
    BY <1>2, <1>3 DEF IInv, TypeOK
  <2>2. in_flight' \in [Peers -> SUBSET Block]
    BY <1>3 DEF IInv, TypeOK
  <2>3. block_states' \in [Block -> Peers \cup {Pending, Complete}]
    BY <1>3 DEF IInv, TypeOK
  <2>4. requested_at' \in [Block -> Nat]
    BY <1>3 DEF IInv, TypeOK
  <2>5. stall_deadline' \in Nat
    <3>1. stall_deadline \in Nat /\ now' \in Nat
      BY <1>1 DEF IInv, TypeOK
    <3>2. stall_deadline' = now' + StallTimeout \/ stall_deadline' = stall_deadline
      BY DEF BlocksReceived
    <3>3. StallTimeout \in Nat
      BY BoundsAssumption
    <3> QED
      BY <3>1, <3>2, <3>3
  <2> QED
    BY <1>1, <1>3, <2>1, <2>2, <2>3, <2>4, <2>5 DEF IInv, TypeOK
<1>7. Slots(block_states', in_flight')
  <2>1. ASSUME NEW i \in Block, block_states'[i] \in Peers
        PROVE  i \in in_flight'[block_states'[i]]
    <3>1. block_states'[i] = block_states[i] /\ ~(i \in ind /\ block_states[i] = p)
      BY <1>3, <2>1, PeersAssumption
    <3>2. i \in in_flight[block_states[i]]
      BY <2>1, <3>1 DEF IInv, Ledgers, Slots
    <3> QED
      BY <1>3, <2>1, <3>1, <3>2 DEF IInv, TypeOK
  <2>2. ASSUME NEW q \in Peers, NEW i \in in_flight'[q]
        PROVE  block_states'[i] \in {q, Complete}
    <3>1. i \in in_flight[q] /\ ~(q = p /\ i \in ind) /\ i \in Block
      BY <1>3 DEF IInv, TypeOK
    <3>2. block_states[i] \in {q, Complete}
      BY <3>1 DEF IInv, Ledgers, Slots
    <3>3. ~(i \in ind /\ block_states[i] = p)
      BY <3>1, <3>2, PeersAssumption
    <3> QED
      BY <1>3, <3>1, <3>2, <3>3
  <2> QED
    BY <2>1, <2>2 DEF Slots
<1>8. Capacity(in_flight')
  <2> SUFFICES ASSUME NEW q \in Peers PROVE Cardinality(in_flight'[q]) <= MaxInFlight
    BY DEF Capacity
  <2>1. in_flight[q] \in SUBSET Block /\ Cardinality(in_flight[q]) <= MaxInFlight
    BY DEF IInv, TypeOK, Ledgers, Capacity
  <2>2. in_flight'[q] \in SUBSET in_flight[q]
    BY <1>3 DEF IInv, TypeOK
  <2>3. IsFiniteSet(in_flight[q]) /\ Cardinality(in_flight[q]) \in Nat
    BY <2>1, BlockSetsFinite
  <2>4. Cardinality(in_flight'[q]) <= Cardinality(in_flight[q])
    BY <2>2, <2>3, FS_Subset
  <2>5. in_flight'[q] \in SUBSET Block
    BY <2>1, <2>2
  <2>6. Cardinality(in_flight'[q]) \in Nat
    BY <2>5, BlockSetsFinite
  <2> QED
    BY <2>1, <2>3, <2>4, <2>6, BoundsAssumption
<1>9. TrackersAgree'
  <2> SUFFICES ASSUME NEW i \in Block
               PROVE  block_states'[i] = Complete <=> \E q \in receivers : blocks'[q][i] # NoData
    BY <1>3 DEF TrackersAgree, Holds
  <2>1. block_states'[i] = Complete <=> i \in acc \/ block_states[i] = Complete
    BY <1>3, PeersAssumption DEF Pending, Complete
  <2>2. \A q \in receivers : blocks'[q][i] # NoData <=> (q = p /\ i \in acc) \/ blocks[q][i] # NoData
    BY <1>2, <1>4, <1>5 DEF IInv, TypeOK, Data, NoData
  <2>3. block_states[i] = Complete <=> \E q \in receivers : blocks[q][i] # NoData
    BY DEF IInv, TrackersAgree, Holds
  <2> QED
    BY <1>2, <2>1, <2>2, <2>3
<1>10. ContentsMatch'
  <2> SUFFICES ASSUME NEW q \in Peers, NEW i \in Block
               PROVE  blocks'[q][i] \in {NoData, block_hashes[i]}
    BY <1>3 DEF ContentsMatch
  <2>1. blocks[q][i] \in {NoData, block_hashes[i]}
    BY DEF IInv, ContentsMatch
  <2> QED
    BY <1>4, <1>5, <2>1
<1> QED
  BY <1>1, <1>3, <1>6, <1>7, <1>8, <1>9, <1>10
  DEF IInv, Ledgers, LeftOnce, NoIdleCapacity, GiveUpJustified, GenuineHashesSucceed

\* requeue_in_flight_blocks_for_peer frees the slots it empties, and no others.
LEMMA BlockRequestFailedStep ==
  ASSUME IInv, NEW p \in Peers, BlockRequestFailed(p)
  PROVE  IInv'
<1> DEFINE req == {i \in Block : block_states[i] = p}
<1>1. now' \in Nat /\ burst' \in 0 .. MaxBurst /\ pc = "recv" /\ why = "none" /\ result = "none"
  BY NotifiedClock DEF BlockRequestFailed
<1>2. /\ block_states' = [i \in Block |-> IF i \in req THEN Pending ELSE block_states[i]]
      /\ requested_at' = [i \in Block |-> IF i \in req THEN 0 ELSE requested_at[i]]
      /\ in_flight' = [in_flight EXCEPT ![p] = @ \ req]
      /\ failures' = [failures EXCEPT ![p] = IF req # {} THEN @ + 1 ELSE @]
      /\ pc' = "top" /\ why' = "none"
      /\ UNCHANGED <<stall_deadline, receivers, available, block_hashes, blocks, result>>
  BY <1>1 DEF BlockRequestFailed, FlightAfterFailure, fixedVars
<1>3. TypeOK'
  <2>1. failures' \in [Peers -> Nat]
    BY <1>2 DEF IInv, TypeOK
  <2>2. block_states' \in [Block -> Peers \cup {Pending, Complete}] /\ requested_at' \in [Block -> Nat]
    BY <1>2 DEF IInv, TypeOK
  <2>3. in_flight' \in [Peers -> SUBSET Block]
    BY <1>2 DEF IInv, TypeOK
  <2> QED
    BY <1>1, <1>2, <2>1, <2>2, <2>3 DEF IInv, TypeOK
<1>4. Slots(block_states', in_flight')
  <2>1. ASSUME NEW i \in Block, block_states'[i] \in Peers
        PROVE  i \in in_flight'[block_states'[i]]
    <3>1. block_states'[i] = block_states[i] /\ block_states[i] # p
      BY <1>2, <2>1, PeersAssumption
    <3>2. i \in in_flight[block_states[i]]
      BY <2>1, <3>1 DEF IInv, Ledgers, Slots
    <3> QED
      BY <1>2, <2>1, <3>1, <3>2 DEF IInv, TypeOK
  <2>2. ASSUME NEW q \in Peers, NEW i \in in_flight'[q]
        PROVE  block_states'[i] \in {q, Complete}
    <3>1. i \in in_flight[q] /\ ~(q = p /\ i \in req) /\ i \in Block
      BY <1>2 DEF IInv, TypeOK
    <3>2. block_states[i] \in {q, Complete}
      BY <3>1 DEF IInv, Ledgers, Slots
    <3>3. i \notin req
      BY <3>1, <3>2, PeersAssumption
    <3> QED
      BY <1>2, <3>1, <3>2, <3>3
  <2> QED
    BY <2>1, <2>2 DEF Slots
<1>5. Capacity(in_flight')
  <2> SUFFICES ASSUME NEW q \in Peers PROVE Cardinality(in_flight'[q]) <= MaxInFlight
    BY DEF Capacity
  <2>1. in_flight[q] \in SUBSET Block /\ Cardinality(in_flight[q]) <= MaxInFlight
    BY DEF IInv, TypeOK, Ledgers, Capacity
  <2>2. in_flight'[q] \in SUBSET in_flight[q]
    BY <1>2 DEF IInv, TypeOK
  <2>3. IsFiniteSet(in_flight[q]) /\ Cardinality(in_flight[q]) \in Nat
    BY <2>1, BlockSetsFinite
  <2>4. Cardinality(in_flight'[q]) <= Cardinality(in_flight[q])
    BY <2>2, <2>3, FS_Subset
  <2>5. in_flight'[q] \in SUBSET Block
    BY <2>1, <2>2
  <2>6. Cardinality(in_flight'[q]) \in Nat
    BY <2>5, BlockSetsFinite
  <2> QED
    BY <2>1, <2>3, <2>4, <2>6, BoundsAssumption
<1>6. TrackersAgree' /\ ContentsMatch'
  <2>1. \A i \in Block : block_states'[i] = Complete <=> block_states[i] = Complete
    BY <1>2, PeersAssumption DEF Pending, Complete
  <2> QED
    BY <1>2, <2>1 DEF IInv, TrackersAgree, ContentsMatch, Holds
<1> QED
  BY <1>1, <1>2, <1>3, <1>4, <1>5, <1>6
  DEF IInv, Ledgers, LeftOnce, NoIdleCapacity, GiveUpJustified, GenuineHashesSucceed

\* The last step, which assembles the NAR or reports the failure.
LEMMA FinishStep == ASSUME IInv, Finish PROVE IInv'
<1>1. /\ pc' = "done" /\ pc = "exit"
      /\ result' \in IF IsComplete THEN AssembleResults ELSE {"Incomplete"}
      /\ UNCHANGED <<why, now, burst, stall_deadline, fixedVars, peerVars, blockVars, blocks>>
  BY DEF Finish, clockVars
<1>2. result' \in Results
  BY <1>1 DEF AssembleResults, Results
<1>3. Ledgers' /\ TrackersAgree' /\ ContentsMatch'
  BY <1>1, QuietStep
<1>4. TypeOK'
  BY <1>1, <1>2 DEF IInv, TypeOK, fixedVars, peerVars, blockVars
<1>5. GenuineHashesSucceed'
  <2> SUFFICES ASSUME Block # {},
                      \A i \in Block : block_hashes[i] = "nar" /\ block_states[i] = Complete
               PROVE  result' = "Ok"
    BY <1>1 DEF GenuineHashesSucceed, fixedVars, blockVars
  <2>1. \A i \in Block : \E p \in receivers : Holds(p, i)
    BY DEF IInv, TrackersAgree
  <2>2. IsComplete
    BY <2>1 DEF IsComplete
  <2>3. \A p \in receivers : \A i \in Block : blocks[p][i] \in {NoData, "nar"}
    BY DEF IInv, TypeOK, ContentsMatch
  <2>4. \A i \in Block : \E p \in receivers : blocks[p][i] = "nar"
    BY <2>1, <2>3 DEF Holds
  <2>5. ~\E i \in Block : \E p \in receivers : blocks[p][i] = "other"
    BY <2>3 DEF NoData
  <2>6. AssembleResults = {"Ok"}
    BY <2>4, <2>5 DEF AssembleResults
  <2> QED
    BY <1>1, <2>2, <2>6
<1> QED
  BY <1>1, <1>3, <1>4, <1>5
  DEF IInv, LeftOnce, NoIdleCapacity, GiveUpJustified, fixedVars, blockVars

\* Every action keeps the invariant.
LEMMA Inductive == IInv /\ [Next]_vars => IInv'
<1> SUFFICES ASSUME IInv, [Next]_vars PROVE IInv'
  OBVIOUS
<1>1. CASE Start
  BY <1>1, StartStep
<1>2. CASE Pass
  BY <1>2, PassStep
<1>3. ASSUME NEW p \in Peers, NEW data \in SUBSET (WireIndex \X Data), BlocksReceived(p, data)
      PROVE  IInv'
  BY <1>3, BlocksReceivedStep
<1>4. ASSUME NEW p \in Peers, BlockRequestFailed(p) PROVE IInv'
  BY <1>4, BlockRequestFailedStep
<1>5. CASE Finish
  BY <1>5, FinishStep
<1>6. CASE \/ OverallDeadline \/ OtherNotification \/ RecvError \/ Elapsed
           \/ \E p \in Peers : \E data \in SUBSET (WireIndex \X Data) : BlocksPanic(p, data)
  BY <1>6, QuietActions
<1>7. CASE Returned \/ UNCHANGED vars
  BY <1>7
  DEF IInv, TypeOK, Ledgers, Slots, Capacity, TrackersAgree, ContentsMatch, LeftOnce, Holds,
      NoIdleCapacity, GiveUpJustified, GenuineHashesSucceed, Returned, vars
<1> QED
  BY <1>1, <1>2, <1>3, <1>4, <1>5, <1>6, <1>7 DEF Next

(***************************************************************************)
(* The theorems                                                            *)
(***************************************************************************)

\* The invariant holds in every state of every behaviour.
LEMMA AlwaysIInv == Spec => []IInv
BY InitIInv, Inductive, PTL DEF Spec

\* The scheduler's state keeps its type.
THEOREM TypeCorrect == Spec => []TypeOK
<1>1. IInv => TypeOK
  BY DEF IInv
<1> QED
  BY <1>1, AlwaysIInv, PTL

\* Block states and request slots agree in every reachable state, whatever
\* responses, failures and timeouts the loop has handled.
THEOREM SlotsAgree == Spec => []SlotAccounting
<1>1. IInv => SlotAccounting
  BY LedgersAre DEF IInv
<1> QED
  BY <1>1, AlwaysIInv, PTL

\* The scheduler and ActiveDownload agree on which blocks are there.
THEOREM CompleteIsHeld == Spec => []TrackersAgree
<1>1. IInv => TrackersAgree
  BY DEF IInv
<1> QED
  BY <1>1, AlwaysIInv, PTL

\* dispatch_block_requests leaves no usable slot empty before a receive.
THEOREM RoomIsUsed == Spec => []NoIdleCapacity
<1>1. IInv => NoIdleCapacity
  BY DEF IInv
<1> QED
  BY <1>1, AlwaysIInv, PTL

\* The loop gives up for want of providers only when no receiver has a block
\* that is still missing.
THEOREM GivesUpRightly == Spec => []GiveUpJustified
<1>1. IInv => GiveUpJustified
  BY DEF IInv
<1> QED
  BY <1>1, AlwaysIInv, PTL

\* With the NAR's own hashes, a download that has every block returns the NAR.
THEOREM CompleteSucceeds == Spec => []GenuineHashesSucceed
<1>1. IInv => GenuineHashesSucceed
  BY DEF IInv
<1> QED
  BY <1>1, AlwaysIInv, PTL

\* No action takes back a completed block or an accepted copy.
LEMMA KeepsAccepted == IInv /\ [Next]_vars => [AcceptedKept]_vars
<1> SUFFICES ASSUME IInv, Next PROVE AcceptedKept
  OBVIOUS
<1>1. CASE Start \/ Pass
  <2>1. \A i \in Block : block_states'[i] = Complete <=> block_states[i] = Complete
    <3>1. CASE Start
      <4>1. Dispatched(block_states, failures)
        BY <3>1, DispatchStep DEF IInv, Ledgers, Start, TypeOK, BlockStateType
      <4> QED
        BY <4>1 DEF Dispatched
    <3>2. CASE Pass
      BY <3>2, ExpireStep DEF Pass, Dispatched
    <3> QED
      BY <1>1, <3>1, <3>2
  <2> QED
    BY <1>1, <2>1 DEF Start, Pass, AcceptedKept
<1>2. ASSUME NEW p \in Peers, NEW data \in SUBSET (WireIndex \X Data), BlocksReceived(p, data)
      PROVE  AcceptedKept
  <2> DEFINE sto == AcceptedData(p, data)
             acc == {x[1] : x \in sto}
  <2>1. \A i \in acc : ~Holds(p, i)
    BY DEF AcceptedData
  <2>2. blocks \in [Peers -> [Block -> Data \cup {NoData}]]
    BY DEF IInv, TypeOK
  <2>3. blocks' = [blocks EXCEPT ![p] =
          [i \in Block |-> IF i \in acc THEN CHOOSE d \in Data : <<i, d>> \in sto
                           ELSE blocks[p][i]]]
    BY <1>2 DEF BlocksReceived
  <2> HIDE DEF sto, acc
  <2>4. ASSUME NEW q \in Peers, NEW i \in Block, Holds(q, i)
        PROVE  blocks'[q][i] = blocks[q][i]
    BY <2>1, <2>2, <2>3, <2>4
  <2>5. ASSUME NEW i \in Block, block_states[i] = Complete
        PROVE  block_states'[i] = Complete
    BY <1>2, <2>5, PeersAssumption DEF BlocksReceived, StatesAfterResponse
  <2> QED
    BY <2>4, <2>5 DEF AcceptedKept
<1>3. ASSUME NEW p \in Peers, BlockRequestFailed(p) PROVE AcceptedKept
  BY <1>3, PeersAssumption DEF BlockRequestFailed, AcceptedKept
<1>4. CASE \/ OverallDeadline \/ OtherNotification \/ RecvError \/ Elapsed \/ Finish \/ Returned
           \/ \E p \in Peers : \E data \in SUBSET (WireIndex \X Data) : BlocksPanic(p, data)
  <2>1. UNCHANGED <<block_states, blocks>>
    BY <1>4 DEF OverallDeadline, OtherNotification, RecvError, Elapsed, Finish, Returned,
                BlocksPanic, blockVars, vars
  <2> QED
    BY <2>1 DEF AcceptedKept
<1> QED
  BY <1>1, <1>2, <1>3, <1>4 DEF Next

\* Nothing that was accepted is ever lost, replaced or asked for again.
THEOREM AcceptedStays == Spec => AcceptedIsFinal
BY AlwaysIInv, KeepsAccepted, PTL DEF Spec, AcceptedIsFinal

(***************************************************************************)
(* The requests that are open                                              *)
(***************************************************************************)

\* A dispatch books for p exactly the blocks it newly gives to p.
LEMMA DispatchBatch ==
  ASSUME receivers \in SUBSET Peers,
         NEW states \in BlockStateType,
         NEW flight \in [Peers -> SUBSET Block], Slots(states, flight),
         NEW fails, NEW at,
         Dispatch(states, flight, fails, at),
         NEW p \in Peers
  PROVE  LET given == {i \in Block : states[i] = Pending /\ block_states'[i] = p}
         IN  /\ in_flight'[p] = flight[p] \cup given
             /\ flight[p] \cap given = {}
             /\ \A i \in Block : states[i] # Pending => block_states'[i] = states[i]
<1>1. PICK asg \in Assignments(states, flight, fails) :
        /\ block_states' = NewStates(states, asg)
        /\ in_flight' = NewFlight(flight, asg)
  BY DEF Dispatch, NewStates, NewFlight
<1>0. ChoosesWell(states, flight, asg)
  BY AssignmentFacts
<1>2. DOMAIN asg = {i \in Block : states[i] = Pending}
  BY <1>0 DEF ChoosesWell
<1>3. \A i \in flight[p] : i \in Block /\ states[i] # Pending
  BY PeersAssumption DEF Slots, Pending, Complete
<1>4. {i \in Block : states[i] = Pending /\ block_states'[i] = p} = {i \in DOMAIN asg : asg[i] = p}
  BY <1>1, <1>2 DEF NewStates
<1>5. \A i \in Block : states[i] # Pending => block_states'[i] = states[i]
  BY <1>1, <1>2 DEF NewStates
<1> QED
  BY <1>1, <1>3, <1>4, <1>5 DEF NewFlight

\* What a pass does to the slots of p: the expired ones go, the batch comes.
LEMMA PassBatch ==
  ASSUME IInv, RequeueExpiredThenDispatch, NEW p \in Peers
  PROVE  /\ in_flight'[p] = (in_flight[p] \ Expired(p)) \cup Batch(p)
         /\ (in_flight[p] \ Expired(p)) \cap Batch(p) = {}
         /\ Expired(p) \subseteq in_flight[p]
         /\ failures'[p] = failures[p] + Cardinality(Expired(p))
<1> DEFINE gone   == UNION {Expired(q) : q \in Peers}
           states == [i \in Block |-> IF i \in gone THEN Pending ELSE block_states[i]]
           flight == [q \in Peers |-> in_flight[q] \ Expired(q)]
           fails  == [q \in Peers |-> failures[q] + Cardinality(Expired(q))]
           at     == [i \in Block |-> IF i \in gone THEN 0 ELSE requested_at[i]]
<1>1. \A i \in Block : i \in gone <=> block_states[i] \in Peers /\ i \in Expired(block_states[i])
  BY DEF Expired
<1>2. states \in BlockStateType /\ flight \in [Peers -> SUBSET Block] /\ receivers \in SUBSET Peers
  BY DEF IInv, TypeOK, BlockStateType
<1>3. Slots(states, flight)
  <2>1. ASSUME NEW i \in Block, states[i] \in Peers PROVE i \in flight[states[i]]
    BY <1>1, <2>1, PeersAssumption DEF IInv, Ledgers, Slots
  <2>2. ASSUME NEW q \in Peers, NEW i \in flight[q] PROVE states[i] \in {q, Complete}
    <3>1. i \in in_flight[q] /\ i \notin Expired(q) /\ i \in Block
      BY DEF IInv, TypeOK
    <3>2. block_states[i] \in {q, Complete}
      BY <3>1 DEF IInv, Ledgers, Slots
    <3>3. i \notin gone
      BY <1>1, <3>1, <3>2, PeersAssumption
    <3> QED
      BY <3>1, <3>2, <3>3
  <2> QED
    BY <2>1, <2>2 DEF Slots
<1>4. Dispatch(states, flight, fails, at)
  BY DEF RequeueExpiredThenDispatch
<1>5. failures' = fails
  BY <1>4 DEF Dispatch
<1> DEFINE given == {i \in Block : states[i] = Pending /\ block_states'[i] = p}
<1>6. /\ in_flight'[p] = flight[p] \cup given
      /\ flight[p] \cap given = {}
      /\ \A i \in Block : states[i] # Pending => block_states'[i] = states[i]
  <2> HIDE DEF states, flight, fails, at
  <2> QED
    BY <1>2, <1>3, <1>4, DispatchBatch
<1>7. given = Batch(p)
  <2>1. ASSUME NEW i \in given PROVE i \in Batch(p)
    <3>1. i \in Block /\ states[i] = Pending /\ block_states'[i] = p
      OBVIOUS
    <3>2. block_states[i] = p => i \in gone
      BY <3>1, PeersAssumption
    <3> QED
      BY <1>1, <3>1, <3>2 DEF Batch
  <2>2. ASSUME NEW i \in Batch(p) PROVE i \in given
    <3>1. i \in Block /\ block_states'[i] = p /\ (block_states[i] = p => i \in Expired(p))
      BY DEF Batch
    <3>2. states[i] = Pending
      <4> SUFFICES ASSUME states[i] # Pending PROVE FALSE
        OBVIOUS
      <4>1. states[i] = p
        BY <1>6, <3>1
      <4>2. i \notin gone /\ block_states[i] = p
        BY <3>1, <4>1, PeersAssumption
      <4> QED
        BY <3>1, <4>2
    <3> QED
      BY <3>1, <3>2
  <2> QED
    BY <2>1, <2>2
<1>8. Expired(p) \subseteq in_flight[p]
  BY DEF Expired, IInv, Ledgers, Slots
<1> QED
  BY <1>5, <1>6, <1>7, <1>8

\* Nothing has been given out before the first dispatch.
Untouched == pc = "start" => \A i \in Block : block_states[i] = Pending

\* The first dispatch is a pass in which nothing has expired.
LEMMA StartBatch ==
  ASSUME IInv, Untouched, Start, NEW p \in Peers
  PROVE  /\ in_flight'[p] = (in_flight[p] \ Expired(p)) \cup Batch(p)
         /\ (in_flight[p] \ Expired(p)) \cap Batch(p) = {}
         /\ Expired(p) \subseteq in_flight[p]
         /\ failures'[p] = failures[p] + Cardinality(Expired(p))
<1>1. Expired(p) = {}
  BY PeersAssumption DEF Untouched, Start, Expired
<1>2. Cardinality(Expired(p)) = 0
  BY <1>1, FS_EmptySet
<1>3. Dispatch(block_states, in_flight, failures, requested_at)
  BY DEF Start
<1>4. failures'[p] = failures[p] /\ failures[p] \in Nat
  BY <1>3 DEF Dispatch, IInv, TypeOK
<1> DEFINE given == {i \in Block : block_states[i] = Pending /\ block_states'[i] = p}
<1>5. in_flight'[p] = in_flight[p] \cup given /\ in_flight[p] \cap given = {}
  <2>1. /\ receivers \in SUBSET Peers /\ block_states \in BlockStateType
        /\ in_flight \in [Peers -> SUBSET Block] /\ Slots(block_states, in_flight)
    BY DEF IInv, TypeOK, Ledgers, BlockStateType
  <2> QED
    BY <1>3, <2>1, DispatchBatch
<1>6. given = Batch(p)
  BY <1>1, PeersAssumption DEF Untouched, Start, Batch
<1> QED
  BY <1>1, <1>2, <1>4, <1>5, <1>6

ReqInv == IInv /\ Untouched /\ ReqTypeOK /\ OutstandingBounded

\* Sets of pairs of a request and an index are finite.
LEMMA OpenFinite ==
  ASSUME NEW n \in Nat, NEW S \in SUBSET ((0 .. n - 1) \X Block)
  PROVE  IsFiniteSet(S) /\ Cardinality(S) \in Nat
<1>1. IsFiniteSet(0 .. n - 1)
  BY FS_Interval
<1>2. IsFiniteSet(Block)
  BY BlockSetsFinite
<1>3. IsFiniteSet((0 .. n - 1) \X Block)
  BY <1>1, <1>2, FS_Product
<1> QED
  BY <1>3, FS_Subset, FS_CardinalityType

\* A dispatch opens one request for each block it books.
LEMMA SendStep ==
  ASSUME ReqInv, SendBatches,
         in_flight' \in [Peers -> SUBSET Block],
         \A p \in Peers :
           /\ in_flight'[p] = (in_flight[p] \ Expired(p)) \cup Batch(p)
           /\ (in_flight[p] \ Expired(p)) \cap Batch(p) = {}
           /\ Expired(p) \subseteq in_flight[p]
           /\ failures'[p] = failures[p] + Cardinality(Expired(p))
  PROVE  ReqTypeOK' /\ OutstandingBounded'
<1>1. sent \in Nat /\ open \in [Peers -> SUBSET ((0 .. sent - 1) \X Block)]
  BY DEF ReqInv, ReqTypeOK
<1>2. \A p \in Peers : Batch(p) \in SUBSET Block
  BY DEF Batch
<1>3. ReqTypeOK'
  <2>1. sent' = sent + 1
    BY DEF SendBatches
  <2>2. 0 .. sent - 1 \subseteq 0 .. sent' - 1 /\ sent \in 0 .. sent' - 1
    BY <1>1, <2>1
  <2>3. ASSUME NEW p \in Peers
        PROVE  open[p] \cup ({sent} \X Batch(p)) \in SUBSET ((0 .. sent' - 1) \X Block)
    BY <1>1, <1>2, <2>2
  <2> QED
    BY <1>1, <2>1, <2>3 DEF ReqTypeOK, SendBatches
<1>4. ASSUME NEW p \in Peers
      PROVE  Cardinality(open'[p]) <= Cardinality(in_flight'[p]) + MaxInFlight * failures'[p]
  <2> DEFINE B == Batch(p)
             X == Expired(p)
             F == in_flight[p]
             O == open[p]
  <2>1. F \in SUBSET Block /\ X \in SUBSET Block /\ B \in SUBSET Block /\ failures[p] \in Nat
    BY <1>2 DEF ReqInv, IInv, TypeOK, Expired
  <2>2. Cardinality({sent} \X B) = Cardinality(B)
    <3>1. IsFiniteSet({sent}) /\ Cardinality({sent}) = 1
      BY FS_Singleton
    <3>2. IsFiniteSet(B) /\ Cardinality(B) \in Nat
      BY <2>1, BlockSetsFinite
    <3>3. Cardinality({sent} \X B) = Cardinality({sent}) * Cardinality(B)
      BY <3>1, <3>2, FS_Product
    <3> QED
      BY <3>1, <3>2, <3>3
  <2>3. IsFiniteSet({sent} \X B)
    <3>1. IsFiniteSet({sent}) /\ IsFiniteSet(B)
      BY <2>1, BlockSetsFinite, FS_Singleton
    <3> QED
      BY <3>1, FS_Product
  <2>4. IsFiniteSet(O) /\ Cardinality(O) \in Nat
    BY <1>1, OpenFinite
  <2>5. O \cap ({sent} \X B) = {}
    BY <1>1
  <2>6. open'[p] = O \cup ({sent} \X B)
    BY DEF SendBatches
  <2>7. Cardinality(open'[p]) = Cardinality(O) + Cardinality(B)
    <3>1. Cardinality(O \cup ({sent} \X B))
            = Cardinality(O) + Cardinality({sent} \X B) - Cardinality(O \cap ({sent} \X B))
      BY <2>3, <2>4, FS_Union
    <3>2. Cardinality(O \cap ({sent} \X B)) = 0
      BY <2>5, FS_EmptySet
    <3>3. Cardinality(B) \in Nat
      BY <2>1, BlockSetsFinite
    <3> QED
      BY <2>2, <2>4, <2>6, <3>1, <3>2, <3>3
  <2>8. Cardinality(in_flight'[p]) = Cardinality(F) - Cardinality(X) + Cardinality(B)
    <3>1. in_flight'[p] = (F \ X) \cup B /\ (F \ X) \cap B = {} /\ X \subseteq F
      OBVIOUS
    <3>2. IsFiniteSet(F) /\ IsFiniteSet(F \ X) /\ IsFiniteSet(B)
      BY <2>1, BlockSetsFinite
    <3>3. Cardinality(F \ X) = Cardinality(F) - Cardinality(F \cap X)
      BY <3>2, FS_Difference
    <3>4. F \cap X = X
      BY <3>1
    <3>5. Cardinality((F \ X) \cup B)
            = Cardinality(F \ X) + Cardinality(B) - Cardinality((F \ X) \cap B)
      BY <3>2, FS_Union
    <3>6. Cardinality((F \ X) \cap B) = 0
      BY <3>1, FS_EmptySet
    <3>7. Cardinality(F) \in Nat /\ Cardinality(X) \in Nat /\ Cardinality(B) \in Nat
      BY <2>1, BlockSetsFinite
    <3>8. Cardinality(in_flight'[p]) = Cardinality((F \ X) \cup B)
      BY <3>1
    <3>9. Cardinality(F \cap X) = Cardinality(X)
      BY <3>4
    <3> QED
      BY ONLY <3>3, <3>5, <3>6, <3>7, <3>8, <3>9
  <2>9. Cardinality(O) <= Cardinality(F) + MaxInFlight * failures[p]
    BY DEF ReqInv, OutstandingBounded
  <2>10. failures'[p] = failures[p] + Cardinality(X)
    OBVIOUS
  <2>11. Cardinality(F) \in Nat /\ Cardinality(X) \in Nat /\ Cardinality(B) \in Nat
    BY <2>1, BlockSetsFinite
  <2>12. ASSUME NEW o \in Nat, NEW f \in Nat, NEW x \in Nat, NEW b \in Nat, NEW n \in Nat,
                o <= f + MaxInFlight * n
         PROVE  o + b <= (f - x + b) + MaxInFlight * (n + x)
    <3>1. MaxInFlight \in Nat /\ MaxInFlight >= 1
      BY BoundsAssumption
    <3>2. MaxInFlight * (n + x) = MaxInFlight * n + MaxInFlight * x
      BY <3>1
    <3>3. MaxInFlight * x >= x
      BY <3>1
    <3>4. MaxInFlight * n \in Nat /\ MaxInFlight * x \in Nat
      BY <3>1
    <3> QED
      BY <2>12, <3>2, <3>3, <3>4
  <2>13. failures[p] \in Nat
    BY <2>1
  <2>14. Cardinality(O) + Cardinality(B)
           <= (Cardinality(F) - Cardinality(X) + Cardinality(B))
              + MaxInFlight * (failures[p] + Cardinality(X))
    BY ONLY <2>4, <2>9, <2>11, <2>12, <2>13
  <2> QED
    BY ONLY <2>7, <2>8, <2>10, <2>14
<1> QED
  BY <1>3, <1>4 DEF OutstandingBounded

\* Closing a request that was open takes its indices out, and keeps the type.
LEMMA CloseStep ==
  ASSUME ReqTypeOK, NEW p \in Peers, NEW k, Close(p, k)
  PROVE  /\ ReqTypeOK'
         /\ open'[p] = {x \in open[p] : x[1] # k}
         /\ \A q \in Peers : open'[q] \subseteq open[q]
         /\ \A q \in Peers \ {p} : open'[q] = open[q]
         /\ \A q \in Peers : /\ Cardinality(open[q]) \in Nat
                             /\ Cardinality(open'[q]) \in Nat
                             /\ Cardinality(open'[q]) <= Cardinality(open[q])
                             /\ IsFiniteSet(open[q])
<1>1. sent \in Nat /\ open \in [Peers -> SUBSET ((0 .. sent - 1) \X Block)] /\ sent' = sent
  BY DEF ReqTypeOK, Close
<1>2. open' = [open EXCEPT ![p] = {x \in open[p] : x[1] # k}]
  BY DEF Close
<1>3. open' \in [Peers -> SUBSET ((0 .. sent - 1) \X Block)]
  BY <1>1, <1>2
<1>4. ASSUME NEW q \in Peers PROVE open'[q] \subseteq open[q]
  BY <1>1, <1>2
<1>5. \A q \in Peers \ {p} : open'[q] = open[q]
  BY <1>1, <1>2
<1>6. \A q \in Peers : /\ IsFiniteSet(open[q]) /\ Cardinality(open[q]) \in Nat
                       /\ Cardinality(open'[q]) \in Nat
  BY <1>1, <1>3, OpenFinite
<1>7. \A q \in Peers : Cardinality(open'[q]) <= Cardinality(open[q])
  BY <1>4, <1>6, FS_Subset
<1>8. open'[p] = {x \in open[p] : x[1] # k}
  BY <1>1, <1>2
<1>9. ReqTypeOK'
  BY <1>1, <1>3 DEF ReqTypeOK
<1> QED
  BY <1>4, <1>5, <1>6, <1>7, <1>8, <1>9

\* An answer closes at least as much as it takes out of the slots.
LEMMA AnsweredStep ==
  ASSUME ReqInv, NEW p \in Peers, NEW k \in 0 .. sent - 1,
         NEW data \in SUBSET (Block \X Data), Answered(p, k, data)
  PROVE  ReqTypeOK' /\ OutstandingBounded'
<1> DEFINE I == {x[1] : x \in data}
<1>1. IInv /\ TypeOK /\ ReqTypeOK /\ OutstandingBounded
  BY DEF ReqInv, IInv
<1>2. Close(p, k) /\ (BlocksReceived(p, data) \/ BlocksPanic(p, data))
  BY DEF Answered
<1>3. failures' = failures
  BY <1>2 DEF BlocksReceived, BlocksPanic, peerVars
<1>4. in_flight' = in_flight \/ in_flight' = [in_flight EXCEPT ![p] = @ \ I]
  BY <1>2 DEF BlocksReceived, BlocksPanic, peerVars, FlightAfterResponse
<1>5. I \in SUBSET Block /\ \A i \in I : <<k, i>> \in open[p]
  BY DEF Answered
<1>6. ReqTypeOK' /\ open'[p] = {x \in open[p] : x[1] # k} /\ IsFiniteSet(open[p])
      /\ \A q \in Peers : /\ Cardinality(open'[q]) <= Cardinality(open[q])
                          /\ Cardinality(open[q]) \in Nat /\ Cardinality(open'[q]) \in Nat
  BY <1>1, <1>2, CloseStep
<1>7. \A q \in Peers : in_flight[q] \in SUBSET Block /\ failures[q] \in Nat
  BY <1>1 DEF TypeOK
<1>8. Cardinality(open'[p]) <= Cardinality(open[p]) - Cardinality(I)
  <2>1. {k} \X I \subseteq open[p]
    BY <1>5
  <2>2. open'[p] \subseteq open[p] \ ({k} \X I)
    BY <1>6
  <2>3. IsFiniteSet(open[p] \ ({k} \X I))
    BY <1>6, FS_Subset
  <2>4. Cardinality(open'[p]) <= Cardinality(open[p] \ ({k} \X I))
    BY <2>2, <2>3, FS_Subset
  <2>5. Cardinality(open[p] \ ({k} \X I)) = Cardinality(open[p]) - Cardinality(open[p] \cap ({k} \X I))
    BY <1>6, FS_Difference
  <2>6. open[p] \cap ({k} \X I) = {k} \X I
    BY <2>1
  <2>7. Cardinality({k} \X I) = Cardinality(I)
    <3>1. IsFiniteSet({k}) /\ Cardinality({k}) = 1
      BY FS_Singleton
    <3>2. IsFiniteSet(I) /\ Cardinality(I) \in Nat
      BY <1>5, BlockSetsFinite
    <3>3. Cardinality({k} \X I) = Cardinality({k}) * Cardinality(I)
      BY <3>1, <3>2, FS_Product
    <3> HIDE DEF I
    <3> QED
      BY <3>1, <3>2, <3>3
  <2> HIDE DEF I
  <2> QED
    BY <2>4, <2>5, <2>6, <2>7
<1>9. ASSUME NEW q \in Peers
      PROVE  Cardinality(open'[q]) <= Cardinality(in_flight'[q]) + MaxInFlight * failures'[q]
  <2>1. Cardinality(open[q]) <= Cardinality(in_flight[q]) + MaxInFlight * failures[q]
    BY <1>1 DEF OutstandingBounded
  <2>2. MaxInFlight * failures[q] \in Nat /\ failures'[q] = failures[q]
    BY <1>3, <1>7, BoundsAssumption
  <2>3. IsFiniteSet(in_flight[q]) /\ Cardinality(in_flight[q]) \in Nat
    BY <1>7, BlockSetsFinite
  <2>4. CASE in_flight'[q] = in_flight[q]
    BY <1>6, <2>1, <2>2, <2>3, <2>4
  <2>5. CASE q = p /\ in_flight'[p] = in_flight[p] \ I
    <3>1. Cardinality(in_flight'[p]) = Cardinality(in_flight[p]) - Cardinality(in_flight[p] \cap I)
      BY <2>3, <2>5, FS_Difference
    <3>2. IsFiniteSet(I) /\ Cardinality(I) \in Nat
      BY <1>5, BlockSetsFinite
    <3>3. Cardinality(in_flight[p] \cap I) <= Cardinality(I) /\ Cardinality(in_flight[p] \cap I) \in Nat
      BY <3>2, FS_Subset, FS_CardinalityType
    <3>4. Cardinality(open'[p]) \in Nat /\ Cardinality(open[p]) \in Nat
      BY <1>6
    <3>5. ASSUME NEW o \in Nat, NEW o1 \in Nat, NEW f \in Nat, NEW i \in Nat, NEW c \in Nat,
                 NEW m \in Nat, o1 <= o - i, o <= f + m, c <= i
          PROVE  o1 <= (f - c) + m
      BY <3>5
    <3>6. Cardinality(open'[p]) <= (Cardinality(in_flight[p]) - Cardinality(in_flight[p] \cap I))
                                   + MaxInFlight * failures[p]
      <4>1. Cardinality(open[p]) <= Cardinality(in_flight[p]) + MaxInFlight * failures[p]
        BY <2>1, <2>5
      <4>2. Cardinality(in_flight[p]) \in Nat /\ MaxInFlight * failures[p] \in Nat
        BY <2>2, <2>3, <2>5
      <4> HIDE DEF I
      <4> QED
        BY ONLY <1>8, <3>2, <3>3, <3>4, <3>5, <4>1, <4>2
    <3> QED
      BY <2>2, <2>5, <3>1, <3>6
  <2>6. in_flight'[q] = in_flight[q] \/ (q = p /\ in_flight'[p] = in_flight[p] \ I)
    BY <1>1, <1>4 DEF TypeOK
  <2> QED
    BY <2>4, <2>5, <2>6
<1> QED
  BY <1>6, <1>9 DEF OutstandingBounded

\* A failure empties at most max_in_flight_blocks_per_peer slots, and counts.
LEMMA FailedStep ==
  ASSUME ReqInv, NEW p \in Peers, NEW k \in 0 .. sent - 1, Failed(p, k)
  PROVE  ReqTypeOK' /\ OutstandingBounded'
<1> DEFINE R == {i \in Block : block_states[i] = p}
<1>1. IInv /\ TypeOK /\ ReqTypeOK /\ OutstandingBounded
  BY DEF ReqInv, IInv
<1>2. ReqTypeOK'
      /\ \A q \in Peers : /\ Cardinality(open'[q]) <= Cardinality(open[q])
                          /\ Cardinality(open[q]) \in Nat /\ Cardinality(open'[q]) \in Nat
  BY <1>1, CloseStep DEF Failed
<1>3. /\ in_flight' = [in_flight EXCEPT ![p] = @ \ R]
      /\ failures' = [failures EXCEPT ![p] = IF R # {} THEN @ + 1 ELSE @]
  BY DEF Failed, BlockRequestFailed, FlightAfterFailure
<1>4. in_flight \in [Peers -> SUBSET Block] /\ failures \in [Peers -> Nat]
  BY <1>1 DEF TypeOK
<1>5. Cardinality(in_flight[p]) <= MaxInFlight
  BY <1>1 DEF IInv, Ledgers, Capacity
<1>6. ASSUME NEW q \in Peers
      PROVE  Cardinality(open'[q]) <= Cardinality(in_flight'[q]) + MaxInFlight * failures'[q]
  <2>1. Cardinality(open[q]) <= Cardinality(in_flight[q]) + MaxInFlight * failures[q]
    BY <1>1 DEF OutstandingBounded
  <2>2. IsFiniteSet(in_flight[q]) /\ Cardinality(in_flight[q]) \in Nat /\ failures[q] \in Nat
    BY <1>4, BlockSetsFinite
  <2>3. MaxInFlight \in Nat /\ MaxInFlight * failures[q] \in Nat
    BY <2>2, BoundsAssumption
  <2>4. CASE q # p \/ R = {}
    <3>1. in_flight'[q] = in_flight[q] /\ failures'[q] = failures[q]
      BY <1>3, <1>4, <2>4
    <3> QED
      BY <1>2, <2>1, <2>2, <2>3, <3>1
  <2>5. CASE q = p /\ R # {}
    <3>1. failures'[q] = failures[q] + 1
      BY <1>3, <1>4, <2>5
    <3>2. in_flight'[q] \in SUBSET Block
      BY <1>3, <1>4
    <3>3. Cardinality(in_flight'[q]) \in Nat
      BY <3>2, BlockSetsFinite
    <3>4. MaxInFlight * (failures[q] + 1) = MaxInFlight * failures[q] + MaxInFlight
      BY <2>2, <2>3
    <3> QED
      BY <1>2, <1>5, <2>1, <2>2, <2>3, <2>5, <3>1, <3>3, <3>4
  <2> QED
    BY <2>4, <2>5
<1> QED
  BY <1>2, <1>6 DEF OutstandingBounded

\* A step that opens no request and leaves slots and failures alone.
LEMMA OpenQuietStep ==
  ASSUME ReqInv, UNCHANGED peerVars,
         \/ UNCHANGED <<sent, open>>
         \/ \E p \in Peers : \E k \in 0 .. sent - 1 : Close(p, k)
  PROVE  ReqTypeOK' /\ OutstandingBounded'
<1>1. ReqTypeOK /\ TypeOK /\ OutstandingBounded
  BY DEF ReqInv, IInv
<1>2. CASE UNCHANGED <<sent, open>>
  BY <1>1, <1>2 DEF ReqTypeOK, OutstandingBounded, peerVars
<1>3. ASSUME NEW p \in Peers, NEW k \in 0 .. sent - 1, Close(p, k)
      PROVE  ReqTypeOK' /\ OutstandingBounded'
  <2>1. ReqTypeOK'
        /\ \A q \in Peers : /\ Cardinality(open'[q]) <= Cardinality(open[q])
                            /\ Cardinality(open[q]) \in Nat /\ Cardinality(open'[q]) \in Nat
    BY <1>1, <1>3, CloseStep
  <2>2. ASSUME NEW q \in Peers
        PROVE  Cardinality(open'[q]) <= Cardinality(in_flight'[q]) + MaxInFlight * failures'[q]
    <3>1. in_flight[q] \in SUBSET Block /\ failures[q] \in Nat
      BY <1>1 DEF TypeOK
    <3>2. Cardinality(in_flight[q]) \in Nat /\ MaxInFlight * failures[q] \in Nat
      BY <3>1, BlockSetsFinite, BoundsAssumption
    <3>3. Cardinality(open[q]) <= Cardinality(in_flight[q]) + MaxInFlight * failures[q]
      BY <1>1 DEF OutstandingBounded
    <3> QED
      BY <2>1, <3>2, <3>3 DEF peerVars
  <2> QED
    BY <2>1, <2>2 DEF OutstandingBounded
<1> QED
  BY <1>2, <1>3

\* Every step of the scheduler with its requests is a step of the scheduler.
LEMMA ReqNextIsNext ==
  ASSUME [ReqNext]_reqVars
  PROVE  [Next]_vars /\ (pc' = "start" => pc = "start" /\ UNCHANGED block_states)
<1>1. Block \X Data \subseteq WireIndex \X Data
  BY BoundsAssumption
<1>2. [Next]_vars
  BY <1>1 DEF ReqNext, reqVars, Next, vars, Answered, Refused, Failed, NoRequest
<1>3. pc' = "start" => UNCHANGED vars
  BY <1>2
  DEF Next, Start, OverallDeadline, Pass, Exit, BlocksReceived, BlocksPanic, BlockRequestFailed,
      OtherNotification, RecvError, Elapsed, Finish, Returned, vars
<1> QED
  BY <1>2, <1>3 DEF vars

LEMMA ReqInductive == ReqInv /\ [ReqNext]_reqVars => ReqInv'
<1> SUFFICES ASSUME ReqInv, [ReqNext]_reqVars PROVE ReqInv'
  OBVIOUS
<1>1. IInv' /\ Untouched'
  BY ReqNextIsNext, Inductive DEF ReqInv, Untouched
<1>2. in_flight' \in [Peers -> SUBSET Block]
  BY <1>1 DEF IInv, TypeOK
<1>3. CASE Start /\ SendBatches
  BY <1>2, <1>3, StartBatch, SendStep, <1>1 DEF ReqInv
<1>4. CASE Pass /\ SendBatches
  BY <1>2, <1>4, PassBatch, SendStep, <1>1 DEF ReqInv, Pass
<1>5. ASSUME NEW p \in Peers, NEW k \in 0 .. sent - 1, NEW data \in SUBSET (Block \X Data),
             Answered(p, k, data)
      PROVE  ReqInv'
  BY <1>1, <1>5, AnsweredStep DEF ReqInv
<1>6. ASSUME NEW p \in Peers, NEW k \in 0 .. sent - 1, Failed(p, k) PROVE ReqInv'
  BY <1>1, <1>6, FailedStep DEF ReqInv
<1>7. ASSUME NEW p \in Peers, NEW k \in 0 .. sent - 1, Refused(p, k) PROVE ReqInv'
  <2>1. UNCHANGED peerVars
    BY <1>7 DEF Refused, OtherNotification
  <2> QED
    BY <1>1, <1>7, <2>1, OpenQuietStep DEF ReqInv, Refused
<1>8. CASE NoRequest \/ UNCHANGED reqVars
  <2>1. UNCHANGED <<peerVars, sent, open>>
    BY <1>8 DEF NoRequest, OverallDeadline, OtherNotification, RecvError, Elapsed, Finish,
                Returned, reqVars, vars, peerVars
  <2> QED
    BY <1>1, <2>1, OpenQuietStep DEF ReqInv
<1> QED
  BY <1>3, <1>4, <1>5, <1>6, <1>7, <1>8 DEF ReqNext

\* The requests that are really open exceed the slots of a peer by at most
\* max_in_flight_blocks_per_peer for each failure counted against it, in a download
\* with any number of peers and blocks.
THEOREM OpenRequestsBounded == ReqSpec => []OutstandingBounded
<1>1. ReqInit => ReqInv
  <2> SUFFICES ASSUME ReqInit PROVE ReqInv
    OBVIOUS
  <2>1. IInv /\ Untouched
    BY InitIInv DEF ReqInit, Init, Untouched
  <2>2. ReqTypeOK
    BY DEF ReqInit, ReqTypeOK
  <2>3. OutstandingBounded
    <3>1. Cardinality({}) = 0
      BY FS_EmptySet
    <3>2. \A p \in Peers : open[p] = {} /\ in_flight[p] = {} /\ failures[p] = 0
      BY DEF ReqInit, Init
    <3>3. MaxInFlight * 0 = 0
      BY BoundsAssumption
    <3> QED
      BY <3>1, <3>2, <3>3 DEF OutstandingBounded
  <2> QED
    BY <2>1, <2>2, <2>3 DEF ReqInv
<1>2. ReqInv => OutstandingBounded
  BY DEF ReqInv
<1> QED
  BY <1>1, <1>2, ReqInductive, PTL DEF ReqSpec
=============================================================================
