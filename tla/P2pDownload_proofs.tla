------------------------- MODULE P2pDownload_proofs --------------------------
(* Theorems about P2pDownload, for every set of peers, NARs and workers,    *)
(* every capacity of the bus and every bound on jobs and swarm events.     *)
EXTENDS P2pDownload, FiniteSetTheorems, SequenceTheorems, TLAPS

(***************************************************************************)
(* Types                                                                   *)
(***************************************************************************)

\* The states of the connection manager and of the swarm task that TypeOK names.
SwarmTypes ==
  /\ failed \in [Peers -> Nat]
  /\ requests \in [Peers \X Nars -> Nat]
  /\ queries \in SUBSET Nars
  /\ cache \in [Nars -> SUBSET Peers]
  /\ inserts \in SUBSET (Nars \X SUBSET Peers)
  /\ churn \in 0 .. MaxChurn

BusTypes ==
  /\ queue \in [Workers -> Seq(Message)]
  /\ \A w \in Workers : Len(queue[w]) <= BusCapacity
  /\ lagged \in [Workers -> BOOLEAN]

JobTypes ==
  /\ jobs \in [Workers -> 0 .. MaxJobs]
  /\ target \in [Workers -> Nars]
  /\ patient \in [Workers -> BOOLEAN]

PhaseTypes ==
  /\ pc \in [Workers -> {"idle", "cached", "lookup", "refresh", "download"} \cup Rounds]
  /\ source \in [Workers -> Sources]
  /\ pending \in [Workers -> SUBSET Peers]
  /\ attempts \in [Workers -> [Peers -> 0 .. HandshakeAttempts]]
  /\ asked \in [Workers -> [Peers -> Nat]]
  /\ before \in [Workers -> Nat]

LookupTypes ==
  /\ found \in [Workers -> SUBSET Peers]
  /\ selected \in [Workers -> SUBSET Peers]

HandshakeTypes == handshakes \in [Workers -> Seq(Handshake)]

\* The methods of the connection manager keep its table well formed.
LEMMA ConnKeeps ==
  ASSUME ConnTypeOK,
         \/ \E p \in Peers : OnConnected(p) \/ OnDisconnected(p) \/ RemoveAddress(p)
                             \/ BackoffExpires(p) \/ GoesIdle(p)
         \/ \E S \in SUBSET Peers : OnActive(S) \/ RecordAttempts(S)
         \/ PruneDead
         \/ UNCHANGED connVars
  PROVE  ConnTypeOK'
<1> USE DEF ConnTypeOK
<1>1. ASSUME NEW p \in Peers, OnConnected(p) PROVE ConnTypeOK'
  BY <1>1 DEF OnConnected, RetriesAfterConnect, CoolingWith
<1>2. ASSUME NEW p \in Peers, OnDisconnected(p) \/ RemoveAddress(p) PROVE ConnTypeOK'
  BY <1>2 DEF OnDisconnected, RemoveAddress
<1>3. ASSUME NEW p \in Peers, BackoffExpires(p) \/ GoesIdle(p) PROVE ConnTypeOK'
  BY <1>3 DEF BackoffExpires, GoesIdle
<1>4. ASSUME NEW S \in SUBSET Peers, OnActive(S) PROVE ConnTypeOK'
  BY <1>4 DEF OnActive, CoolingWith
<1>5. ASSUME NEW S \in SUBSET Peers, RecordAttempts(S) PROVE ConnTypeOK'
  BY <1>5 DEF RecordAttempts
<1>6. CASE PruneDead BY <1>6 DEF PruneDead
<1>7. CASE UNCHANGED connVars BY <1>7 DEF connVars
<1> QED BY <1>1, <1>2, <1>3, <1>4, <1>5, <1>6, <1>7

\* The peers of a list of handshakes.
LEMMA PeersOfType == ASSUME NEW hs \in Seq(Handshake) PROVE PeersOf(hs) \in SUBSET Peers
<1>1. \A k \in 1 .. Len(hs) : hs[k] \in Handshake BY ElementOfSeq
<1>2. \A h \in Handshake : h.peer \in Peers BY DEF Handshake
<1> QED BY <1>1, <1>2 DEF PeersOf

\* Whatever the selection takes, it takes from its pool.
LEMMA SelectionsType ==
  ASSUME NEW pool \in SUBSET Peers, NEW fails, NEW S \in Selections(pool, fails)
  PROVE  S \in SUBSET pool /\ S \in SUBSET Peers
BY DEF Selections

\* The candidates of the fallback round are peers that have not answered.
LEMMA FallbackPoolType ==
  ASSUME TypeOK, NEW w \in Workers, NEW sel \in SUBSET Peers
  PROVE  /\ FallbackPool(w, sel) \in SUBSET Peers
         /\ FallbackPool(w, sel) \cap PeersOf(handshakes[w]) = {}
BY SessionAssumption DEF FallbackPool, TypeOK, ConnTypeOK

\* A round begins: what handshake_with_providers does before its loop.
LEMMA SendTypes ==
  ASSUME TypeOK, NEW w \in Workers, NEW S \in SUBSET Peers, NEW phase \in Rounds,
         SendHandshakes(w, S, phase), source' = source
  PROVE  ConnTypeOK' /\ PhaseTypes' /\ requests' \in [Peers \X Nars -> Nat]
<1>1. ConnTypeOK' BY ConnKeeps DEF TypeOK, SendHandshakes
<1>2. requests' \in [Peers \X Nars -> Nat] BY DEF TypeOK, SendHandshakes
<1>3. PhaseTypes'
  <2> USE DEF TypeOK, SendHandshakes, PhaseTypes
  <2>1. pc' \in [Workers -> {"idle", "cached", "lookup", "refresh", "download"} \cup Rounds]
    OBVIOUS
  <2>2. pending' \in [Workers -> SUBSET Peers] OBVIOUS
  <2>3. attempts' \in [Workers -> [Peers -> 0 .. HandshakeAttempts]]
    BY SessionAssumption
  <2>4. asked' \in [Workers -> [Peers -> Nat]] OBVIOUS
  <2>5. before' \in [Workers -> Nat] OBVIOUS
  <2> QED BY <2>1, <2>2, <2>3, <2>4, <2>5
<1> QED BY <1>1, <1>2, <1>3

\* The decision after the last round.
LEMMA DecideTypes ==
  ASSUME TypeOK, NEW w \in Workers, NEW src \in Sources, Decide(w, src), RoundOver(w)
  PROVE  ConnTypeOK' /\ PhaseTypes' /\ requests' \in [Peers \X Nars -> Nat]
<1>1. ConnTypeOK' BY ConnKeeps DEF TypeOK, RoundOver
<1> QED BY <1>1 DEF TypeOK, PhaseTypes, Decide, RoundOver

\* The fallback round or, without candidates, the decision.
LEMMA FallbackTypes ==
  ASSUME TypeOK, NEW w \in Workers, NEW sel \in SUBSET Peers, NEW fails,
         TryFallback(w, sel, fails)
  PROVE  ConnTypeOK' /\ PhaseTypes' /\ requests' \in [Peers \X Nars -> Nat]
<1>1. PICK S \in Selections(FallbackPool(w, sel), fails) :
        \/ SendHandshakes(w, S, "fallback") /\ UNCHANGED source
        \/ Decide(w, "p2p-dht") /\ RoundOver(w)
  BY DEF TryFallback
<1>2. S \in SUBSET Peers BY FallbackPoolType, SelectionsType
<1> QED BY <1>1, <1>2, SendTypes, DecideTypes DEF Rounds, Sources

\* The end of a lookup: a refresh, the fallback, or the first round.
LEMMA ProvidersTypes ==
  ASSUME TypeOK, NEW w \in Workers, NEW providers \in SUBSET Peers, NEW may,
         ProvidersKnown(w, providers, may)
  PROVE  ConnTypeOK' /\ PhaseTypes' /\ LookupTypes' /\ requests' \in [Peers \X Nars -> Nat]
<1>1. PICK S \in Selections(providers, failed) :
        /\ selected' = [selected EXCEPT ![w] = S]
        /\ found' = [found EXCEPT ![w] = providers]
        /\ \/ /\ pc' = [pc EXCEPT ![w] = "refresh"]
              /\ UNCHANGED <<connVars, requests, roundVars, source>>
           \/ TryFallback(w, S, failed)
           \/ SendHandshakes(w, S, "handshake") /\ UNCHANGED source
  BY DEF ProvidersKnown
<1>2. S \in SUBSET Peers BY SelectionsType
<1>3. LookupTypes' BY <1>1, <1>2 DEF LookupTypes, TypeOK
<1>4. CASE /\ pc' = [pc EXCEPT ![w] = "refresh"]
           /\ UNCHANGED <<connVars, requests, roundVars, source>>
  <2>1. ConnTypeOK' BY <1>4, ConnKeeps DEF TypeOK
  <2> QED BY <1>3, <1>4, <2>1 DEF TypeOK, PhaseTypes, roundVars
<1>5. CASE TryFallback(w, S, failed) BY <1>2, <1>3, <1>5, FallbackTypes
<1>6. CASE SendHandshakes(w, S, "handshake") /\ UNCHANGED source
  BY <1>2, <1>3, <1>6, SendTypes DEF Rounds
<1> QED BY <1>1, <1>4, <1>5, <1>6

\* The bus keeps at most BusCapacity notifications for each receiver.
LEMMA BroadcastTypes ==
  ASSUME TypeOK, NEW m \in Message, Broadcast(m)
  PROVE  BusTypes'
<1>1. ASSUME NEW w \in Workers
      PROVE  /\ Append(Retained(queue[w]), m) \in Seq(Message)
             /\ Len(Append(Retained(queue[w]), m)) <= BusCapacity
  <2>1. queue[w] \in Seq(Message) /\ Len(queue[w]) <= BusCapacity BY DEF TypeOK
  <2>2. CASE Len(queue[w]) < BusCapacity
    BY <2>1, <2>2, SessionAssumption DEF Retained
  <2>3. CASE ~(Len(queue[w]) < BusCapacity)
    <3>1. Len(queue[w]) = BusCapacity /\ queue[w] # << >>
      BY <2>1, <2>3, SessionAssumption
    <3>2. Tail(queue[w]) \in Seq(Message) /\ Len(Tail(queue[w])) = BusCapacity - 1
      BY <2>1, <3>1, SessionAssumption
    <3> QED BY <2>3, <3>2, SessionAssumption DEF Retained
  <2> QED BY <2>2, <2>3
<1>2. queue' = [w \in Workers |-> Append(Retained(queue[w]), m)] BY DEF Broadcast
<1>3. lagged' \in [Workers -> BOOLEAN] BY DEF Broadcast, TypeOK
<1> QED BY <1>1, <1>2, <1>3 DEF BusTypes

\* A receiver that takes a notification has one less to take.
LEMMA TakesTypes ==
  ASSUME TypeOK, NEW w \in Workers, NEW m, Takes(w, m)
  PROVE  BusTypes' /\ m \in Message
<1>1. queue[w] \in Seq(Message) /\ queue[w] # << >> /\ Len(queue[w]) <= BusCapacity
  BY DEF Takes, TypeOK
<1>2. Tail(queue[w]) \in Seq(Message) /\ Len(Tail(queue[w])) <= BusCapacity
  BY <1>1, SessionAssumption
<1>3. m \in Message BY <1>1 DEF Takes
<1> QED BY <1>1, <1>2, <1>3 DEF BusTypes, Takes, TypeOK

\* Nothing that the swarm task does concerns a worker.
LEMMA SwarmStepTypes == TypeOK /\ SwarmStep => TypeOK'
<1> SUFFICES ASSUME TypeOK, SwarmStep PROVE TypeOK' OBVIOUS
<1> USE DEF workerVars, jobVars, lookupVars, roundVars
<1>1. UNCHANGED workerVars
  BY DEF SwarmStep, HandshakeAnswered, HandshakeFailed, ProviderQuery, KadFinishes, KadReports,
         CacheInsert, BlockTraffic, ConnectionEvent, BackoffPasses, PruneTick
<1>2. JobTypes' /\ PhaseTypes' /\ LookupTypes' /\ HandshakeTypes'
  BY <1>1 DEF TypeOK, JobTypes, PhaseTypes, LookupTypes, HandshakeTypes
<1>3. ASSUME UNCHANGED busVars PROVE BusTypes'
  BY <1>3 DEF TypeOK, BusTypes, busVars
<1>4. Unasked => churn' \in 0 .. MaxChurn
  BY SessionAssumption DEF Unasked, TypeOK
<1>5. \A p \in Peers, n \in Nars : Reply(p, n) \in Message
  BY DEF Message
<1>6. \A p \in Peers : Blocks(p) \in Message /\ Failure(p) \in Message
  BY DEF Message
<1>7. \A n \in Nars, S \in SUBSET Peers : Found(n, S) \in Message
  BY DEF Message
<1>8. ASSUME NEW p \in Peers, NEW n \in Nars, HandshakeAnswered(p, n)
      PROVE  ConnTypeOK' /\ SwarmTypes' /\ BusTypes'
  <2>1. ConnTypeOK' BY <1>8, ConnKeeps DEF HandshakeAnswered, TypeOK
  <2>2. BusTypes' BY <1>5, <1>8, BroadcastTypes DEF HandshakeAnswered
  <2>3. SwarmTypes' BY <1>8 DEF HandshakeAnswered, SwarmTypes, TypeOK
  <2> QED BY <2>1, <2>2, <2>3
<1>9. ASSUME NEW p \in Peers, NEW n \in Nars, HandshakeFailed(p, n)
      PROVE  ConnTypeOK' /\ SwarmTypes' /\ BusTypes'
  <2>1. ConnTypeOK' BY <1>9, ConnKeeps DEF HandshakeFailed, TypeOK
  <2>2. BusTypes' BY <1>6, <1>9, BroadcastTypes DEF HandshakeFailed
  <2>3. SwarmTypes' BY <1>9 DEF HandshakeFailed, SwarmTypes, TypeOK
  <2> QED BY <2>1, <2>2, <2>3
<1>10. ASSUME NEW n \in Nars, ProviderQuery(n) \/ KadFinishes(n)
       PROVE  ConnTypeOK' /\ SwarmTypes' /\ BusTypes'
  <2>1. ConnTypeOK' BY <1>10, ConnKeeps DEF ProviderQuery, KadFinishes, TypeOK
  <2>2. BusTypes' BY <1>3, <1>10 DEF ProviderQuery, KadFinishes
  <2>3. SwarmTypes' BY <1>4, <1>10 DEF ProviderQuery, KadFinishes, SwarmTypes, TypeOK
  <2> QED BY <2>1, <2>2, <2>3
<1>11. ASSUME NEW n \in Nars, NEW S \in SUBSET Peers, KadReports(n, S)
       PROVE  ConnTypeOK' /\ SwarmTypes' /\ BusTypes'
  <2>1. ConnTypeOK' BY <1>11, ConnKeeps DEF KadReports, TypeOK
  <2>2. BusTypes' BY <1>7, <1>11, BroadcastTypes DEF KadReports
  <2>3. SwarmTypes' BY <1>11 DEF KadReports, SwarmTypes, TypeOK
  <2> QED BY <2>1, <2>2, <2>3
<1>12. ASSUME NEW n \in Nars, NEW S \in SUBSET Peers, CacheInsert(n, S)
       PROVE  ConnTypeOK' /\ SwarmTypes' /\ BusTypes'
  <2>1. ConnTypeOK' BY <1>12, ConnKeeps DEF CacheInsert, TypeOK
  <2>2. BusTypes' BY <1>3, <1>12 DEF CacheInsert
  <2>3. SwarmTypes' BY <1>12 DEF CacheInsert, SwarmTypes, TypeOK
  <2> QED BY <2>1, <2>2, <2>3
<1>13. ASSUME NEW p \in Peers, BlockTraffic(p) PROVE ConnTypeOK' /\ SwarmTypes' /\ BusTypes'
  <2>1. ConnTypeOK' BY <1>13, ConnKeeps DEF BlockTraffic, TypeOK
  <2>2. BusTypes' BY <1>6, <1>13, BroadcastTypes DEF BlockTraffic
  <2>3. failed' = failed \/ failed' = [failed EXCEPT ![p] = @ + 1]
    BY <1>13 DEF BlockTraffic
  <2>4. failed' \in [Peers -> Nat]
    <3>1. failed \in [Peers -> Nat] BY DEF TypeOK
    <3> QED BY <2>3, <3>1
  <2>5. churn' \in 0 .. MaxChurn BY <1>4, <1>13 DEF BlockTraffic
  <2>6. UNCHANGED <<requests, queries, cache, inserts>> BY <1>13 DEF BlockTraffic
  <2>7. SwarmTypes' BY <2>4, <2>5, <2>6 DEF SwarmTypes, TypeOK
  <2> QED BY <2>1, <2>2, <2>7
<1>14. ASSUME NEW p \in Peers, ConnectionEvent(p) PROVE ConnTypeOK' /\ SwarmTypes' /\ BusTypes'
  <2>1. ConnTypeOK' BY <1>14, ConnKeeps DEF ConnectionEvent, TypeOK
  <2>2. BusTypes' BY <1>3, <1>14 DEF ConnectionEvent
  <2>3. SwarmTypes' BY <1>4, <1>14 DEF ConnectionEvent, SwarmTypes, TypeOK
  <2> QED BY <2>1, <2>2, <2>3
<1>15. ASSUME NEW p \in Peers, BackoffPasses(p) PROVE ConnTypeOK' /\ SwarmTypes' /\ BusTypes'
  <2>1. ConnTypeOK' BY <1>15, ConnKeeps DEF BackoffPasses, TypeOK
  <2>2. BusTypes' BY <1>3, <1>15 DEF BackoffPasses
  <2>3. SwarmTypes' BY <1>15 DEF BackoffPasses, SwarmTypes, TypeOK, swarmVars
  <2> QED BY <2>1, <2>2, <2>3
<1>16. ASSUME NEW stale \in SUBSET Peers, PruneTick(stale)
       PROVE  ConnTypeOK' /\ SwarmTypes' /\ BusTypes'
  <2>1. ConnTypeOK' BY <1>16, ConnKeeps DEF PruneTick, TypeOK
  <2>2. BusTypes' BY <1>3, <1>16 DEF PruneTick
  <2>3. SwarmTypes' BY <1>4, <1>16 DEF PruneTick, SwarmTypes, TypeOK
  <2> QED BY <2>1, <2>2, <2>3
<1>17. ConnTypeOK' /\ SwarmTypes' /\ BusTypes'
  BY <1>8, <1>9, <1>10, <1>11, <1>12, <1>13, <1>14, <1>15, <1>16 DEF SwarmStep
<1> QED
  BY <1>2, <1>17
  DEF TypeOK, SwarmTypes, BusTypes, JobTypes, PhaseTypes, LookupTypes, HandshakeTypes

\* What a step of a worker's task writes has the types that TypeOK names.
LEMMA WorkerStepTypes == ASSUME TypeOK, NEW w \in Workers, WorkerStep(w) PROVE TypeOK'
<1> USE DEF workerVars, jobVars, lookupVars, roundVars
<1> DEFINE Swarm == SwarmTypes' /\ BusTypes'
           Own   == JobTypes' /\ PhaseTypes' /\ LookupTypes' /\ HandshakeTypes'
<1> SUFFICES ConnTypeOK' /\ Swarm /\ Own
  BY DEF TypeOK, SwarmTypes, BusTypes, JobTypes, PhaseTypes, LookupTypes, HandshakeTypes
<1>1. ASSUME UNCHANGED busVars PROVE BusTypes'
  BY <1>1 DEF TypeOK, BusTypes, busVars
<1>2. ASSUME UNCHANGED <<failed, queries, cache, inserts, churn>>,
             requests' \in [Peers \X Nars -> Nat]
      PROVE  SwarmTypes'
  BY <1>2 DEF TypeOK, SwarmTypes
<1>3. ASSUME UNCHANGED jobVars PROVE JobTypes'
  BY <1>3 DEF TypeOK, JobTypes
<1>4. ASSUME UNCHANGED handshakes PROVE HandshakeTypes'
  BY <1>4 DEF TypeOK, HandshakeTypes
<1>5. ASSUME UNCHANGED lookupVars PROVE LookupTypes'
  BY <1>5 DEF TypeOK, LookupTypes
<1>6. ASSUME UNCHANGED workerVars PROVE Own
  BY <1>6 DEF TypeOK, JobTypes, PhaseTypes, LookupTypes, HandshakeTypes
<1>7. ASSUME UNCHANGED swarmVars PROVE SwarmTypes'
  BY <1>7 DEF TypeOK, SwarmTypes, swarmVars
<1>8. ASSUME UNCHANGED connVars PROVE ConnTypeOK'
  BY <1>8, ConnKeeps DEF TypeOK
<1>9. \A m : Takes(w, m) => BusTypes' /\ m \in Message
  BY TakesTypes
<1>10. ASSUME NEW n \in Nars, NEW slow \in BOOLEAN, Begin(w, n, slow)
       PROVE  ConnTypeOK' /\ Swarm /\ Own
  <2>1. ConnTypeOK' /\ BusTypes' BY <1>1, <1>8, <1>10 DEF Begin
  <2>2. SwarmTypes' BY <1>10 DEF Begin, SwarmTypes, TypeOK
  <2>3. JobTypes' BY <1>10, SessionAssumption DEF Begin, JobTypes, TypeOK
  <2>4. PhaseTypes' BY <1>10, SessionAssumption DEF Begin, PhaseTypes, TypeOK, Sources
  <2>5. LookupTypes' BY <1>10 DEF Begin, LookupTypes, TypeOK
  <2>6. HandshakeTypes' BY <1>10 DEF Begin, HandshakeTypes, TypeOK
  <2> QED BY <2>1, <2>2, <2>3, <2>4, <2>5, <2>6
<1>11. CASE ReadCache(w)
  <2>1. BusTypes' /\ JobTypes' /\ HandshakeTypes'
    BY <1>1, <1>3, <1>4, <1>11 DEF ReadCache
  <2>2. cache[target[w]] \in SUBSET Peers BY DEF TypeOK
  <2>3. CASE ProvidersKnown(w, cache[target[w]], MayRefresh(w))
    <3>1. ConnTypeOK' /\ PhaseTypes' /\ LookupTypes' /\ requests' \in [Peers \X Nars -> Nat]
      BY <2>2, <2>3, ProvidersTypes
    <3>2. SwarmTypes' BY <1>2, <1>11, <3>1 DEF ReadCache
    <3> QED BY <2>1, <3>1, <3>2
  <2>4. CASE /\ pc' = [pc EXCEPT ![w] = "lookup"]
             /\ UNCHANGED <<connVars, requests, lookupVars, roundVars, source>>
    <3>1. ConnTypeOK' /\ LookupTypes' BY <1>5, <1>8, <2>4
    <3>2. SwarmTypes' BY <1>11, <2>4 DEF ReadCache, SwarmTypes, TypeOK
    <3>3. PhaseTypes' BY <2>4 DEF PhaseTypes, TypeOK
    <3> QED BY <2>1, <3>1, <3>2, <3>3
  <2> QED BY <1>11, <2>3, <2>4 DEF ReadCache
<1>12. CASE LookupEnds(w)
  <2>1. BusTypes' /\ JobTypes' /\ HandshakeTypes'
    BY <1>1, <1>3, <1>4, <1>12 DEF LookupEnds
  <2>2. found[w] \in SUBSET Peers BY DEF TypeOK
  <2>3. ConnTypeOK' /\ PhaseTypes' /\ LookupTypes' /\ requests' \in [Peers \X Nars -> Nat]
    BY <1>12, <2>2, ProvidersTypes DEF LookupEnds
  <2>4. SwarmTypes' BY <1>2, <1>12, <2>3 DEF LookupEnds
  <2> QED BY <2>1, <2>3, <2>4
<1>13. CASE LookupLagged(w)
  <2>1. ConnTypeOK' /\ SwarmTypes' /\ Own BY <1>6, <1>7, <1>8, <1>13 DEF LookupLagged
  <2>2. BusTypes' BY <1>13 DEF LookupLagged, BusTypes, TypeOK
  <2> QED BY <2>1, <2>2
<1>14. ASSUME NEW m \in Message, LookupRecv(w, m) PROVE ConnTypeOK' /\ Swarm /\ Own
  <2>1. ConnTypeOK' /\ SwarmTypes' /\ BusTypes' /\ JobTypes' /\ HandshakeTypes'
    BY <1>3, <1>4, <1>7, <1>8, <1>9, <1>14 DEF LookupRecv
  <2>2. m.kind = "ProvidersFound" => m.peers \in SUBSET Peers
    BY DEF Message, Reply, Blocks, Failure, Found
  <2>3. LookupTypes' BY <1>14, <2>2 DEF LookupRecv, LookupTypes, TypeOK
  <2>4. PhaseTypes' BY <1>14 DEF LookupRecv, PhaseTypes, TypeOK
  <2> QED BY <2>1, <2>3, <2>4
<1>15. ASSUME NEW m \in Message, HandshakeReplied(w, m) PROVE ConnTypeOK' /\ Swarm /\ Own
  <2>1. SwarmTypes' /\ BusTypes' /\ JobTypes' /\ LookupTypes'
    BY <1>3, <1>5, <1>7, <1>9, <1>15 DEF HandshakeReplied
  <2>2. m.peer \in Peers /\ m.nar \in Nars
    BY <1>15 DEF HandshakeReplied, IsSolicited, Message, Reply, Blocks, Failure, Found
  <2>3. ConnTypeOK' BY <1>15, <2>2, ConnKeeps DEF HandshakeReplied, TypeOK
  <2>4. [peer |-> m.peer, nar |-> m.nar] \in Handshake BY <2>2 DEF Handshake
  <2>5. HandshakeTypes' BY <1>15, <2>4 DEF HandshakeReplied, HandshakeTypes, TypeOK
  <2>6. PhaseTypes' BY <1>15 DEF HandshakeReplied, PhaseTypes, TypeOK
  <2> QED BY <2>1, <2>3, <2>5, <2>6
<1>16. ASSUME NEW m \in Message, HandshakeIgnores(w, m) \/ DownloadRecv(w, m)
       PROVE  ConnTypeOK' /\ Swarm /\ Own
  BY <1>6, <1>7, <1>8, <1>9, <1>16 DEF HandshakeIgnores, DownloadRecv
<1>17. ASSUME NEW S \in SUBSET Peers, HandshakeRetry(w, S) PROVE ConnTypeOK' /\ Swarm /\ Own
  <2>1. ConnTypeOK' /\ BusTypes' /\ JobTypes' /\ LookupTypes' /\ HandshakeTypes'
    BY <1>1, <1>3, <1>4, <1>5, <1>8, <1>17 DEF HandshakeRetry
  <2>2. SwarmTypes' BY <1>17 DEF HandshakeRetry, SwarmTypes, TypeOK
  <2>3. attempts' \in [Workers -> [Peers -> 0 .. HandshakeAttempts]]
    BY <1>17, SessionAssumption DEF HandshakeRetry, AttemptsAfterRetry, TypeOK
  <2>4. asked' \in [Workers -> [Peers -> Nat]] BY <1>17 DEF HandshakeRetry, TypeOK
  <2>5. PhaseTypes' BY <1>17, <2>3, <2>4 DEF HandshakeRetry, PhaseTypes, TypeOK
  <2> QED BY <2>1, <2>2, <2>5
<1>18. CASE RoundTimesOut(w) \/ RoundLagged(w)
  <2>1. BusTypes'
    BY <1>1, <1>18 DEF RoundTimesOut, RoundLagged, BusTypes, TypeOK
  <2>2. RoundEnds(w) BY <1>18 DEF RoundTimesOut, RoundLagged
  <2>3. JobTypes' /\ LookupTypes' /\ HandshakeTypes'
    BY <1>3, <1>4, <1>5, <2>2 DEF RoundEnds
  <2>4. failed' \in [Peers -> Nat] BY <2>2 DEF RoundEnds, TypeOK
  <2>5. selected[w] \in SUBSET Peers BY DEF TypeOK
  <2>6. \/ TryFallback(w, selected[w], failed')
        \/ \E src \in Sources : Decide(w, src) /\ RoundOver(w)
    BY <2>2 DEF RoundEnds, Sources
  <2>7. ConnTypeOK' /\ PhaseTypes' /\ requests' \in [Peers \X Nars -> Nat]
    BY <2>5, <2>6, FallbackTypes, DecideTypes
  <2>8. SwarmTypes' BY <2>2, <2>4, <2>7 DEF RoundEnds, SwarmTypes, TypeOK
  <2> QED BY <2>1, <2>3, <2>7, <2>8
<1>19. CASE DownloadSucceeds(w)
  <2>1. SwarmTypes' /\ BusTypes' /\ JobTypes' /\ LookupTypes' /\ HandshakeTypes'
    BY <1>1, <1>3, <1>4, <1>5, <1>7, <1>19 DEF DownloadSucceeds
  <2>2. PeersOf(handshakes[w]) \in SUBSET Peers BY PeersOfType DEF TypeOK
  <2>3. ConnTypeOK' BY <1>19, <2>2, ConnKeeps DEF DownloadSucceeds, TypeOK
  <2>4. PhaseTypes' BY <1>19 DEF DownloadSucceeds, PhaseTypes, TypeOK
  <2> QED BY <2>1, <2>3, <2>4
<1>20. CASE DownloadFails(w)
  <2>1. ConnTypeOK' /\ SwarmTypes' /\ JobTypes' /\ LookupTypes' /\ HandshakeTypes'
    BY <1>3, <1>4, <1>5, <1>7, <1>8, <1>20 DEF DownloadFails
  <2>2. BusTypes' BY <1>20 DEF DownloadFails, BusTypes, TypeOK
  <2>3. PhaseTypes' BY <1>20 DEF DownloadFails, PhaseTypes, TypeOK
  <2> QED BY <2>1, <2>2, <2>3
<1> QED
  BY <1>10, <1>11, <1>12, <1>13, <1>14, <1>15, <1>16, <1>17, <1>18, <1>19, <1>20 DEF WorkerStep

\* Every value of a session keeps its type; in particular the attempts of a
\* round never exceed HandshakeAttempts and no receiver holds more than the bus
\* retains.
THEOREM TypesKept == Spec => []TypeOK
<1>1. Init => TypeOK
  BY SessionAssumption, ConnectionAssumption DEF Init, ConnInit, TypeOK, ConnTypeOK, Sources
<1>2. TypeOK /\ [Next]_vars => TypeOK'
  <2>1. ASSUME TypeOK, UNCHANGED vars PROVE TypeOK'
    BY <2>1
    DEF vars, connVars, swarmVars, busVars, workerVars, jobVars, lookupVars, roundVars,
        TypeOK, ConnTypeOK
  <2> QED BY <2>1, SwarmStepTypes, WorkerStepTypes DEF Next, Served
<1> QED BY <1>1, <1>2, PTL DEF Spec

(***************************************************************************)
(* The session of one worker                                               *)
(***************************************************************************)

\* A peer the round waits for has not answered in this job.
Apart(w) == pending[w] \cap PeersOf(handshakes[w]) = {}

\* Only a round waits for anyone.
Quiet(w) == pc[w] \notin Rounds => pending[w] = {}

\* Before its first round a job has asked nobody.
Fresh(w) ==
  pc[w] \in {"cached", "lookup", "refresh"} =>
    handshakes[w] = << >> /\ \A p \in Peers : asked[w][p] = 0

\* No two of the handshakes hs are of one peer.
DistinctPeers(hs) ==
  \A j, k \in 1 .. Len(hs) : j # k => hs[j].peer # hs[k].peer

\* What the decision to download has seen.
Quorum(w) ==
  pc[w] = "download" =>
    \/ Len(handshakes[w]) >= MinProviders
    \/ source[w] = "p2p-connected-fallback" /\ Len(handshakes[w]) >= 1

\* What a round has sent is what it counts, on top of the round before it.
Budget(w) ==
  \A p \in Peers :
    /\ asked[w][p] <= 2 * HandshakeAttempts
    /\ pc[w] = "handshake" => asked[w][p] <= attempts[w][p]
    /\ pc[w] = "fallback" => asked[w][p] <= HandshakeAttempts + attempts[w][p]

Session(w) ==
  /\ Apart(w) /\ Quiet(w) /\ Fresh(w)
  /\ DistinctPeers(handshakes[w])
  /\ Quorum(w) /\ Budget(w)

SessionInv == TypeOK /\ \A w \in Workers : Session(w)

\* What Session reads of a worker.
Same(w) ==
  /\ pc'[w] = pc[w] /\ source'[w] = source[w]
  /\ pending'[w] = pending[w] /\ attempts'[w] = attempts[w] /\ asked'[w] = asked[w]
  /\ handshakes'[w] = handshakes[w]

\* A step that leaves a worker's session alone keeps what is true of it.
LEMMA SameSession == ASSUME NEW w, Session(w), Same(w) PROVE Session(w)'
BY DEF Session, Same, Apart, Quiet, Fresh, DistinctPeers, Quorum, Budget, PeersOf

\* Workers do not write to each other's sessions.
LEMMA OthersSame ==
  ASSUME TypeOK, NEW w \in Workers, WorkerStep(w), NEW v \in Workers, v # w
  PROVE  Same(v) /\ jobs'[v] = jobs[v]
<1> USE DEF TypeOK, Same, workerVars, jobVars, lookupVars, roundVars
<1>1. ASSUME NEW S, NEW phase, SendHandshakes(w, S, phase), UNCHANGED <<handshakes, source>>
      PROVE  Same(v)
  BY <1>1 DEF SendHandshakes
<1>2. ASSUME NEW src, Decide(w, src), RoundOver(w), UNCHANGED handshakes PROVE Same(v)
  BY <1>2 DEF Decide, RoundOver
<1>3. ASSUME NEW sel, NEW fails, TryFallback(w, sel, fails), UNCHANGED handshakes PROVE Same(v)
  BY ONLY <1>1, <1>2, <1>3 DEF TryFallback
<1>4. ASSUME NEW providers, NEW may, ProvidersKnown(w, providers, may), UNCHANGED handshakes
      PROVE  Same(v)
  <2>1. PICK S :
          \/ /\ pc' = [pc EXCEPT ![w] = "refresh"]
             /\ UNCHANGED <<connVars, requests, roundVars, source>>
          \/ TryFallback(w, S, failed)
          \/ SendHandshakes(w, S, "handshake") /\ UNCHANGED source
    BY <1>4 DEF ProvidersKnown
  <2>2. CASE /\ pc' = [pc EXCEPT ![w] = "refresh"]
             /\ UNCHANGED <<connVars, requests, roundVars, source>>
    BY <1>4, <2>2
  <2> QED BY <1>1, <1>3, <1>4, <2>1, <2>2
<1>5. ASSUME NEW n \in Nars, NEW slow \in BOOLEAN, Begin(w, n, slow)
      PROVE  Same(v) /\ jobs'[v] = jobs[v]
  BY <1>5 DEF Begin
<1>6. CASE ReadCache(w)
  <2>1. UNCHANGED <<handshakes, jobs>> BY <1>6 DEF ReadCache
  <2>2. CASE ProvidersKnown(w, cache[target[w]], MayRefresh(w)) BY <1>4, <2>1, <2>2
  <2>3. CASE /\ pc' = [pc EXCEPT ![w] = "lookup"]
             /\ UNCHANGED <<connVars, requests, lookupVars, roundVars, source>>
    BY <2>1, <2>3
  <2> QED BY <1>6, <2>2, <2>3 DEF ReadCache
<1>7. CASE LookupEnds(w) BY <1>4, <1>7 DEF LookupEnds
<1>8. CASE LookupLagged(w) BY <1>8 DEF LookupLagged
<1>9. ASSUME NEW m, \/ LookupRecv(w, m) \/ HandshakeReplied(w, m)
                    \/ HandshakeIgnores(w, m) \/ DownloadRecv(w, m)
      PROVE  Same(v) /\ jobs'[v] = jobs[v]
  BY <1>9 DEF LookupRecv, HandshakeReplied, HandshakeIgnores, DownloadRecv
<1>10. ASSUME NEW S, HandshakeRetry(w, S) PROVE Same(v) /\ jobs'[v] = jobs[v]
  BY <1>10 DEF HandshakeRetry, AttemptsAfterRetry
<1>11. CASE RoundTimesOut(w) \/ RoundLagged(w)
  <2>1. RoundEnds(w) BY <1>11 DEF RoundTimesOut, RoundLagged
  <2>2. UNCHANGED <<handshakes, jobs>> BY <2>1 DEF RoundEnds
  <2>3. \/ TryFallback(w, selected[w], failed')
        \/ \E src : Decide(w, src) /\ RoundOver(w)
    BY <2>1 DEF RoundEnds
  <2> QED BY <1>2, <1>3, <2>2, <2>3
<1>12. CASE DownloadSucceeds(w) \/ DownloadFails(w)
  BY <1>12 DEF DownloadSucceeds, DownloadFails
<1> QED BY <1>5, <1>6, <1>7, <1>8, <1>9, <1>10, <1>11, <1>12 DEF WorkerStep

\* A round with peers that have not answered begins well.
LEMMA SendSession ==
  ASSUME TypeOK, NEW w \in Workers, Session(w), NEW S \in SUBSET Peers, NEW phase \in Rounds,
         SendHandshakes(w, S, phase), UNCHANGED <<handshakes, source>>,
         S \cap PeersOf(handshakes[w]) = {},
         phase = "handshake" => \A p \in Peers : asked[w][p] = 0,
         phase = "fallback" => \A p \in Peers : asked[w][p] <= HandshakeAttempts
  PROVE  /\ Session(w)'
         /\ \A p \in PeersOf(handshakes[w]) : asked'[w][p] = asked[w][p]
<1>1. /\ pc'[w] = phase
      /\ pending'[w] = S
      /\ attempts'[w] = [p \in Peers |-> IF p \in S THEN 1 ELSE 0]
      /\ asked'[w] = [p \in Peers |-> IF p \in S THEN asked[w][p] + 1 ELSE asked[w][p]]
      /\ handshakes'[w] = handshakes[w]
  BY DEF SendHandshakes, TypeOK
<1>2. Apart(w)' BY <1>1 DEF Apart, PeersOf
<1>3. Quiet(w)' /\ Fresh(w)' /\ Quorum(w)' BY <1>1 DEF Quiet, Fresh, Quorum, Rounds
<1>4. DistinctPeers(handshakes[w])' BY <1>1 DEF Session, DistinctPeers
<1>5. Budget(w)'
  <2> SUFFICES ASSUME NEW p \in Peers
               PROVE  /\ asked'[w][p] <= 2 * HandshakeAttempts
                      /\ phase = "handshake" => asked'[w][p] <= attempts'[w][p]
                      /\ phase = "fallback" => asked'[w][p] <= HandshakeAttempts + attempts'[w][p]
    BY <1>1 DEF Budget
  <2>1. asked[w][p] \in Nat BY DEF TypeOK
  <2> QED BY <1>1, <2>1, SessionAssumption DEF Rounds
<1>6. PeersOf(handshakes[w]) \in SUBSET Peers BY PeersOfType DEF TypeOK
<1> QED BY <1>1, <1>2, <1>3, <1>4, <1>5, <1>6 DEF Session

\* The decision: a download has its quorum, and nobody is waited for.
LEMMA DecideSession ==
  ASSUME TypeOK, NEW w \in Workers, Session(w), NEW src \in Sources,
         Decide(w, src), RoundOver(w), UNCHANGED handshakes
  PROVE  Session(w)' /\ asked'[w] = asked[w]
<1>1. /\ pc'[w] = IF Len(handshakes[w]) >= Needed(src) THEN "download" ELSE "idle"
      /\ source'[w] = src
      /\ pending'[w] = {}
      /\ attempts'[w] = attempts[w] /\ asked'[w] = asked[w]
      /\ handshakes'[w] = handshakes[w]
  BY DEF Decide, RoundOver, TypeOK
<1>2. pc'[w] \in {"download", "idle"} BY <1>1
<1>3. Apart(w)' /\ Quiet(w)' BY <1>1 DEF Apart, Quiet
<1>4. Fresh(w)' BY <1>2 DEF Fresh
<1>5. DistinctPeers(handshakes[w])' BY <1>1 DEF Session, DistinctPeers
<1>6. Budget(w)' BY <1>1, <1>2 DEF Session, Budget
<1>7. Quorum(w)' BY <1>1 DEF Quorum, Needed
<1> QED BY <1>1, <1>3, <1>4, <1>5, <1>6, <1>7 DEF Session

\* What follows the first round, or its omission.
LEMMA FallbackSession ==
  ASSUME TypeOK, NEW w \in Workers, Session(w), NEW sel \in SUBSET Peers, NEW fails,
         TryFallback(w, sel, fails), UNCHANGED handshakes,
         \A p \in Peers : asked[w][p] <= HandshakeAttempts
  PROVE  /\ Session(w)'
         /\ \A p \in PeersOf(handshakes[w]) : asked'[w][p] = asked[w][p]
<1>1. PICK S \in Selections(FallbackPool(w, sel), fails) :
        \/ SendHandshakes(w, S, "fallback") /\ UNCHANGED source
        \/ Decide(w, "p2p-dht") /\ RoundOver(w)
  BY DEF TryFallback
<1>2. S \in SUBSET Peers /\ S \cap PeersOf(handshakes[w]) = {}
  BY FallbackPoolType, SelectionsType
<1>3. CASE SendHandshakes(w, S, "fallback") /\ UNCHANGED source
  BY <1>2, <1>3, SendSession DEF Rounds
<1>4. CASE Decide(w, "p2p-dht") /\ RoundOver(w)
  BY <1>4, DecideSession DEF Sources
<1> QED BY <1>1, <1>3, <1>4

\* The end of a lookup: the job has asked nobody yet.
LEMMA ProvidersSession ==
  ASSUME TypeOK, NEW w \in Workers, Session(w), NEW providers \in SUBSET Peers, NEW may,
         ProvidersKnown(w, providers, may), UNCHANGED handshakes,
         pc[w] \in {"cached", "lookup", "refresh"}
  PROVE  Session(w)' /\ PeersOf(handshakes[w]) = {}
<1>1. PICK S \in Selections(providers, failed) :
        \/ /\ pc' = [pc EXCEPT ![w] = "refresh"]
           /\ UNCHANGED <<connVars, requests, roundVars, source>>
        \/ TryFallback(w, S, failed)
        \/ SendHandshakes(w, S, "handshake") /\ UNCHANGED source
  BY DEF ProvidersKnown
<1>2. S \in SUBSET Peers BY SelectionsType
<1>3. handshakes[w] = << >> /\ \A p \in Peers : asked[w][p] = 0
  BY DEF Session, Fresh
<1>4. PeersOf(handshakes[w]) = {} BY <1>3 DEF PeersOf
<1>5. CASE /\ pc' = [pc EXCEPT ![w] = "refresh"]
           /\ UNCHANGED <<connVars, requests, roundVars, source>>
  <2>1. /\ pc'[w] = "refresh" /\ pending'[w] = pending[w] /\ asked'[w] = asked[w]
        /\ handshakes'[w] = handshakes[w]
    BY <1>5 DEF roundVars, TypeOK
  <2> QED
    BY <1>4, <2>1
    DEF Session, Apart, Quiet, Fresh, DistinctPeers, Quorum, Budget, PeersOf, Rounds
<1>6. CASE TryFallback(w, S, failed)
  <2>1. \A p \in Peers : asked[w][p] <= HandshakeAttempts BY <1>3, SessionAssumption
  <2> QED BY <1>2, <1>4, <1>6, <2>1, FallbackSession
<1>7. CASE SendHandshakes(w, S, "handshake") /\ UNCHANGED source
  BY <1>2, <1>3, <1>4, <1>7, SendSession DEF Rounds
<1> QED BY <1>1, <1>5, <1>6, <1>7

\* A reply is taken from a peer the round waits for, who has not answered yet.
LEMMA ReplySession ==
  ASSUME TypeOK, NEW w \in Workers, Session(w), NEW m \in Message, HandshakeReplied(w, m)
  PROVE  Session(w)' /\ asked'[w] = asked[w]
<1> DEFINE hs == handshakes[w]
           h == [peer |-> m.peer, nar |-> m.nar]
<1>1. /\ m.peer \in pending[w] /\ pc[w] \in Rounds
      /\ pending'[w] = pending[w] \ {m.peer}
      /\ handshakes'[w] = Append(hs, h)
      /\ pc'[w] = pc[w] /\ attempts'[w] = attempts[w] /\ asked'[w] = asked[w]
  BY DEF HandshakeReplied, IsSolicited, Collecting, TypeOK
<1>2. hs \in Seq(Handshake) /\ Len(hs) \in Nat BY DEF TypeOK
<1>3. m.peer \notin PeersOf(hs) BY <1>1 DEF Session, Apart
<1>4. /\ Len(Append(hs, h)) = Len(hs) + 1
      /\ Append(hs, h)[Len(hs) + 1] = h
      /\ \A k \in 1 .. Len(hs) : Append(hs, h)[k] = hs[k]
  BY <1>2
<1>5. h.peer = m.peer OBVIOUS
<1>6. \A k \in 1 .. Len(hs) + 1 : k \in 1 .. Len(hs) \/ k = Len(hs) + 1 BY <1>2
<1> HIDE DEF h, hs
<1>7. PeersOf(Append(hs, h)) = PeersOf(hs) \cup {m.peer}
  <2>1. \A k \in 1 .. Len(hs) : k \in 1 .. Len(hs) + 1 BY <1>2
  <2>2. Len(hs) + 1 \in 1 .. Len(hs) + 1 BY <1>2
  <2> QED BY <1>4, <1>5, <1>6, <2>1, <2>2 DEF PeersOf
<1>8. Apart(w)' BY <1>1, <1>7 DEF Session, Apart, hs
<1>9. Quiet(w)' /\ Fresh(w)' /\ Quorum(w)' BY <1>1 DEF Quiet, Fresh, Quorum, Rounds
<1>10. Budget(w)' BY <1>1 DEF Session, Budget
<1>11. DistinctPeers(Append(hs, h))
  <2>1. \A k \in 1 .. Len(hs) : hs[k].peer # m.peer BY <1>3 DEF PeersOf
  <2>2. \A j, k \in 1 .. Len(hs) : j # k => hs[j].peer # hs[k].peer
    BY DEF Session, DistinctPeers, hs
  <2> QED BY <1>4, <1>5, <1>6, <2>1, <2>2 DEF DistinctPeers
<1>12. DistinctPeers(handshakes[w])' BY <1>1, <1>11 DEF DistinctPeers, hs
<1> QED BY <1>1, <1>8, <1>9, <1>10, <1>12 DEF Session

\* The peers that step leaves alone: their count of handshakes stands, and if
\* the step ends a round, so does their count of failures.
LeftAlone(w) ==
  \A p \in PeersOf(handshakes[w]) :
    /\ asked'[w][p] = asked[w][p]
    /\ pc[w] \in Rounds /\ pc'[w] # pc[w] => failed'[p] = failed[p]

\* Every step of a worker's task keeps its session in order, and within a job
\* leaves those alone who have answered.
LEMMA WorkerSession ==
  ASSUME TypeOK, NEW w \in Workers, Session(w), WorkerStep(w)
  PROVE  Session(w)' /\ (jobs'[w] = jobs[w] => LeftAlone(w))
<1> USE DEF workerVars, jobVars, lookupVars, roundVars
<1>1. ASSUME Same(w) PROVE Session(w)' /\ LeftAlone(w)
  BY <1>1, SameSession DEF Same, LeftAlone
<1>2. ASSUME NEW n \in Nars, NEW slow \in BOOLEAN, Begin(w, n, slow)
      PROVE  Session(w)' /\ jobs'[w] # jobs[w]
  <2>1. /\ pc[w] = "idle" /\ pc'[w] = "cached"
        /\ pending'[w] = pending[w]
        /\ asked'[w] = [p \in Peers |-> 0]
        /\ handshakes'[w] = << >>
    BY <1>2 DEF Begin, TypeOK
  <2>2. jobs'[w] # jobs[w] BY <1>2, SessionAssumption DEF Begin, TypeOK
  <2>3. pending'[w] = {} BY <2>1 DEF Session, Quiet, Rounds
  <2>4. Budget(w)' BY <2>1, SessionAssumption DEF Budget
  <2>5. Apart(w)' /\ Quiet(w)' /\ Fresh(w)' /\ DistinctPeers(handshakes[w])' /\ Quorum(w)'
    BY <2>1, <2>3 DEF Apart, Quiet, Fresh, DistinctPeers, Quorum
  <2> QED BY <2>2, <2>4, <2>5 DEF Session
<1>3. CASE ReadCache(w)
  <2>1. UNCHANGED handshakes /\ pc[w] = "cached" BY <1>3 DEF ReadCache
  <2>2. cache[target[w]] \in SUBSET Peers BY DEF TypeOK
  <2>3. CASE ProvidersKnown(w, cache[target[w]], MayRefresh(w))
    BY <2>1, <2>2, <2>3, ProvidersSession DEF LeftAlone
  <2>4. CASE /\ pc' = [pc EXCEPT ![w] = "lookup"]
             /\ UNCHANGED <<connVars, requests, lookupVars, roundVars, source>>
    <3>1. /\ pc'[w] = "lookup" /\ pending'[w] = pending[w] /\ asked'[w] = asked[w]
          /\ attempts'[w] = attempts[w] /\ handshakes'[w] = handshakes[w]
      BY <2>1, <2>4 DEF TypeOK
    <3>2. Session(w)'
      BY <2>1, <3>1
      DEF Session, Apart, Quiet, Fresh, DistinctPeers, Quorum, Budget, PeersOf, Rounds
    <3> QED BY <2>1, <3>1, <3>2 DEF LeftAlone, Rounds
  <2> QED BY <1>3, <2>3, <2>4 DEF ReadCache
<1>4. CASE LookupEnds(w)
  <2>1. UNCHANGED handshakes /\ pc[w] \in {"lookup", "refresh"}
    BY <1>4 DEF LookupEnds, Waiting
  <2>2. found[w] \in SUBSET Peers BY DEF TypeOK
  <2> QED BY <1>4, <2>1, <2>2, ProvidersSession DEF LookupEnds, LeftAlone
<1>5. CASE LookupLagged(w) BY <1>1, <1>5 DEF LookupLagged, Same
<1>6. ASSUME NEW m, LookupRecv(w, m) \/ HandshakeIgnores(w, m) \/ DownloadRecv(w, m)
      PROVE  Session(w)' /\ LeftAlone(w)
  BY <1>1, <1>6 DEF LookupRecv, HandshakeIgnores, DownloadRecv, Same
<1>7. ASSUME NEW m \in Message, HandshakeReplied(w, m) PROVE Session(w)' /\ LeftAlone(w)
  BY <1>7, ReplySession DEF HandshakeReplied, LeftAlone
<1>8. ASSUME NEW S \in SUBSET Peers, HandshakeRetry(w, S) PROVE Session(w)' /\ LeftAlone(w)
  <2>1. /\ pc'[w] = pc[w] /\ pc[w] \in Rounds
        /\ source'[w] = source[w] /\ pending'[w] = pending[w]
        /\ handshakes'[w] = handshakes[w]
        /\ attempts'[w] = [p \in Peers |-> IF p \in S THEN attempts[w][p] + 1 ELSE attempts[w][p]]
        /\ asked'[w] = [p \in Peers |-> IF p \in S THEN asked[w][p] + 1 ELSE asked[w][p]]
        /\ S \subseteq pending[w]
        /\ \A p \in S : attempts[w][p] < HandshakeAttempts
    BY <1>8 DEF HandshakeRetry, AttemptsAfterRetry, Collecting, TypeOK
  <2>2. Budget(w)'
    <3> SUFFICES ASSUME NEW p \in Peers
                 PROVE  /\ asked'[w][p] <= 2 * HandshakeAttempts
                        /\ pc[w] = "handshake" => asked'[w][p] <= attempts'[w][p]
                        /\ pc[w] = "fallback" =>
                             asked'[w][p] <= HandshakeAttempts + attempts'[w][p]
      BY <2>1 DEF Budget
    <3>1. asked[w][p] \in Nat /\ attempts[w][p] \in 0 .. HandshakeAttempts BY DEF TypeOK
    <3>2. /\ asked[w][p] <= 2 * HandshakeAttempts
          /\ pc[w] = "handshake" => asked[w][p] <= attempts[w][p]
          /\ pc[w] = "fallback" => asked[w][p] <= HandshakeAttempts + attempts[w][p]
      BY DEF Session, Budget
    <3> QED BY <2>1, <3>1, <3>2, SessionAssumption DEF Rounds
  <2>3. Session(w)'
    BY <2>1, <2>2 DEF Session, Apart, Quiet, Fresh, DistinctPeers, Quorum, PeersOf, Rounds
  <2>4. PeersOf(handshakes[w]) \in SUBSET Peers BY PeersOfType DEF TypeOK
  <2> QED BY <2>1, <2>3, <2>4 DEF Session, Apart, LeftAlone
<1>9. CASE RoundTimesOut(w) \/ RoundLagged(w)
  <2>1. RoundEnds(w) BY <1>9 DEF RoundTimesOut, RoundLagged
  <2>2. UNCHANGED handshakes BY <2>1 DEF RoundEnds
  <2>3. PeersOf(handshakes[w]) \in SUBSET Peers BY PeersOfType DEF TypeOK
  <2>4. \A p \in PeersOf(handshakes[w]) : failed'[p] = failed[p]
    BY <2>1, <2>3 DEF RoundEnds, Session, Apart
  <2>5. CASE pc[w] = "handshake" /\ TryFallback(w, selected[w], failed')
    <3>1. selected[w] \in SUBSET Peers BY DEF TypeOK
    <3>2. \A p \in Peers : attempts[w][p] \in 0 .. HandshakeAttempts /\ asked[w][p] \in Nat
      BY DEF TypeOK
    <3>3. \A p \in Peers : asked[w][p] <= HandshakeAttempts
      BY <2>5, <3>2, SessionAssumption DEF Session, Budget
    <3> QED BY <2>2, <2>4, <2>5, <3>1, <3>3, FallbackSession DEF LeftAlone
  <2>6. CASE \E src \in Sources : Decide(w, src) /\ RoundOver(w)
    BY <2>2, <2>4, <2>6, DecideSession DEF LeftAlone
  <2> QED BY <2>1, <2>5, <2>6 DEF RoundEnds, Sources
<1>10. CASE DownloadSucceeds(w) \/ DownloadFails(w)
  <2>1. /\ pc[w] = "download" /\ pc'[w] = "idle"
        /\ pending'[w] = pending[w] /\ attempts'[w] = attempts[w] /\ asked'[w] = asked[w]
        /\ handshakes'[w] = handshakes[w]
    BY <1>10 DEF DownloadSucceeds, DownloadFails, TypeOK
  <2>2. Session(w)'
    BY <2>1 DEF Session, Apart, Quiet, Fresh, DistinctPeers, Quorum, Budget, PeersOf, Rounds
  <2> QED BY <2>1, <2>2 DEF LeftAlone, Rounds
<1> QED
  BY <1>2, <1>3, <1>4, <1>5, <1>6, <1>7, <1>8, <1>9, <1>10 DEF WorkerStep

\* The swarm task writes to no session.
LEMMA SwarmSame == SwarmStep => \A w \in Workers : Same(w) /\ jobs'[w] = jobs[w]
<1>1. SwarmStep => UNCHANGED workerVars
  BY DEF SwarmStep, HandshakeAnswered, HandshakeFailed, ProviderQuery, KadFinishes, KadReports,
         CacheInsert, BlockTraffic, ConnectionEvent, BackoffPasses, PruneTick
<1> QED BY <1>1 DEF workerVars, jobVars, lookupVars, roundVars, Same

\* The sessions of all workers are in order, whoever takes the step, and no
\* step asks or blames again whoever has answered.
LEMMA SessionStep ==
  ASSUME SessionInv, [Next]_vars
  PROVE  /\ SessionInv'
         /\ \A w \in Workers : jobs'[w] = jobs[w] => LeftAlone(w)
<1> USE DEF SessionInv
<1>1. ASSUME \A w \in Workers : Same(w) PROVE \A w \in Workers : Session(w)' /\ LeftAlone(w)
  BY <1>1, SameSession DEF Same, LeftAlone
<1>2. CASE SwarmStep BY <1>1, <1>2, SwarmSame, SwarmStepTypes
<1>3. CASE UNCHANGED vars
  <2>1. \A w \in Workers : Same(w)
    BY <1>3 DEF vars, workerVars, jobVars, lookupVars, roundVars, Same
  <2>2. TypeOK'
    BY <1>3
    DEF vars, connVars, swarmVars, busVars, workerVars, jobVars, lookupVars, roundVars,
        TypeOK, ConnTypeOK
  <2> QED BY <1>1, <2>1, <2>2
<1>4. ASSUME NEW w \in Workers, WorkerStep(w)
      PROVE  /\ SessionInv'
             /\ \A v \in Workers : jobs'[v] = jobs[v] => LeftAlone(v)
  <2>1. TypeOK' BY <1>4, WorkerStepTypes
  <2>2. Session(w)' /\ (jobs'[w] = jobs[w] => LeftAlone(w)) BY <1>4, WorkerSession
  <2>3. ASSUME NEW v \in Workers, v # w PROVE Session(v)' /\ LeftAlone(v)
    <3>1. Same(v) BY <1>4, <2>3, OthersSame
    <3> QED BY <3>1, SameSession DEF Same, LeftAlone
  <2> QED BY <2>1, <2>2, <2>3
<1> QED BY <1>2, <1>3, <1>4 DEF Next, Served

\* SessionInv is the inductive invariant of the theorems below.
LEMMA SessionKept == Spec => []SessionInv
<1>1. Init => SessionInv
  <2> SUFFICES ASSUME Init PROVE SessionInv OBVIOUS
  <2>1. TypeOK
    BY SessionAssumption, ConnectionAssumption DEF Init, ConnInit, TypeOK, ConnTypeOK, Sources
  <2>2. ASSUME NEW w \in Workers PROVE Session(w)
    <3>1. /\ pc[w] = "idle" /\ pending[w] = {} /\ handshakes[w] = << >>
          /\ asked[w] = [p \in Peers |-> 0]
      BY DEF Init
    <3>2. Budget(w) BY <3>1, SessionAssumption DEF Budget
    <3> QED BY <3>1, <3>2 DEF Session, Apart, Quiet, Fresh, DistinctPeers, Quorum
  <2> QED BY <2>1, <2>2 DEF SessionInv
<1>2. SessionInv /\ [Next]_vars => SessionInv' BY SessionStep
<1> QED BY <1>1, <1>2, PTL DEF Spec

\* Distinct handshakes are of as many peers.
LEMMA PeersCounted ==
  ASSUME NEW hs \in Seq(Handshake), DistinctPeers(hs)
  PROVE  Cardinality(PeersOf(hs)) = Len(hs)
<1> DEFINE f == [k \in 1 .. Len(hs) |-> hs[k].peer]
<1>1. Len(hs) \in Nat OBVIOUS
<1>2. f \in Bijection(1 .. Len(hs), PeersOf(hs))
  <2>1. f \in Injection(1 .. Len(hs), PeersOf(hs))
    BY DEF Injection, IsInjective, PeersOf, DistinctPeers
  <2>2. f \in Surjection(1 .. Len(hs), PeersOf(hs)) BY DEF Surjection, PeersOf
  <2> QED BY <2>1, <2>2 DEF Bijection
<1>3. ExistsBijection(1 .. Len(hs), PeersOf(hs)) BY <1>2 DEF ExistsBijection
<1>4. IsFiniteSet(1 .. Len(hs)) /\ Cardinality(1 .. Len(hs)) = Len(hs)
  BY <1>1, FS_Interval
<1> QED BY <1>3, <1>4, FS_Bijection

(***************************************************************************)
(* The theorems                                                            *)
(***************************************************************************)

\* No peer is counted twice towards min_providers, whatever replies to retries,
\* to earlier rounds or to other downloads handshake_with_providers still takes
\* from the bus: a reply is used only while its sender is pending, and who has
\* answered is pending in no later round.
THEOREM NobodyCountedTwice == Spec => []HandshakesDistinct
<1>1. SessionInv => HandshakesDistinct
  BY DEF SessionInv, Session, DistinctPeers, HandshakesDistinct
<1> QED BY <1>1, SessionKept, PTL

\* try_p2p_download starts a block download only with min_providers different
\* peers, or with one that the fallback round has brought.
THEOREM QuorumHolds == Spec => []QuorumBeforeDownload
<1>1. SessionInv => QuorumBeforeDownload
  <2> SUFFICES ASSUME SessionInv, NEW w \in Workers, pc[w] = "download"
               PROVE  \/ Cardinality(PeersOf(handshakes[w])) >= MinProviders
                      \/ /\ source[w] = "p2p-connected-fallback"
                         /\ PeersOf(handshakes[w]) # {}
    BY DEF QuorumBeforeDownload
  <2>1. handshakes[w] \in Seq(Handshake) /\ DistinctPeers(handshakes[w])
    BY DEF SessionInv, TypeOK, Session
  <2>2. Cardinality(PeersOf(handshakes[w])) = Len(handshakes[w]) BY <2>1, PeersCounted
  <2>3. Len(handshakes[w]) >= 1 => PeersOf(handshakes[w]) # {}
    <3>1. Len(handshakes[w]) >= 1 => 1 \in 1 .. Len(handshakes[w]) BY <2>1
    <3> QED BY <3>1 DEF PeersOf
  <2> QED BY <2>2, <2>3 DEF SessionInv, Session, Quorum
<1> QED BY <1>1, SessionKept, PTL

\* A job sends a peer at most HandshakeAttempts handshakes in its first round
\* and twice as many in all: the retries of a round count every send, and the
\* fallback round is the last.
THEOREM BudgetHolds == Spec => []AskBudget
<1>1. SessionInv => AskBudget
  <2> SUFFICES ASSUME SessionInv, NEW w \in Workers, NEW p \in Peers
               PROVE  /\ asked[w][p] <= 2 * HandshakeAttempts
                      /\ pc[w] = "handshake" => asked[w][p] <= HandshakeAttempts
    BY DEF AskBudget
  <2>1. attempts[w][p] \in 0 .. HandshakeAttempts /\ asked[w][p] \in Nat
    BY DEF SessionInv, TypeOK
  <2> QED BY <2>1, SessionAssumption DEF SessionInv, Session, Budget
<1> QED BY <1>1, SessionKept, PTL

\* For the rest of its job a peer that has answered gets no further handshake,
\* from a retry or from the fallback round, and no round that ends blames it.
THEOREM AnsweredAreLeftAlone == Spec => AnsweredLeftAlone
<1>1. SessionInv /\ [Next]_vars =>
        [\A w \in Workers : jobs'[w] = jobs[w] =>
           \A p \in PeersOf(handshakes[w]) :
             /\ asked'[w][p] = asked[w][p]
             /\ pc[w] \in Rounds /\ pc'[w] # pc[w] => failed'[p] = failed[p]]_vars
  BY SessionStep DEF LeftAlone
<1> QED BY <1>1, SessionKept, PTL DEF Spec, AnsweredLeftAlone

(***************************************************************************)
(* Backoff, for a lone worker                                              *)
(***************************************************************************)

\* From its first reply on, who has answered a worker is not under backoff.
AnsweredReset(w) ==
  pc[w] \in Rounds \cup {"download"} =>
    \A p \in PeersOf(handshakes[w]) : retry_count[p] = 0

\* Only RecordAttempts makes a retry count grow.
LEMMA RetriesOnlyFall ==
  ASSUME ConnTypeOK,
         \/ \E p \in Peers : OnConnected(p) \/ OnDisconnected(p) \/ RemoveAddress(p)
                             \/ BackoffExpires(p) \/ GoesIdle(p)
         \/ \E S \in SUBSET Peers : OnActive(S)
         \/ PruneDead
         \/ UNCHANGED connVars,
         NEW p \in Peers, retry_count[p] = 0
  PROVE  retry_count'[p] = 0
BY DEF ConnTypeOK, OnConnected, RetriesAfterConnect, OnDisconnected, RemoveAddress,
       BackoffExpires, GoesIdle, OnActive, PruneDead, connVars

\* A round records attempts of peers that have not answered.
LEMMA SendReset ==
  ASSUME TypeOK, NEW w \in Workers, NEW S \in SUBSET Peers, NEW phase,
         SendHandshakes(w, S, phase), UNCHANGED handshakes,
         S \cap PeersOf(handshakes[w]) = {},
         \A p \in PeersOf(handshakes[w]) : retry_count[p] = 0
  PROVE  \A p \in PeersOf(handshakes'[w]) : retry_count'[p] = 0
<1>1. PeersOf(handshakes[w]) \in SUBSET Peers BY PeersOfType DEF TypeOK
<1>2. retry_count' = [p \in Peers |-> IF p \in S THEN retry_count[p] + 1 ELSE retry_count[p]]
  BY DEF SendHandshakes, RecordAttempts
<1>3. handshakes' = handshakes OBVIOUS
<1> QED BY <1>1, <1>2, <1>3

\* The same of the fallback round, if there is one.
LEMMA FallbackReset ==
  ASSUME TypeOK, NEW w \in Workers, NEW sel \in SUBSET Peers, NEW fails,
         TryFallback(w, sel, fails), UNCHANGED handshakes,
         \A p \in PeersOf(handshakes[w]) : retry_count[p] = 0
  PROVE  \A p \in PeersOf(handshakes'[w]) : retry_count'[p] = 0
<1>1. PICK S \in Selections(FallbackPool(w, sel), fails) :
        SendHandshakes(w, S, "fallback") \/ RoundOver(w)
  BY DEF TryFallback
<1>2. S \in SUBSET Peers /\ S \cap PeersOf(handshakes[w]) = {}
  BY FallbackPoolType, SelectionsType
<1>3. CASE SendHandshakes(w, S, "fallback") BY <1>2, <1>3, SendReset
<1>4. CASE RoundOver(w) BY <1>4 DEF RoundOver, connVars
<1> QED BY <1>1, <1>3, <1>4

\* The lone worker's own steps.
LEMMA WorkerReset ==
  ASSUME TypeOK, NEW w \in Workers, Session(w), AnsweredReset(w), WorkerStep(w)
  PROVE  AnsweredReset(w)'
<1> USE DEF workerVars, jobVars, lookupVars, roundVars
<1>0. PeersOf(handshakes[w]) \in SUBSET Peers /\ ConnTypeOK BY PeersOfType DEF TypeOK
<1>1. ASSUME pc[w] \in {"cached", "lookup", "refresh"}, UNCHANGED handshakes
      PROVE  AnsweredReset(w)'
  <2>1. handshakes'[w] = << >> BY <1>1 DEF Session, Fresh
  <2>2. PeersOf(handshakes'[w]) = {} BY <2>1 DEF PeersOf
  <2> QED BY <2>2 DEF AnsweredReset
<1>2. ASSUME UNCHANGED <<connVars, handshakes>>, pc'[w] = pc[w] \/ pc'[w] \notin Rounds \cup {"download"}
      PROVE  AnsweredReset(w)'
  BY <1>2 DEF AnsweredReset, connVars
<1>3. ASSUME NEW n \in Nars, NEW slow \in BOOLEAN, Begin(w, n, slow) PROVE AnsweredReset(w)'
  BY <1>3 DEF Begin, AnsweredReset, Rounds, TypeOK
<1>4. CASE ReadCache(w) BY <1>1, <1>4 DEF ReadCache
<1>5. CASE LookupEnds(w) BY <1>1, <1>5 DEF LookupEnds, Waiting
<1>6. CASE LookupLagged(w) BY <1>2, <1>6 DEF LookupLagged
<1>7. ASSUME NEW m, LookupRecv(w, m) \/ HandshakeIgnores(w, m) \/ DownloadRecv(w, m)
      PROVE  AnsweredReset(w)'
  BY <1>2, <1>7 DEF LookupRecv, HandshakeIgnores, DownloadRecv
<1>8. ASSUME NEW m \in Message, HandshakeReplied(w, m) PROVE AnsweredReset(w)'
  <2>1. /\ m.peer \in Peers /\ pc[w] \in Rounds /\ OnConnected(m.peer)
        /\ handshakes'[w] = Append(handshakes[w], [peer |-> m.peer, nar |-> m.nar])
    BY <1>8 DEF HandshakeReplied, IsSolicited, Collecting, TypeOK
  <2>2. handshakes[w] \in Seq(Handshake) BY DEF TypeOK
  <2>3. ASSUME NEW p \in PeersOf(handshakes'[w]), p # m.peer PROVE p \in PeersOf(handshakes[w])
    <3> DEFINE hs == handshakes[w]
               h == [peer |-> m.peer, nar |-> m.nar]
    <3>1. PICK k \in 1 .. Len(Append(hs, h)) : p = Append(hs, h)[k].peer
      BY <2>1, <2>3 DEF PeersOf
    <3>2. /\ Len(Append(hs, h)) = Len(hs) + 1 /\ Len(hs) \in Nat
          /\ Append(hs, h)[Len(hs) + 1] = h
          /\ \A i \in 1 .. Len(hs) : Append(hs, h)[i] = hs[i]
      BY <2>2
    <3>3. k \in 1 .. Len(hs) BY <2>3, <3>1, <3>2
    <3> QED BY <3>1, <3>2, <3>3 DEF PeersOf
  <2>4. \A p \in PeersOf(handshakes[w]) : retry_count[p] = 0 BY <2>1 DEF AnsweredReset
  <2>5. retry_count' = [retry_count EXCEPT ![m.peer] = 0]
    BY <2>1 DEF OnConnected, RetriesAfterConnect
  <2>6. retry_count \in [Peers -> Nat] BY DEF TypeOK, ConnTypeOK
  <2>7. \A p \in PeersOf(handshakes'[w]) : retry_count'[p] = 0
    BY <1>0, <2>1, <2>3, <2>4, <2>5, <2>6
  <2> QED BY <2>7 DEF AnsweredReset
<1>9. ASSUME NEW S \in SUBSET Peers, HandshakeRetry(w, S) PROVE AnsweredReset(w)'
  BY <1>2, <1>9 DEF HandshakeRetry
<1>10. CASE RoundTimesOut(w) \/ RoundLagged(w)
  <2>1. RoundEnds(w) BY <1>10 DEF RoundTimesOut, RoundLagged
  <2>2. UNCHANGED handshakes /\ pc[w] \in Rounds BY <2>1 DEF RoundEnds
  <2>3. \A p \in PeersOf(handshakes[w]) : retry_count[p] = 0 BY <2>2 DEF AnsweredReset
  <2>4. CASE TryFallback(w, selected[w], failed')
    <3>1. selected[w] \in SUBSET Peers BY DEF TypeOK
    <3> QED BY <2>2, <2>3, <2>4, <3>1, FallbackReset DEF AnsweredReset
  <2>5. CASE RoundOver(w) BY <2>2, <2>3, <2>5 DEF RoundOver, connVars, AnsweredReset
  <2> QED BY <2>1, <2>4, <2>5 DEF RoundEnds
<1>11. CASE DownloadSucceeds(w) \/ DownloadFails(w)
  BY <1>11 DEF DownloadSucceeds, DownloadFails, AnsweredReset, Rounds, TypeOK
<1> QED
  BY <1>3, <1>4, <1>5, <1>6, <1>7, <1>8, <1>9, <1>10, <1>11 DEF WorkerStep

\* The swarm task only lowers retry counts.
LEMMA SwarmReset ==
  ASSUME TypeOK, SwarmStep, NEW w \in Workers, AnsweredReset(w)
  PROVE  AnsweredReset(w)'
<1>1. Same(w) BY SwarmSame
<1>2. PeersOf(handshakes[w]) \in SUBSET Peers /\ ConnTypeOK BY PeersOfType DEF TypeOK
<1>3. \/ \E p \in Peers : OnConnected(p) \/ OnDisconnected(p) \/ RemoveAddress(p)
                          \/ BackoffExpires(p) \/ GoesIdle(p)
      \/ \E S \in SUBSET Peers : OnActive(S)
      \/ PruneDead
      \/ UNCHANGED connVars
  BY DEF SwarmStep, HandshakeAnswered, HandshakeFailed, ProviderQuery, KadFinishes, KadReports,
         CacheInsert, BlockTraffic, ConnectionEvent, BackoffPasses, PruneTick
<1>4. \A p \in Peers : retry_count[p] = 0 => retry_count'[p] = 0
  BY <1>2, <1>3, RetriesOnlyFall
<1> QED BY <1>1, <1>2, <1>4 DEF Same, AnsweredReset

\* Where one worker runs, as in substitute mode, the peers of its download are
\* not under backoff, however many attempts on_connected had to clear.
THEOREM BackoffReset ==
  ASSUME \A v, w \in Workers : v = w
  PROVE  Spec => []BackoffIsReset
<1> DEFINE Inv == SessionInv /\ \A w \in Workers : AnsweredReset(w)
<1>1. Init => \A w \in Workers : AnsweredReset(w)
  BY DEF Init, AnsweredReset, Rounds
<1>2. Inv /\ [Next]_vars => (\A w \in Workers : AnsweredReset(w))'
  <2> SUFFICES ASSUME SessionInv, [Next]_vars, NEW w \in Workers, AnsweredReset(w)
               PROVE  AnsweredReset(w)'
    OBVIOUS
  <2>1. TypeOK /\ Session(w) BY DEF SessionInv
  <2>2. CASE WorkerStep(w) BY <2>1, <2>2, WorkerReset
  <2>3. CASE SwarmStep BY <2>1, <2>3, SwarmReset
  <2>4. CASE UNCHANGED vars
    BY <2>4 DEF vars, connVars, workerVars, AnsweredReset
  <2> QED BY <2>2, <2>3, <2>4 DEF Next, Served
<1>3. Inv => BackoffIsReset BY DEF AnsweredReset, BackoffIsReset
<1> QED BY <1>1, <1>2, <1>3, SessionKept, PTL DEF Spec
=============================================================================
