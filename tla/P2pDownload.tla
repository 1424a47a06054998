---------------------------- MODULE P2pDownload ------------------------------
(***************************************************************************)
(* try_p2p_download of src/daemon.rs up to the block download: provider    *)
(* lookup, candidate selection, the handshake round with its retries, and  *)
(* the fallback round with connected and bootstrap peers.                  *)
(*                                                                         *)
(* A worker is a relay connection (or the substitute-mode process): it     *)
(* serves one substitution after the other with one receiver of the        *)
(* notification bus.  All workers share the bus, the connection manager,   *)
(* the reputation tracker and the provider cache, and the swarm task       *)
(* (src/runtime.rs, src/dht.rs) feeds all of them.                         *)
(*                                                                         *)
(* Deadlines are choices: a lookup or a round may end at any loop top.     *)
(***************************************************************************)
EXTENDS ConnectionManager, Sequences

CONSTANTS
  Workers,
  Nars,
  Bootstrap,         \* bootstrap_peer_ids(config.bootstrap_peers)
  MinProviders,      \* config.min_providers
  MaxPeers,          \* config.max_peers_per_download
  BanThreshold,      \* config.reputation_ban_threshold
  HandshakeAttempts, \* sends per peer and round (3 in the code)
  BusCapacity,       \* capacity of the broadcast channel (4096 in the code)
  MaxJobs,           \* bound: substitutions per worker
  MaxChurn           \* bound: swarm events that no worker asked for

ASSUME SessionAssumption ==
  /\ Bootstrap \subseteq Peers
  /\ MinProviders \in Nat
  /\ MaxPeers \in Nat
  /\ BanThreshold \in Nat
  /\ HandshakeAttempts \in Nat \ {0}
  /\ BusCapacity \in Nat \ {0}
  /\ MaxJobs \in Nat
  /\ MaxChurn \in Nat

VARIABLES
  failed,      \* PeerScore.failed
  requests,    \* handshake requests the swarm has sent and not settled
  queries,     \* active_provider_queries
  cache,       \* ProviderCache
  inserts,     \* spawned cache insertions that have not run
  queue,       \* what each worker's receiver has not taken from the bus
  lagged,      \* the receiver lost notifications and will be told so
  churn,       \* unasked-for swarm events so far
  pc,          \* "idle", "cached", "lookup", "refresh", "handshake",
               \* "fallback", "download"
  jobs,        \* substitutions the worker has begun
  target,      \* the NAR of the current one
  patient,     \* provider_timeout >= request_timeout_secs
  found,       \* providers of the lookup
  selected,    \* selected_providers
  pending,     \* peers whose reply the round waits for
  attempts,    \* sends to a pending peer in this round
  asked,       \* handshakes sent to each peer in this job
  handshakes,  \* PeerHandshake results: who answered, and about which NAR
  before,      \* how many of them there were when the round began
  source       \* "p2p-dht" or "p2p-connected-fallback"

swarmVars  == <<failed, requests, queries, cache, inserts, churn>>
busVars    == <<queue, lagged>>
roundVars  == <<pending, attempts, asked, before>>
jobVars    == <<jobs, target, patient>>
lookupVars == <<found, selected>>
workerVars == <<pc, jobVars, lookupVars, roundVars, handshakes, source>>
vars == <<connVars, swarmVars, busVars, workerVars>>

Reply(p, n)  == [kind |-> "HandshakeReply", peer |-> p, nar |-> n]
Blocks(p)    == [kind |-> "Blocks", peer |-> p]
Failure(p)   == [kind |-> "BlockRequestFailed", peer |-> p]
Found(n, S)  == [kind |-> "ProvidersFound", nar |-> n, peers |-> S]

Message ==
  {Reply(p, n) : p \in Peers, n \in Nars}
    \cup {Blocks(p) : p \in Peers} \cup {Failure(p) : p \in Peers}
    \cup {Found(n, S) : n \in Nars, S \in SUBSET Peers}

Handshake == [peer : Peers, nar : Nars]
Rounds    == {"handshake", "fallback"}
Sources   == {"p2p-dht", "p2p-connected-fallback"}

TypeOK ==
  /\ ConnTypeOK
  /\ failed \in [Peers -> Nat]
  /\ requests \in [Peers \X Nars -> Nat]
  /\ queries \in SUBSET Nars
  /\ cache \in [Nars -> SUBSET Peers]
  /\ inserts \in SUBSET (Nars \X SUBSET Peers)
  /\ queue \in [Workers -> Seq(Message)]
  /\ \A w \in Workers : Len(queue[w]) <= BusCapacity
  /\ lagged \in [Workers -> BOOLEAN]
  /\ churn \in 0 .. MaxChurn
  /\ pc \in [Workers -> {"idle", "cached", "lookup", "refresh", "download"} \cup Rounds]
  /\ jobs \in [Workers -> 0 .. MaxJobs]
  /\ target \in [Workers -> Nars]
  /\ patient \in [Workers -> BOOLEAN]
  /\ found \in [Workers -> SUBSET Peers]
  /\ selected \in [Workers -> SUBSET Peers]
  /\ pending \in [Workers -> SUBSET Peers]
  /\ attempts \in [Workers -> [Peers -> 0 .. HandshakeAttempts]]
  /\ asked \in [Workers -> [Peers -> Nat]]
  /\ handshakes \in [Workers -> Seq(Handshake)]
  /\ before \in [Workers -> Nat]
  /\ source \in [Workers -> Sources]

Init ==
  /\ ConnInit
  /\ failed = [p \in Peers |-> 0]
  /\ requests = [x \in Peers \X Nars |-> 0]
  /\ queries = {}
  /\ cache = [n \in Nars |-> {}]
  /\ inserts = {}
  /\ queue = [w \in Workers |-> <<>>]
  /\ lagged = [w \in Workers |-> FALSE]
  /\ churn = 0
  /\ pc = [w \in Workers |-> "idle"]
  /\ jobs = [w \in Workers |-> 0]
  /\ target \in [Workers -> Nars]
  /\ patient = [w \in Workers |-> FALSE]
  /\ found = [w \in Workers |-> {}]
  /\ selected = [w \in Workers |-> {}]
  /\ pending = [w \in Workers |-> {}]
  /\ attempts = [w \in Workers |-> [p \in Peers |-> 0]]
  /\ asked = [w \in Workers |-> [p \in Peers |-> 0]]
  /\ handshakes = [w \in Workers |-> <<>>]
  /\ before = [w \in Workers |-> 0]
  /\ source = [w \in Workers |-> "p2p-dht"]

(***************************************************************************)
(* Selection                                                               *)
(***************************************************************************)
PeersOf(hs) == {hs[k].peer : k \in 1 .. Len(hs)}

\* ReputationTracker::is_banned, for a given count of failures.
IsBanned(fails, p) == fails[p] >= BanThreshold

\* select_provider_candidates: best_peers, then can_connect, then the first
\* max_peers_per_download.  The order of best_peers is by a score that decays
\* with time, so any MaxPeers of the usable peers may be the first.
Selections(pool, fails) ==
  LET usable == {p \in pool : ~IsBanned(fails, p) /\ CanConnect(p)}
  IN  {S \in SUBSET usable :
         \/ S = usable /\ Cardinality(S) <= MaxPeers
         \/ Cardinality(S) = MaxPeers}

\* Fault: peers whose handshake succeeded are not left out.
FallbackPool_NoExclude(w, sel) == sel \cup connected \cup Bootstrap

\* merge_provider_lists, fallback_peer_candidates, exclude_peers
FallbackPool(w, sel) == (sel \cup connected \cup Bootstrap) \ PeersOf(handshakes[w])

(***************************************************************************)
(* The worker                                                              *)
(***************************************************************************)

\* handshake_with_providers, up to its loop.
SendHandshakes(w, S, phase) ==
  /\ pc' = [pc EXCEPT ![w] = phase]
  /\ pending' = [pending EXCEPT ![w] = S]
  /\ attempts' = [attempts EXCEPT ![w] = [p \in Peers |-> IF p \in S THEN 1 ELSE 0]]
  /\ asked' = [asked EXCEPT ![w] = [p \in Peers |-> IF p \in S THEN @[p] + 1 ELSE @[p]]]
  /\ before' = [before EXCEPT ![w] = Len(handshakes[w])]
  /\ requests' = [x \in Peers \X Nars |->
       IF x[1] \in S /\ x[2] = target[w] THEN requests[x] + 1 ELSE requests[x]]
  /\ RecordAttempts(S)

\* Fault: one reply is enough wherever it comes from.
Needed_One(src) == 1

\* min_successful_handshakes
Needed(src) == IF src = "p2p-connected-fallback" THEN 1 ELSE MinProviders

\* The job is over, or it goes on to the block download.
Decide(w, src) ==
  /\ source' = [source EXCEPT ![w] = src]
  /\ pc' = [pc EXCEPT ![w] =
       IF Len(handshakes[w]) >= Needed(src) THEN "download" ELSE "idle"]

RoundOver(w) ==
  /\ pending' = [pending EXCEPT ![w] = {}]
  /\ UNCHANGED <<connVars, requests, attempts, asked, before>>

\* What follows the first round, or its omission: the fallback round if there
\* are candidates for it.
TryFallback(w, sel, fails) ==
  \E S \in Selections(FallbackPool(w, sel), fails) :
    \/ /\ S # {}
       /\ SendHandshakes(w, S, "fallback")
       /\ UNCHANGED source
    \/ /\ S = {}
       /\ Decide(w, "p2p-dht")
       /\ RoundOver(w)

\* The lookup has returned providers; may is whether a refresh may follow.
ProvidersKnown(w, providers, may) ==
  \E S \in Selections(providers, failed) :
    /\ selected' = [selected EXCEPT ![w] = S]
    /\ found' = [found EXCEPT ![w] = providers]
    /\ \/ /\ Cardinality(S) < MinProviders /\ may
          /\ pc' = [pc EXCEPT ![w] = "refresh"]
          /\ UNCHANGED <<connVars, requests, roundVars, source>>
       \/ /\ Cardinality(S) < MinProviders /\ ~may
          /\ TryFallback(w, S, failed)
       \/ /\ Cardinality(S) >= MinProviders
          /\ SendHandshakes(w, S, "handshake")
          /\ UNCHANGED source

\* A substitution begins with a DHT query for its NAR.
Begin(w, n, slow) ==
  /\ pc[w] = "idle" /\ jobs[w] < MaxJobs
  /\ jobs' = [jobs EXCEPT ![w] = @ + 1]
  /\ target' = [target EXCEPT ![w] = n]
  /\ patient' = [patient EXCEPT ![w] = slow]
  /\ queries' = queries \cup {n}
  /\ handshakes' = [handshakes EXCEPT ![w] = <<>>]
  /\ source' = [source EXCEPT ![w] = "p2p-dht"]
  /\ found' = [found EXCEPT ![w] = {}]
  /\ selected' = [selected EXCEPT ![w] = {}]
  /\ attempts' = [attempts EXCEPT ![w] = [p \in Peers |-> 0]]
  /\ asked' = [asked EXCEPT ![w] = [p \in Peers |-> 0]]
  /\ before' = [before EXCEPT ![w] = 0]
  /\ pc' = [pc EXCEPT ![w] = "cached"]
  /\ UNCHANGED <<connVars, failed, requests, cache, inserts, churn, busVars, pending>>

\* Fault: a refresh that brings nothing is followed by another.
MayRefresh_Again(w) == patient[w]

\* Only the providers of the first lookup, or of the cache, are refreshed.
MayRefresh(w) == patient[w] /\ pc[w] # "refresh"

\* wait_for_providers: enough cached providers make the lookup unnecessary;
\* fewer are not used at all.
ReadCache(w) ==
  /\ pc[w] = "cached"
  /\ IF Cardinality(cache[target[w]]) >= MinProviders
       THEN ProvidersKnown(w, cache[target[w]], MayRefresh(w))
       ELSE /\ pc' = [pc EXCEPT ![w] = "lookup"]
            /\ UNCHANGED <<connVars, requests, lookupVars, roundVars, source>>
  /\ UNCHANGED <<failed, queries, cache, inserts, churn, busVars, jobVars, handshakes>>

Waiting(w) == pc[w] \in {"lookup", "refresh"}

\* The worker takes the oldest notification its receiver still has.
Takes(w, m) ==
  /\ ~lagged[w]
  /\ queue[w] # <<>>
  /\ m = Head(queue[w])
  /\ queue' = [queue EXCEPT ![w] = Tail(@)]
  /\ UNCHANGED lagged

\* wait_for_providers_for_duration: ProvidersFound for the key adds providers,
\* everything else is dropped.  A refresh adds to the providers of the lookup.
LookupRecv(w, m) ==
  /\ Waiting(w)
  /\ Takes(w, m)
  /\ found' = [found EXCEPT ![w] =
       IF m.kind = "ProvidersFound" /\ m.nar = target[w] THEN @ \cup m.peers ELSE @]
  /\ UNCHANGED <<connVars, swarmVars, pc, jobVars, selected, roundVars, handshakes, source>>

\* RecvError::Lagged: the lookup goes on with what the channel still holds.
LookupLagged(w) ==
  /\ Waiting(w)
  /\ lagged[w]
  /\ lagged' = [lagged EXCEPT ![w] = FALSE]
  /\ UNCHANGED <<connVars, swarmVars, queue, workerVars>>

\* The timeout or the grace period after the first provider is over.
LookupEnds(w) ==
  /\ Waiting(w)
  /\ ProvidersKnown(w, found[w], MayRefresh(w))
  /\ UNCHANGED <<failed, queries, cache, inserts, churn, busVars, jobVars, handshakes>>

Collecting(w) == pc[w] \in Rounds /\ pending[w] # {}

\* Fault: a reply from a peer the round does not wait for is used as well.
IsSolicited_Any(w, m) == m.kind = "HandshakeReply"

\* A reply names its sender and no NAR: a pending peer's reply to any handshake
\* is taken for the answer to this one.
IsSolicited(w, m) == m.kind = "HandshakeReply" /\ m.peer \in pending[w]

HandshakeReplied(w, m) ==
  /\ Collecting(w)
  /\ Takes(w, m)
  /\ IsSolicited(w, m)
  /\ OnConnected(m.peer)
  /\ handshakes' = [handshakes EXCEPT ![w] = Append(@, [peer |-> m.peer, nar |-> m.nar])]
  /\ pending' = [pending EXCEPT ![w] = @ \ {m.peer}]
  /\ UNCHANGED <<swarmVars, pc, jobVars, lookupVars, attempts, asked, before, source>>

\* Unsolicited replies and every other notification, failures included.
HandshakeIgnores(w, m) ==
  /\ Collecting(w)
  /\ Takes(w, m)
  /\ ~IsSolicited(w, m)
  /\ UNCHANGED <<connVars, swarmVars, workerVars>>

\* Fault: a retry is not counted.
AttemptsAfterRetry_Uncounted(w, S) == attempts

AttemptsAfterRetry(w, S) ==
  [attempts EXCEPT ![w] = [p \in Peers |-> IF p \in S THEN @[p] + 1 ELSE @[p]]]

\* The 1 s receive timeout elapsed: peers whose last send is 3 s old are asked
\* again, HandshakeAttempts times in all.
HandshakeRetry(w, S) ==
  /\ Collecting(w)
  /\ queue[w] = <<>> /\ ~lagged[w]
  /\ S # {} /\ S \subseteq pending[w]
  /\ \A p \in S : attempts[w][p] < HandshakeAttempts
  /\ attempts' = AttemptsAfterRetry(w, S)
  /\ asked' = [asked EXCEPT ![w] = [p \in Peers |-> IF p \in S THEN @[p] + 1 ELSE @[p]]]
  /\ requests' = [x \in Peers \X Nars |->
       IF x[1] \in S /\ x[2] = target[w] THEN requests[x] + 1 ELSE requests[x]]
  /\ UNCHANGED <<connVars, failed, queries, cache, inserts, churn, busVars, pc, jobVars,
                 lookupVars, pending, before, handshakes, source>>

\* After the loop of handshake_with_providers: whoever is still pending is
\* blamed.  Then on to the next round or to the decision.
RoundEnds(w) ==
  /\ pc[w] \in Rounds
  /\ failed' = [p \in Peers |-> IF p \in pending[w] THEN failed[p] + 1 ELSE failed[p]]
  /\ \/ /\ pc[w] = "handshake" /\ Len(handshakes[w]) < MinProviders
        /\ TryFallback(w, selected[w], failed')
     \/ /\ pc[w] = "handshake" /\ Len(handshakes[w]) >= MinProviders
        /\ Decide(w, "p2p-dht")
        /\ RoundOver(w)
     \/ /\ pc[w] = "fallback"
        /\ Decide(w, IF Len(handshakes[w]) > before[w]
                       THEN "p2p-connected-fallback" ELSE "p2p-dht")
        /\ RoundOver(w)
  /\ UNCHANGED <<queries, cache, inserts, churn, jobVars, lookupVars, handshakes>>

\* Everyone has answered, or the 15 s are over.
RoundTimesOut(w) == RoundEnds(w) /\ UNCHANGED busVars

\* The receiver lagged: the round is abandoned.
RoundLagged(w) ==
  /\ Collecting(w)
  /\ lagged[w]
  /\ RoundEnds(w)
  /\ lagged' = [lagged EXCEPT ![w] = FALSE]
  /\ UNCHANGED queue

\* download_blocks_from_peers takes what is on the bus (module BlockDownload).
DownloadRecv(w, m) ==
  /\ pc[w] = "download"
  /\ Takes(w, m)
  /\ UNCHANGED <<connVars, swarmVars, workerVars>>

\* It returns the NAR: every handshake peer is credited.
DownloadSucceeds(w) ==
  /\ pc[w] = "download"
  /\ OnActive(PeersOf(handshakes[w]))
  /\ pc' = [pc EXCEPT ![w] = "idle"]
  /\ UNCHANGED <<swarmVars, busVars, jobVars, lookupVars, roundVars, handshakes, source>>

\* It fails, for one because it was told that the receiver lagged.
DownloadFails(w) ==
  /\ pc[w] = "download"
  /\ lagged' \in {lagged, [lagged EXCEPT ![w] = FALSE]}
  /\ pc' = [pc EXCEPT ![w] = "idle"]
  /\ UNCHANGED <<connVars, swarmVars, queue, jobVars, lookupVars, roundVars, handshakes, source>>

(***************************************************************************)
(* The swarm task                                                          *)
(***************************************************************************)

\* Fault: a slow receiver keeps everything.
Retained_All(q) == q

\* A broadcast channel keeps the newest BusCapacity notifications.
Retained(q) == IF Len(q) < BusCapacity THEN q ELSE Tail(q)

Broadcast(m) ==
  /\ queue' = [w \in Workers |-> Append(Retained(queue[w]), m)]
  /\ lagged' = [w \in Workers |-> lagged[w] \/ Len(queue[w]) = BusCapacity]

\* Message::Response to a handshake: the peer describes the NAR it was asked for.
HandshakeAnswered(p, n) ==
  /\ requests[<<p, n>>] > 0
  /\ requests' = [requests EXCEPT ![<<p, n>>] = @ - 1]
  /\ Broadcast(Reply(p, n))
  /\ OnActive({p})
  /\ UNCHANGED <<failed, queries, cache, inserts, churn, workerVars>>

\* OutboundFailure of a handshake.
HandshakeFailed(p, n) ==
  /\ requests[<<p, n>>] > 0
  /\ requests' = [requests EXCEPT ![<<p, n>>] = @ - 1]
  /\ Broadcast(Failure(p))
  /\ failed' = [failed EXCEPT ![p] = @ + 1]
  /\ UNCHANGED <<connVars, queries, cache, inserts, churn, workerVars>>

Unasked == churn < MaxChurn /\ churn' = churn + 1

\* Message::Response, or OutboundFailure, of some download's block request.
BlockTraffic(p) ==
  /\ Unasked
  /\ \E w \in Workers : pc[w] = "download" /\ p \in PeersOf(handshakes[w])
  /\ \/ Broadcast(Blocks(p)) /\ OnActive({p}) /\ UNCHANGED failed
     \/ Broadcast(Failure(p)) /\ failed' = [failed EXCEPT ![p] = @ + 1] /\ UNCHANGED connVars
  /\ UNCHANGED <<requests, queries, cache, inserts, workerVars>>

\* A query that no download asked for: the "have" command of guix-daemon and
\* the provider health monitor.
ProviderQuery(n) ==
  /\ Unasked
  /\ queries' = queries \cup {n}
  /\ UNCHANGED <<connVars, failed, requests, cache, inserts, busVars, workerVars>>

\* handle_kad_event: FoundProviders, or a timeout, which reports no peers.  The
\* insertion into the cache is spawned and the notification sent at once.
KadReports(n, S) ==
  /\ n \in queries
  /\ queries' = queries \ {n}
  /\ inserts' = inserts \cup {<<n, S>>}
  /\ Broadcast(Found(n, S))
  /\ UNCHANGED <<connVars, failed, requests, cache, churn, workerVars>>

\* FinishedWithNoAdditionalRecord reaches the dashboard only.
KadFinishes(n) ==
  /\ n \in queries
  /\ queries' = queries \ {n}
  /\ UNCHANGED <<connVars, failed, requests, cache, inserts, churn, busVars, workerVars>>

CacheInsert(n, S) ==
  /\ <<n, S>> \in inserts
  /\ inserts' = inserts \ {<<n, S>>}
  /\ cache' = [cache EXCEPT ![n] = @ \cup S]
  /\ UNCHANGED <<connVars, failed, requests, queries, churn, busVars, workerVars>>

\* Events of the swarm that touch only the connection manager: established and
\* closed connections, addresses learnt and dropped, and the passing of time.
ConnectionEvent(p) ==
  /\ Unasked
  /\ OnConnected(p) \/ OnDisconnected(p) \/ OnActive({p}) \/ RemoveAddress(p) \/ GoesIdle(p)
  /\ UNCHANGED <<failed, requests, queries, cache, inserts, busVars, workerVars>>

BackoffPasses(p) ==
  /\ BackoffExpires(p)
  /\ UNCHANGED <<swarmVars, busVars, workerVars>>

\* The prune tick: idle connections and reputation entries of 30 days ago.
PruneTick(stale) ==
  /\ Unasked
  /\ PruneDead
  /\ failed' = [p \in Peers |-> IF p \in stale THEN 0 ELSE failed[p]]
  /\ UNCHANGED <<requests, queries, cache, inserts, busVars, workerVars>>

WorkerStep(w) ==
  \/ \E n \in Nars : \E slow \in BOOLEAN : Begin(w, n, slow)
  \/ ReadCache(w) \/ LookupEnds(w) \/ LookupLagged(w)
  \/ \E m \in Message : \/ LookupRecv(w, m) \/ HandshakeReplied(w, m)
                        \/ HandshakeIgnores(w, m) \/ DownloadRecv(w, m)
  \/ \E S \in SUBSET Peers : HandshakeRetry(w, S)
  \/ RoundTimesOut(w) \/ RoundLagged(w)
  \/ DownloadSucceeds(w) \/ DownloadFails(w)

SwarmStep ==
  \/ \E p \in Peers, n \in Nars : HandshakeAnswered(p, n) \/ HandshakeFailed(p, n)
  \/ \E n \in Nars : ProviderQuery(n) \/ KadFinishes(n)
  \/ \E n \in Nars, S \in SUBSET Peers : KadReports(n, S) \/ CacheInsert(n, S)
  \/ \E p \in Peers : BlockTraffic(p) \/ ConnectionEvent(p) \/ BackoffPasses(p)
  \/ \E stale \in SUBSET Peers : PruneTick(stale)

\* Every worker has served its last substitution.
Served == (\A w \in Workers : pc[w] = "idle" /\ jobs[w] = MaxJobs) /\ UNCHANGED vars

Next == (\E w \in Workers : WorkerStep(w)) \/ SwarmStep \/ Served

Spec == Init /\ [][Next]_vars

\* A worker's task is polled until it returns, its lookups and rounds have
\* deadlines, and every block download ends (BlockDownload!Termination).
FairSpec ==
  /\ Spec
  /\ \A w \in Workers : /\ WF_vars(ReadCache(w))
                        /\ WF_vars(LookupEnds(w))
                        /\ WF_vars(RoundTimesOut(w))
                        /\ WF_vars(DownloadSucceeds(w) \/ DownloadFails(w))

(***************************************************************************)
(* Properties                                                              *)
(***************************************************************************)

\* No peer is in the handshakes of a job twice, whatever replies to retries,
\* to an earlier round or to another download are still on the bus.  The
\* number of handshakes is compared with min_providers and each becomes a
\* receiver of the block download.
HandshakesDistinct ==
  \A w \in Workers : \A j, k \in 1 .. Len(handshakes[w]) :
    j # k => handshakes[w][j].peer # handshakes[w][k].peer

\* A download begins only with replies from min_providers different peers, or
\* from one peer that the fallback round has asked.
QuorumBeforeDownload ==
  \A w \in Workers : pc[w] = "download" =>
    \/ Cardinality(PeersOf(handshakes[w])) >= MinProviders
    \/ /\ source[w] = "p2p-connected-fallback"
       /\ PeersOf(handshakes[w]) # {}

\* One job sends a peer at most HandshakeAttempts handshakes per round, over
\* at most two rounds.
AskBudget ==
  \A w \in Workers : \A p \in Peers :
    /\ asked[w][p] <= 2 * HandshakeAttempts
    /\ pc[w] = "handshake" => asked[w][p] <= HandshakeAttempts

\* docs/architecture.md: "Successful handshakes reset the peer's connection-
\* backoff state": when a lone worker's download runs, none of its peers is
\* under backoff, however many attempts it took to reach them.
BackoffIsReset ==
  \A w \in Workers : pc[w] = "download" =>
    \A p \in PeersOf(handshakes[w]) : retry_count[p] = 0

\* A peer that has answered is left alone for the rest of the job: neither the
\* retries nor the fallback round ask it again, and no round blames it.
AnsweredLeftAlone ==
  [][\A w \in Workers : jobs'[w] = jobs[w] =>
       \A p \in PeersOf(handshakes[w]) :
         /\ asked'[w][p] = asked[w][p]
         /\ pc[w] \in Rounds /\ pc'[w] # pc[w] => failed'[p] = failed[p]]_vars

\* Every job ends: the lookup, its refresh, the two rounds and the download
\* follow each other without going back.
JobsEnd == \A w \in Workers : pc[w] # "idle" ~> pc[w] = "idle"

\* docs/architecture.md: "A fallback peer is only used after it returns a normal
\* block handshake for the requested NAR"; docs/dht-protocol.md says the same of
\* every provider.
HandshakesForTarget ==
  \A w \in Workers : \A k \in 1 .. Len(handshakes[w]) : handshakes[w][k].nar = target[w]
=============================================================================
