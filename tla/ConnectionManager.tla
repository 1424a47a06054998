-------------------------- MODULE ConnectionManager --------------------------
(***************************************************************************)
(* ConnectionManager of src/connection.rs: what the daemon remembers about *)
(* peers and whether it may contact one now.  The swarm task and every     *)
(* download call its methods under one mutex, so a method is one step.     *)
(*                                                                         *)
(* Instants are abstracted to what the code asks about them: whether the   *)
(* backoff since last_attempt has passed (cooling) and whether last_active *)
(* is older than two health-check intervals (idle).  Both change with      *)
(* time alone, in actions of their own.  Addresses are left out.           *)
(***************************************************************************)
EXTENDS Integers, FiniteSets

CONSTANTS
  Peers,
  MaxRetries,     \* ConnectionConfig.max_retries
  MaxKnown        \* ConnectionConfig.max_peers

ASSUME ConnectionAssumption ==
  /\ IsFiniteSet(Peers)
  /\ MaxRetries \in Nat
  /\ MaxKnown \in Nat

VARIABLES
  known,          \* the keys of ConnectionManager.peers
  retry_count,
  cooling,        \* peers for which backoff_expired is false
  idle,           \* peers that prune_dead would drop
  connected

connVars == <<known, retry_count, cooling, idle, connected>>

ConnTypeOK ==
  /\ known \in SUBSET Peers
  /\ retry_count \in [Peers -> Nat]
  /\ \A p \in Peers \ known : retry_count[p] = 0
  /\ cooling \in SUBSET known
  /\ idle \in SUBSET known
  /\ connected \in SUBSET known

ConnInit ==
  /\ known = {} /\ cooling = {} /\ idle = {} /\ connected = {}
  /\ retry_count = [p \in Peers |-> 0]

\* Fault: a success does not clear the retry count.
RetriesAfterConnect_Kept(p) == retry_count

RetriesAfterConnect(p) == [retry_count EXCEPT ![p] = 0]

\* A new entry starts with last_attempt = now.
CoolingWith(S) == cooling \cup (S \ known)

\* on_connected, on_connected_with_addresses
OnConnected(p) ==
  /\ known' = known \cup {p}
  /\ retry_count' = RetriesAfterConnect(p)
  /\ cooling' = CoolingWith({p})
  /\ idle' = idle \ {p}
  /\ connected' = connected \cup {p}

\* on_disconnected: a peer that is not known stays unknown.
OnDisconnected(p) ==
  /\ connected' = connected \ {p}
  /\ idle' = idle \ {p}
  /\ UNCHANGED <<known, retry_count, cooling>>

\* on_active of each peer of S; add_address changes the same fields of one peer.
OnActive(S) ==
  /\ known' = known \cup S
  /\ cooling' = CoolingWith(S)
  /\ idle' = idle \ S
  /\ UNCHANGED <<retry_count, connected>>

\* remove_address: last_active moves although the dial failed.
RemoveAddress(p) ==
  /\ idle' = idle \ {p}
  /\ UNCHANGED <<known, retry_count, cooling, connected>>

\* record_attempt of each peer of S.
RecordAttempts(S) ==
  /\ known' = known \cup S
  /\ retry_count' = [p \in Peers |-> IF p \in S THEN retry_count[p] + 1 ELSE retry_count[p]]
  /\ cooling' = cooling \cup S
  /\ UNCHANGED <<idle, connected>>

\* prune_dead: connected peers are dropped like any other.
PruneDead ==
  /\ known' = known \ idle
  /\ retry_count' = [p \in Peers |-> IF p \in idle THEN 0 ELSE retry_count[p]]
  /\ cooling' = cooling \ idle
  /\ connected' = connected \ idle
  /\ idle' = {}

\* Time: base * 2^min(retry_count, 6) has passed since last_attempt.
BackoffExpires(p) ==
  /\ p \in cooling
  /\ cooling' = cooling \ {p}
  /\ UNCHANGED <<known, retry_count, idle, connected>>

\* Time: two health-check intervals have passed since last_active.
GoesIdle(p) ==
  /\ p \in known \ idle
  /\ idle' = idle \cup {p}
  /\ UNCHANGED <<known, retry_count, cooling, connected>>

\* can_connect, without the test of the table's size.
BackoffAllows(p) == p \in known => retry_count[p] < MaxRetries \/ p \notin cooling

\* can_connect
CanConnect(p) == Cardinality(known) < MaxKnown /\ BackoffAllows(p)
=============================================================================
