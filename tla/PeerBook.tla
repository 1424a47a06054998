------------------------------ MODULE PeerBook -------------------------------
(***************************************************************************)
(* What a node keeps in cache_dir about itself and about others: the       *)
(* identity of src/identity.rs and the peer store of src/peer_store.rs,    *)
(* with the start of main that reads them (src/main.rs, dht::bootstrap)    *)
(* and the events of the swarm task that change them (src/runtime.rs).     *)
(*                                                                         *)
(* Several processes may share a cache_dir (the daemon, and guix-p2p run   *)
(* by hand with another listen address).  A file is written as the code    *)
(* does it, truncated first and then filled, so a crash, an error or       *)
(* another writer may come in between.  The swarm task of a process is     *)
(* sequential, and saves before it goes on.                                *)
(*                                                                         *)
(* A contact is a peer with one of its addresses, without the /p2p suffix  *)
(* that normalize_address takes off.  Time is the system clock, which may  *)
(* be set back.                                                            *)
(***************************************************************************)
EXTENDS Naturals, Sequences, Lists

CONSTANTS
  Procs,        \* processes that may use the directory
  Contacts,
  Unusable,     \* contacts with an unspecified or a loopback address
  Private,      \* contacts with a private or a link-local address
  Own,          \* contacts whose address may be, at times, one of this host's
  Bootstrap,    \* config.bootstrap_peers, of whatever kind their addresses are
  Limits,       \* values of peer_store_max_entries
  MaxAge,       \* MAX_PEER_AGE_SECS
  MaxTime,      \* bound: the clock
  MaxEvents,    \* bound: swarm events
  MaxStarts,    \* bound: starts of a process
  MaxChanges    \* bound: changes of the clock or of the network

ASSUME PeerBookAssumption ==
  /\ Unusable \subseteq Contacts /\ Private \subseteq Contacts /\ Own \subseteq Contacts
  /\ Bootstrap \subseteq Contacts
  /\ Limits \subseteq Nat /\ MaxAge \in Nat /\ MaxTime \in Nat
  /\ MaxEvents \in Nat /\ MaxStarts \in Nat /\ MaxChanges \in Nat

VARIABLES
  now,          \* the system clock
  own,          \* contacts with an address of one of this host's interfaces
  keyfile,      \* the keypair file: 0 if there is none, else the identity in it
  peersfile,    \* peers.json: the entries in it
  torn,         \* those of the two files that hold nothing that can be parsed
  pc,           \* what each process does next
  key,          \* its identity
  entries,      \* its PeerStore.entries
  limit,        \* its PeerStore.max_entries
  table,        \* the contacts it has put in the Kademlia routing table
  events, starts, changes,  \* bounded counters
  met,          \* contacts that the process has found by mDNS or has reached
  removed,      \* stored contacts that could not be dialled, and were not seen since
  failed,       \* those of them of which nobody was left with a copy
  raced         \* two processes have found no identity at the same time

fileVars  == <<keyfile, peersfile, torn>>
storeVars == <<entries, limit, table, met>>
ghostVars == <<removed, failed, raced>>
vars == <<now, own, fileVars, pc, key, storeVars, events, starts, changes, ghostVars>>

Entry == [contact : Contacts, last_seen : 0 .. MaxTime]
None == 0
KeptIn(s) == {s[i].contact : i \in DOMAIN s}

(* The values each variable takes. *)
TypeOK ==
  /\ now \in 0 .. MaxTime /\ own \in SUBSET Own
  /\ keyfile \in 0 .. MaxStarts /\ peersfile \in Seq(Entry)
  /\ torn \in SUBSET {"keypair", "peers.json"}
  /\ pc \in [Procs -> {"off", "generate", "keypair", "load", "running", "save", "write"}]
  /\ key \in [Procs -> 0 .. MaxStarts]
  /\ entries \in [Procs -> Seq(Entry)] /\ limit \in [Procs -> Limits \cup {0}]
  /\ table \in [Procs -> SUBSET Contacts] /\ met \in [Procs -> SUBSET Contacts]
  /\ events \in 0 .. MaxEvents /\ starts \in 0 .. MaxStarts /\ changes \in 0 .. MaxChanges
  /\ removed \in SUBSET Contacts /\ failed \in SUBSET Contacts /\ raced \in BOOLEAN

Init ==
  /\ now = MaxTime \div 2 /\ own = {}
  /\ keyfile = None /\ peersfile = << >> /\ torn = {}
  /\ pc = [q \in Procs |-> "off"] /\ key = [q \in Procs |-> None]
  /\ entries = [q \in Procs |-> << >>] /\ limit = [q \in Procs |-> 0]
  /\ table = [q \in Procs |-> {}] /\ met = [q \in Procs |-> {}]
  /\ events = 0 /\ starts = 0 /\ changes = 0
  /\ removed = {} /\ failed = {} /\ raced = FALSE

-----------------------------------------------------------------------------
(* Addresses and the list of entries. *)

\* Fault: loopback and unspecified addresses are taken for a peer's.
IsPeerAddress_Any(c) == c \notin own

\* clean_peer_address
IsPeerAddress(c) == c \notin Unusable /\ c \notin own

IsPublicPeerAddress(c) == IsPeerAddress(c) /\ c \notin Private

\* Fault: the entries stay in the order in which they were added.
Before_Added(s, i, j) == i < j

\* Fault: the oldest entries come first and are the ones kept.
Before_Oldest(s, i, j) ==
  s[i].last_seen < s[j].last_seen \/ (s[i].last_seen = s[j].last_seen /\ i < j)

\* sort_by_key: stable, the one seen last first.
Before(s, i, j) ==
  s[i].last_seen > s[j].last_seen \/ (s[i].last_seen = s[j].last_seen /\ i < j)

\* Expired entries, addresses of this host and duplicates go, then the oldest.
Prune(s, n) ==
  LET kept == {i \in DOMAIN s : s[i].last_seen + MaxAge >= now /\ IsPeerAddress(s[i].contact)}
      first == {i \in kept : \A j \in kept : j < i => s[j].contact # s[i].contact}
  IN {SubSeq(t, 1, IF n < Len(t) THEN n ELSE Len(t)) :
        t \in Arranged(s, first, LAMBDA i, j : Before(s, i, j))}

\* The entry of c is renewed, or c is added at the end.
Renewed(s, c) ==
  LET entry == [contact |-> c, last_seen |-> now] IN
  IF c \in KeptIn(s)
    THEN [i \in DOMAIN s |-> IF s[i].contact = c THEN entry ELSE s[i]]
    ELSE Append(s, entry)

\* retain
Without(s, c) == Retained(s, {i \in DOMAIN s : s[i].contact # c})

-----------------------------------------------------------------------------
(* The start of a process. *)

\* Fault: a new identity is generated whatever is in the directory.
KeypairExists_Never == FALSE

\* keypair_path.exists().  A file that cannot be decoded ends the process.
KeypairExists == keyfile # None \/ "keypair" \in torn

\* Keypair::generate_ed25519: an identity that nobody has.
NewKey == CHOOSE k \in 1 .. MaxStarts : k # keyfile /\ \A q \in Procs : k # key[q]

Start(q) ==
  /\ pc[q] = "off" /\ starts < MaxStarts
  /\ IF KeypairExists
       THEN /\ "keypair" \notin torn
            /\ pc' = [pc EXCEPT ![q] = "load"]
            /\ key' = [key EXCEPT ![q] = keyfile]
       ELSE /\ pc' = [pc EXCEPT ![q] = "generate"]
            /\ key' = [key EXCEPT ![q] = NewKey]
  /\ raced' = (raced \/ (~KeypairExists /\ \E r \in Procs : pc[r] = "generate"))
  /\ starts' = starts + 1
  /\ UNCHANGED <<now, own, fileVars, storeVars, events, changes, removed, failed>>

\* load_or_generate_keypair writes the new identity.
CreateKeypair(q) ==
  /\ pc[q] = "generate"
  /\ \/ pc' = [pc EXCEPT ![q] = "keypair"] /\ torn' = torn \cup {"keypair"} /\ UNCHANGED key
     \/ pc' = [pc EXCEPT ![q] = "off"] /\ key' = [key EXCEPT ![q] = None] /\ UNCHANGED torn
  /\ UNCHANGED <<now, own, keyfile, peersfile, storeVars, events, starts, changes, ghostVars>>

WriteKeypair(q) ==
  /\ pc[q] = "keypair"
  /\ \/ /\ pc' = [pc EXCEPT ![q] = "load"]
        /\ keyfile' = key[q] /\ torn' = torn \ {"keypair"}
        /\ UNCHANGED key
     \/ /\ pc' = [pc EXCEPT ![q] = "off"] /\ key' = [key EXCEPT ![q] = None]
        /\ UNCHANGED <<keyfile, torn>>
  /\ UNCHANGED <<now, own, peersfile, storeVars, events, starts, changes, ghostVars>>

\* Fault: stored addresses are dialled at start whatever their kind.
BootstrapPeers_All(s) == KeptIn(s)

\* bootstrap_peers
BootstrapPeers(s) == {c \in KeptIn(s) : IsPublicPeerAddress(c)}

\* A process is about to save its entries.
Unsaved == \E r \in Procs : pc[r] = "save"

\* PeerStore::load and dht::bootstrap, which takes what is configured as it is.  A process
\* that loads the file before a removal is saved has a copy of what was removed.
LoadStore(q) ==
  /\ pc[q] = "load"
  /\ \E n \in Limits :
     \E found \in Prune(IF "peers.json" \in torn THEN << >> ELSE peersfile, n) :
       /\ entries' = [entries EXCEPT ![q] = found]
       /\ limit' = [limit EXCEPT ![q] = n]
       /\ table' = [table EXCEPT ![q] = Bootstrap \cup BootstrapPeers(found)]
       /\ failed' = IF Unsaved THEN failed \ KeptIn(found) ELSE failed
  /\ pc' = [pc EXCEPT ![q] = "running"]
  /\ UNCHANGED <<now, own, fileVars, key, met, events, starts, changes, removed, raced>>

-----------------------------------------------------------------------------
(* Events of the swarm task. *)

\* record_address: the entries are pruned, and saved in the steps that follow.
RecordAddress(q, c) ==
  IF IsPeerAddress(c)
    THEN /\ \E s \in Prune(Renewed(entries[q], c), limit[q]) :
              entries' = [entries EXCEPT ![q] = s]
         /\ pc' = [pc EXCEPT ![q] = "save"]
         /\ removed' = removed \ {c} /\ failed' = failed \ {c}
    ELSE UNCHANGED <<entries, pc, removed, failed>>

Event(q) ==
  /\ pc[q] = "running" /\ events < MaxEvents
  /\ events' = events + 1
  /\ UNCHANGED <<now, own, fileVars, key, limit, starts, changes, raced>>

\* mdns::Event::Discovered
Discovered(q, c) ==
  /\ Event(q) /\ IsPeerAddress(c)
  /\ RecordAddress(q, c)
  /\ table' = [table EXCEPT ![q] = @ \cup {c}]
  /\ met' = [met EXCEPT ![q] = @ \cup {c}]

\* identify::Event::Received: the peer says what it listens on.
Identified(q, c) ==
  /\ Event(q) /\ IsPublicPeerAddress(c)
  /\ RecordAddress(q, c)
  /\ table' = [table EXCEPT ![q] = @ \cup {c}]
  /\ UNCHANGED met

\* ConnectionEstablished with an address that was dialled: one of the table, of mDNS, or
\* one that another peer gave to a query of Kad, which puts it in the table if the bucket
\* has room and the peer takes part.
Dialled(q, c) ==
  /\ Event(q)
  /\ RecordAddress(q, c)
  /\ \/ table' = [table EXCEPT ![q] = @ \cup {c}]
     \/ UNCHANGED table
  /\ met' = [met EXCEPT ![q] = @ \cup {c}]

\* Fault: the removal is not saved.
SavesRemoval_Never(q, c) == FALSE

\* remove_address saves if an entry has gone.
SavesRemoval(q, c) == c \in KeptIn(entries[q])

\* remove_failed_dial_addresses for one address of the error.
DialFailed(q, c) ==
  /\ Event(q)
  /\ \E s \in Without(entries[q], c) : entries' = [entries EXCEPT ![q] = s]
  /\ pc' = IF SavesRemoval(q, c) THEN [pc EXCEPT ![q] = "save"] ELSE pc
  /\ table' = [table EXCEPT ![q] = @ \ {c}]
  /\ removed' = IF c \in KeptIn(entries[q]) THEN removed \cup {c} ELSE removed
  /\ failed' = IF c \in KeptIn(entries[q])
                  /\ \A r \in Procs \ {q} : pc[r] = "off" \/ c \notin KeptIn(entries[r])
               THEN failed \cup {c} ELSE failed
  /\ UNCHANGED met

\* save: fs::write empties the file and fills it.
OpenFile(q) ==
  /\ pc[q] = "save"
  /\ \/ /\ pc' = [pc EXCEPT ![q] = "write"]
        /\ peersfile' = << >> /\ torn' = torn \cup {"peers.json"}
        /\ UNCHANGED failed
     \/ /\ pc' = [pc EXCEPT ![q] = "running"]
        /\ failed' = failed \ KeptIn(peersfile)
        /\ UNCHANGED <<peersfile, torn>>
  /\ UNCHANGED <<now, own, keyfile, key, storeVars, events, starts, changes, removed, raced>>

\* What another process has written since stays behind a shorter text.
WriteFile(q) ==
  /\ pc[q] = "write"
  /\ \/ /\ Len(peersfile) <= Len(entries[q])
        /\ peersfile' = entries[q] /\ torn' = torn \ {"peers.json"}
     \/ /\ peersfile # << >> /\ Len(entries[q]) <= Len(peersfile)
        /\ peersfile' = peersfile /\ torn' = torn \cup {"peers.json"}
     \/ UNCHANGED <<peersfile, torn>>
  /\ pc' = [pc EXCEPT ![q] = "running"]
  /\ UNCHANGED <<now, own, keyfile, key, storeVars, events, starts, changes, ghostVars>>

-----------------------------------------------------------------------------
(* The surroundings. *)

\* The process ends, as the daemon always does, by a signal or a crash.
Stop(q) ==
  /\ pc[q] # "off"
  /\ pc' = [pc EXCEPT ![q] = "off"]
  /\ key' = [key EXCEPT ![q] = None]
  /\ entries' = [entries EXCEPT ![q] = << >>] /\ limit' = [limit EXCEPT ![q] = 0]
  /\ table' = [table EXCEPT ![q] = {}] /\ met' = [met EXCEPT ![q] = {}]
  /\ failed' = IF pc[q] = "save" THEN failed \ KeptIn(peersfile) ELSE failed
  /\ UNCHANGED <<now, own, fileVars, events, starts, changes, removed, raced>>

\* Time passes, or the clock is set.
SetClock ==
  /\ changes < MaxChanges
  /\ changes' = changes + 1
  /\ now' \in 0 .. MaxTime \ {now}
  /\ UNCHANGED <<own, fileVars, pc, key, storeVars, events, starts, ghostVars>>

\* An interface comes up or goes down.
SetInterfaces ==
  /\ changes < MaxChanges
  /\ changes' = changes + 1
  /\ own' \in SUBSET Own \ {own}
  /\ UNCHANGED <<now, fileVars, pc, key, storeVars, events, starts, ghostVars>>

Next ==
  \/ \E q \in Procs :
       \/ Start(q) \/ CreateKeypair(q) \/ WriteKeypair(q) \/ LoadStore(q)
       \/ OpenFile(q) \/ WriteFile(q) \/ Stop(q)
       \/ \E c \in Contacts :
            Discovered(q, c) \/ Identified(q, c) \/ Dialled(q, c) \/ DialFailed(q, c)
  \/ SetClock \/ SetInterfaces

Spec == Init /\ [][Next]_vars

-----------------------------------------------------------------------------
(* Properties. *)

Live == {q \in Procs : pc[q] \in {"running", "save", "write"}}

(* Whatever the clock, the events and the limit of an earlier start, the   *)
(* entries of a running process are no more than its limit, name no        *)
(* contact twice and are ordered with the one seen last first              *)
(* (PeerStore::prune, record_address, remove_address).                     *)
StoreInOrder ==
  \A q \in Live :
    /\ Len(entries[q]) <= limit[q]
    /\ \A i, j \in DOMAIN entries[q] : i < j =>
         /\ entries[q][i].contact # entries[q][j].contact
         /\ entries[q][i].last_seen >= entries[q][j].last_seen

(* To make room, record_address gives up nothing that was seen later than  *)
(* something it keeps; all else that goes has expired, or is an address of *)
(* this host now (PeerStore::prune).                                       *)
OldestEvicted ==
  [][\A q \in Procs, c \in Contacts :
       Discovered(q, c) \/ Identified(q, c) \/ Dialled(q, c) =>
         \A i \in DOMAIN entries[q] :
           LET e == entries[q][i] IN
           \/ e.contact \in KeptIn(entries'[q])
           \/ e.last_seen + MaxAge < now \/ ~IsPeerAddress(e.contact)
           \/ \A j \in DOMAIN entries'[q] : entries'[q][j].last_seen >= e.last_seen]_vars

(* docs/dht-protocol.md: loopback and unspecified addresses are persisted  *)
(* by no process, through whichever event they came and however often the  *)
(* file was reloaded (is_peer_address in run_swarm_task, record_address).  *)
NothingLocalPersisted ==
  \A s \in {peersfile} \cup {entries[q] : q \in Procs} : KeptIn(s) \cap Unusable = {}

(* docs/architecture.md, "Peer Address Hygiene": a private address is used *)
(* for local discovery only.  One that is in the routing table of a        *)
(* process is configured there, or that process has found it by mDNS or    *)
(* has reached it: an earlier process that has stored it, or a peer that   *)
(* says it of itself, does not put it there (bootstrap_peers,              *)
(* dht::bootstrap, run_swarm_task).                                        *)
PrivateStaysLocal == \A q \in Live : table[q] \cap Private \subseteq met[q] \cup Bootstrap

(* docs/dht-protocol.md: "If a persisted address fails during an outbound  *)
(* dial, that address is removed from the peer store."  It may come back   *)
(* (README, section 6).                                                    *)
FailedIsGone == \A q \in Live : removed \cap KeptIn(entries[q]) = {}

(* The cases in which it does come back, and no others, are these: another *)
(* process has the address in memory when the dial fails; another process  *)
(* loads the file before the removal is saved; the process ends before it  *)
(* has opened the file to save; or the file could not be opened.  In all   *)
(* others it is in no process and not in the file until somebody sees it   *)
(* again (remove_failed_dial_addresses, remove_address, save).             *)
FailedStaysAway ==
  /\ \A q \in Live : failed \cap KeptIn(entries[q]) = {}
  /\ ~Unsaved => failed \cap KeptIn(peersfile) = {}

(* docs/bootstrap-node.md: the identity is stable.  All processes that run *)
(* have the identity on disk, through crashes in the middle of the first   *)
(* start too, unless two of them have found none at the same time          *)
(* (load_or_generate_keypair).                                             *)
IdentityKept ==
  raced \/ \A q \in Procs : pc[q] \in {"load", "running", "save", "write"} => key[q] = keyfile
=============================================================================
