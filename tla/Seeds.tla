-------------------------------- MODULE Seeds --------------------------------
(***************************************************************************)
(* The local seeds of a node: NarStore of src/nar_store.rs with its files  *)
(* and sidecar metadata, the seed requests of the dashboard                *)
(* (src/dashboard.rs, src/dashboard/seed_config.rs), the start-up sequence *)
(* of src/main.rs and the saving of downloads (src/daemon.rs), under       *)
(* failing reads and writes and crashes of the process.                    *)
(*                                                                         *)
(* Every NarStore method runs under one mutex, so nobody sees its          *)
(* intermediate states: a method is one step.  A write that a crash cuts   *)
(* short is the step in which that write fails, followed by Crash.  The    *)
(* configuration file is under no lock: reading, truncating and writing it *)
(* are steps of their own.                                                 *)
(***************************************************************************)
EXTENDS Integers, FiniteSets

CONSTANTS
  Nars,
  Paths,        \* store paths
  NarOf,        \* the NAR that each store path serialises to
  NoPath,
  NoNar,
  Refusable,    \* bound: NARs that start_providing may return an error for
  Clients,      \* dashboard requests that may run at the same time
  MaxRequests,  \* bound: dashboard requests
  MaxDownloads, \* bound: downloads saved for re-seeding
  MaxCrashes,   \* bound: crashes
  MaxFaults     \* bound: steps in which the disk or a guix process fails

ASSUME SeedsAssumption ==
  /\ NarOf \in [Paths -> Nars]
  /\ NoPath \notin Paths
  /\ NoNar \notin Nars
  /\ MaxRequests \in Nat /\ MaxDownloads \in Nat
  /\ MaxCrashes \in Nat /\ MaxFaults \in Nat

VARIABLES
  phase,      \* "down", "seeding" (start-up) or "up"
  todo,       \* config.seed_paths not yet seeded by the start-up
  index,      \* NarStore.index: the NARs that are served, with their metadata
  file,       \* <hash>.nar on disk
  meta,       \* <hash>.json on disk, where it can be parsed
  config,     \* the user's config.toml
  announced,  \* NARs for which this process has called start_providing
  pc,         \* what each dashboard request does next
  req,        \* what it asks for
  buffer,     \* the configuration it is about to write
  requests, downloads, crashes, faults,   \* bounded counters
  unsaved,    \* NARs whose last metadata write or read failed
  skipped,    \* NARs indexed by a call that ended before it announced them
  refused,    \* NARs for which the last start_providing returned an error
  overtaken,  \* seed requests whose NAR was deleted, deletions whose NAR was
              \* seeded, while they ran
  acked,      \* store paths seeded with a success reply and not deleted since
  deleted     \* NARs deleted with a success reply and not seeded since

storeVars  == <<index, file, meta, unsaved>>
clientVars == <<pc, req, buffer>>
ghostVars  == <<overtaken, acked, deleted>>
vars == <<phase, todo, storeVars, config, announced, skipped, refused, clientVars,
          requests, downloads, crashes, faults, ghostVars>>

Sources == {"manual", "downloaded", "cache"}
Entry == [path : Paths \cup {NoPath}, source : Sources]
Entries == UNION {[S -> Entry] : S \in SUBSET Nars}

\* settings: the user's other settings; keyed: there is a seed_paths array.
Config == [settings : BOOLEAN, keyed : BOOLEAN, seed_paths : SUBSET Paths]
EmptyConfig == [settings |-> FALSE, keyed |-> FALSE, seed_paths |-> {}]
Request == [kind : {"none", "seed", "delete"}, path : Paths \cup {NoPath},
            nar : Nars \cup {NoNar}]
NoRequest == [kind |-> "none", path |-> NoPath, nar |-> NoNar]

(* The values each variable takes. *)
TypeOK ==
  /\ phase \in {"down", "seeding", "up"}
  /\ todo \in SUBSET Paths
  /\ index \in Entries
  /\ file \in [Nars -> {"none", "damaged", "nar"}]
  /\ meta \in Entries
  /\ config \in Config
  /\ announced \in SUBSET Nars
  /\ pc \in [Clients -> {"idle", "info", "read", "truncate", "write"}]
  /\ req \in [Clients -> Request]
  /\ buffer \in [Clients -> Config]
  /\ requests \in 0 .. MaxRequests
  /\ downloads \in 0 .. MaxDownloads
  /\ crashes \in 0 .. MaxCrashes
  /\ faults \in 0 .. MaxFaults
  /\ unsaved \in SUBSET Nars
  /\ skipped \in SUBSET Nars
  /\ refused \in SUBSET Nars
  /\ overtaken \in SUBSET Clients
  /\ acked \in SUBSET Paths
  /\ deleted \in SUBSET Nars

Init ==
  /\ phase = "down" /\ todo = {}
  /\ index = [n \in {} |-> NoPath]
  /\ file = [n \in Nars |-> "none"]
  /\ meta = [n \in {} |-> NoPath]
  /\ config \in {c \in Config : c.settings /\ (c.seed_paths # {} => c.keyed)}
  /\ announced = {}
  /\ pc = [c \in Clients |-> "idle"]
  /\ req = [c \in Clients |-> NoRequest]
  /\ buffer = [c \in Clients |-> EmptyConfig]
  /\ requests = 0 /\ downloads = 0 /\ crashes = 0 /\ faults = 0
  /\ unsaved = {} /\ skipped = {} /\ refused = {} /\ overtaken = {} /\ acked = {} /\ deleted = {}

-----------------------------------------------------------------------------
(* NarStore. *)

NoFault == faults' = faults
Fault == faults < MaxFaults /\ faults' = faults + 1

Put(f, n, e) == [k \in DOMAIN f \cup {n} |-> IF k = n THEN e ELSE f[k]]
Drop(f, n) == [k \in DOMAIN f \ {n} |-> f[k]]

has_nar(n) == n \in DOMAIN index

\* Fault: the entry changes and the sidecar file is not rewritten.
WriteMetadata_Forgotten(n, e) == NoFault /\ UNCHANGED <<meta, unsaved>>

\* fs::write truncates first: where it fails, the old metadata is kept or lost.
WriteMetadata(n, e) ==
  \/ NoFault /\ meta' = Put(meta, n, e) /\ unsaved' = unsaved \ {n}
  \/ Fault /\ meta' \in {meta, Drop(meta, n)} /\ unsaved' = unsaved \cup {n}

\* save_with_source: create and write the file, index the NAR, write the metadata.
\* ok is the result it returns.
Save(n, e, ok) ==
  \/ /\ Fault /\ ~ok
     /\ file' \in {file, [file EXCEPT ![n] = "damaged"]}
     /\ UNCHANGED <<index, meta, unsaved>>
  \/ /\ file' = [file EXCEPT ![n] = "nar"]
     /\ index' = Put(index, n, e)
     /\ WriteMetadata(n, e)
     /\ ok = (faults' = faults)

\* The store path of a NAR that is seeded again is the one recorded first.
PathKept(n, p) == IF index[n].path = NoPath THEN p ELSE index[n].path

\* Fault: the cache is rewritten for a NAR that is served already.
MustSave_Always(n) == TRUE

MustSave(n) == ~has_nar(n)

seed_store_path(p, ok) ==
  LET n == NarOf[p] IN
  \/ Fault /\ ~ok /\ UNCHANGED storeVars  \* guix hash or guix archive fails
  \/ MustSave(n) /\ Save(n, [path |-> p, source |-> "manual"], ok)
  \/ /\ ~MustSave(n) /\ ok
     /\ LET e == [path |-> PathKept(n, p), source |-> "manual"]
        IN index' = Put(index, n, e) /\ WriteMetadata(n, e)
     /\ UNCHANGED file

\* annotate_seed_store_path, and the body of annotate_from_narinfos.
annotate_seed_store_path(n, p) ==
  LET e == [path |-> p, source |-> index[n].source] IN
  /\ index[n].path = NoPath
  /\ index' = Put(index, n, e)
  /\ WriteMetadata(n, e)
  /\ UNCHANGED file

remove_seed(n) ==
  /\ index' = Drop(index, n)
  /\ unsaved' = unsaved \ {n}
  /\ \/ NoFault /\ file' = [file EXCEPT ![n] = "none"] /\ meta' = Drop(meta, n)
     \/ Fault /\ UNCHANGED file /\ meta' \in {meta, Drop(meta, n)}
     \/ Fault /\ file' = [file EXCEPT ![n] = "none"] /\ UNCHANGED meta

\* Fault: whatever lies in the cache directory is indexed.
ScanAccepts_Unhashed(n) == file[n] # "none"

\* The SHA-256 of the file is its name.
ScanAccepts(n) == file[n] = "nar"

Restored(n) ==
  IF n \in DOMAIN meta THEN meta[n] ELSE [path |-> NoPath, source |-> "cache"]

-----------------------------------------------------------------------------
(* Start-up. *)

\* NarStore::new; unread and blind are files and metadata that cannot be read.
Scan ==
  /\ phase = "down"
  /\ phase' = "seeding"
  /\ \E unread \in SUBSET {n \in Nars : ScanAccepts(n)},
        blind \in SUBSET {n \in Nars : ScanAccepts(n)},
        paths \in {config.seed_paths, {}} :
       /\ index' = [n \in {k \in Nars : ScanAccepts(k)} \ unread |->
                      IF n \in blind THEN [path |-> NoPath, source |-> "cache"]
                                     ELSE Restored(n)]
       /\ unsaved' = blind \ unread
       /\ todo' = paths
       /\ IF unread \cup blind = {} /\ paths = config.seed_paths THEN NoFault ELSE Fault
  /\ UNCHANGED <<file, meta, config, announced, skipped, refused, clientVars,
                 requests, downloads, crashes, ghostVars>>

SeedAtStart(p) ==
  /\ phase = "seeding" /\ p \in todo
  /\ todo' = todo \ {p}
  /\ \E ok \in BOOLEAN : seed_store_path(p, ok)
  /\ UNCHANGED <<phase, config, announced, skipped, refused, clientVars, requests,
                 downloads, crashes, ghostVars>>

\* annotate_from_narinfos at start, api_seeds later.
Annotate(n, p) ==
  /\ phase = "up" \/ (phase = "seeding" /\ todo = {})
  /\ has_nar(n) /\ NarOf[p] = n
  /\ annotate_seed_store_path(n, p)
  /\ UNCHANGED <<phase, todo, config, announced, skipped, refused, clientVars, requests,
                 downloads, crashes, ghostVars>>

\* start_providing for each of S.  It may return an error, which is only logged, for a
\* key that is not provided yet (the record store keeps a limited number of keys).
Announce(S) ==
  \E failed \in SUBSET ((S \cap Refusable) \ announced) :
    /\ announced' = announced \cup (S \ failed)
    /\ refused' = (refused \ S) \cup failed
    /\ skipped' = skipped \ S

\* Fault: only the configured paths are announced, not the rest of the cache.
AnnouncedAtStart_Configured == {n \in DOMAIN index : n \in {NarOf[p] : p \in config.seed_paths}}

AnnouncedAtStart == DOMAIN index

StartDone ==
  /\ phase = "seeding" /\ todo = {}
  /\ phase' = "up"
  /\ Announce(AnnouncedAtStart)
  /\ UNCHANGED <<todo, storeVars, config, clientVars, requests, downloads, crashes,
                 faults, ghostVars>>

\* The cache and the configuration survive, as they are at this moment.
Crash ==
  /\ phase # "down" /\ crashes < MaxCrashes
  /\ crashes' = crashes + 1
  /\ phase' = "down" /\ todo' = {}
  /\ index' = [n \in {} |-> NoPath]
  /\ announced' = {} /\ skipped' = {} /\ refused' = {} /\ unsaved' = {} /\ overtaken' = {}
  /\ pc' = [c \in Clients |-> "idle"]
  /\ req' = [c \in Clients |-> NoRequest]
  /\ buffer' = [c \in Clients |-> EmptyConfig]
  /\ UNCHANGED <<file, meta, config, requests, downloads, faults, acked, deleted>>

-----------------------------------------------------------------------------
(* Announcements and downloads of a running node. *)

PeerConnected ==
  /\ phase = "up"
  /\ Announce(DOMAIN index)
  /\ UNCHANGED <<phase, todo, storeVars, config, clientVars, requests, downloads,
                 crashes, faults, ghostVars>>

\* The health monitor announces the seeds with fewer than min_providers providers.
HealthCheck ==
  /\ phase = "up"
  /\ \E S \in SUBSET DOMAIN index : Announce(S)
  /\ UNCHANGED <<phase, todo, storeVars, config, clientVars, requests, downloads,
                 crashes, faults, ghostVars>>

Pending(kind, n) == {d \in Clients : req[d].kind = kind /\ req[d].nar = n}

\* The end of a substitution whose NAR is kept (auto_seed_downloads).
Download(p) ==
  LET n == NarOf[p]
      saved == [path |-> p, source |-> "downloaded"] IN
  /\ phase = "up" /\ downloads < MaxDownloads
  /\ downloads' = downloads + 1
  /\ \/ ~MustSave(n) /\ NoFault /\ UNCHANGED <<storeVars, announced, skipped, refused>>
     \/ MustSave(n) /\ Save(n, saved, TRUE) /\ Announce({n})
     \/ /\ MustSave(n) /\ Save(n, saved, FALSE)
        /\ skipped' = skipped \cup ({n} \cap DOMAIN index')
        /\ UNCHANGED <<announced, refused>>
  /\ deleted' = deleted \ {n}
  /\ overtaken' = overtaken \cup Pending("delete", n)
  /\ UNCHANGED <<phase, todo, config, clientVars, requests, crashes, acked>>

-----------------------------------------------------------------------------
(* Dashboard requests. *)

Finish(c) ==
  /\ pc' = [pc EXCEPT ![c] = "idle"]
  /\ req' = [req EXCEPT ![c] = NoRequest]
  /\ overtaken' = overtaken \ {c}
  /\ UNCHANGED buffer

\* The success reply.
Succeed(c) ==
  /\ Finish(c)
  /\ acked' = IF req[c].kind = "seed" /\ c \notin overtaken
                THEN acked \cup {req[c].path} ELSE acked
  /\ deleted' = IF req[c].kind = "delete" /\ c \notin overtaken
                  THEN deleted \cup {req[c].nar} ELSE deleted

\* POST /api/seeds up to the end of the blocking task.
PostSeed(c, p) ==
  LET n == NarOf[p] IN
  /\ phase = "up" /\ pc[c] = "idle" /\ requests < MaxRequests
  /\ requests' = requests + 1
  /\ deleted' = deleted \ {n}
  /\ overtaken' = overtaken \cup Pending("delete", n)
  /\ \/ /\ seed_store_path(p, TRUE)
        /\ pc' = [pc EXCEPT ![c] = "info"]
        /\ req' = [req EXCEPT ![c] = [kind |-> "seed", path |-> p, nar |-> n]]
        /\ UNCHANGED skipped
     \/ /\ seed_store_path(p, FALSE)
        /\ skipped' = skipped \cup ((DOMAIN index' \ DOMAIN index) \cap {n})
        /\ UNCHANGED <<pc, req>>
  /\ UNCHANGED <<phase, todo, config, announced, refused, buffer, downloads, crashes,
                 acked>>

\* seed_info, then StartProviding.
SeedInfo(c) ==
  /\ pc[c] = "info"
  /\ \/ /\ has_nar(req[c].nar)
        /\ Announce({req[c].nar})
        /\ pc' = [pc EXCEPT ![c] = "read"]
        /\ UNCHANGED <<req, buffer, overtaken>>
     \/ /\ ~has_nar(req[c].nar)  \* "seed metadata missing"
        /\ Finish(c)
        /\ UNCHANGED <<announced, skipped, refused>>
  /\ UNCHANGED <<phase, todo, storeVars, config, requests, downloads, crashes, faults,
                 acked, deleted>>

\* The HTTP client goes away: axum drops the handler where it awaits the blocking task.
ClientGone(c) ==
  /\ pc[c] = "info"
  /\ Finish(c)
  /\ skipped' = skipped \cup (({req[c].nar} \cap DOMAIN index) \ announced)
  /\ UNCHANGED <<phase, todo, storeVars, config, announced, refused, requests,
                 downloads, crashes, faults, acked, deleted>>

\* DELETE /api/seeds/{hash} up to remove_seed; 204 is the reply in any case.
DeleteSeed(c, n) ==
  /\ phase = "up" /\ pc[c] = "idle" /\ requests < MaxRequests
  /\ requests' = requests + 1
  /\ acked' = {p \in acked : NarOf[p] # n}
  /\ overtaken' = overtaken \cup Pending("seed", n)
  /\ skipped' = skipped \ {n}
  /\ refused' = refused \ {n}
  /\ IF has_nar(n) /\ index[n].path # NoPath
       THEN /\ pc' = [pc EXCEPT ![c] = "read"]
            /\ req' = [req EXCEPT ![c] = [kind |-> "delete", path |-> index[n].path, nar |-> n]]
            /\ UNCHANGED deleted
       ELSE deleted' = deleted \cup {n} /\ UNCHANGED <<pc, req>>
  /\ IF has_nar(n) THEN remove_seed(n) ELSE NoFault /\ UNCHANGED storeVars
  /\ UNCHANGED <<phase, todo, config, announced, buffer, downloads, crashes>>

-----------------------------------------------------------------------------
(* config.toml, read and written with no lock. *)

Persisted(content, p) ==
  [content EXCEPT !.keyed = TRUE, !.seed_paths = @ \cup {p}]

Removed(content, p) == [content EXCEPT !.seed_paths = @ \ {p}]

\* persist_seed_path_to_config takes a file it cannot read for an empty one;
\* remove_seed_path_from_config has nothing to do then, or without seed_paths.
ReadConfig(c) ==
  /\ pc[c] = "read"
  /\ \E readable \in BOOLEAN :
       LET content == IF readable THEN config ELSE EmptyConfig IN
       /\ IF readable THEN NoFault ELSE Fault
       /\ \/ /\ req[c].kind = "seed" \/ content.keyed
             /\ buffer' = [buffer EXCEPT ![c] = IF req[c].kind = "seed"
                                                  THEN Persisted(content, req[c].path)
                                                  ELSE Removed(content, req[c].path)]
             /\ pc' = [pc EXCEPT ![c] = "truncate"]
             /\ UNCHANGED <<req, ghostVars>>
          \/ /\ req[c].kind = "delete" /\ ~content.keyed
             /\ Succeed(c)
  /\ UNCHANGED <<phase, todo, storeVars, config, announced, skipped, refused, requests,
                 downloads, crashes>>

\* A failed write fails the POST; the DELETE only logs it.
ConfigFails(c) ==
  /\ Fault
  /\ \/ req[c].kind = "seed" /\ Finish(c) /\ UNCHANGED <<acked, deleted>>
     \/ req[c].kind = "delete" /\ Succeed(c)

\* The first half of fs::write.
TruncateConfig(c) ==
  /\ pc[c] = "truncate"
  /\ \/ /\ NoFault
        /\ config' = EmptyConfig
        /\ pc' = [pc EXCEPT ![c] = "write"]
        /\ UNCHANGED <<req, buffer, ghostVars>>
     \/ ConfigFails(c) /\ UNCHANGED config
  /\ UNCHANGED <<phase, todo, storeVars, announced, skipped, refused, requests, downloads,
                 crashes>>

\* The second half.  Where another request has written after this one truncated the
\* file, the tail of the longer text may remain, and the result may be no TOML:
\* every reader takes that for an empty file.
WriteConfig(c) ==
  /\ pc[c] = "write"
  /\ \/ /\ NoFault
        /\ config' = buffer[c] \/ (config # EmptyConfig /\ config' = EmptyConfig)
        /\ Succeed(c)
     \/ ConfigFails(c) /\ UNCHANGED config
  /\ UNCHANGED <<phase, todo, storeVars, announced, skipped, refused, requests, downloads,
                 crashes>>

Next ==
  \/ Scan
  \/ \E p \in Paths : SeedAtStart(p)
  \/ \E n \in Nars, p \in Paths : Annotate(n, p)
  \/ StartDone
  \/ Crash
  \/ PeerConnected
  \/ HealthCheck
  \/ \E p \in Paths : Download(p)
  \/ \E c \in Clients, p \in Paths : PostSeed(c, p)
  \/ \E c \in Clients, n \in Nars : DeleteSeed(c, n)
  \/ \E c \in Clients : SeedInfo(c) \/ ClientGone(c)
  \/ \E c \in Clients : ReadConfig(c) \/ TruncateConfig(c) \/ WriteConfig(c)

Spec == Init /\ [][Next]_vars

-----------------------------------------------------------------------------
(* Properties. *)

(* NarStore answers a handshake or a block request for a NAR exactly when  *)
(* the NAR is indexed, from the file on disk: the file then holds that     *)
(* NAR, whatever writes failed and whenever the process died.              *)
ServedIsGenuine == \A n \in DOMAIN index : file[n] = "nar"

(* A restart forgets nothing about a seed: the sidecar file says of every  *)
(* indexed NAR what the index says, unless reading or writing that file    *)
(* failed.                                                                 *)
ProvenanceKept == \A n \in DOMAIN index \ unsaved : index[n] = Restored(n)

(* A seed that POST /api/seeds acknowledged stays until it is deleted, in  *)
(* spite of crashes, of requests that overwrite each other's config.toml   *)
(* and of a failing disk: one fault leaves it in the cache, and without a  *)
(* fault a running node serves it.                                         *)
AckedSurvive ==
  \A p \in acked :
    /\ faults <= 1 => file[NarOf[p]] = "nar"
    /\ faults = 0 /\ phase = "up" => has_nar(NarOf[p])

(* What a running node serves it has announced to the DHT, or a request is *)
(* about to.  The exceptions: a NAR that was cached although its metadata  *)
(* could not be written, a seed request whose client went away, and a NAR  *)
(* that start_providing last returned an error for, which is only logged   *)
(* (announce_nar).                                                         *)
SeedsAnnounced ==
  phase = "up" =>
    \A n \in DOMAIN index :
      n \in announced \cup skipped \cup refused
              \cup {req[c].nar : c \in {d \in Clients : pc[d] = "info"}}

(* docs/architecture.md: DELETE /api/seeds/{hash} stops serving a local    *)
(* seed and removes it from future daemon starts.  It may come back        *)
(* (README, section 6).                                                    *)
DeletedStaysAway == \A n \in deleted : ~has_nar(n)

(* docs/architecture.md: POST /api/seeds persists the path to the user     *)
(* config seed_paths while preserving existing TOML.  Once no request is   *)
(* at work on the file, the user's other settings are in it.               *)
SettingsPreserved == (\A c \in Clients : pc[c] = "idle") => config.settings
=============================================================================
