---------------------------- MODULE Seeds_proofs -----------------------------
(* Theorems about Seeds, for every set of NARs, store paths and requests,   *)
(* and for any number of disk faults and crashes.                          *)
EXTENDS Seeds, TLAPS

(* What the two invariants need to know about the types of the store.      *)
StoreTypes ==
  /\ file \in [Nars -> {"none", "damaged", "nar"}]
  /\ DOMAIN index \subseteq Nars

SInv == StoreTypes /\ ServedIsGenuine /\ ProvenanceKept

(* The NarStore methods, as steps on the store alone.                      *)
StoreStep ==
  \/ UNCHANGED storeVars
  \/ \E n \in Nars : \E e \in Entry, ok \in BOOLEAN : MustSave(n) /\ Save(n, e, ok)
  \/ \E n \in DOMAIN index : \E e : index' = Put(index, n, e) /\ WriteMetadata(n, e) /\ UNCHANGED file
  \/ \E n \in DOMAIN index : remove_seed(n)

(* A metadata write leaves the sidecar file of every other NAR alone, and   *)
(* reports its own failure.                                                *)
LEMMA WriteMetadataFacts ==
  ASSUME NEW n, NEW e, WriteMetadata(n, e)
  PROVE  /\ \A k : k # n => (k \in DOMAIN meta' <=> k \in DOMAIN meta)
         /\ \A k : k # n /\ k \in DOMAIN meta => meta'[k] = meta[k]
         /\ \A k : k # n => (k \in unsaved' <=> k \in unsaved)
         /\ n \notin unsaved' => n \in DOMAIN meta' /\ meta'[n] = e
<1>1. CASE NoFault /\ meta' = Put(meta, n, e) /\ unsaved' = unsaved \ {n}
  BY <1>1 DEF Put
<1>2. CASE Fault /\ meta' \in {meta, Drop(meta, n)} /\ unsaved' = unsaved \cup {n}
  BY <1>2 DEF Drop
<1> QED BY <1>1, <1>2 DEF WriteMetadata

(* Indexing a NAR whose file is good, together with its metadata write.    *)
LEMMA IndexedStep ==
  ASSUME SInv, NEW n \in Nars, NEW e,
         file' \in [Nars -> {"none", "damaged", "nar"}],
         file'[n] = "nar", \A k \in Nars \ {n} : file'[k] = file[k],
         index' = Put(index, n, e), WriteMetadata(n, e)
  PROVE  SInv'
<1>1. StoreTypes' BY DEF Put, SInv, StoreTypes
<1>2. ServedIsGenuine' BY DEF Put, SInv, StoreTypes, ServedIsGenuine
<1>3. ASSUME NEW k \in DOMAIN index' \ unsaved' PROVE index'[k] = Restored(k)'
  <2>1. CASE k = n BY <1>3, <2>1, WriteMetadataFacts DEF Restored, Put
  <2>2. CASE k # n
    <3>1. k \in DOMAIN index \ unsaved BY <1>3, <2>2, WriteMetadataFacts DEF Put
    <3>2. index'[k] = index[k] BY <3>1, <2>2 DEF Put
    <3>3. index[k] = Restored(k) BY <3>1 DEF SInv, ProvenanceKept
    <3>4. Restored(k)' = Restored(k) BY <2>2, WriteMetadataFacts DEF Restored
    <3> QED BY <3>2, <3>3, <3>4
  <2> QED BY <2>1, <2>2
<1> QED BY <1>1, <1>2, <1>3 DEF SInv, ProvenanceKept

(* Every NarStore method keeps the invariant.                              *)
LEMMA StoreStepKeeps == SInv /\ StoreStep => SInv'
<1> SUFFICES ASSUME SInv, StoreStep PROVE SInv' OBVIOUS
<1>1. CASE UNCHANGED storeVars
  BY <1>1 DEF SInv, StoreTypes, ServedIsGenuine, ProvenanceKept, Restored, storeVars
<1>2. ASSUME NEW n \in Nars, NEW e \in Entry, NEW ok \in BOOLEAN, MustSave(n), Save(n, e, ok)
      PROVE  SInv'
  <2>1. CASE /\ file' \in {file, [file EXCEPT ![n] = "damaged"]}
             /\ UNCHANGED <<index, meta, unsaved>>
    BY <1>2, <2>1
    DEF SInv, StoreTypes, ServedIsGenuine, ProvenanceKept, Restored, MustSave, has_nar
  <2>2. CASE /\ file' = [file EXCEPT ![n] = "nar"]
             /\ index' = Put(index, n, e)
             /\ WriteMetadata(n, e)
    <3>1. /\ file' \in [Nars -> {"none", "damaged", "nar"}]
          /\ file'[n] = "nar"
          /\ \A k \in Nars \ {n} : file'[k] = file[k]
      BY <2>2 DEF SInv, StoreTypes
    <3> QED BY <3>1, <2>2, IndexedStep
  <2> QED BY <1>2, <2>1, <2>2 DEF Save
<1>3. ASSUME NEW n \in DOMAIN index, NEW e,
             index' = Put(index, n, e), WriteMetadata(n, e), UNCHANGED file
      PROVE  SInv'
  <2>1. n \in Nars /\ file[n] = "nar" BY DEF SInv, StoreTypes, ServedIsGenuine
  <2>2. file' \in [Nars -> {"none", "damaged", "nar"}] BY <1>3 DEF SInv, StoreTypes
  <2> QED BY <1>3, <2>1, <2>2, IndexedStep
<1>4. ASSUME NEW n \in DOMAIN index, remove_seed(n) PROVE SInv'
  <2>1. n \in Nars BY DEF SInv, StoreTypes
  <2>2. /\ index' = Drop(index, n) /\ unsaved' = unsaved \ {n}
        /\ file' \in {file, [file EXCEPT ![n] = "none"]}
        /\ meta' \in {meta, Drop(meta, n)}
    BY <1>4 DEF remove_seed
  <2>3. StoreTypes' BY <2>1, <2>2 DEF Drop, SInv, StoreTypes
  <2>4. ServedIsGenuine' BY <2>1, <2>2 DEF Drop, SInv, StoreTypes, ServedIsGenuine
  <2>5. ASSUME NEW k \in DOMAIN index' \ unsaved' PROVE index'[k] = Restored(k)'
    <3>1. k # n /\ k \in DOMAIN index \ unsaved BY <2>2, <2>5 DEF Drop
    <3>2. index'[k] = index[k] BY <2>2, <3>1 DEF Drop
    <3>3. index[k] = Restored(k) BY <3>1 DEF SInv, ProvenanceKept
    <3>4. Restored(k)' = Restored(k) BY <2>2, <3>1 DEF Drop, Restored
    <3> QED BY <3>2, <3>3, <3>4
  <2> QED BY <2>3, <2>4, <2>5 DEF SInv, ProvenanceKept
<1> QED BY <1>1, <1>2, <1>3, <1>4 DEF StoreStep

(* seed_store_path is such a step.                                         *)
LEMMA SeedStorePathStep ==
  ASSUME NEW p \in Paths, NEW ok \in BOOLEAN, seed_store_path(p, ok)
  PROVE  StoreStep
<1> DEFINE n == NarOf[p]
           fresh == [path |-> p, source |-> "manual"]
<1>1. n \in Nars BY SeedsAssumption
<1>2. fresh \in Entry BY DEF Entry, Sources
<1>3. CASE UNCHANGED storeVars BY <1>3 DEF StoreStep
<1>4. CASE MustSave(n) /\ Save(n, fresh, ok) BY <1>1, <1>2, <1>4 DEF StoreStep
<1>5. CASE /\ ~MustSave(n)
           /\ LET e == [path |-> PathKept(n, p), source |-> "manual"]
              IN index' = Put(index, n, e) /\ WriteMetadata(n, e)
           /\ UNCHANGED file
  <2>1. n \in DOMAIN index BY <1>5 DEF MustSave, has_nar
  <2> QED BY <1>5, <2>1 DEF StoreStep
<1> QED BY <1>3, <1>4, <1>5 DEF seed_store_path

(* The start-up scan establishes the invariant afresh, from the files alone. *)
LEMMA ScanKeeps == SInv /\ Scan => SInv'
<1> SUFFICES ASSUME SInv, Scan PROVE SInv' OBVIOUS
<1> DEFINE good == {n \in Nars : ScanAccepts(n)}
           bare == [path |-> NoPath, source |-> "cache"]
<1>1. PICK unread \in SUBSET good, blind \in SUBSET good :
        /\ index' = [n \in good \ unread |-> IF n \in blind THEN bare ELSE Restored(n)]
        /\ unsaved' = blind \ unread
  BY DEF Scan
<1>2. UNCHANGED <<file, meta>> BY DEF Scan
<1>3. DOMAIN index' = good \ unread BY <1>1
<1>4. StoreTypes' BY <1>2, <1>3 DEF SInv, StoreTypes
<1>5. ServedIsGenuine' BY <1>2, <1>3 DEF ServedIsGenuine, ScanAccepts
<1>6. ASSUME NEW k \in DOMAIN index' \ unsaved' PROVE index'[k] = Restored(k)'
  <2>1. k \in good \ unread /\ k \notin blind BY <1>1, <1>3, <1>6
  <2>2. index'[k] = Restored(k) BY <1>1, <2>1
  <2>3. Restored(k)' = Restored(k) BY <1>2 DEF Restored
  <2> QED BY <2>2, <2>3
<1> QED BY <1>4, <1>5, <1>6 DEF SInv, ProvenanceKept

(* A crash empties the index, so that nothing is served until the next scan. *)
LEMMA CrashKeeps == SInv /\ Crash => SInv'
BY DEF Crash, SInv, StoreTypes, ServedIsGenuine, ProvenanceKept

(* Every other action is a step on the store, or leaves it alone.          *)
LEMMA SInvStep == SInv /\ [Next]_vars => SInv'
<1> SUFFICES ASSUME SInv, [Next]_vars PROVE SInv' OBVIOUS
<1>1. CASE Scan BY <1>1, ScanKeeps
<1>2. CASE Crash BY <1>2, CrashKeeps
<1>3. ASSUME NEW p \in Paths, SeedAtStart(p) PROVE SInv'
  BY <1>3, SeedStorePathStep, StoreStepKeeps DEF SeedAtStart
<1>4. ASSUME NEW n \in Nars, NEW p \in Paths, Annotate(n, p) PROVE SInv'
  <2>1. n \in DOMAIN index BY <1>4 DEF Annotate, has_nar
  <2>2. StoreStep BY <1>4, <2>1 DEF Annotate, annotate_seed_store_path, StoreStep
  <2> QED BY <2>2, StoreStepKeeps
<1>5. CASE StartDone \/ PeerConnected \/ HealthCheck
  <2>1. StoreStep BY <1>5 DEF StartDone, PeerConnected, HealthCheck, StoreStep
  <2> QED BY <2>1, StoreStepKeeps
<1>6. ASSUME NEW p \in Paths, Download(p) PROVE SInv'
  <2> DEFINE n == NarOf[p]
             saved == [path |-> p, source |-> "downloaded"]
  <2>1. n \in Nars BY SeedsAssumption
  <2>2. saved \in Entry BY DEF Entry, Sources
  <2>3. \/ UNCHANGED storeVars
        \/ MustSave(n) /\ Save(n, saved, TRUE)
        \/ MustSave(n) /\ Save(n, saved, FALSE)
    BY <1>6 DEF Download
  <2>4. StoreStep BY <2>1, <2>2, <2>3 DEF StoreStep
  <2> QED BY <2>4, StoreStepKeeps
<1>7. ASSUME NEW c \in Clients, NEW p \in Paths, PostSeed(c, p) PROVE SInv'
  <2>1. seed_store_path(p, TRUE) \/ seed_store_path(p, FALSE) BY <1>7 DEF PostSeed
  <2> QED BY <2>1, SeedStorePathStep, StoreStepKeeps
<1>8. ASSUME NEW c \in Clients, NEW n \in Nars, DeleteSeed(c, n) PROVE SInv'
  <2>1. StoreStep BY <1>8 DEF DeleteSeed, has_nar, StoreStep
  <2> QED BY <2>1, StoreStepKeeps
<1>9. ASSUME NEW c \in Clients, SeedInfo(c) \/ ClientGone(c) PROVE SInv'
  <2>1. StoreStep BY <1>9 DEF SeedInfo, ClientGone, StoreStep
  <2> QED BY <2>1, StoreStepKeeps
<1>10. ASSUME NEW c \in Clients, ReadConfig(c) \/ TruncateConfig(c) \/ WriteConfig(c)
       PROVE  SInv'
  <2>1. StoreStep BY <1>10 DEF ReadConfig, TruncateConfig, WriteConfig, StoreStep
  <2> QED BY <2>1, StoreStepKeeps
<1>11. CASE UNCHANGED vars
  <2>1. StoreStep BY <1>11 DEF vars, StoreStep
  <2> QED BY <2>1, StoreStepKeeps
<1> QED BY <1>1, <1>2, <1>3, <1>4, <1>5, <1>6, <1>7, <1>8, <1>9, <1>10, <1>11 DEF Next

(* The invariant holds in every state of every behaviour.                  *)
LEMMA SInvAlways == Spec => []SInv
<1>1. Init => SInv
  BY DEF Init, SInv, StoreTypes, ServedIsGenuine, ProvenanceKept
<1> QED BY <1>1, SInvStep, PTL DEF Spec

(* What NarStore serves is genuine, through any failing writes, crashes    *)
(* and concurrent dashboard requests.                                      *)
THEOREM OnlyGenuineServed == Spec => []ServedIsGenuine
<1>1. SInv => ServedIsGenuine BY DEF SInv
<1> QED BY <1>1, SInvAlways, PTL

(* The sidecar metadata of every seed is the one in the index, unless its  *)
(* last write or read failed.                                              *)
THEOREM MetadataAgrees == Spec => []ProvenanceKept
<1>1. SInv => ProvenanceKept BY DEF SInv
<1> QED BY <1>1, SInvAlways, PTL

-----------------------------------------------------------------------------
(* Acknowledged seeds. *)

(* What the dashboard requests hold.                                       *)
RequestTypes ==
  /\ pc \in [Clients -> {"idle", "info", "read", "truncate", "write"}]
  /\ req = [c \in Clients |-> req[c]]
  /\ \A c \in Clients : req[c].kind = "seed" => /\ req[c].path \in Paths
                                                 /\ req[c].nar = NarOf[req[c].path]
  /\ acked \in SUBSET Paths
  /\ faults \in Nat

(* Paths that were acknowledged, or will be unless their request fails or   *)
(* is overtaken by a deletion.                                             *)
Held == acked \cup {req[c].path : c \in {d \in Clients \ overtaken : req[d].kind = "seed"}}

(* A NAR that no single fault can take from the cache: as long as nothing  *)
(* has failed it is indexed, so that no save opens its file.               *)
Safe(n) ==
  /\ faults <= 1 => file[n] = "nar"
  /\ faults = 0 /\ phase # "down" => n \in DOMAIN index

AInv == SInv /\ RequestTypes /\ \A p \in Held : Safe(NarOf[p])

(* What a step does that removes nothing: files of indexed NARs stay, and   *)
(* only a fault damages another.                                           *)
Grows ==
  /\ DOMAIN index \subseteq DOMAIN index'
  /\ faults' \in {faults, faults + 1}
  /\ \A k \in Nars : \/ file'[k] \in {file[k], "nar"}
                     \/ k \notin DOMAIN index /\ faults' = faults + 1

(* Such a step keeps safe what is safe, in a process that is not down.     *)
LEMMA GrowsSafe ==
  ASSUME faults \in Nat, Grows, phase # "down", NEW n \in Nars, Safe(n)
  PROVE  Safe(n)'
BY DEF Grows, Safe

(* The metadata write is no concern of the files.                          *)
LEMMA PutGrows ==
  ASSUME faults \in Nat, NEW n \in Nars, NEW e, StoreTypes,
         index' = Put(index, n, e), WriteMetadata(n, e),
         UNCHANGED file \/ file' = [file EXCEPT ![n] = "nar"]
  PROVE  Grows /\ n \in DOMAIN index'
<1>1. DOMAIN index' = DOMAIN index \cup {n} BY DEF Put
<1>2. faults' \in {faults, faults + 1} BY DEF WriteMetadata, NoFault, Fault
<1>3. \A k \in Nars : file'[k] \in {file[k], "nar"} BY DEF StoreTypes
<1> QED BY <1>1, <1>2, <1>3 DEF Grows

(* Saving a NAR that is not indexed; where it reports success, the NAR is  *)
(* there.                                                                  *)
LEMMA SaveGrows ==
  ASSUME faults \in Nat, StoreTypes, NEW n \in Nars, NEW e, NEW ok \in BOOLEAN,
         MustSave(n), Save(n, e, ok)
  PROVE  Grows /\ (ok => n \in DOMAIN index')
<1>1. CASE /\ Fault /\ ~ok
           /\ file' \in {file, [file EXCEPT ![n] = "damaged"]}
           /\ UNCHANGED <<index, meta, unsaved>>
  <2>1. faults' = faults + 1 BY <1>1 DEF Fault
  <2>2. n \notin DOMAIN index BY DEF MustSave, has_nar
  <2>3. \A k \in Nars : file'[k] = file[k] \/ k = n BY <1>1 DEF StoreTypes
  <2> QED BY <1>1, <2>1, <2>2, <2>3 DEF Grows
<1>2. CASE /\ file' = [file EXCEPT ![n] = "nar"]
           /\ index' = Put(index, n, e)
           /\ WriteMetadata(n, e)
  BY <1>2, PutGrows
<1> QED BY <1>1, <1>2 DEF Save

(* seed_store_path, likewise.                                              *)
LEMMA SeedStorePathGrows ==
  ASSUME faults \in Nat, StoreTypes, NEW p \in Paths, NEW ok \in BOOLEAN,
         seed_store_path(p, ok)
  PROVE  Grows /\ (ok => NarOf[p] \in DOMAIN index')
<1> DEFINE n == NarOf[p]
           fresh == [path |-> p, source |-> "manual"]
           again == [path |-> PathKept(n, p), source |-> "manual"]
<1>1. n \in Nars BY SeedsAssumption
<1>2. CASE Fault /\ ~ok /\ UNCHANGED storeVars
  BY <1>2 DEF Fault, storeVars, Grows
<1>3. CASE MustSave(n) /\ Save(n, fresh, ok) BY <1>1, <1>3, SaveGrows
<1>4. CASE ok /\ index' = Put(index, n, again) /\ WriteMetadata(n, again) /\ UNCHANGED file
  BY <1>1, <1>4, PutGrows
<1> QED BY <1>2, <1>3, <1>4 DEF seed_store_path

(* Steps of a request on the configuration hold no path that was not held. *)
LEMMA ConfigHolds ==
  ASSUME RequestTypes, NEW c \in Clients,
         SeedInfo(c) \/ ClientGone(c) \/ ReadConfig(c) \/ TruncateConfig(c) \/ WriteConfig(c)
  PROVE  RequestTypes' /\ Held' \subseteq Held /\ faults' \in {faults, faults + 1}
<1> USE DEF ghostVars
<1>1. NoRequest.kind # "seed" BY DEF NoRequest
<1>2. faults' \in {faults, faults + 1} /\ faults' \in Nat
  BY DEF SeedInfo, ClientGone, ReadConfig, TruncateConfig, WriteConfig, ConfigFails,
         NoFault, Fault, RequestTypes
<1>3. ASSUME Finish(c), acked' \in SUBSET Held PROVE RequestTypes' /\ Held' \subseteq Held
  <2>1. /\ req' = [req EXCEPT ![c] = NoRequest] /\ pc' = [pc EXCEPT ![c] = "idle"]
        /\ overtaken' = overtaken \ {c}
    BY <1>3 DEF Finish
  <2>2. req'[c].kind # "seed" /\ \A d \in Clients \ {c} : req'[d] = req[d]
    BY <1>1, <2>1 DEF RequestTypes
  <2>3. Held' \subseteq Held BY <1>3, <2>1, <2>2 DEF Held
  <2>4. Held \in SUBSET Paths BY DEF Held, RequestTypes
  <2>5. req' = [d \in Clients |-> req'[d]] BY <2>1 DEF RequestTypes
  <2>6. pc' \in [Clients -> {"idle", "info", "read", "truncate", "write"}]
    BY <2>1 DEF RequestTypes
  <2>7. RequestTypes' BY <1>2, <1>3, <2>2, <2>4, <2>5, <2>6 DEF RequestTypes
  <2> QED BY <2>3, <2>7
<1>4. ASSUME Succeed(c) PROVE RequestTypes' /\ Held' \subseteq Held
  BY <1>3, <1>4 DEF Succeed, Held
<1>5. ASSUME UNCHANGED <<req, overtaken, acked>>,
             \E x \in {"read", "truncate", "write"} : pc' = [pc EXCEPT ![c] = x]
      PROVE  RequestTypes' /\ Held' \subseteq Held
  <2>1. Held' = Held BY <1>5 DEF Held
  <2>2. pc' \in [Clients -> {"idle", "info", "read", "truncate", "write"}]
    BY <1>5 DEF RequestTypes
  <2>3. RequestTypes' BY <1>2, <1>5, <2>2 DEF RequestTypes
  <2> QED BY <2>1, <2>3
<1>6. \/ Finish(c) /\ UNCHANGED acked
      \/ Succeed(c)
      \/ /\ UNCHANGED <<req, overtaken, acked>>
         /\ \E x \in {"read", "truncate", "write"} : pc' = [pc EXCEPT ![c] = x]
  BY DEF SeedInfo, ClientGone, ReadConfig, TruncateConfig, WriteConfig, ConfigFails
<1> QED BY <1>2, <1>3, <1>4, <1>5, <1>6 DEF Held

(* Every step keeps what was acknowledged safe.                            *)
LEMMA AInvStep == AInv /\ [Next]_vars => AInv'
<1> SUFFICES ASSUME AInv, [Next]_vars PROVE AInv' OBVIOUS
<1> USE DEF AInv
<1>1. SInv' BY SInvStep
<1>2. Held \in SUBSET Paths BY DEF Held, RequestTypes
<1>3. \A p \in Paths : NarOf[p] \in Nars BY SeedsAssumption
<1>4. faults \in Nat /\ StoreTypes BY DEF RequestTypes, SInv
<1>5. ASSUME UNCHANGED <<pc, req, overtaken, acked>>, faults' \in {faults, faults + 1}
      PROVE  RequestTypes' /\ Held' = Held
  BY <1>5 DEF RequestTypes, Held
<1>6. ASSUME UNCHANGED <<phase, index, file>>, RequestTypes', Held' \subseteq Held,
             faults' \in {faults, faults + 1}
      PROVE  AInv'
  <2>1. \A n : Safe(n) => Safe(n)' BY <1>4, <1>6 DEF Safe
  <2> QED BY <1>1, <1>6, <2>1
<1>7. CASE Scan
  <2>1. faults' \in {faults, faults + 1} BY <1>7 DEF Scan, NoFault, Fault
  <2>2. RequestTypes' /\ Held' = Held
    BY <1>5, <1>7, <2>1 DEF Scan, clientVars, ghostVars
  <2>3. ASSUME NEW p \in Held PROVE Safe(NarOf[p])'
    <3>1. Safe(NarOf[p]) /\ NarOf[p] \in Nars BY <1>2, <1>3, <2>3
    <3>2. faults' <= 1 => faults <= 1 BY <1>4, <2>1
    <3>3. UNCHANGED file BY <1>7 DEF Scan
    <3>4. faults' = 0 => DOMAIN index' = {k \in Nars : ScanAccepts(k)}
      BY <1>4, <1>7 DEF Scan, NoFault, Fault
    <3>5. faults' = 0 => faults = 0 BY <1>4, <2>1
    <3> QED BY <3>1, <3>2, <3>3, <3>4, <3>5 DEF Safe, ScanAccepts
  <2> QED BY <1>1, <2>2, <2>3
<1>8. ASSUME NEW q \in Paths, SeedAtStart(q) PROVE AInv'
  <2>1. Grows BY <1>4, <1>8, SeedStorePathGrows DEF SeedAtStart
  <2>2. RequestTypes' /\ Held' = Held
    BY <1>5, <1>8, <2>1 DEF SeedAtStart, clientVars, ghostVars, Grows
  <2>3. phase # "down" BY <1>8 DEF SeedAtStart
  <2> QED BY <1>1, <1>2, <1>3, <1>4, <2>1, <2>2, <2>3, GrowsSafe
<1>9. ASSUME NEW n \in Nars, NEW q \in Paths, Annotate(n, q) PROVE AInv'
  <2>1. PICK e : index' = Put(index, n, e) /\ WriteMetadata(n, e) /\ UNCHANGED file
    BY <1>9 DEF Annotate, annotate_seed_store_path
  <2>2. Grows BY <1>4, <2>1, PutGrows
  <2>3. RequestTypes' /\ Held' = Held
    BY <1>5, <1>9, <2>2 DEF Annotate, clientVars, ghostVars, Grows
  <2>4. phase # "down" BY <1>9 DEF Annotate
  <2> QED BY <1>1, <1>2, <1>3, <1>4, <2>2, <2>3, <2>4, GrowsSafe
<1>10. CASE StartDone
  <2>1. RequestTypes' /\ Held' = Held
    BY <1>4, <1>5, <1>10 DEF StartDone, clientVars, ghostVars
  <2>2. phase # "down" /\ UNCHANGED <<index, file, faults>> BY <1>10 DEF StartDone, storeVars
  <2>3. \A n : Safe(n) => Safe(n)' BY <2>2 DEF Safe
  <2> QED BY <1>1, <2>1, <2>3
<1>11. CASE Crash
  <2>1. /\ phase' = "down" /\ UNCHANGED <<file, faults, acked>>
        /\ pc' = [c \in Clients |-> "idle"] /\ req' = [c \in Clients |-> NoRequest]
    BY <1>11 DEF Crash
  <2>2. NoRequest.kind # "seed" BY DEF NoRequest
  <2>3. RequestTypes' BY <2>1, <2>2 DEF RequestTypes
  <2>4. Held' \subseteq Held BY <2>1, <2>2 DEF Held
  <2>5. \A n : Safe(n) => Safe(n)' BY <2>1 DEF Safe
  <2> QED BY <1>1, <2>3, <2>4, <2>5
<1>12. CASE PeerConnected \/ HealthCheck
  <2>1. UNCHANGED <<phase, index, file, pc, req, overtaken, acked, faults>>
    BY <1>12 DEF PeerConnected, HealthCheck, storeVars, clientVars, ghostVars
  <2> QED BY <1>4, <1>5, <1>6, <2>1
<1>13. ASSUME NEW q \in Paths, Download(q) PROVE AInv'
  <2> DEFINE n == NarOf[q]
             saved == [path |-> q, source |-> "downloaded"]
  <2>1. \/ NoFault /\ UNCHANGED storeVars
        \/ \E ok \in BOOLEAN : MustSave(n) /\ Save(n, saved, ok)
    BY <1>13 DEF Download
  <2>2. Grows BY <1>3, <1>4, <2>1, SaveGrows DEF Grows, NoFault, storeVars
  <2>3. /\ phase # "down" /\ UNCHANGED <<pc, req, acked>> /\ overtaken \subseteq overtaken'
    BY <1>13 DEF Download, clientVars
  <2>4. RequestTypes' BY <1>4, <2>2, <2>3 DEF RequestTypes, Grows
  <2>5. Held' \subseteq Held BY <2>3 DEF Held
  <2> QED BY <1>1, <1>2, <1>3, <1>4, <2>2, <2>3, <2>4, <2>5, GrowsSafe
<1>14. ASSUME NEW c \in Clients, NEW q \in Paths, PostSeed(c, q) PROVE AInv'
  <2> DEFINE n == NarOf[q]
             r == [kind |-> "seed", path |-> q, nar |-> n]
  <2>1. PICK ok \in BOOLEAN :
          /\ seed_store_path(q, ok)
          /\ ok => /\ pc' = [pc EXCEPT ![c] = "info"]
                   /\ req' = [req EXCEPT ![c] = r]
          /\ ~ok => UNCHANGED <<pc, req>>
    BY <1>14 DEF PostSeed
  <2>2. Grows /\ (ok => n \in DOMAIN index') BY <1>4, <2>1, SeedStorePathGrows
  <2>3. phase = "up" /\ UNCHANGED <<phase, acked>> /\ overtaken \subseteq overtaken'
    BY <1>14 DEF PostSeed
  <2>4. r.kind = "seed" /\ r.path = q /\ r.nar = NarOf[q] OBVIOUS
  <2>5. RequestTypes'
    <3>1. pc' \in [Clients -> {"idle", "info", "read", "truncate", "write"}]
      BY <2>1 DEF RequestTypes
    <3>2. req' = [d \in Clients |-> req'[d]] BY <2>1 DEF RequestTypes
    <3>3. \A d \in Clients : req'[d] = req[d] \/ req'[d] = r BY <2>1 DEF RequestTypes
    <3>4. faults' \in Nat BY <1>4, <2>2 DEF Grows
    <3> QED BY <2>3, <2>4, <3>1, <3>2, <3>3, <3>4 DEF RequestTypes
  <2>6. Held' \subseteq Held \cup {q} /\ (~ok => Held' \subseteq Held)
    <3>1. \A d \in Clients : req'[d] = req[d] \/ (ok /\ req'[d] = r) BY <2>1 DEF RequestTypes
    <3> QED BY <2>3, <3>1 DEF Held
  <2>7. ok => Safe(n)'
    BY <1>1, <2>2 DEF Safe, SInv, ServedIsGenuine
  <2> QED BY <1>1, <1>2, <1>3, <1>4, <2>2, <2>3, <2>5, <2>6, <2>7, GrowsSafe
<1>15. ASSUME NEW c \in Clients, NEW n \in Nars, DeleteSeed(c, n) PROVE AInv'
  <2>1. /\ acked' = {p \in acked : NarOf[p] # n}
        /\ overtaken' = overtaken \cup Pending("seed", n)
        /\ UNCHANGED phase
    BY <1>15 DEF DeleteSeed
  <2>2. \/ UNCHANGED <<pc, req>>
        \/ /\ pc' = [pc EXCEPT ![c] = "read"]
           /\ req' = [req EXCEPT ![c] = [kind |-> "delete", path |-> index[n].path, nar |-> n]]
    BY <1>15 DEF DeleteSeed
  <2>3. req' = [d \in Clients |-> req'[d]] BY <2>2 DEF RequestTypes
  <2>4. \A d \in Clients : req'[d] = req[d] \/ req'[d].kind = "delete"
    BY <2>2 DEF RequestTypes
  <2>5. pc' \in [Clients -> {"idle", "info", "read", "truncate", "write"}]
    BY <2>2 DEF RequestTypes
  <2>6. /\ faults' \in {faults, faults + 1}
        /\ \A k \in Nars \ {n} : /\ file'[k] = file[k]
                                 /\ k \in DOMAIN index => k \in DOMAIN index'
    <3>1. remove_seed(n) \/ (NoFault /\ UNCHANGED storeVars) BY <1>15 DEF DeleteSeed
    <3> QED BY <1>4, <3>1 DEF remove_seed, NoFault, Fault, storeVars, Drop, StoreTypes
  <2>7. RequestTypes'
    BY <1>4, <2>1, <2>3, <2>4, <2>5, <2>6 DEF RequestTypes
  <2>8. ASSUME NEW p \in Held' PROVE p \in Held /\ NarOf[p] # n
    <3>1. CASE p \in acked' BY <2>1, <3>1 DEF Held
    <3>2. CASE p \notin acked'
      <4>1. PICK d \in Clients \ overtaken' : req'[d].kind = "seed" /\ p = req'[d].path
        BY <2>8, <3>2 DEF Held
      <4>2. req'[d] = req[d] BY <2>4, <4>1
      <4>3. d \notin overtaken /\ d \notin Pending("seed", n) BY <2>1, <4>1
      <4>4. req[d].nar # n BY <4>1, <4>2, <4>3 DEF Pending
      <4> QED BY <4>1, <4>2, <4>3, <4>4 DEF Held, RequestTypes
    <3> QED BY <3>1, <3>2
  <2>9. \A k \in Nars \ {n} : Safe(k) => Safe(k)' BY <1>4, <2>1, <2>6 DEF Safe
  <2> QED BY <1>1, <1>2, <1>3, <2>7, <2>8, <2>9
<1>16. ASSUME NEW c \in Clients,
              \/ SeedInfo(c) \/ ClientGone(c)
              \/ ReadConfig(c) \/ TruncateConfig(c) \/ WriteConfig(c)
       PROVE  AInv'
  <2>1. UNCHANGED <<phase, index, file>>
    BY <1>16 DEF SeedInfo, ClientGone, ReadConfig, TruncateConfig, WriteConfig, storeVars
  <2> QED BY <1>6, <1>16, <2>1, ConfigHolds
<1>17. CASE UNCHANGED vars
  <2>1. UNCHANGED <<phase, index, file, pc, req, overtaken, acked, faults>>
    BY <1>17 DEF vars, storeVars, clientVars, ghostVars
  <2> QED BY <1>4, <1>5, <1>6, <2>1
<1> QED
  BY <1>7, <1>8, <1>9, <1>10, <1>11, <1>12, <1>13, <1>14, <1>15, <1>16, <1>17 DEF Next

(* The invariant holds in every state of every behaviour.                  *)
LEMMA AInvAlways == Spec => []AInv
<1>1. Init => AInv
  <2> SUFFICES ASSUME Init PROVE AInv OBVIOUS
  <2>1. NoRequest.kind # "seed" BY DEF NoRequest
  <2>2. SInv BY DEF Init, SInv, StoreTypes, ServedIsGenuine, ProvenanceKept
  <2>3. RequestTypes BY <2>1 DEF Init, RequestTypes
  <2>4. Held = {} BY <2>1 DEF Init, Held
  <2> QED BY <2>2, <2>3, <2>4 DEF AInv
<1> QED BY <1>1, AInvStep, PTL DEF Spec

(* An acknowledged seed is in the cache after any one fault and any number *)
(* of crashes, and a node that has met no fault serves it, whatever other  *)
(* requests and downloads run at the same time: seed_store_path does not   *)
(* open the file of an indexed NAR, and NarStore::new indexes every good   *)
(* file.                                                                   *)
THEOREM AckedSeedsSurvive == Spec => []AckedSurvive
<1>1. AInv => AckedSurvive BY DEF AInv, Held, Safe, AckedSurvive, has_nar
<1> QED BY <1>1, AInvAlways, PTL

-----------------------------------------------------------------------------
(* Announcements. *)

(* The NARs that a request is about to announce.                           *)
AboutTo == {req[c].nar : c \in {d \in Clients : pc[d] = "info"}}

(* A step that keeps who is about to announce, and unannounces nothing,    *)
(* keeps SeedsAnnounced if it indexes nothing new or announces it.         *)
LEMMA AnnouncedKept ==
  ASSUME SeedsAnnounced, phase' = "up" => phase = "up",
         \A n \in DOMAIN index' :
           /\ n \notin DOMAIN index => n \in announced' \cup skipped' \cup refused' \cup AboutTo'
           /\ n \in announced \cup skipped \cup refused \cup AboutTo =>
                n \in announced' \cup skipped' \cup refused' \cup AboutTo'
  PROVE  SeedsAnnounced'
BY DEF SeedsAnnounced, AboutTo

(* Every step of the node keeps its seeds announced.                       *)
LEMMA AnnouncedStep == AInv /\ SeedsAnnounced /\ [Next]_vars => SeedsAnnounced'
<1> SUFFICES ASSUME AInv, SeedsAnnounced, [Next]_vars PROVE SeedsAnnounced' OBVIOUS
<1>1. RequestTypes /\ StoreTypes /\ faults \in Nat BY DEF AInv, SInv, RequestTypes
<1>2. ASSUME UNCHANGED clientVars PROVE AboutTo' = AboutTo
  BY <1>2 DEF AboutTo, clientVars
<1>3. CASE Scan \/ Crash BY <1>3 DEF Scan, Crash, SeedsAnnounced
<1>4. ASSUME NEW p \in Paths, SeedAtStart(p) PROVE SeedsAnnounced'
  BY <1>4 DEF SeedAtStart, SeedsAnnounced
<1>5. ASSUME NEW n \in Nars, NEW p \in Paths, Annotate(n, p) PROVE SeedsAnnounced'
  <2>1. DOMAIN index' = DOMAIN index
    BY <1>5 DEF Annotate, annotate_seed_store_path, has_nar, Put
  <2>2. UNCHANGED <<phase, announced, skipped, refused, clientVars>> BY <1>5 DEF Annotate
  <2> QED BY <1>2, <2>1, <2>2, AnnouncedKept
<1>6. CASE StartDone
  BY <1>6 DEF StartDone, Announce, AnnouncedAtStart, SeedsAnnounced, storeVars
<1>7. CASE PeerConnected \/ HealthCheck
  <2>1. PICK S : Announce(S) BY <1>7 DEF PeerConnected, HealthCheck
  <2>2. UNCHANGED <<phase, index, clientVars>>
    BY <1>7 DEF PeerConnected, HealthCheck, storeVars
  <2> QED BY <1>2, <2>1, <2>2, AnnouncedKept DEF Announce
<1>8. ASSUME NEW p \in Paths, Download(p) PROVE SeedsAnnounced'
  <2> DEFINE n == NarOf[p]
             saved == [path |-> p, source |-> "downloaded"]
  <2>1. UNCHANGED <<phase, clientVars>> BY <1>8 DEF Download
  <2>2. CASE UNCHANGED <<storeVars, announced, skipped, refused>>
    BY <1>2, <2>1, <2>2, AnnouncedKept DEF storeVars
  <2>3. ASSUME NEW ok \in BOOLEAN, Save(n, saved, ok)
        PROVE  DOMAIN index' \in {DOMAIN index, DOMAIN index \cup {n}}
    BY <2>3 DEF Save, Put
  <2>4. CASE Save(n, saved, TRUE) /\ Announce({n})
    BY <1>2, <2>1, <2>3, <2>4, AnnouncedKept DEF Announce
  <2>5. CASE /\ Save(n, saved, FALSE)
             /\ skipped' = skipped \cup ({n} \cap DOMAIN index')
             /\ UNCHANGED <<announced, refused>>
    BY <1>2, <2>1, <2>3, <2>5, AnnouncedKept
  <2> QED BY <1>8, <2>2, <2>4, <2>5 DEF Download
<1>9. ASSUME NEW c \in Clients, NEW p \in Paths, PostSeed(c, p) PROVE SeedsAnnounced'
  <2> DEFINE n == NarOf[p]
             r == [kind |-> "seed", path |-> p, nar |-> n]
  <2>1. UNCHANGED <<phase, announced, refused>> /\ pc[c] = "idle" BY <1>9 DEF PostSeed
  <2>2. ASSUME NEW ok \in BOOLEAN, seed_store_path(p, ok)
        PROVE  DOMAIN index' \in {DOMAIN index, DOMAIN index \cup {n}}
    BY <2>2 DEF seed_store_path, Save, Put, storeVars
  <2>3. CASE /\ seed_store_path(p, TRUE)
             /\ pc' = [pc EXCEPT ![c] = "info"]
             /\ req' = [req EXCEPT ![c] = r]
             /\ UNCHANGED skipped
    <3>1. pc'[c] = "info" /\ req'[c].nar = n BY <1>1, <2>3 DEF RequestTypes
    <3>2. \A d \in Clients : d # c => pc'[d] = pc[d] /\ req'[d] = req[d]
      BY <1>1, <2>3 DEF RequestTypes
    <3>3. n \in AboutTo' BY <3>1 DEF AboutTo
    <3>4. AboutTo \subseteq AboutTo' BY <2>1, <3>2 DEF AboutTo
    <3> QED BY <2>1, <2>2, <2>3, <3>3, <3>4, AnnouncedKept
  <2>4. CASE /\ seed_store_path(p, FALSE)
             /\ skipped' = skipped \cup ((DOMAIN index' \ DOMAIN index) \cap {n})
             /\ UNCHANGED <<pc, req>>
    <3>1. AboutTo' = AboutTo BY <2>4 DEF AboutTo
    <3> QED BY <2>1, <2>2, <2>4, <3>1, AnnouncedKept
  <2> QED BY <1>9, <2>3, <2>4 DEF PostSeed
<1>10. ASSUME NEW c \in Clients, NEW n \in Nars, DeleteSeed(c, n) PROVE SeedsAnnounced'
  <2>1. /\ UNCHANGED <<phase, announced>> /\ pc[c] = "idle"
        /\ skipped' = skipped \ {n} /\ refused' = refused \ {n}
    BY <1>10 DEF DeleteSeed
  <2>2. DOMAIN index' \subseteq DOMAIN index \ {n}
    BY <1>10 DEF DeleteSeed, remove_seed, has_nar, Drop, storeVars
  <2>3. \A d \in Clients : d # c => pc'[d] = pc[d] /\ req'[d] = req[d]
    BY <1>1, <1>10 DEF DeleteSeed, RequestTypes
  <2>4. AboutTo \subseteq AboutTo' BY <2>1, <2>3 DEF AboutTo
  <2> QED BY <2>1, <2>2, <2>4, AnnouncedKept
<1>11. ASSUME NEW c \in Clients, SeedInfo(c) \/ ClientGone(c) PROVE SeedsAnnounced'
  <2>1. UNCHANGED <<phase, index>> BY <1>11 DEF SeedInfo, ClientGone, storeVars
  <2>2. \A d \in Clients : d # c => pc'[d] = pc[d] /\ req'[d] = req[d]
    BY <1>1, <1>11 DEF SeedInfo, ClientGone, Finish, RequestTypes
  <2>3. AboutTo \subseteq AboutTo' \cup {req[c].nar} BY <2>2 DEF AboutTo
  <2>4. CASE Announce({req[c].nar}) BY <2>1, <2>3, <2>4, AnnouncedKept DEF Announce
  <2>5. CASE ~has_nar(req[c].nar) /\ UNCHANGED <<announced, skipped, refused>>
    BY <2>1, <2>3, <2>5, AnnouncedKept DEF has_nar
  <2>6. CASE /\ skipped' = skipped \cup (({req[c].nar} \cap DOMAIN index) \ announced)
             /\ UNCHANGED <<announced, refused>>
    BY <2>1, <2>3, <2>6, AnnouncedKept
  <2> QED BY <1>11, <2>4, <2>5, <2>6 DEF SeedInfo, ClientGone
<1>12. ASSUME NEW c \in Clients, ReadConfig(c) \/ TruncateConfig(c) \/ WriteConfig(c)
       PROVE  SeedsAnnounced'
  <2>1. UNCHANGED <<phase, index, announced, skipped, refused>> /\ pc[c] # "info"
    BY <1>12 DEF ReadConfig, TruncateConfig, WriteConfig, storeVars
  <2>2. \A d \in Clients : d # c => pc'[d] = pc[d] /\ req'[d] = req[d]
    BY <1>1, <1>12
    DEF ReadConfig, TruncateConfig, WriteConfig, ConfigFails, Succeed, Finish, RequestTypes
  <2>3. AboutTo \subseteq AboutTo' BY <2>1, <2>2 DEF AboutTo
  <2> QED BY <2>1, <2>3, AnnouncedKept
<1>13. CASE UNCHANGED vars
  BY <1>2, <1>13, AnnouncedKept DEF vars, storeVars
<1> QED
  BY <1>3, <1>4, <1>5, <1>6, <1>7, <1>8, <1>9, <1>10, <1>11, <1>12, <1>13 DEF Next

(* What a running node serves it has announced, or a request is about to,  *)
(* except where save_with_source failed after it had indexed the NAR, the  *)
(* client of a seed request went away, or start_providing returned an      *)
(* error.                                                                  *)
THEOREM SeedsAreAnnounced == Spec => []SeedsAnnounced
<1>1. Init => SeedsAnnounced BY DEF Init, SeedsAnnounced
<1> QED BY <1>1, AInvAlways, AnnouncedStep, PTL DEF Spec

-----------------------------------------------------------------------------
(* Types. *)

(* The store: what is indexed, what is on disk and what was not saved.     *)
StoreTyped ==
  /\ index \in Entries /\ meta \in Entries
  /\ file \in [Nars -> {"none", "damaged", "nar"}]
  /\ unsaved \subseteq Nars /\ faults \in 0 .. MaxFaults

(* The requests: one that is at work is about a store path and its NAR.    *)
RequestsTyped ==
  /\ pc \in [Clients -> {"idle", "info", "read", "truncate", "write"}]
  /\ req \in [Clients -> Request]
  /\ buffer \in [Clients -> Config]
  /\ \A c \in Clients : pc[c] # "idle" =>
       req[c].kind \in {"seed", "delete"} /\ req[c].path \in Paths /\ req[c].nar \in Nars

(* Everything else.                                                        *)
RestTyped ==
  /\ phase \in {"down", "seeding", "up"} /\ todo \subseteq Paths /\ config \in Config
  /\ announced \subseteq Nars /\ skipped \subseteq Nars /\ refused \subseteq Nars /\ overtaken \subseteq Clients
  /\ acked \subseteq Paths /\ deleted \subseteq Nars
  /\ requests \in 0 .. MaxRequests /\ downloads \in 0 .. MaxDownloads
  /\ crashes \in 0 .. MaxCrashes

TInv == StoreTyped /\ RequestsTyped /\ RestTyped

(* Entries are functions on sets of NARs.                                  *)
LEMMA EntriesAre ==
  ASSUME NEW f
  PROVE  f \in Entries <=> DOMAIN f \subseteq Nars /\ f \in [DOMAIN f -> Entry]
BY DEF Entries

(* An entry more is a set of entries.                                      *)
LEMMA PutTyped ==
  ASSUME NEW f \in Entries, NEW n \in Nars, NEW e \in Entry
  PROVE  Put(f, n, e) \in Entries
<1>1. DOMAIN f \subseteq Nars /\ f \in [DOMAIN f -> Entry] BY EntriesAre
<1> DEFINE D == DOMAIN f \cup {n}
           g == [k \in D |-> IF k = n THEN e ELSE f[k]]
<1>2. D \subseteq Nars /\ g \in [D -> Entry] /\ DOMAIN g = D BY <1>1
<1>3. g \in Entries BY <1>2, EntriesAre
<1> QED BY <1>3 DEF Put

(* One less is.                                                            *)
LEMMA DropTyped ==
  ASSUME NEW f \in Entries, NEW n
  PROVE  Drop(f, n) \in Entries
<1>1. DOMAIN f \subseteq Nars /\ f \in [DOMAIN f -> Entry] BY EntriesAre
<1> DEFINE D == DOMAIN f \ {n}
           g == [k \in D |-> f[k]]
<1>2. D \subseteq Nars /\ g \in [D -> Entry] /\ DOMAIN g = D BY <1>1
<1>3. g \in Entries BY <1>2, EntriesAre
<1> QED BY <1>3 DEF Drop

(* Faults are counted.                                                     *)
LEMMA FaultTyped ==
  ASSUME faults \in 0 .. MaxFaults, NoFault \/ Fault
  PROVE  faults' \in 0 .. MaxFaults
BY SeedsAssumption DEF NoFault, Fault

(* A metadata write.                                                       *)
LEMMA WriteMetadataTyped ==
  ASSUME StoreTyped, NEW n \in Nars, NEW e \in Entry, WriteMetadata(n, e)
  PROVE  meta' \in Entries /\ unsaved' \subseteq Nars /\ faults' \in 0 .. MaxFaults
<1>1. meta \in Entries /\ unsaved \subseteq Nars /\ faults \in 0 .. MaxFaults BY DEF StoreTyped
<1>2. Put(meta, n, e) \in Entries /\ Drop(meta, n) \in Entries BY <1>1, PutTyped, DropTyped
<1>3. meta' \in {meta, Put(meta, n, e), Drop(meta, n)} BY DEF WriteMetadata
<1>4. unsaved' \subseteq Nars BY <1>1 DEF WriteMetadata
<1>5. NoFault \/ Fault BY DEF WriteMetadata
<1> QED BY <1>1, <1>2, <1>3, <1>4, <1>5, FaultTyped

(* A save.                                                                 *)
LEMMA SaveTyped ==
  ASSUME StoreTyped, NEW n \in Nars, NEW e \in Entry, NEW ok \in BOOLEAN, Save(n, e, ok)
  PROVE  StoreTyped'
<1>1. CASE /\ Fault /\ file' \in {file, [file EXCEPT ![n] = "damaged"]}
           /\ UNCHANGED <<index, meta, unsaved>>
  <2>1. faults' \in 0 .. MaxFaults BY <1>1, FaultTyped DEF StoreTyped
  <2>2. file' \in [Nars -> {"none", "damaged", "nar"}] BY <1>1 DEF StoreTyped
  <2> QED BY <1>1, <2>1, <2>2 DEF StoreTyped
<1>2. CASE file' = [file EXCEPT ![n] = "nar"] /\ index' = Put(index, n, e) /\ WriteMetadata(n, e)
  <2>1. meta' \in Entries /\ unsaved' \subseteq Nars /\ faults' \in 0 .. MaxFaults
    BY <1>2, WriteMetadataTyped
  <2>2. file' \in [Nars -> {"none", "damaged", "nar"}] BY <1>2 DEF StoreTyped
  <2>3. index' \in Entries BY <1>2, PutTyped DEF StoreTyped
  <2> QED BY <2>1, <2>2, <2>3 DEF StoreTyped
<1> QED BY <1>1, <1>2 DEF Save

(* An entry that is written over.                                          *)
LEMMA RewriteTyped ==
  ASSUME StoreTyped, NEW n \in Nars, NEW e \in Entry, index' = Put(index, n, e),
         WriteMetadata(n, e), UNCHANGED file
  PROVE  StoreTyped'
<1>1. meta' \in Entries /\ unsaved' \subseteq Nars /\ faults' \in 0 .. MaxFaults
  BY WriteMetadataTyped
<1>2. index' \in Entries BY PutTyped DEF StoreTyped
<1> QED BY <1>1, <1>2 DEF StoreTyped

(* An entry of the index.                                                  *)
LEMMA IndexEntry ==
  ASSUME StoreTyped, NEW n \in DOMAIN index
  PROVE  n \in Nars /\ index[n].path \in Paths \cup {NoPath} /\ index[n].source \in Sources
<1>1. n \in Nars /\ index[n] \in Entry BY EntriesAre DEF StoreTyped
<1> QED BY <1>1 DEF Entry

(* seed_store_path.                                                        *)
LEMMA SeedStorePathTyped ==
  ASSUME StoreTyped, NEW p \in Paths, NEW ok \in BOOLEAN, seed_store_path(p, ok)
  PROVE  StoreTyped'
<1> DEFINE n == NarOf[p]
           fresh == [path |-> p, source |-> "manual"]
           again == [path |-> PathKept(n, p), source |-> "manual"]
<1>1. n \in Nars BY SeedsAssumption
<1>2. fresh \in Entry BY DEF Entry, Sources
<1>3. CASE Fault /\ UNCHANGED storeVars
  <2>1. faults' \in 0 .. MaxFaults BY <1>3, FaultTyped DEF StoreTyped
  <2> QED BY <1>3, <2>1 DEF StoreTyped, storeVars
<1>4. CASE MustSave(n) /\ Save(n, fresh, ok) BY <1>1, <1>2, <1>4, SaveTyped
<1>5. CASE ~MustSave(n) /\ index' = Put(index, n, again) /\ WriteMetadata(n, again) /\ UNCHANGED file
  <2>1. n \in DOMAIN index BY <1>5 DEF MustSave, has_nar
  <2>2. PathKept(n, p) \in Paths \cup {NoPath} BY <2>1, IndexEntry DEF PathKept
  <2>3. again \in Entry BY <2>2 DEF Entry, Sources
  <2> QED BY <1>1, <1>5, <2>3, RewriteTyped
<1> QED BY <1>3, <1>4, <1>5 DEF seed_store_path

(* remove_seed.                                                            *)
LEMMA RemoveTyped ==
  ASSUME StoreTyped, NEW n \in Nars, remove_seed(n)
  PROVE  StoreTyped'
<1>1. /\ index' = Drop(index, n) /\ unsaved' = unsaved \ {n} /\ (NoFault \/ Fault)
      /\ file' \in {file, [file EXCEPT ![n] = "none"]} /\ meta' \in {meta, Drop(meta, n)}
  BY DEF remove_seed
<1>2. Drop(index, n) \in Entries /\ Drop(meta, n) \in Entries BY DropTyped DEF StoreTyped
<1>3. faults' \in 0 .. MaxFaults BY <1>1, FaultTyped DEF StoreTyped
<1>4. file' \in [Nars -> {"none", "damaged", "nar"}] BY <1>1 DEF StoreTyped
<1> QED BY <1>1, <1>2, <1>3, <1>4 DEF StoreTyped

(* The scan.                                                               *)
LEMMA ScanTyped ==
  ASSUME StoreTyped, Scan
  PROVE  StoreTyped'
<1> DEFINE good == {n \in Nars : ScanAccepts(n)}
           bare == [path |-> NoPath, source |-> "cache"]
<1>1. PICK unread \in SUBSET good, blind \in SUBSET good :
        /\ index' = [n \in good \ unread |-> IF n \in blind THEN bare ELSE Restored(n)]
        /\ unsaved' = blind \ unread
  BY DEF Scan
<1>2. UNCHANGED <<file, meta>> /\ (NoFault \/ Fault) BY DEF Scan
<1>3. faults' \in 0 .. MaxFaults BY <1>2, FaultTyped DEF StoreTyped
<1>4. bare \in Entry BY DEF Entry, Sources
<1> HIDE DEF bare
<1>5. \A n : Restored(n) \in Entry
  <2>1. \A n \in DOMAIN meta : meta[n] \in Entry BY EntriesAre DEF StoreTyped
  <2> QED BY <1>4, <2>1 DEF Restored, bare
<1>6. index' \in [good \ unread -> Entry] BY <1>1, <1>4, <1>5
<1>7. DOMAIN index' = good \ unread BY <1>1
<1>8. index' \in Entries
  <2>1. good \ unread \subseteq Nars OBVIOUS
  <2> HIDE DEF good
  <2> QED BY <1>6, <1>7, <2>1, EntriesAre
<1> QED BY <1>1, <1>2, <1>3, <1>8 DEF StoreTyped

(* A request ends, with or without success.                                *)
LEMMA FinishTyped ==
  ASSUME RequestsTyped, RestTyped, NEW c \in Clients, pc[c] # "idle",
         (Finish(c) /\ UNCHANGED <<acked, deleted>>) \/ Succeed(c)
  PROVE  /\ RequestsTyped' /\ overtaken' \subseteq Clients
         /\ acked' \subseteq Paths /\ deleted' \subseteq Nars
<1>1. /\ pc' = [pc EXCEPT ![c] = "idle"] /\ req' = [req EXCEPT ![c] = NoRequest]
      /\ overtaken' = overtaken \ {c} /\ UNCHANGED buffer
  BY DEF Finish, Succeed
<1>2. NoRequest \in Request BY DEF Request, NoRequest
<1>3. req' \in [Clients -> Request] /\ \A d \in Clients : d # c => req'[d] = req[d]
  <2> HIDE DEF NoRequest
  <2> QED BY <1>1, <1>2 DEF RequestsTyped
<1>4. /\ pc' \in [Clients -> {"idle", "info", "read", "truncate", "write"}]
      /\ pc'[c] = "idle" /\ \A d \in Clients : d # c => pc'[d] = pc[d]
  BY <1>1 DEF RequestsTyped
<1>5. RequestsTyped' BY <1>1, <1>3, <1>4 DEF RequestsTyped
<1>6. req[c].path \in Paths /\ req[c].nar \in Nars BY DEF RequestsTyped
<1>7. acked' \subseteq Paths /\ deleted' \subseteq Nars BY <1>6 DEF Succeed, RestTyped
<1> QED BY <1>1, <1>5, <1>7 DEF RestTyped

(* A request goes on to the next of its steps.                             *)
LEMMA GoesOn ==
  ASSUME RequestsTyped, NEW c \in Clients, NEW s \in {"info", "read", "truncate", "write"},
         pc' = [pc EXCEPT ![c] = s], UNCHANGED req, pc[c] # "idle",
         buffer' \in [Clients -> Config]
  PROVE  RequestsTyped'
<1>1. /\ pc' \in [Clients -> {"idle", "info", "read", "truncate", "write"}]
      /\ \A d \in Clients : d # c => pc'[d] = pc[d]
  BY DEF RequestsTyped
<1> QED BY <1>1 DEF RequestsTyped

(* A request starts.                                                       *)
LEMMA StartsTyped ==
  ASSUME RequestsTyped, NEW c \in Clients, NEW s \in {"info", "read"},
         NEW k \in {"seed", "delete"}, NEW p \in Paths, NEW n \in Nars,
         pc' = [pc EXCEPT ![c] = s],
         req' = [req EXCEPT ![c] = [kind |-> k, path |-> p, nar |-> n]], UNCHANGED buffer
  PROVE  RequestsTyped'
<1> DEFINE r == [kind |-> k, path |-> p, nar |-> n]
<1>1. r \in Request /\ r.kind = k /\ r.path = p /\ r.nar = n BY DEF Request
<1>2. req' = [req EXCEPT ![c] = r] OBVIOUS
<1> HIDE DEF r
<1>3. req' \in [Clients -> Request] /\ req'[c] = r /\ \A d \in Clients : d # c => req'[d] = req[d]
  BY <1>1, <1>2 DEF RequestsTyped
<1>4. /\ pc' \in [Clients -> {"idle", "info", "read", "truncate", "write"}]
      /\ \A d \in Clients : d # c => pc'[d] = pc[d]
  BY DEF RequestsTyped
<1>5. req'[c].kind \in {"seed", "delete"} /\ req'[c].path \in Paths /\ req'[c].nar \in Nars
  BY <1>1, <1>3
<1> QED BY <1>3, <1>4, <1>5 DEF RequestsTyped

(* The start-up, and a crash.                                              *)
LEMMA StartTyped ==
  ASSUME TInv, Scan \/ (\E p \in Paths : SeedAtStart(p)) \/ StartDone \/ Crash
  PROVE  TInv'
<1> USE DEF TInv
<1>1. DOMAIN index \subseteq Nars BY EntriesAre DEF StoreTyped
<1>2. CASE Scan
  <2>1. StoreTyped' BY <1>2, ScanTyped
  <2>2. RequestsTyped' BY <1>2 DEF Scan, RequestsTyped, clientVars
  <2>3. config.seed_paths \subseteq Paths BY DEF RestTyped, Config
  <2>4. todo' \in {config.seed_paths, {}} /\ phase' = "seeding" BY <1>2 DEF Scan
  <2>5. RestTyped' BY <1>2, <2>3, <2>4 DEF Scan, RestTyped, ghostVars
  <2> QED BY <2>1, <2>2, <2>5
<1>3. ASSUME NEW p \in Paths, SeedAtStart(p) PROVE TInv'
  <2>1. PICK ok \in BOOLEAN : seed_store_path(p, ok) BY <1>3 DEF SeedAtStart
  <2>2. StoreTyped' BY <2>1, SeedStorePathTyped
  <2>3. RequestsTyped' /\ RestTyped'
    BY <1>3 DEF SeedAtStart, RequestsTyped, RestTyped, clientVars, ghostVars
  <2> QED BY <2>2, <2>3
<1>4. CASE StartDone
  <2>1. StoreTyped' BY <1>4 DEF StartDone, StoreTyped, storeVars
  <2>2. RequestsTyped' BY <1>4 DEF StartDone, RequestsTyped, clientVars
  <2>3. RestTyped'
    BY <1>1, <1>4 DEF StartDone, Announce, AnnouncedAtStart, RestTyped, ghostVars
  <2> QED BY <2>1, <2>2, <2>3
<1>5. CASE Crash
  <2> DEFINE none == [n \in {} |-> NoPath]
  <2>1. index' = none /\ unsaved' = {} /\ UNCHANGED <<meta, file, faults>> BY <1>5 DEF Crash
  <2>2. none \in Entries
    <3>1. DOMAIN none = {} /\ none \in [{} -> Entry] OBVIOUS
    <3> QED BY <3>1, EntriesAre
  <2>3. StoreTyped' BY <2>1, <2>2 DEF StoreTyped
  <2>4. NoRequest \in Request /\ EmptyConfig \in Config
    BY DEF Request, NoRequest, Config, EmptyConfig
  <2>5. RequestsTyped'
    <3> HIDE DEF NoRequest, EmptyConfig
    <3> QED BY <1>5, <2>4 DEF Crash, RequestsTyped
  <2>6. crashes' \in 0 .. MaxCrashes BY <1>5, SeedsAssumption DEF Crash, RestTyped
  <2>7. RestTyped' BY <1>5, <2>6 DEF Crash, RestTyped
  <2> QED BY <2>3, <2>5, <2>7
<1> QED BY <1>2, <1>3, <1>4, <1>5

(* A running node.                                                         *)
LEMMA RunningTyped ==
  ASSUME TInv, \/ \E n \in Nars, p \in Paths : Annotate(n, p)
               \/ PeerConnected \/ HealthCheck \/ (\E p \in Paths : Download(p))
               \/ UNCHANGED vars
  PROVE  TInv'
<1> USE DEF TInv
<1>1. DOMAIN index \subseteq Nars BY EntriesAre DEF StoreTyped
<1>2. ASSUME NEW n \in Nars, NEW p \in Paths, Annotate(n, p) PROVE TInv'
  <2> DEFINE e == [path |-> p, source |-> index[n].source]
  <2>1. /\ n \in DOMAIN index /\ index' = Put(index, n, e) /\ WriteMetadata(n, e)
        /\ UNCHANGED file
    BY <1>2 DEF Annotate, annotate_seed_store_path, has_nar
  <2>2. e \in Entry BY <2>1, IndexEntry DEF Entry
  <2>3. StoreTyped' BY <2>1, <2>2, RewriteTyped
  <2>4. RequestsTyped' /\ RestTyped'
    BY <1>2 DEF Annotate, RequestsTyped, RestTyped, clientVars, ghostVars
  <2> QED BY <2>3, <2>4
<1>3. CASE PeerConnected \/ HealthCheck
  <2>1. StoreTyped' BY <1>3 DEF PeerConnected, HealthCheck, StoreTyped, storeVars
  <2>2. RequestsTyped' BY <1>3 DEF PeerConnected, HealthCheck, RequestsTyped, clientVars
  <2>3. RestTyped'
    BY <1>1, <1>3 DEF PeerConnected, HealthCheck, Announce, RestTyped, ghostVars
  <2> QED BY <2>1, <2>2, <2>3
<1>4. ASSUME NEW p \in Paths, Download(p) PROVE TInv'
  <2> DEFINE n == NarOf[p]
             saved == [path |-> p, source |-> "downloaded"]
  <2>1. n \in Nars BY SeedsAssumption
  <2>2. saved \in Entry BY DEF Entry, Sources
  <2>3. \/ NoFault /\ UNCHANGED storeVars
        \/ \E ok \in BOOLEAN : Save(n, saved, ok)
    BY <1>4 DEF Download
  <2>4. StoreTyped'
    <3>1. CASE NoFault /\ UNCHANGED storeVars
      BY <3>1 DEF NoFault, StoreTyped, storeVars
    <3>2. CASE \E ok \in BOOLEAN : Save(n, saved, ok) BY <2>1, <2>2, <3>2, SaveTyped
    <3> QED BY <2>3, <3>1, <3>2
  <2>5. RequestsTyped' BY <1>4 DEF Download, RequestsTyped, clientVars
  <2>6. announced' \subseteq Nars /\ skipped' \subseteq Nars /\ refused' \subseteq Nars
    BY <1>4, <2>1 DEF Download, Announce, RestTyped
  <2>7. downloads' \in 0 .. MaxDownloads BY <1>4, SeedsAssumption DEF Download, RestTyped
  <2>8. RestTyped' BY <1>4, <2>6, <2>7 DEF Download, Pending, RestTyped
  <2> QED BY <2>4, <2>5, <2>8
<1>5. CASE UNCHANGED vars
  <2>1. StoreTyped' BY <1>5 DEF vars, StoreTyped, storeVars
  <2>2. RequestsTyped' BY <1>5 DEF vars, RequestsTyped, clientVars
  <2>3. RestTyped' BY <1>5 DEF vars, RestTyped, ghostVars
  <2> QED BY <2>1, <2>2, <2>3
<1> QED BY <1>2, <1>3, <1>4, <1>5

(* Requests that start.                                                    *)
LEMMA RequestTyped ==
  ASSUME TInv, NEW c \in Clients,
         (\E p \in Paths : PostSeed(c, p)) \/ (\E n \in Nars : DeleteSeed(c, n))
  PROVE  TInv'
<1> USE DEF TInv
<1>1. requests' \in 0 .. MaxRequests
  <2>1. requests < MaxRequests /\ requests' = requests + 1 BY DEF PostSeed, DeleteSeed
  <2> QED BY <2>1, SeedsAssumption DEF RestTyped
<1>2. ASSUME NEW p \in Paths, PostSeed(c, p) PROVE TInv'
  <2> DEFINE n == NarOf[p]
  <2>1. n \in Nars BY SeedsAssumption
  <2>2. \E ok \in BOOLEAN : seed_store_path(p, ok) BY <1>2 DEF PostSeed
  <2>3. StoreTyped' BY <2>2, SeedStorePathTyped
  <2>4. RequestsTyped'
    <3>1. CASE /\ pc' = [pc EXCEPT ![c] = "info"]
               /\ req' = [req EXCEPT ![c] = [kind |-> "seed", path |-> p, nar |-> n]]
      <4>1. UNCHANGED buffer BY <1>2 DEF PostSeed
      <4> QED BY <2>1, <3>1, <4>1, StartsTyped
    <3>2. CASE UNCHANGED <<pc, req>> BY <1>2, <3>2 DEF PostSeed, RequestsTyped
    <3> QED BY <1>2, <3>1, <3>2 DEF PostSeed
  <2>5. RestTyped' BY <1>1, <1>2, <2>1 DEF PostSeed, Pending, RestTyped
  <2> QED BY <2>3, <2>4, <2>5
<1>3. ASSUME NEW n \in Nars, DeleteSeed(c, n) PROVE TInv'
  <2>1. StoreTyped'
    <3>1. CASE has_nar(n)
      <4>1. remove_seed(n) BY <1>3, <3>1 DEF DeleteSeed
      <4> QED BY <4>1, RemoveTyped
    <3>2. CASE ~has_nar(n)
      BY <1>3, <3>2 DEF DeleteSeed, NoFault, StoreTyped, storeVars
    <3> QED BY <3>1, <3>2
  <2>2. UNCHANGED buffer BY <1>3 DEF DeleteSeed
  <2>3. RequestsTyped'
    <3>1. CASE has_nar(n) /\ index[n].path # NoPath
      <4> DEFINE p == index[n].path
      <4>1. p \in Paths BY <3>1, IndexEntry DEF has_nar
      <4>2. /\ pc' = [pc EXCEPT ![c] = "read"]
            /\ req' = [req EXCEPT ![c] = [kind |-> "delete", path |-> p, nar |-> n]]
        BY <1>3, <3>1 DEF DeleteSeed
      <4> HIDE DEF p
      <4> QED BY <2>2, <4>1, <4>2, StartsTyped
    <3>2. CASE ~(has_nar(n) /\ index[n].path # NoPath)
      <4>1. UNCHANGED <<pc, req>> BY <1>3, <3>2 DEF DeleteSeed
      <4> QED BY <2>2, <4>1 DEF RequestsTyped
    <3> QED BY <3>1, <3>2
  <2>4. deleted' \in {deleted, deleted \cup {n}} BY <1>3 DEF DeleteSeed
  <2>5. RestTyped' BY <1>1, <1>3, <2>4 DEF DeleteSeed, Pending, RestTyped
  <2> QED BY <2>1, <2>3, <2>5
<1> QED BY <1>2, <1>3

(* Requests that go on, or end.                                            *)
LEMMA RequestStepTyped ==
  ASSUME TInv, NEW c \in Clients,
         SeedInfo(c) \/ ClientGone(c) \/ ReadConfig(c) \/ TruncateConfig(c) \/ WriteConfig(c)
  PROVE  TInv'
<1> USE DEF TInv
<1>1. /\ pc[c] # "idle" /\ (NoFault \/ Fault) /\ UNCHANGED <<phase, todo, requests, downloads, crashes>>
      /\ UNCHANGED storeVars
  BY DEF SeedInfo, ClientGone, ReadConfig, TruncateConfig, WriteConfig, ConfigFails, NoFault
<1>2. StoreTyped'
  <2>1. faults' \in 0 .. MaxFaults BY <1>1, FaultTyped DEF StoreTyped
  <2> QED BY <1>1, <2>1 DEF StoreTyped, storeVars
<1>3. req[c].path \in Paths /\ req[c].nar \in Nars BY <1>1 DEF RequestsTyped
<1>4. EmptyConfig \in Config BY DEF Config, EmptyConfig
<1>5. announced' \subseteq Nars /\ skipped' \subseteq Nars /\ refused' \subseteq Nars
  BY <1>3 DEF SeedInfo, ClientGone, ReadConfig, TruncateConfig, WriteConfig, Announce, RestTyped
<1>6. config' \in Config
  <2>1. buffer[c] \in Config BY DEF RequestsTyped
  <2>2. config' \in {config, EmptyConfig, buffer[c]}
    BY DEF SeedInfo, ClientGone, ReadConfig, TruncateConfig, WriteConfig
  <2> HIDE DEF EmptyConfig, Config
  <2> QED BY <1>4, <2>1, <2>2 DEF RestTyped
<1>7. ASSUME (Finish(c) /\ UNCHANGED <<acked, deleted>>) \/ Succeed(c) PROVE TInv'
  <2>1. /\ RequestsTyped' /\ overtaken' \subseteq Clients
        /\ acked' \subseteq Paths /\ deleted' \subseteq Nars
    BY <1>1, <1>7, FinishTyped
  <2>2. RestTyped' BY <1>1, <1>5, <1>6, <2>1 DEF RestTyped
  <2> QED BY <1>2, <2>1, <2>2
<1>8. ASSUME NEW s \in {"info", "read", "truncate", "write"},
             pc' = [pc EXCEPT ![c] = s], UNCHANGED <<req, overtaken, acked, deleted>>,
             buffer' \in [Clients -> Config]
      PROVE  TInv'
  <2>1. RequestsTyped' BY <1>1, <1>8, GoesOn
  <2>2. RestTyped' BY <1>1, <1>5, <1>6, <1>8 DEF RestTyped
  <2> QED BY <1>2, <2>1, <2>2
<1>9. buffer \in [Clients -> Config] BY DEF RequestsTyped
<1>10. CASE SeedInfo(c)
  <2>1. CASE has_nar(req[c].nar)
    <3>1. pc' = [pc EXCEPT ![c] = "read"] /\ UNCHANGED <<req, buffer, overtaken, acked, deleted>>
      BY <1>10, <2>1 DEF SeedInfo
    <3> QED BY <1>8, <1>9, <3>1
  <2>2. CASE ~has_nar(req[c].nar) BY <1>7, <1>10, <2>2 DEF SeedInfo
  <2> QED BY <2>1, <2>2
<1>11. CASE ClientGone(c) BY <1>7, <1>11 DEF ClientGone
<1>12. CASE ReadConfig(c)
  <2>1. PICK readable \in BOOLEAN :
          LET content == IF readable THEN config ELSE EmptyConfig IN
          \/ /\ buffer' = [buffer EXCEPT ![c] = IF req[c].kind = "seed"
                                                  THEN Persisted(content, req[c].path)
                                                  ELSE Removed(content, req[c].path)]
             /\ pc' = [pc EXCEPT ![c] = "truncate"]
             /\ UNCHANGED <<req, ghostVars>>
          \/ Succeed(c)
    BY <1>12 DEF ReadConfig
  <2> DEFINE content == IF readable THEN config ELSE EmptyConfig
             b == IF req[c].kind = "seed" THEN Persisted(content, req[c].path)
                                         ELSE Removed(content, req[c].path)
  <2>2. content \in Config BY <1>4 DEF RestTyped
  <2> HIDE DEF content
  <2>3. b \in Config BY <1>3, <2>2 DEF Persisted, Removed, Config
  <2>4. CASE buffer' = [buffer EXCEPT ![c] = b] /\ pc' = [pc EXCEPT ![c] = "truncate"]
             /\ UNCHANGED <<req, ghostVars>>
    <3> HIDE DEF b
    <3>1. buffer' \in [Clients -> Config] BY <1>9, <2>3, <2>4
    <3> QED BY <1>8, <2>4, <3>1 DEF ghostVars
  <2>5. CASE Succeed(c) BY <1>7, <2>5
  <2> QED BY <2>1, <2>4, <2>5 DEF content
<1>13. CASE TruncateConfig(c)
  <2>1. CASE pc' = [pc EXCEPT ![c] = "write"] /\ UNCHANGED <<req, buffer, ghostVars>>
    BY <1>8, <1>9, <2>1 DEF ghostVars
  <2>2. CASE ConfigFails(c) BY <1>7, <2>2 DEF ConfigFails
  <2> QED BY <1>13, <2>1, <2>2 DEF TruncateConfig
<1>14. CASE WriteConfig(c) BY <1>7, <1>14 DEF WriteConfig, ConfigFails
<1> QED BY <1>10, <1>11, <1>12, <1>13, <1>14

(* Every variable of the store, of the configuration and of the requests   *)
(* keeps its type: entries name a store path or none, a request at work    *)
(* has a store path and its NAR, and what was acknowledged is a store path *)
(* (NarStore, api_seed, api_seed_delete).                                  *)
THEOREM TypesKept == Spec => []TypeOK
<1>1. Init => TInv
  <2> SUFFICES ASSUME Init PROVE TInv OBVIOUS
  <2> DEFINE none == [n \in {} |-> NoPath]
  <2>1. none \in Entries
    <3>1. DOMAIN none = {} /\ none \in [{} -> Entry] OBVIOUS
    <3> QED BY <3>1, EntriesAre
  <2>2. StoreTyped BY <2>1, SeedsAssumption DEF Init, StoreTyped
  <2>3. NoRequest \in Request /\ EmptyConfig \in Config
    BY DEF Request, NoRequest, Config, EmptyConfig
  <2>4. RequestsTyped BY <2>3 DEF Init, RequestsTyped
  <2>5. RestTyped BY SeedsAssumption DEF Init, RestTyped
  <2> QED BY <2>2, <2>4, <2>5 DEF TInv
<1>2. TInv /\ [Next]_vars => TInv'
  BY StartTyped, RunningTyped, RequestTyped, RequestStepTyped DEF Next
<1>3. TInv => TypeOK BY DEF TInv, StoreTyped, RequestsTyped, RestTyped, TypeOK
<1> QED BY <1>1, <1>2, <1>3, PTL DEF Spec
=============================================================================
