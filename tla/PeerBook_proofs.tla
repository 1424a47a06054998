--------------------------- MODULE PeerBook_proofs ---------------------------
(* Theorems about PeerBook, for every set of processes and contacts, every *)
(* limit of the store and every bound on the clock, the events, the starts *)
(* and the changes of the surroundings.                                    *)
EXTENDS PeerBook, Lists_proofs, FiniteSetTheorems, TLAPS

(***************************************************************************)
(* The list of entries                                                     *)
(***************************************************************************)

\* A list that names no contact twice and has the one seen last first.
InOrder(s) ==
  \A i, j \in DOMAIN s : i < j =>
    s[i].contact # s[j].contact /\ s[i].last_seen >= s[j].last_seen

\* The contacts of a list are contacts.
LEMMA KeptAreContacts ==
  ASSUME NEW s \in Seq(Entry)
  PROVE  KeptIn(s) \subseteq Contacts
<1>1. \A e \in Entry : e.contact \in Contacts
  BY DEF Entry
<1>2. \A i \in DOMAIN s : s[i] \in Entry
  OBVIOUS
<1> QED
  BY <1>1, <1>2 DEF KeptIn

\* record_address has the contact once, at the time it was seen, and leaves the others alone.
LEMMA RenewedKeeps ==
  ASSUME now \in 0 .. MaxTime, NEW s \in Seq(Entry), NEW c \in Contacts
  PROVE  /\ Renewed(s, c) \in Seq(Entry)
         /\ KeptIn(Renewed(s, c)) = KeptIn(s) \cup {c}
         /\ \A i \in DOMAIN s : /\ i \in DOMAIN Renewed(s, c)
                                /\ Renewed(s, c)[i].contact = s[i].contact
                                /\ s[i].contact # c => Renewed(s, c)[i] = s[i]
                                /\ s[i].contact = c => Renewed(s, c)[i].last_seen = now
         /\ c \in KeptIn(s) => Len(Renewed(s, c)) = Len(s)
<1> DEFINE e == [contact |-> c, last_seen |-> now]
           r == [i \in DOMAIN s |-> IF s[i].contact = c THEN e ELSE s[i]]
<1>1. e \in Entry /\ e.contact = c /\ e.last_seen = now
  BY DEF Entry
<1> HIDE DEF e
<1>2. CASE c \in KeptIn(s)
  <2>1. Renewed(s, c) = r
    BY <1>2 DEF Renewed, e
  <2>2. r \in Seq(Entry) /\ Len(r) = Len(s) /\ DOMAIN r = DOMAIN s
    BY <1>1
  <2>3. \A i \in DOMAIN s : /\ r[i].contact = s[i].contact
                            /\ s[i].contact # c => r[i] = s[i]
                            /\ s[i].contact = c => r[i].last_seen = now
    BY <1>1
  <2>4. KeptIn(r) = KeptIn(s) \cup {c}
    BY <1>2, <2>2, <2>3 DEF KeptIn
  <2> QED
    BY <2>1, <2>2, <2>3, <2>4
<1>3. CASE c \notin KeptIn(s)
  <2>1. Renewed(s, c) = Append(s, e)
    BY <1>3 DEF Renewed, e
  <2>2. /\ Append(s, e) \in Seq(Entry) /\ Len(Append(s, e)) = Len(s) + 1
        /\ \A i \in DOMAIN s : i \in DOMAIN Append(s, e) /\ Append(s, e)[i] = s[i]
        /\ Append(s, e)[Len(s) + 1] = e
        /\ DOMAIN Append(s, e) = DOMAIN s \cup {Len(s) + 1}
    BY <1>1
  <2>3. KeptIn(Append(s, e)) = KeptIn(s) \cup {c}
    BY <1>1, <2>2 DEF KeptIn
  <2>4. \A i \in DOMAIN s : s[i].contact # c
    BY <1>3 DEF KeptIn
  <2> QED
    BY <1>3, <2>1, <2>2, <2>3, <2>4
<1> QED
  BY <1>2, <1>3

\* remove_address leaves the other entries where they are.
LEMMA WithoutKeeps ==
  ASSUME NEW s \in Seq(Entry), NEW c, NEW t \in Without(s, c)
  PROVE  /\ t \in Seq(Entry) /\ Len(t) <= Len(s)
         /\ KeptIn(t) \subseteq KeptIn(s) \ {c}
         /\ InOrder(s) => InOrder(t)
<1> DEFINE K == {i \in DOMAIN s : s[i].contact # c}
<1>1. K \in SUBSET DOMAIN s /\ t \in Retained(s, K)
  BY DEF Without
<1> HIDE DEF K
<1>2. t \in Seq(Entry) /\ Len(t) <= Len(s)
  BY <1>1, RetainedList
<1>3. PICK f \in [DOMAIN t -> K] : /\ \A i \in DOMAIN t : t[i] = s[f[i]]
                                   /\ \A i, j \in DOMAIN t : i < j => f[i] < f[j]
  BY <1>1, RetainedList
<1> USE DEF K
<1>4. KeptIn(t) \subseteq KeptIn(s) \ {c}
  BY <1>3 DEF KeptIn
<1>5. ASSUME InOrder(s) PROVE InOrder(t)
  <2>1. \A i \in DOMAIN t : f[i] \in DOMAIN s
    OBVIOUS
  <2> QED
    BY <1>3, <1>5, <2>1 DEF InOrder
<1> QED
  BY <1>2, <1>4, <1>5

\* What prune leaves: no more than the limit, usable, in order, and of what it had.  An
\* entry that need not go is there unless the list is full, and then of others as new.
LEMMA PruneKeeps ==
  ASSUME now \in Nat, MaxAge \in Nat,
         NEW s \in Seq(Entry), NEW n \in Nat, NEW t \in Prune(s, n)
  PROVE  /\ t \in Seq(Entry) /\ Len(t) <= n
         /\ \A c \in KeptIn(t) : c \in KeptIn(s) /\ IsPeerAddress(c)
         /\ InOrder(t)
         /\ \A k \in DOMAIN s :
              /\ s[k].last_seen + MaxAge >= now /\ IsPeerAddress(s[k].contact)
              /\ \A j \in DOMAIN s : j < k => s[j].contact # s[k].contact
              => \/ s[k].contact \in KeptIn(t)
                 \/ n < Len(s) /\ \A j \in DOMAIN t : t[j].last_seen >= s[k].last_seen
<1> DEFINE kept == {i \in DOMAIN s : s[i].last_seen + MaxAge >= now /\ IsPeerAddress(s[i].contact)}
           first == {i \in kept : \A j \in kept : j < i => s[j].contact # s[i].contact}
           m == Cardinality(first)
           l == IF n < m THEN n ELSE m
<1>1. PICK f \in Bijection(1 .. m, first) :
        /\ \A i, j \in DOMAIN f : i < j => Before(s, f[i], f[j])
        /\ LET u == [i \in DOMAIN f |-> s[f[i]]]
           IN t = SubSeq(u, 1, IF n < Len(u) THEN n ELSE Len(u))
  BY DEF Prune, Arranged
<1> DEFINE u == [i \in DOMAIN f |-> s[f[i]]]
<1>2. first \in SUBSET DOMAIN s
  OBVIOUS
<1>3. \A i \in first : /\ i \in DOMAIN s /\ IsPeerAddress(s[i].contact)
                       /\ \A j \in first : j < i => s[j].contact # s[i].contact
  OBVIOUS
<1>4. \A k \in DOMAIN s :
        /\ s[k].last_seen + MaxAge >= now /\ IsPeerAddress(s[k].contact)
        /\ \A j \in DOMAIN s : j < k => s[j].contact # s[k].contact
        => k \in first
  OBVIOUS
<1> HIDE DEF kept, first, m, u
<1>5. /\ m \in Nat /\ m <= Len(s) /\ DOMAIN f = 1 .. m
      /\ \A i \in DOMAIN f : f[i] \in first
      /\ \A i, j \in DOMAIN f : f[i] = f[j] => i = j
      /\ \A k \in first : \E i \in DOMAIN f : f[i] = k
      /\ u \in Seq(Entry) /\ Len(u) = m
  BY <1>2, Numbering DEF m, u
<1>6. \A i \in 1 .. m : u[i] = s[f[i]]
  BY <1>5 DEF u
<1>7. l \in Nat /\ l <= n /\ l <= m /\ (l = m \/ (l = n /\ n < m))
  BY <1>5
<1>8. t = SubSeq(u, 1, l)
  BY <1>1, <1>5 DEF u
<1> HIDE DEF l
<1>9. t \in Seq(Entry) /\ Len(t) = l /\ \A i \in 1 .. l : t[i] = s[f[i]]
  BY <1>5, <1>6, <1>7, <1>8
<1>10. \A c \in KeptIn(t) : c \in KeptIn(s) /\ IsPeerAddress(c)
  BY <1>5, <1>3, <1>7, <1>9 DEF KeptIn
<1>11. \A i \in DOMAIN s : s[i].last_seen \in Nat
  <2>1. \A e \in Entry : e.last_seen \in Nat
    BY PeerBookAssumption DEF Entry
  <2> QED
    BY <2>1
<1>12. \A i, j \in 1 .. m : i < j => /\ s[f[i]].last_seen >= s[f[j]].last_seen
                                     /\ s[f[i]].contact # s[f[j]].contact
  <2> SUFFICES ASSUME NEW i \in 1 .. m, NEW j \in 1 .. m, i < j
               PROVE  /\ s[f[i]].last_seen >= s[f[j]].last_seen
                      /\ s[f[i]].contact # s[f[j]].contact
    OBVIOUS
  <2>1. f[i] \in first /\ f[j] \in first /\ f[i] # f[j] /\ Before(s, f[i], f[j])
    BY <1>1, <1>5
  <2>2. f[i] \in DOMAIN s /\ f[j] \in DOMAIN s
    BY <2>1, <1>3
  <2>3. s[f[i]].contact # s[f[j]].contact
    BY <1>3, <2>1, <2>2
  <2>4. s[f[i]].last_seen >= s[f[j]].last_seen
    BY <1>11, <2>1, <2>2 DEF Before
  <2> QED
    BY <2>3, <2>4
<1>13. InOrder(t)
  BY <1>7, <1>5, <1>9, <1>12 DEF InOrder
<1>14. ASSUME NEW k \in DOMAIN s,
              s[k].last_seen + MaxAge >= now, IsPeerAddress(s[k].contact),
              \A j \in DOMAIN s : j < k => s[j].contact # s[k].contact
       PROVE  \/ s[k].contact \in KeptIn(t)
              \/ n < Len(s) /\ \A j \in DOMAIN t : t[j].last_seen >= s[k].last_seen
  <2>1. PICK r \in 1 .. m : f[r] = k
    BY <1>5, <1>4, <1>14
  <2>2. CASE r <= l
    BY <1>9, <2>1, <2>2, <1>7, <1>5 DEF KeptIn
  <2>3. CASE l < r
    <3>1. n < Len(s)
      BY <1>5, <1>7, <2>3
    <3>2. \A j \in 1 .. l : j \in 1 .. m /\ j < r
      BY <1>5, <1>7, <2>3
    <3>3. \A j \in 1 .. l : t[j].last_seen >= s[k].last_seen
      BY <1>9, <1>12, <2>1, <3>2
    <3> QED
      BY <1>9, <3>1, <3>3
  <2> QED
    BY <1>5, <1>7, <2>2, <2>3
<1> QED
  BY <1>7, <1>9, <1>10, <1>13, <1>14

(***************************************************************************)
(* Types                                                                   *)
(***************************************************************************)

\* The identities in use or on disk.
KeysUsed == ({keyfile} \cup {key[q] : q \in Procs}) \ {None}

\* There are no more of them than starts, so that a start always finds a new one.
KeyCount == Cardinality(KeysUsed) <= starts

\* The identity that load_or_generate_keypair generates is one, and nobody's.
LEMMA FreshKey ==
  ASSUME TypeOK, KeyCount, starts < MaxStarts
  PROVE  NewKey \in 1 .. MaxStarts /\ NewKey \notin KeysUsed
<1>1. MaxStarts \in Nat /\ starts \in Nat
  BY PeerBookAssumption DEF TypeOK
<1>2. IsFiniteSet(1 .. MaxStarts) /\ Cardinality(1 .. MaxStarts) = MaxStarts
  <2>1. 1 \in Int /\ MaxStarts \in Int
    BY <1>1
  <2>2. /\ IsFiniteSet(1 .. MaxStarts)
        /\ Cardinality(1 .. MaxStarts) = IF 1 > MaxStarts THEN 0 ELSE MaxStarts - 1 + 1
    BY <2>1, FS_Interval
  <2> QED
    BY <1>1, <2>2
<1>3. KeysUsed \subseteq 1 .. MaxStarts
  BY <1>1 DEF TypeOK, KeysUsed, None
<1>4. KeysUsed # 1 .. MaxStarts
  BY <1>1, <1>2 DEF KeyCount
<1>5. PICK k \in 1 .. MaxStarts : k \notin KeysUsed
  BY <1>3, <1>4
<1>6. k # keyfile /\ \A q \in Procs : k # key[q]
  BY <1>5 DEF KeysUsed, None
<1>7. /\ NewKey \in 1 .. MaxStarts
      /\ NewKey # keyfile /\ \A q \in Procs : NewKey # key[q]
  BY <1>6 DEF NewKey
<1> QED
  BY <1>7 DEF KeysUsed

\* The limit of a process is a number.
LEMMA LimitIsNat ==
  ASSUME TypeOK
  PROVE  \A q \in Procs : limit[q] \in Nat
<1>1. \A n \in Limits \cup {0} : n \in Nat
  BY PeerBookAssumption
<1>2. \A q \in Procs : limit[q] \in Limits \cup {0}
  BY DEF TypeOK
<1> QED
  BY <1>1, <1>2

\* Every step keeps the types, those of the entries too.
LEMMA TypeStep ==
  ASSUME TypeOK, KeyCount, [Next]_vars
  PROVE  TypeOK'
<1> USE PeerBookAssumption DEF TypeOK
<1>1. ASSUME NEW q \in Procs, Start(q) PROVE TypeOK'
  <2>1. starts < MaxStarts
    BY <1>1 DEF Start
  <2>2. NewKey \in 0 .. MaxStarts
    BY <2>1, FreshKey
  <2>3. key' \in [Procs -> 0 .. MaxStarts]
    <3>1. key \in [Procs -> 0 .. MaxStarts] /\ keyfile \in 0 .. MaxStarts
      OBVIOUS
    <3>2. \E n \in 0 .. MaxStarts : key' = [key EXCEPT ![q] = n]
      BY ONLY <1>1, <2>2, <3>1 DEF Start
    <3> QED
      BY ONLY <3>1, <3>2
  <2>4. /\ pc' \in [Procs -> {"off", "generate", "keypair", "load", "running", "save", "write"}]
        /\ starts' \in 0 .. MaxStarts
    BY <1>1 DEF Start
  <2>5. raced' \in BOOLEAN
    BY <1>1 DEF Start
  <2> QED
    BY <1>1, <2>3, <2>4, <2>5 DEF Start, fileVars, storeVars
<1>2. ASSUME NEW q \in Procs, CreateKeypair(q) \/ WriteKeypair(q) PROVE TypeOK'
  <2>1. pc' \in [Procs -> {"off", "generate", "keypair", "load", "running", "save", "write"}]
    BY <1>2 DEF CreateKeypair, WriteKeypair
  <2>2. key' \in [Procs -> 0 .. MaxStarts] /\ keyfile' \in 0 .. MaxStarts
    <3>1. None \in 0 .. MaxStarts
      BY DEF None
    <3>2. key' \in {key, [key EXCEPT ![q] = None]} /\ keyfile' \in {keyfile, key[q]}
      BY <1>2 DEF CreateKeypair, WriteKeypair
    <3>3. key \in [Procs -> 0 .. MaxStarts] /\ keyfile \in 0 .. MaxStarts
      OBVIOUS
    <3> QED
      BY ONLY <3>1, <3>2, <3>3, q \in Procs
  <2>3. torn' \in SUBSET {"keypair", "peers.json"}
    BY <1>2 DEF CreateKeypair, WriteKeypair
  <2> QED
    BY <1>2, <2>1, <2>2, <2>3 DEF CreateKeypair, WriteKeypair, storeVars, ghostVars
<1>3. ASSUME NEW q \in Procs, LoadStore(q) PROVE TypeOK'
  <2>1. PICK n \in Limits : \E found \in Prune(IF "peers.json" \in torn THEN << >> ELSE peersfile, n) :
          /\ entries' = [entries EXCEPT ![q] = found]
          /\ limit' = [limit EXCEPT ![q] = n]
          /\ table' = [table EXCEPT ![q] = Bootstrap \cup BootstrapPeers(found)]
          /\ failed' = IF Unsaved THEN failed \ KeptIn(found) ELSE failed
    BY <1>3 DEF LoadStore
  <2>2. PICK found \in Prune(IF "peers.json" \in torn THEN << >> ELSE peersfile, n) :
          /\ entries' = [entries EXCEPT ![q] = found]
          /\ limit' = [limit EXCEPT ![q] = n]
          /\ table' = [table EXCEPT ![q] = Bootstrap \cup BootstrapPeers(found)]
          /\ failed' = IF Unsaved THEN failed \ KeptIn(found) ELSE failed
    BY <2>1
  <2>3. (IF "peers.json" \in torn THEN << >> ELSE peersfile) \in Seq(Entry) /\ n \in Nat /\ now \in Nat
    OBVIOUS
  <2>4. found \in Seq(Entry)
    BY <2>2, <2>3, PruneKeeps
  <2>5. BootstrapPeers(found) \subseteq Contacts
    BY <2>4, KeptAreContacts DEF BootstrapPeers
  <2>6. Bootstrap \cup BootstrapPeers(found) \subseteq Contacts
    BY <2>5
  <2>7. table' \in [Procs -> SUBSET Contacts] /\ failed' \in SUBSET Contacts
    BY <2>2, <2>6
  <2> QED
    BY <1>3, <2>2, <2>4, <2>7 DEF LoadStore, fileVars
<1>4. ASSUME NEW q \in Procs, NEW c \in Contacts,
             Discovered(q, c) \/ Identified(q, c) \/ Dialled(q, c)
      PROVE  TypeOK'
  <2>1. RecordAddress(q, c) /\ Event(q)
    BY <1>4 DEF Discovered, Identified, Dialled
  <2>2. entries' \in [Procs -> Seq(Entry)]
    <3>1. CASE IsPeerAddress(c)
      <4>1. PICK s \in Prune(Renewed(entries[q], c), limit[q]) : entries' = [entries EXCEPT ![q] = s]
        BY <2>1, <3>1 DEF RecordAddress
      <4>2. Renewed(entries[q], c) \in Seq(Entry) /\ limit[q] \in Nat /\ now \in Nat
        BY LimitIsNat, RenewedKeeps
      <4>3. s \in Seq(Entry)
        BY <4>1, <4>2, PruneKeeps
      <4> QED
        BY <4>1, <4>3
    <3>2. CASE ~IsPeerAddress(c)
      BY <2>1, <3>2 DEF RecordAddress
    <3> QED
      BY <3>1, <3>2
  <2>3. /\ pc' \in [Procs -> {"off", "generate", "keypair", "load", "running", "save", "write"}]
        /\ removed' \in SUBSET Contacts /\ failed' \in SUBSET Contacts
    BY <2>1 DEF RecordAddress
  <2>4. table' \in [Procs -> SUBSET Contacts] /\ met' \in [Procs -> SUBSET Contacts]
    <3>1. table' \in {table, [table EXCEPT ![q] = @ \cup {c}]}
      BY <1>4 DEF Discovered, Identified, Dialled
    <3>2. met' \in {met, [met EXCEPT ![q] = @ \cup {c}]}
      BY <1>4 DEF Discovered, Identified, Dialled
    <3>3. table \in [Procs -> SUBSET Contacts] /\ met \in [Procs -> SUBSET Contacts]
      OBVIOUS
    <3> QED
      BY ONLY <3>1, <3>2, <3>3, q \in Procs, c \in Contacts
  <2> QED
    BY <2>1, <2>2, <2>3, <2>4 DEF Event, fileVars
<1>5. ASSUME NEW q \in Procs, NEW c \in Contacts, DialFailed(q, c) PROVE TypeOK'
  <2>1. PICK s \in Without(entries[q], c) : entries' = [entries EXCEPT ![q] = s]
    BY <1>5 DEF DialFailed
  <2>2. s \in Seq(Entry)
    BY <2>1, WithoutKeeps
  <2>3. entries' \in [Procs -> Seq(Entry)]
    BY <2>1, <2>2
  <2>4. /\ pc' \in [Procs -> {"off", "generate", "keypair", "load", "running", "save", "write"}]
        /\ removed' \in SUBSET Contacts /\ failed' \in SUBSET Contacts /\ table' \in [Procs -> SUBSET Contacts]
        /\ UNCHANGED met
    BY <1>5 DEF DialFailed
  <2> QED
    BY <1>5, <2>3, <2>4 DEF DialFailed, Event, fileVars
<1>6. ASSUME NEW q \in Procs, OpenFile(q) PROVE TypeOK'
  <2>1. pc' \in [Procs -> {"off", "generate", "keypair", "load", "running", "save", "write"}]
    BY <1>6 DEF OpenFile
  <2>2. peersfile' \in Seq(Entry) /\ torn' \in SUBSET {"keypair", "peers.json"}
    <3>1. << >> \in Seq(Entry)
      OBVIOUS
    <3>2. peersfile' \in {<< >>, peersfile} /\ torn' \in {torn, torn \cup {"peers.json"}}
      BY <1>6 DEF OpenFile
    <3> QED
      BY <3>1, <3>2
  <2>3. failed' \in SUBSET Contacts
    BY <1>6 DEF OpenFile
  <2> QED
    BY <1>6, <2>1, <2>2, <2>3 DEF OpenFile, storeVars
<1>7. ASSUME NEW q \in Procs, WriteFile(q) PROVE TypeOK'
  BY <1>7 DEF WriteFile, storeVars, ghostVars
<1>8. ASSUME NEW q \in Procs, Stop(q) PROVE TypeOK'
  BY <1>8 DEF Stop, fileVars, None
<1>9. ASSUME SetClock \/ SetInterfaces PROVE TypeOK'
  BY <1>9 DEF SetClock, SetInterfaces, fileVars, storeVars, ghostVars
<1>10. ASSUME UNCHANGED vars PROVE TypeOK'
  BY <1>10 DEF vars, fileVars, storeVars, ghostVars
<1> QED
  BY <1>1, <1>2, <1>3, <1>4, <1>5, <1>6, <1>7, <1>8, <1>9, <1>10 DEF Next

\* Only a start uses a new identity, and it is counted.
LEMMA KeyStep ==
  ASSUME TypeOK, KeyCount, [Next]_vars
  PROVE  KeyCount'
<1>1. IsFiniteSet(KeysUsed) /\ starts \in Nat /\ Cardinality(KeysUsed) \in Nat
  <2>1. KeysUsed \subseteq 1 .. MaxStarts
    BY PeerBookAssumption DEF TypeOK, KeysUsed, None
  <2>2. IsFiniteSet(1 .. MaxStarts)
    BY PeerBookAssumption, FS_Interval
  <2>3. starts \in Nat
    BY PeerBookAssumption DEF TypeOK
  <2>4. IsFiniteSet(KeysUsed)
    BY <2>1, <2>2, FS_Subset
  <2> QED
    BY <2>3, <2>4, FS_CardinalityType
<1>2. ASSUME NEW q \in Procs, Start(q) PROVE KeyCount'
  <2>1. starts < MaxStarts /\ starts' = starts + 1
    BY <1>2 DEF Start
  <2>2. KeysUsed' \subseteq KeysUsed \cup {NewKey}
    <3>1. keyfile' = keyfile /\ key' \in {[key EXCEPT ![q] = keyfile], [key EXCEPT ![q] = NewKey]}
      BY <1>2 DEF Start, fileVars
    <3>2. \A r \in Procs : key'[r] \in {key[r], keyfile, NewKey}
      BY <3>1 DEF TypeOK
    <3> QED
      BY <3>1, <3>2 DEF KeysUsed
  <2>3. NewKey \notin KeysUsed
    BY <2>1, FreshKey
  <2>4. /\ IsFiniteSet(KeysUsed \cup {NewKey})
        /\ Cardinality(KeysUsed \cup {NewKey}) = Cardinality(KeysUsed) + 1
    BY <1>1, <2>3, FS_AddElement
  <2>5. Cardinality(KeysUsed') \in Nat /\ Cardinality(KeysUsed') <= Cardinality(KeysUsed) + 1
    BY <2>2, <2>4, FS_Subset, FS_CardinalityType
  <2> QED
    BY <1>1, <2>1, <2>5 DEF KeyCount
<1>3. ASSUME KeysUsed' \subseteq KeysUsed, starts' = starts PROVE KeyCount'
  <2>1. Cardinality(KeysUsed') \in Nat /\ Cardinality(KeysUsed') <= Cardinality(KeysUsed)
    BY <1>1, <1>3, FS_Subset, FS_CardinalityType
  <2> QED
    BY <1>1, <1>3, <2>1 DEF KeyCount
<1>4. ASSUME NEW q \in Procs, CreateKeypair(q) \/ WriteKeypair(q) \/ Stop(q) PROVE KeyCount'
  <2>1. /\ key' \in {key, [key EXCEPT ![q] = None]} /\ keyfile' \in {keyfile, key[q]}
        /\ starts' = starts
    BY <1>4 DEF CreateKeypair, WriteKeypair, Stop, fileVars
  <2>2. \A r \in Procs : key'[r] \in {key[r], None}
    BY <2>1 DEF TypeOK
  <2>3. KeysUsed' \subseteq KeysUsed
    BY <2>1, <2>2 DEF KeysUsed
  <2> QED
    BY <1>3, <2>1, <2>3
<1>5. ASSUME UNCHANGED <<key, keyfile, starts>> PROVE KeyCount'
  BY <1>5, <1>3 DEF KeysUsed
<1>6. ASSUME NEW q \in Procs, LoadStore(q) \/ OpenFile(q) \/ WriteFile(q) PROVE KeyCount'
  BY <1>5, <1>6 DEF LoadStore, OpenFile, WriteFile, fileVars
<1>7. ASSUME NEW q \in Procs, NEW c \in Contacts,
             Discovered(q, c) \/ Identified(q, c) \/ Dialled(q, c) \/ DialFailed(q, c)
      PROVE  KeyCount'
  BY <1>5, <1>7 DEF Discovered, Identified, Dialled, DialFailed, Event, fileVars
<1>8. ASSUME SetClock \/ SetInterfaces \/ UNCHANGED vars PROVE KeyCount'
  BY <1>5, <1>8 DEF SetClock, SetInterfaces, vars, fileVars
<1> QED
  BY <1>2, <1>4, <1>6, <1>7, <1>8 DEF Next

\* Nothing is there before the first start.
LEMMA InitTypes ==
  ASSUME Init
  PROVE  TypeOK /\ KeyCount
<1>1. TypeOK
  <2>1. MaxTime \div 2 \in 0 .. MaxTime
    BY PeerBookAssumption
  <2>2. /\ now \in 0 .. MaxTime /\ own \in SUBSET Own
        /\ torn \in SUBSET {"keypair", "peers.json"}
        /\ removed \in SUBSET Contacts /\ failed \in SUBSET Contacts /\ raced \in BOOLEAN
    BY <2>1 DEF Init
  <2>6. keyfile \in 0 .. MaxStarts /\ peersfile \in Seq(Entry)
    BY PeerBookAssumption DEF Init, None
  <2>3. /\ pc \in [Procs -> {"off", "generate", "keypair", "load", "running", "save", "write"}]
        /\ key \in [Procs -> 0 .. MaxStarts]
    BY PeerBookAssumption DEF Init, None
  <2>4. /\ entries \in [Procs -> Seq(Entry)] /\ limit \in [Procs -> Limits \cup {0}]
        /\ table \in [Procs -> SUBSET Contacts] /\ met \in [Procs -> SUBSET Contacts]
    BY DEF Init
  <2>5. events \in 0 .. MaxEvents /\ starts \in 0 .. MaxStarts /\ changes \in 0 .. MaxChanges
    BY PeerBookAssumption DEF Init
  <2> QED
    BY <2>2, <2>3, <2>4, <2>5, <2>6 DEF TypeOK
<1>2. KeysUsed = {}
  BY DEF Init, KeysUsed
<1>3. KeyCount
  BY <1>2, FS_EmptySet DEF Init, KeyCount
<1> QED
  BY <1>1, <1>3

(* Every variable keeps its type, and a start that finds no identity can   *)
(* always generate one that nobody has (load_or_generate_keypair).         *)
THEOREM TypesKept == Spec => []TypeOK
<1>1. Init => TypeOK /\ KeyCount
  BY InitTypes
<1>2. TypeOK /\ KeyCount /\ [Next]_vars => (TypeOK /\ KeyCount)'
  BY TypeStep, KeyStep
<1> QED
  BY <1>1, <1>2, PTL DEF Spec

(***************************************************************************)
(* What the events do to a list                                            *)
(***************************************************************************)

\* record_address leaves the list alone or prunes it with the contact in it.
LEMMA RecordStep ==
  ASSUME TypeOK, NEW q \in Procs, NEW c \in Contacts,
         Discovered(q, c) \/ Identified(q, c) \/ Dialled(q, c)
  PROVE  /\ pc[q] = "running" /\ UNCHANGED <<own, peersfile, limit>>
         /\ \/ UNCHANGED <<entries, pc, failed>>
            \/ \E t \in Prune(Renewed(entries[q], c), limit[q]) :
                 /\ t \in Seq(Entry) /\ Len(t) <= limit[q] /\ InOrder(t)
                 /\ KeptIn(t) \subseteq KeptIn(entries[q]) \cup {c}
                 /\ \A x \in KeptIn(t) : IsPeerAddress(x)
                 /\ entries' = [entries EXCEPT ![q] = t]
                 /\ pc' = [pc EXCEPT ![q] = "save"]
                 /\ failed' = failed \ {c}
<1>1. RecordAddress(q, c) /\ Event(q)
  BY DEF Discovered, Identified, Dialled
<1>2. /\ now \in 0 .. MaxTime /\ now \in Nat /\ MaxAge \in Nat
      /\ entries[q] \in Seq(Entry) /\ limit[q] \in Nat
  BY LimitIsNat, PeerBookAssumption DEF TypeOK
<1>3. /\ Renewed(entries[q], c) \in Seq(Entry)
      /\ KeptIn(Renewed(entries[q], c)) = KeptIn(entries[q]) \cup {c}
  BY <1>2, RenewedKeeps
<1>4. CASE IsPeerAddress(c)
  <2>1. PICK t \in Prune(Renewed(entries[q], c), limit[q]) :
          /\ entries' = [entries EXCEPT ![q] = t]
          /\ pc' = [pc EXCEPT ![q] = "save"]
          /\ failed' = failed \ {c}
    BY <1>1, <1>4 DEF RecordAddress
  <2>2. /\ t \in Seq(Entry) /\ Len(t) <= limit[q] /\ InOrder(t)
        /\ \A x \in KeptIn(t) : x \in KeptIn(Renewed(entries[q], c)) /\ IsPeerAddress(x)
    BY <1>2, <1>3, PruneKeeps
  <2> QED
    BY <1>1, <1>3, <2>1, <2>2 DEF Event, fileVars
<1>5. CASE ~IsPeerAddress(c)
  BY <1>1, <1>5 DEF RecordAddress, Event, fileVars
<1> QED
  BY <1>4, <1>5

\* load has what prune leaves of the file.
LEMMA LoadStep ==
  ASSUME TypeOK, NEW q \in Procs, LoadStore(q)
  PROVE  \E n \in Nat, t \in Seq(Entry) :
           /\ Len(t) <= n /\ InOrder(t)
           /\ KeptIn(t) \subseteq KeptIn(peersfile)
           /\ entries' = [entries EXCEPT ![q] = t]
           /\ limit' = [limit EXCEPT ![q] = n]
           /\ table' = [table EXCEPT ![q] = Bootstrap \cup BootstrapPeers(t)]
           /\ failed' = IF Unsaved THEN failed \ KeptIn(t) ELSE failed
<1> DEFINE f == IF "peers.json" \in torn THEN << >> ELSE peersfile
<1>1. PICK n \in Limits : \E t \in Prune(f, n) :
        /\ entries' = [entries EXCEPT ![q] = t]
        /\ limit' = [limit EXCEPT ![q] = n]
        /\ table' = [table EXCEPT ![q] = Bootstrap \cup BootstrapPeers(t)]
        /\ failed' = IF Unsaved THEN failed \ KeptIn(t) ELSE failed
  BY DEF LoadStore
<1>2. PICK t \in Prune(f, n) :
        /\ entries' = [entries EXCEPT ![q] = t]
        /\ limit' = [limit EXCEPT ![q] = n]
        /\ table' = [table EXCEPT ![q] = Bootstrap \cup BootstrapPeers(t)]
        /\ failed' = IF Unsaved THEN failed \ KeptIn(t) ELSE failed
  BY <1>1
<1>3. f \in Seq(Entry) /\ KeptIn(f) \subseteq KeptIn(peersfile)
  BY DEF TypeOK, KeptIn
<1>4. n \in Nat /\ now \in Nat /\ MaxAge \in Nat
  BY PeerBookAssumption DEF TypeOK
<1> HIDE DEF f
<1>5. /\ t \in Seq(Entry) /\ Len(t) <= n /\ InOrder(t)
      /\ \A x \in KeptIn(t) : x \in KeptIn(f)
  BY <1>2, <1>3, <1>4, PruneKeeps
<1> QED
  BY <1>2, <1>3, <1>4, <1>5

\* remove_address takes the contact out.
LEMMA FailStep ==
  ASSUME TypeOK, NEW q \in Procs, NEW c \in Contacts, DialFailed(q, c)
  PROVE  \E t \in Seq(Entry) :
           /\ Len(t) <= Len(entries[q]) /\ (InOrder(entries[q]) => InOrder(t))
           /\ KeptIn(t) \subseteq KeptIn(entries[q]) \ {c}
           /\ entries' = [entries EXCEPT ![q] = t]
<1>1. PICK t \in Without(entries[q], c) : entries' = [entries EXCEPT ![q] = t]
  BY DEF DialFailed
<1>2. entries[q] \in Seq(Entry)
  BY DEF TypeOK
<1> QED
  BY <1>1, <1>2, WithoutKeeps

\* The steps that change neither an entry nor a limit, and after which no other process runs
\* a swarm task than before.
LEMMA OtherSteps ==
  ASSUME TypeOK, [Next]_vars,
         \A q \in Procs : ~LoadStore(q) /\ ~Stop(q),
         \A q \in Procs, c \in Contacts : /\ ~Discovered(q, c) /\ ~Identified(q, c)
                                          /\ ~Dialled(q, c) /\ ~DialFailed(q, c)
  PROVE  UNCHANGED storeVars /\ Live' \subseteq Live
<1>1. ASSUME NEW q \in Procs, Start(q) \/ CreateKeypair(q) \/ WriteKeypair(q)
      PROVE  UNCHANGED storeVars /\ Live' \subseteq Live
  BY <1>1 DEF Start, CreateKeypair, WriteKeypair, Live, TypeOK
<1>2. ASSUME NEW q \in Procs, OpenFile(q) \/ WriteFile(q)
      PROVE  UNCHANGED storeVars /\ Live' \subseteq Live
  BY <1>2 DEF OpenFile, WriteFile, Live, TypeOK
<1>3. ASSUME SetClock \/ SetInterfaces \/ UNCHANGED vars
      PROVE  UNCHANGED storeVars /\ Live' \subseteq Live
  BY <1>3 DEF SetClock, SetInterfaces, vars, Live
<1> QED
  BY <1>1, <1>2, <1>3 DEF Next

(***************************************************************************)
(* The store is short, in order and without duplicates                     *)
(***************************************************************************)

\* StoreInOrder of one process.
StoreOf(q) == Len(entries[q]) <= limit[q] /\ InOrder(entries[q])

\* Every step keeps the store of every process in order.
LEMMA OrderStep ==
  ASSUME TypeOK, StoreInOrder, [Next]_vars
  PROVE  StoreInOrder'
<1>1. \A q \in Live : StoreOf(q)
  BY DEF StoreInOrder, StoreOf, InOrder
<1>2. SUFFICES ASSUME NEW r \in Live' PROVE StoreOf(r)'
  BY DEF StoreInOrder, StoreOf, InOrder
<1>3. r \in Procs /\ entries \in [Procs -> Seq(Entry)] /\ limit \in [Procs -> Limits \cup {0}]
  BY DEF Live, TypeOK
<1>4. ASSUME NEW q \in Procs, LoadStore(q) PROVE StoreOf(r)'
  <2>1. PICK n \in Nat, t \in Seq(Entry) :
          /\ Len(t) <= n /\ InOrder(t)
          /\ entries' = [entries EXCEPT ![q] = t] /\ limit' = [limit EXCEPT ![q] = n]
    BY <1>4, LoadStep
  <2>2. CASE r = q
    BY <1>3, <2>1, <2>2 DEF StoreOf
  <2>3. CASE r # q
    <3>1. r \in Live
      BY <1>2, <1>3, <1>4, <2>3 DEF LoadStore, Live, TypeOK
    <3> QED
      BY <1>1, <1>3, <2>1, <2>3, <3>1 DEF StoreOf
  <2> QED
    BY <2>2, <2>3
<1>5. ASSUME NEW q \in Procs, Stop(q) PROVE StoreOf(r)'
  <2>1. r # q /\ r \in Live
    BY <1>2, <1>3, <1>5 DEF Stop, Live, TypeOK
  <2>2. entries'[r] = entries[r] /\ limit'[r] = limit[r]
    BY <1>3, <1>5, <2>1 DEF Stop
  <2> QED
    BY <1>1, <2>1, <2>2 DEF StoreOf
<1>6. ASSUME NEW q \in Procs, NEW c \in Contacts,
             Discovered(q, c) \/ Identified(q, c) \/ Dialled(q, c)
      PROVE  StoreOf(r)'
  <2>1. CASE UNCHANGED <<entries, pc, failed>>
    BY <1>1, <1>2, <1>6, <2>1, RecordStep DEF StoreOf, Live
  <2>2. CASE ~UNCHANGED <<entries, pc, failed>>
    <3>1. PICK t \in Seq(Entry) :
            /\ Len(t) <= limit[q] /\ InOrder(t) /\ entries' = [entries EXCEPT ![q] = t]
            /\ pc' = [pc EXCEPT ![q] = "save"] /\ UNCHANGED limit /\ pc[q] = "running"
      BY <1>6, <2>2, RecordStep
    <3>2. r \in Live
      BY <1>2, <1>3, <3>1 DEF Live, TypeOK
    <3> QED
      BY <1>1, <1>3, <3>1, <3>2 DEF StoreOf
  <2> QED
    BY <2>1, <2>2
<1>7. ASSUME NEW q \in Procs, NEW c \in Contacts, DialFailed(q, c) PROVE StoreOf(r)'
  <2>1. PICK t \in Seq(Entry) :
          /\ Len(t) <= Len(entries[q]) /\ (InOrder(entries[q]) => InOrder(t))
          /\ entries' = [entries EXCEPT ![q] = t]
    BY <1>7, FailStep
  <2>2. q \in Live /\ r \in Live /\ UNCHANGED limit
    BY <1>2, <1>3, <1>7 DEF DialFailed, Event, Live, TypeOK
  <2>3. limit[q] \in Nat /\ Len(entries[q]) \in Nat /\ Len(t) \in Nat
    BY <1>3, LimitIsNat
  <2> QED
    BY <1>1, <1>3, <2>1, <2>2, <2>3 DEF StoreOf
<1>8. ASSUME UNCHANGED storeVars, Live' \subseteq Live PROVE StoreOf(r)'
  BY <1>1, <1>2, <1>8 DEF StoreOf, storeVars
<1> QED
  BY <1>4, <1>5, <1>6, <1>7, <1>8, OtherSteps

(* The entries of a running process are no more than its limit, name no    *)
(* contact twice and are ordered with the one seen last first, whatever    *)
(* the clock, the file and the events were (PeerStore::prune,              *)
(* record_address, remove_address).                                        *)
THEOREM StoreStaysInOrder == Spec => []StoreInOrder
<1>1. Init => StoreInOrder
  BY DEF Init, StoreInOrder, Live
<1>2. TypeOK /\ StoreInOrder /\ [Next]_vars => StoreInOrder'
  BY OrderStep
<1> QED
  BY <1>1, <1>2, TypesKept, PTL DEF Spec

(* record_address gives up nothing that was seen later than something it   *)
(* keeps, unless it has expired or is an address of this host now: also    *)
(* when the clock was set back, and the contact just seen is the oldest of *)
(* all (PeerStore::prune).                                                 *)
THEOREM OnlyOldestEvicted == Spec => OldestEvicted
<1> DEFINE Gone(q, i) ==
      LET e == entries[q][i] IN
      \/ e.contact \in KeptIn(entries'[q])
      \/ e.last_seen + MaxAge < now \/ ~IsPeerAddress(e.contact)
      \/ \A j \in DOMAIN entries'[q] : entries'[q][j].last_seen >= e.last_seen
<1>1. ASSUME TypeOK, StoreInOrder, NEW q \in Procs, NEW c \in Contacts,
             Discovered(q, c) \/ Identified(q, c) \/ Dialled(q, c),
             NEW i \in DOMAIN entries[q]
      PROVE  Gone(q, i)
  <2> DEFINE s == Renewed(entries[q], c)
             n == limit[q]
  <2>1. /\ pc[q] = "running"
        /\ \/ UNCHANGED <<entries, pc, failed>>
           \/ \E t \in Prune(s, n) : entries' = [entries EXCEPT ![q] = t]
    BY <1>1, RecordStep
  <2>2. CASE UNCHANGED <<entries, pc, failed>>
    BY <2>2 DEF KeptIn
  <2>3. ASSUME NEW t \in Prune(s, n), entries' = [entries EXCEPT ![q] = t] PROVE Gone(q, i)
    <3>1. entries'[q] = t
      BY <1>1, <2>3 DEF TypeOK
    <3>2. /\ entries[q] \in Seq(Entry) /\ n \in Nat
          /\ now \in Nat /\ now \in 0 .. MaxTime /\ MaxAge \in Nat
      BY <1>1, LimitIsNat, PeerBookAssumption DEF TypeOK
    <3>3. Len(entries[q]) <= n /\ InOrder(entries[q])
      BY <1>1, <2>1 DEF StoreInOrder, Live, InOrder
    <3>4. /\ s \in Seq(Entry) /\ i \in DOMAIN s
          /\ s[i].contact = entries[q][i].contact
          /\ s[i].contact # c => s[i] = entries[q][i]
          /\ s[i].contact = c => s[i].last_seen = now
          /\ s[i].contact = c => Len(s) = Len(entries[q])
          /\ \A j \in DOMAIN entries[q] : s[j].contact = entries[q][j].contact
      <4>1. c \in KeptIn(entries[q]) \/ entries[q][i].contact # c
        BY <1>1 DEF KeptIn
      <4> QED
        BY <1>1, <3>2, <4>1, RenewedKeeps
    <3> HIDE DEF s, n
    <3>5. \A j \in DOMAIN s : j < i => s[j].contact # s[i].contact
      <4>1. \A j \in DOMAIN s : j < i => j \in DOMAIN entries[q]
        BY <1>1, <3>2, <3>4
      <4> QED
        BY <1>1, <3>3, <3>4, <4>1 DEF InOrder
    <3>6. SUFFICES ASSUME ~(entries[q][i].last_seen + MaxAge < now),
                          IsPeerAddress(entries[q][i].contact)
                   PROVE  \/ entries[q][i].contact \in KeptIn(t)
                          \/ \A j \in DOMAIN t : t[j].last_seen >= entries[q][i].last_seen
      BY <3>1
    <3>7. entries[q][i].last_seen \in Nat
      <4>1. \A e \in Entry : e.last_seen \in Nat
        BY PeerBookAssumption DEF Entry
      <4> QED
        BY <1>1, <3>2, <4>1
    <3>8. s[i].last_seen + MaxAge >= now /\ IsPeerAddress(s[i].contact)
      BY <3>2, <3>4, <3>6, <3>7
    <3>9. \/ s[i].contact \in KeptIn(t)
          \/ n < Len(s) /\ \A j \in DOMAIN t : t[j].last_seen >= s[i].last_seen
      BY <2>3, <3>2, <3>4, <3>5, <3>8, PruneKeeps
    <3> QED
      BY <3>2, <3>3, <3>4, <3>9
  <2> QED
    BY <2>1, <2>2, <2>3
<1> HIDE DEF Gone
<1>2. TypeOK /\ StoreInOrder /\ [Next]_vars =>
        [\A q \in Procs, c \in Contacts :
           Discovered(q, c) \/ Identified(q, c) \/ Dialled(q, c) =>
             \A i \in DOMAIN entries[q] : Gone(q, i)]_vars
  BY <1>1
<1>3. TypeOK /\ StoreInOrder /\ [Next]_vars =>
        [\A q \in Procs, c \in Contacts :
           Discovered(q, c) \/ Identified(q, c) \/ Dialled(q, c) =>
             \A i \in DOMAIN entries[q] :
               LET e == entries[q][i] IN
               \/ e.contact \in KeptIn(entries'[q])
               \/ e.last_seen + MaxAge < now \/ ~IsPeerAddress(e.contact)
               \/ \A j \in DOMAIN entries'[q] : entries'[q][j].last_seen >= e.last_seen]_vars
  BY <1>2 DEF Gone
<1> QED
  BY <1>3, TypesKept, StoreStaysInOrder, PTL DEF Spec, OldestEvicted

(***************************************************************************)
(* Addresses                                                               *)
(***************************************************************************)

\* Neither the file nor a list of entries has an unusable address.
LEMMA UsableStep ==
  ASSUME TypeOK, NothingLocalPersisted, [Next]_vars
  PROVE  NothingLocalPersisted'
<1> DEFINE Clean(s) == KeptIn(s) \cap Unusable = {}
<1>1. Clean(peersfile) /\ \A q \in Procs : Clean(entries[q])
  BY DEF NothingLocalPersisted
<1>2. entries \in [Procs -> Seq(Entry)] /\ Clean(<< >>)
  BY DEF TypeOK, KeptIn
<1>3. ASSUME Clean(peersfile'), \A q \in Procs : Clean(entries'[q])
      PROVE  NothingLocalPersisted'
  BY <1>3 DEF NothingLocalPersisted
<1>4. ASSUME NEW q \in Procs, NEW t \in Seq(Entry), Clean(t), UNCHANGED peersfile,
             entries' = [entries EXCEPT ![q] = t]
      PROVE  NothingLocalPersisted'
  BY <1>1, <1>2, <1>3, <1>4
<1>5. ASSUME NEW q \in Procs, LoadStore(q) PROVE NothingLocalPersisted'
  <2>1. PICK t \in Seq(Entry) : /\ KeptIn(t) \subseteq KeptIn(peersfile)
                                /\ entries' = [entries EXCEPT ![q] = t]
    BY <1>5, LoadStep
  <2> QED
    BY <1>1, <1>4, <1>5, <2>1 DEF LoadStore, fileVars
<1>6. ASSUME NEW q \in Procs, Stop(q) PROVE NothingLocalPersisted'
  <2>1. << >> \in Seq(Entry) /\ UNCHANGED peersfile /\ entries' = [entries EXCEPT ![q] = << >>]
    BY <1>6 DEF Stop, fileVars
  <2> HIDE DEF Clean
  <2> QED
    BY <1>2, <1>4, <2>1
<1>7. ASSUME NEW q \in Procs, NEW c \in Contacts,
             Discovered(q, c) \/ Identified(q, c) \/ Dialled(q, c)
      PROVE  NothingLocalPersisted'
  <2>1. CASE UNCHANGED entries
    BY <1>1, <1>3, <1>7, <2>1, RecordStep
  <2>2. ASSUME NEW t \in Seq(Entry), \A x \in KeptIn(t) : IsPeerAddress(x),
               entries' = [entries EXCEPT ![q] = t]
        PROVE  NothingLocalPersisted'
    <3>1. Clean(t)
      BY <2>2 DEF IsPeerAddress
    <3>2. UNCHANGED peersfile
      BY <1>7, RecordStep
    <3> QED
      BY <1>4, <2>2, <3>1, <3>2
  <2> QED
    BY <1>7, <2>1, <2>2, RecordStep
<1>8. ASSUME NEW q \in Procs, NEW c \in Contacts, DialFailed(q, c) PROVE NothingLocalPersisted'
  <2>1. PICK t \in Seq(Entry) : /\ KeptIn(t) \subseteq KeptIn(entries[q]) \ {c}
                                /\ entries' = [entries EXCEPT ![q] = t]
    BY <1>8, FailStep
  <2> QED
    BY <1>1, <1>4, <1>8, <2>1 DEF DialFailed, Event, fileVars
<1>9. ASSUME NEW q \in Procs, OpenFile(q) \/ WriteFile(q) PROVE NothingLocalPersisted'
  <2>1. /\ peersfile' \in {<< >>, peersfile, entries[q]} /\ UNCHANGED entries
    BY <1>9 DEF OpenFile, WriteFile, storeVars
  <2> QED
    BY <1>1, <1>2, <1>3, <2>1
<1>10. ASSUME UNCHANGED <<peersfile, entries>> PROVE NothingLocalPersisted'
  BY <1>1, <1>3, <1>10
<1>11. ASSUME NEW q \in Procs, Start(q) \/ CreateKeypair(q) \/ WriteKeypair(q)
       PROVE  NothingLocalPersisted'
  BY <1>10, <1>11 DEF Start, CreateKeypair, WriteKeypair, fileVars, storeVars
<1>12. ASSUME SetClock \/ SetInterfaces \/ UNCHANGED vars PROVE NothingLocalPersisted'
  BY <1>10, <1>12 DEF SetClock, SetInterfaces, vars, fileVars, storeVars
<1> QED
  BY <1>5, <1>6, <1>7, <1>8, <1>9, <1>11, <1>12 DEF Next

(* No loopback or unspecified address is ever in peers.json or in the      *)
(* entries of a process, through whichever event it came (is_peer_address, *)
(* record_address, PeerStore::prune).                                      *)
THEOREM LocalNeverPersisted == Spec => []NothingLocalPersisted
<1>1. Init => NothingLocalPersisted
  BY DEF Init, NothingLocalPersisted, KeptIn
<1>2. TypeOK /\ NothingLocalPersisted /\ [Next]_vars => NothingLocalPersisted'
  BY UsableStep
<1> QED
  BY <1>1, <1>2, TypesKept, PTL DEF Spec

\* A private address of a routing table is configured, was found by mDNS or was reached.
LEMMA LocalStep ==
  ASSUME TypeOK, PrivateStaysLocal, [Next]_vars
  PROVE  PrivateStaysLocal'
<1> USE DEF PrivateStaysLocal
<1>1. /\ table \in [Procs -> SUBSET Contacts] /\ met \in [Procs -> SUBSET Contacts]
      /\ pc \in [Procs -> {"off", "generate", "keypair", "load", "running", "save", "write"}]
  BY DEF TypeOK
<1>2. ASSUME NEW q \in Procs, LoadStore(q) PROVE PrivateStaysLocal'
  <2>1. PICK t : table' = [table EXCEPT ![q] = Bootstrap \cup BootstrapPeers(t)]
    BY <1>2, LoadStep
  <2>2. BootstrapPeers(t) \cap Private = {}
    BY DEF BootstrapPeers, IsPublicPeerAddress
  <2>3. UNCHANGED met /\ Live' \subseteq Live \cup {q}
    BY <1>1, <1>2 DEF LoadStore, Live
  <2> QED
    BY <1>1, <2>1, <2>2, <2>3 DEF Live
<1>3. ASSUME NEW q \in Procs, Stop(q) PROVE PrivateStaysLocal'
  <2>1. \A r \in Live' : r # q /\ r \in Live /\ table'[r] = table[r] /\ met'[r] = met[r]
    BY <1>1, <1>3 DEF Stop, Live
  <2> QED
    BY <2>1
<1>4. ASSUME NEW q \in Procs, NEW c \in Contacts, Discovered(q, c) \/ Dialled(q, c)
      PROVE  PrivateStaysLocal'
  <2>1. Live' = Live
    BY <1>1, <1>4 DEF Discovered, Dialled, Event, RecordAddress, Live
  <2>2. \A r \in Procs \ {q} : table'[r] = table[r] /\ met'[r] = met[r]
    BY <1>1, <1>4 DEF Discovered, Dialled
  <2>3. table'[q] \subseteq table[q] \cup {c} /\ met'[q] = met[q] \cup {c}
    BY <1>1, <1>4 DEF Discovered, Dialled
  <2> QED
    BY <2>1, <2>2, <2>3 DEF Live
<1>5. ASSUME NEW q \in Procs, NEW c \in Contacts, Identified(q, c) PROVE PrivateStaysLocal'
  <2>1. Live' = Live
    BY <1>1, <1>5 DEF Identified, Event, RecordAddress, Live
  <2>2. c \notin Private /\ \A r \in Procs : table'[r] \subseteq table[r] \cup {c} /\ met'[r] = met[r]
    BY <1>1, <1>5 DEF Identified, IsPublicPeerAddress
  <2> QED
    BY <2>1, <2>2 DEF Live
<1>6. ASSUME NEW q \in Procs, NEW c \in Contacts, DialFailed(q, c) PROVE PrivateStaysLocal'
  <2>1. Live' = Live
    BY <1>1, <1>6 DEF DialFailed, Event, Live
  <2>2. \A r \in Procs : table'[r] \subseteq table[r] /\ met'[r] = met[r]
    BY <1>1, <1>6 DEF DialFailed
  <2> QED
    BY <2>1, <2>2 DEF Live
<1>7. ASSUME UNCHANGED storeVars, Live' \subseteq Live PROVE PrivateStaysLocal'
  BY <1>7 DEF storeVars
<1> QED
  BY <1>2, <1>3, <1>4, <1>5, <1>6, <1>7, OtherSteps

(* A private address in the routing table of a process is one of           *)
(* config.bootstrap_peers, or that process has found it by mDNS or has     *)
(* reached it: what an earlier process has stored, or a peer says of       *)
(* itself, does not put it there (is_public_peer_address, bootstrap_peers, *)
(* dht::bootstrap).                                                        *)
THEOREM PrivateNeverSpreads == Spec => []PrivateStaysLocal
<1>1. Init => PrivateStaysLocal
  BY DEF Init, PrivateStaysLocal, Live
<1>2. TypeOK /\ PrivateStaysLocal /\ [Next]_vars => PrivateStaysLocal'
  BY LocalStep
<1> QED
  BY <1>1, <1>2, TypesKept, PTL DEF Spec

\* A contact that could not be dialled comes back through nothing but a sight of it.
LEMMA AwayStep ==
  ASSUME TypeOK, FailedStaysAway, [Next]_vars
  PROVE  FailedStaysAway'
<1> DEFINE Away == \A q \in Live : failed \cap KeptIn(entries[q]) = {}
           Off == (\E q \in Procs : pc[q] = "save") \/ failed \cap KeptIn(peersfile) = {}
<1>1. Away /\ Off
  BY DEF FailedStaysAway, Unsaved
<1>2. SUFFICES Away' /\ Off'
  BY DEF FailedStaysAway, Unsaved
<1>3. /\ entries \in [Procs -> Seq(Entry)]
      /\ pc \in [Procs -> {"off", "generate", "keypair", "load", "running", "save", "write"}]
      /\ KeptIn(<< >>) = {}
  BY DEF TypeOK, KeptIn
<1>4. ASSUME NEW q \in Procs, LoadStore(q) PROVE Away' /\ Off'
  <2>1. PICK t \in Seq(Entry) :
          /\ KeptIn(t) \subseteq KeptIn(peersfile)
          /\ entries' = [entries EXCEPT ![q] = t]
          /\ failed' = IF Unsaved THEN failed \ KeptIn(t) ELSE failed
    BY <1>4, LoadStep
  <2>5. failed' \subseteq failed /\ failed' \cap KeptIn(t) = {}
    BY <1>1, <2>1 DEF Unsaved
  <2>2. /\ pc[q] = "load" /\ pc' = [pc EXCEPT ![q] = "running"] /\ UNCHANGED peersfile
    BY <1>4 DEF LoadStore, fileVars
  <2>3. Away'
    BY <1>1, <1>3, <2>1, <2>2, <2>5 DEF Live
  <2>4. Off'
    BY <1>1, <1>3, <2>2, <2>5
  <2> QED
    BY <2>3, <2>4
<1>5. ASSUME NEW q \in Procs, Stop(q) PROVE Away' /\ Off'
  <2>1. /\ pc' = [pc EXCEPT ![q] = "off"] /\ entries' = [entries EXCEPT ![q] = << >>]
        /\ UNCHANGED peersfile
        /\ failed' = IF pc[q] = "save" THEN failed \ KeptIn(peersfile) ELSE failed
    BY <1>5 DEF Stop, fileVars
  <2>2. failed' \subseteq failed
    BY <2>1
  <2>3. Away'
    BY <1>1, <1>3, <2>1, <2>2 DEF Live
  <2>4. Off'
    BY <1>1, <1>3, <2>1
  <2> QED
    BY <2>3, <2>4
<1>6. ASSUME NEW q \in Procs, NEW c \in Contacts,
             Discovered(q, c) \/ Identified(q, c) \/ Dialled(q, c)
      PROVE  Away' /\ Off'
  <2>1. CASE UNCHANGED <<entries, pc, failed>>
    BY <1>1, <1>6, <2>1, RecordStep DEF Live
  <2>2. CASE ~UNCHANGED <<entries, pc, failed>>
    <3>1. PICK t \in Seq(Entry) :
            /\ KeptIn(t) \subseteq KeptIn(entries[q]) \cup {c}
            /\ entries' = [entries EXCEPT ![q] = t]
            /\ pc[q] = "running" /\ pc' = [pc EXCEPT ![q] = "save"] /\ failed' = failed \ {c}
      BY <1>6, <2>2, RecordStep
    <3>2. Away'
      BY <1>1, <1>3, <3>1 DEF Live
    <3>3. Off'
      BY <1>3, <3>1
    <3> QED
      BY <3>2, <3>3
  <2> QED
    BY <2>1, <2>2
<1>7. ASSUME NEW q \in Procs, NEW c \in Contacts, DialFailed(q, c) PROVE Away' /\ Off'
  <2>1. PICK t \in Seq(Entry) : /\ KeptIn(t) \subseteq KeptIn(entries[q]) \ {c}
                                /\ entries' = [entries EXCEPT ![q] = t]
    BY <1>7, FailStep
  <2>2. /\ pc[q] = "running" /\ UNCHANGED peersfile
        /\ pc' = IF c \in KeptIn(entries[q]) THEN [pc EXCEPT ![q] = "save"] ELSE pc
        /\ failed' = IF c \in KeptIn(entries[q])
                        /\ \A r \in Procs \ {q} : pc[r] = "off" \/ c \notin KeptIn(entries[r])
                     THEN failed \cup {c} ELSE failed
    BY <1>7 DEF DialFailed, Event, fileVars, SavesRemoval
  <2>3. Away'
    <3> SUFFICES ASSUME NEW r \in Live' PROVE failed' \cap KeptIn(entries'[r]) = {}
      OBVIOUS
    <3>1. r \in Live /\ r \in Procs
      BY <1>3, <2>2 DEF Live
    <3>2. CASE r = q
      BY <1>1, <1>3, <2>1, <2>2, <3>1, <3>2
    <3>3. CASE r # q
      <4>1. entries'[r] = entries[r] /\ pc[r] # "off"
        BY <1>3, <2>1, <3>1, <3>3 DEF Live
      <4> QED
        BY <1>1, <2>2, <3>1, <3>3, <4>1
    <3> QED
      BY <3>2, <3>3
  <2>4. Off'
    BY <1>1, <1>3, <2>2
  <2> QED
    BY <2>3, <2>4
<1>8. ASSUME NEW q \in Procs, OpenFile(q) PROVE Away' /\ Off'
  <2>1. /\ pc[q] = "save" /\ UNCHANGED entries
        /\ \/ pc' = [pc EXCEPT ![q] = "write"] /\ peersfile' = << >> /\ UNCHANGED failed
           \/ /\ pc' = [pc EXCEPT ![q] = "running"] /\ UNCHANGED peersfile
              /\ failed' = failed \ KeptIn(peersfile)
    BY <1>8 DEF OpenFile, storeVars
  <2>2. Live' = Live /\ failed' \subseteq failed
    BY <1>3, <2>1 DEF Live
  <2>3. Off'
    BY <1>3, <2>1
  <2> QED
    BY <1>1, <2>1, <2>2, <2>3
<1>9. ASSUME NEW q \in Procs, WriteFile(q) PROVE Away' /\ Off'
  <2>1. /\ pc[q] = "write" /\ pc' = [pc EXCEPT ![q] = "running"] /\ UNCHANGED <<entries, failed>>
        /\ peersfile' \in {peersfile, entries[q]}
    BY <1>9 DEF WriteFile, storeVars, ghostVars
  <2>2. Live' = Live /\ q \in Live
    BY <1>3, <2>1 DEF Live
  <2>3. Off'
    BY <1>1, <1>3, <2>1, <2>2
  <2> QED
    BY <1>1, <2>1, <2>2, <2>3
<1>10. ASSUME UNCHANGED <<entries, peersfile, failed>>, Live' \subseteq Live,
              \A q \in Procs : pc[q] = "save" => pc'[q] = "save"
       PROVE  Away' /\ Off'
  BY <1>1, <1>10
<1>11. ASSUME NEW q \in Procs, Start(q) \/ CreateKeypair(q) \/ WriteKeypair(q)
       PROVE  Away' /\ Off'
  <2>1. UNCHANGED <<entries, peersfile, failed>>
    BY <1>11 DEF Start, CreateKeypair, WriteKeypair, fileVars, storeVars, ghostVars
  <2>2. Live' \subseteq Live /\ \A r \in Procs : pc[r] = "save" => pc'[r] = "save"
    BY <1>3, <1>11 DEF Start, CreateKeypair, WriteKeypair, Live
  <2> QED
    BY <1>10, <2>1, <2>2
<1>12. ASSUME SetClock \/ SetInterfaces \/ UNCHANGED vars PROVE Away' /\ Off'
  <2>1. UNCHANGED <<entries, peersfile, failed, pc>>
    BY <1>12 DEF SetClock, SetInterfaces, vars, fileVars, storeVars, ghostVars
  <2> QED
    BY <1>10, <2>1 DEF Live
<1> QED
  BY <1>4, <1>5, <1>6, <1>7, <1>8, <1>9, <1>11, <1>12 DEF Next

(* A stored contact that could not be dialled is with no process and not   *)
(* in the file until somebody sees it again, except in four cases: another *)
(* process had it in memory, or loaded the file before the removal was     *)
(* saved; the process ended before it opened the file; or the file could   *)
(* not be opened (remove_address, save).                                   *)
THEOREM FailedNeverReturns == Spec => []FailedStaysAway
<1>1. Init => FailedStaysAway
  BY DEF Init, FailedStaysAway, Live
<1>2. TypeOK /\ FailedStaysAway /\ [Next]_vars => FailedStaysAway'
  BY AwayStep
<1> QED
  BY <1>1, <1>2, TypesKept, PTL DEF Spec

(***************************************************************************)
(* The identity                                                            *)
(***************************************************************************)

Making == {"generate", "keypair"}
Using == {"load", "running", "save", "write"}

\* The process that makes the identity is the only one, nothing is on disk before it is
\* done but the torn file it writes, and nobody uses an identity that is not on disk.
OneIdentity ==
  /\ \A q \in Procs : pc[q] \in Making => keyfile = None /\ key[q] # None
  /\ \A q \in Procs : pc[q] = "generate" => "keypair" \notin torn
  /\ \A q \in Procs : pc[q] = "keypair" => "keypair" \in torn
  /\ \A q, r \in Procs : pc[q] \in Making /\ pc[r] \in Making => q = r
  /\ \A q \in Procs : pc[q] \in Using => key[q] = keyfile /\ keyfile # None

\* As long as no two processes found no identity at the same time, every step keeps it one.
LEMMA IdentityStep ==
  ASSUME TypeOK, KeyCount, raced \/ OneIdentity, [Next]_vars
  PROVE  (raced \/ OneIdentity)'
<1>1. /\ pc \in [Procs -> {"off", "generate", "keypair", "load", "running", "save", "write"}]
      /\ key \in [Procs -> 0 .. MaxStarts] /\ raced \in BOOLEAN
  BY DEF TypeOK
<1>2. raced => raced'
  <2>1. ASSUME NEW q \in Procs, NEW c \in Contacts,
               Discovered(q, c) \/ Identified(q, c) \/ Dialled(q, c) \/ DialFailed(q, c)
        PROVE  raced => raced'
    BY <2>1 DEF Discovered, Identified, Dialled, DialFailed, Event
  <2>2. ASSUME NEW q \in Procs, Start(q) \/ CreateKeypair(q) \/ WriteKeypair(q) \/ LoadStore(q)
        PROVE  raced => raced'
    BY <2>2 DEF Start, CreateKeypair, WriteKeypair, LoadStore, ghostVars
  <2>3. ASSUME NEW q \in Procs, OpenFile(q) \/ WriteFile(q) \/ Stop(q) PROVE raced => raced'
    BY <2>3 DEF OpenFile, WriteFile, Stop, ghostVars
  <2>4. ASSUME SetClock \/ SetInterfaces \/ UNCHANGED vars PROVE raced => raced'
    BY <2>4 DEF SetClock, SetInterfaces, vars, ghostVars
  <2> QED
    BY <2>1, <2>2, <2>3, <2>4 DEF Next
<1>3. SUFFICES ASSUME OneIdentity, ~raced' PROVE OneIdentity'
  BY <1>2
<1> USE DEF OneIdentity, Making, Using
<1>4. ASSUME NEW q \in Procs, Start(q) PROVE OneIdentity'
  <2>1. UNCHANGED <<keyfile, torn>> /\ pc[q] = "off"
    BY <1>4 DEF Start, fileVars
  <2>2. CASE KeypairExists
    <3>1. /\ "keypair" \notin torn /\ keyfile # None
          /\ pc' = [pc EXCEPT ![q] = "load"] /\ key' = [key EXCEPT ![q] = keyfile]
      BY <1>4, <2>2 DEF Start, KeypairExists
    <3> QED
      BY <1>1, <1>3, <2>1, <3>1
  <2>3. CASE ~KeypairExists
    <3>1. /\ "keypair" \notin torn /\ keyfile = None
          /\ pc' = [pc EXCEPT ![q] = "generate"] /\ key' = [key EXCEPT ![q] = NewKey]
      BY <1>4, <2>3 DEF Start, KeypairExists
    <3>2. \A r \in Procs : pc[r] # "generate"
      BY <1>3, <1>4, <2>3 DEF Start
    <3>3. \A r \in Procs : pc[r] \notin Making \cup Using
      BY <1>3, <3>1, <3>2
    <3>4. NewKey # None
      <4>1. NewKey \in 1 .. MaxStarts
        BY <1>4, FreshKey DEF Start
      <4> QED
        BY <4>1 DEF None
    <3> QED
      BY <1>1, <2>1, <3>1, <3>3, <3>4
  <2> QED
    BY <2>2, <2>3
<1>5. ASSUME NEW q \in Procs, CreateKeypair(q) PROVE OneIdentity'
  <2>1. /\ pc[q] = "generate" /\ UNCHANGED keyfile
        /\ \/ pc' = [pc EXCEPT ![q] = "keypair"] /\ torn' = torn \cup {"keypair"} /\ UNCHANGED key
           \/ pc' = [pc EXCEPT ![q] = "off"] /\ key' = [key EXCEPT ![q] = None] /\ UNCHANGED torn
    BY <1>5 DEF CreateKeypair
  <2>2. CASE pc' = [pc EXCEPT ![q] = "keypair"] /\ torn' = torn \cup {"keypair"} /\ UNCHANGED key
    BY <1>1, <1>3, <2>1, <2>2
  <2>3. CASE /\ pc' = [pc EXCEPT ![q] = "off"] /\ key' = [key EXCEPT ![q] = None]
             /\ UNCHANGED torn
    BY <1>1, <1>3, <2>1, <2>3
  <2> QED
    BY <2>1, <2>2, <2>3
<1>6. ASSUME NEW q \in Procs, WriteKeypair(q) PROVE OneIdentity'
  <2>1. /\ pc[q] = "keypair"
        /\ \/ /\ pc' = [pc EXCEPT ![q] = "load"] /\ keyfile' = key[q] /\ UNCHANGED key
           \/ /\ pc' = [pc EXCEPT ![q] = "off"] /\ key' = [key EXCEPT ![q] = None]
              /\ UNCHANGED <<keyfile, torn>>
    BY <1>6 DEF WriteKeypair
  <2>2. \A r \in Procs : r # q => pc[r] \notin Making \cup Using
    BY <1>3, <2>1
  <2>3. CASE pc' = [pc EXCEPT ![q] = "load"] /\ keyfile' = key[q] /\ UNCHANGED key
    BY <1>1, <1>3, <2>1, <2>2, <2>3
  <2>4. CASE /\ pc' = [pc EXCEPT ![q] = "off"] /\ key' = [key EXCEPT ![q] = None]
             /\ UNCHANGED <<keyfile, torn>>
    BY <1>1, <1>3, <2>1, <2>2, <2>4
  <2> QED
    BY <2>1, <2>3, <2>4
<1>7. ASSUME NEW q \in Procs, Stop(q) PROVE OneIdentity'
  <2>1. /\ pc' = [pc EXCEPT ![q] = "off"] /\ key' = [key EXCEPT ![q] = None]
        /\ UNCHANGED <<keyfile, torn>>
    BY <1>7 DEF Stop, fileVars
  <2> QED
    BY <1>1, <1>3, <2>1
\* The other steps neither touch an identity nor start or end its use.
<1>8. ASSUME UNCHANGED <<key, keyfile>>, "keypair" \in torn' <=> "keypair" \in torn,
             \A r \in Procs : pc'[r] = pc[r] \/ (pc[r] \in Using /\ pc'[r] \in Using)
      PROVE  OneIdentity'
  BY <1>3, <1>8
<1>9. ASSUME NEW q \in Procs, LoadStore(q) \/ OpenFile(q) \/ WriteFile(q) PROVE OneIdentity'
  <2>1. UNCHANGED <<key, keyfile>>
    BY <1>9 DEF LoadStore, OpenFile, WriteFile, fileVars
  <2>2. "keypair" \in torn' <=> "keypair" \in torn
    BY <1>9 DEF LoadStore, OpenFile, WriteFile, fileVars
  <2>3. \A r \in Procs : pc'[r] = pc[r] \/ (pc[r] \in Using /\ pc'[r] \in Using)
    BY <1>1, <1>9 DEF LoadStore, OpenFile, WriteFile
  <2> QED
    BY <1>8, <2>1, <2>2, <2>3
<1>10. ASSUME NEW q \in Procs, NEW c \in Contacts,
              Discovered(q, c) \/ Identified(q, c) \/ Dialled(q, c) \/ DialFailed(q, c)
       PROVE  OneIdentity'
  <2>1. UNCHANGED <<key, keyfile, torn>> /\ pc[q] = "running"
    BY <1>10 DEF Discovered, Identified, Dialled, DialFailed, Event, fileVars
  <2>2. pc' \in {pc, [pc EXCEPT ![q] = "save"]}
    BY <1>10 DEF Discovered, Identified, Dialled, DialFailed, RecordAddress
  <2>3. \A r \in Procs : pc'[r] = pc[r] \/ (pc[r] \in Using /\ pc'[r] \in Using)
    BY <1>1, <2>1, <2>2
  <2> QED
    BY <1>8, <2>1, <2>3
<1>11. ASSUME SetClock \/ SetInterfaces \/ UNCHANGED vars PROVE OneIdentity'
  <2>1. UNCHANGED <<key, keyfile, torn, pc>>
    BY <1>11 DEF SetClock, SetInterfaces, vars, fileVars
  <2> QED
    BY <1>8, <2>1
<1> QED
  BY <1>4, <1>5, <1>6, <1>7, <1>9, <1>10, <1>11 DEF Next

(* Every process that runs has the identity on disk, through crashes and   *)
(* failed writes in the middle of the first start too, unless two of them  *)
(* have found none at the same time (load_or_generate_keypair).            *)
THEOREM IdentityStable == Spec => []IdentityKept
<1>1. Init => raced \/ OneIdentity
  BY DEF Init, OneIdentity, Making, Using
<1>2. TypeOK /\ KeyCount /\ (raced \/ OneIdentity) /\ [Next]_vars
        => (TypeOK /\ KeyCount /\ (raced \/ OneIdentity))'
  BY TypeStep, KeyStep, IdentityStep
<1>3. raced \/ OneIdentity => IdentityKept
  BY DEF OneIdentity, IdentityKept, Using
<1>4. Init => TypeOK /\ KeyCount
  BY InitTypes
<1> QED
  BY <1>1, <1>2, <1>3, <1>4, PTL DEF Spec
=============================================================================
