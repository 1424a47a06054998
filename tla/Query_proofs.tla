---------------------------- MODULE Query_proofs -----------------------------
(* Theorems about Query, for every set of paths and list of queries, every *)
(* local narinfo file, number of servers and lifetime of the cache, and    *)
(* every bound on commands, ticks and stops.                               *)
EXTENDS Query, Lists_proofs, SequenceTheorems, TLAPS

(***************************************************************************)
(* Lines and frames                                                        *)
(***************************************************************************)

\* The paths among the lines or frames s are in V.
Says(s, V) == \A i \in DOMAIN s : s[i] \in Paths => s[i] \in V

\* What the handler has written of its reply, to its buffer or to fd 4.
Told(b, f, V, W) ==
  /\ b \in Seq(Frames) /\ Says(b, V)
  /\ routing = "direct" => f \in Seq(Lines) /\ Says(f, W)

\* What some narinfo stands behind.
Backed == Backing("have") \cup Backing("info")

\* None of the other frames and lines is a path.
LEMMA WordsAreNotPaths ==
  \A w \in {"", "deriver", "sizes", "cut", EndFrame, EmptyFrame} : w \notin Paths
BY QueryAssumption DEF EndFrame, EmptyFrame

\* One reply after the other.
LEMMA SaysConcat ==
  ASSUME NEW S, NEW s \in Seq(S), NEW t \in Seq(S), NEW V, Says(s, V), Says(t, V)
  PROVE  s \o t \in Seq(S) /\ Says(s \o t, V)
<1>1. /\ s \o t \in Seq(S) /\ Len(s \o t) = Len(s) + Len(t)
      /\ \A i \in 1 .. Len(s) + Len(t) : (s \o t)[i] = IF i <= Len(s) THEN s[i] ELSE t[i - Len(s)]
  BY ConcatProperties
<1>2. SUFFICES ASSUME NEW i \in 1 .. Len(s) + Len(t) PROVE (s \o t)[i] \in Paths => (s \o t)[i] \in V
  BY <1>1 DEF Says
<1>3. CASE i <= Len(s)
  BY <1>1, <1>2, <1>3 DEF Says
<1>4. CASE i > Len(s)
  <2>1. i - Len(s) \in DOMAIN t
    BY <1>2, <1>4
  <2> QED
    BY <1>1, <1>2, <1>4, <2>1 DEF Says
<1> QED
  BY <1>3, <1>4

\* What is appended is there.
LEMMA FirstOfSecond ==
  ASSUME NEW S, NEW s \in Seq(S), NEW t \in Seq(S), Len(t) = 3
  PROVE  t[1] \in Range(s \o t)
<1>1. Len(s) + 1 \in 1 .. Len(s) + Len(t) /\ ~(Len(s) + 1 <= Len(s)) /\ (Len(s) + 1) - Len(s) = 1
  OBVIOUS
<1>2. /\ s \o t \in Seq(S) /\ Len(s \o t) = Len(s) + Len(t)
      /\ (s \o t)[Len(s) + 1] = t[(Len(s) + 1) - Len(s)]
  BY <1>1, ConcatProperties
<1>3. Len(s) + 1 \in DOMAIN (s \o t)
  BY <1>1, <1>2
<1> QED
  BY <1>1, <1>2, <1>3 DEF Range

\* The lines of frames name the paths of the frames.
LEMMA LinesSay ==
  ASSUME NEW b \in Seq(Frames), NEW V, Says(b, V)
  PROVE  LET l == [i \in 1 .. Len(b) |-> LineOf(b[i])] IN l \in Seq(Lines) /\ Says(l, V)
<1>1. \A f \in Frames : LineOf(f) \in Lines /\ (LineOf(f) \in Paths => LineOf(f) = f)
  BY WordsAreNotPaths DEF Frames, Lines, LineOf, EndFrame, EmptyFrame
<1>2. \A i \in 1 .. Len(b) : b[i] \in Frames
  OBVIOUS
<1>3. [i \in 1 .. Len(b) |-> LineOf(b[i])] \in Seq(Lines)
  BY <1>1, <1>2
<1>4. Says([i \in 1 .. Len(b) |-> LineOf(b[i])], V)
  BY <1>1, <1>2 DEF Says
<1> QED
  BY <1>3, <1>4

\* What is emitted comes after what was told.
LEMMA EmitTells ==
  ASSUME NEW V, NEW W, V \subseteq W, NEW b \in Seq(Frames), Says(b, V),
         Told(buf, fd4, V, W), Emit(b)
  PROVE  Told(buf', fd4', V, W)
<1>1. CASE routing = "direct"
  <2> DEFINE l == [i \in 1 .. Len(b) |-> LineOf(b[i])]
  <2>1. l \in Seq(Lines) /\ Says(l, V)
    BY LinesSay
  <2> HIDE DEF l
  <2>4. Says(l, W)
    BY <2>1 DEF Says
  <2>2. fd4 \o l \in Seq(Lines) /\ Says(fd4 \o l, W)
    BY <1>1, <2>1, <2>4, SaysConcat DEF Told
  <2>3. fd4' = fd4 \o l /\ buf' = buf
    BY <1>1 DEF Emit, l
  <2> QED
    BY <2>2, <2>3 DEF Told
<1>2. CASE routing # "direct"
  <2>1. buf \o b \in Seq(Frames) /\ Says(buf \o b, V)
    BY SaysConcat DEF Told
  <2>2. buf' = buf \o b
    BY <1>2 DEF Emit
  <2> QED
    BY <1>2, <2>1, <2>2 DEF Told
<1> QED
  BY <1>1, <1>2

\* An entry of a reply names the path asked for, or the one that the narinfo is about.
LEMMA EntrySays ==
  ASSUME NEW k, NEW V, NEW p \in Paths, NEW q \in Paths, IF k = "have" THEN p \in V ELSE q \in V
  PROVE  Entry(k, p, q) \in Seq(Frames) /\ Says(Entry(k, p, q), V)
<1> DEFINE d == IF q \in NoDeriver THEN EmptyFrame ELSE "deriver"
<1>1. /\ p \in Frames /\ q \in Frames /\ d \in Frames /\ "sizes" \in Frames
      /\ d \notin Paths /\ "sizes" \notin Paths
  BY WordsAreNotPaths DEF Frames, EmptyFrame
<1>2. CASE k = "have"
  <2>1. Entry(k, p, q) = <<p>>
    BY <1>2 DEF Entry
  <2>2. <<p>> \in Seq(Frames) /\ Says(<<p>>, V)
    BY <1>1, <1>2 DEF Says
  <2> QED
    BY <2>1, <2>2
<1>3. CASE k # "have"
  <2>1. Entry(k, p, q) = <<q, d, "sizes">>
    BY <1>3 DEF Entry
  <2> HIDE DEF d
  <2>2. <<q, d, "sizes">> \in Seq(Frames) /\ Says(<<q, d, "sizes">>, V)
    BY <1>1, <1>3 DEF Says
  <2> QED
    BY <2>1, <2>2
<1> QED
  BY <1>2, <1>3

(***************************************************************************)
(* The handler                                                             *)
(***************************************************************************)

\* What handle_have and handle_info do for p with a narinfo of q.
LEMMA NarinfoTells ==
  ASSUME NEW V, NEW W, V \subseteq W, NEW p \in Paths, NEW q \in Paths,
         IF kind = "have" THEN p \in V ELSE q \in V, Told(buf, fd4, V, W), HaveNarinfo(p, q)
  PROVE  /\ Told(buf', fd4', V, W)
         /\ hpc' \in {"path", "providers", "gone"}
         /\ hpc' = "providers" => todo' = todo /\ kind = "have"
         /\ claimed' \subseteq claimed \cup {p}
<1>1. CASE Name(p, q)
  <2>1. Emit(Entry(kind, p, q)) /\ hpc' = "path" /\ claimed' \subseteq claimed \cup {p}
    BY <1>1 DEF Name
  <2>2. Entry(kind, p, q) \in Seq(Frames) /\ Says(Entry(kind, p, q), V)
    BY EntrySays
  <2> QED
    BY <2>1, <2>2, EmitTells
<1>2. CASE UNCHANGED <<fd4, buf, claimed>> /\ hpc' \in {"path", "gone"}
  BY <1>2
<1>3. CASE UNCHANGED <<todo, fd4, buf, claimed>> /\ hpc' = "providers" /\ kind = "have"
  BY <1>3
<1> QED
  BY <1>1, <1>2, <1>3 DEF HaveNarinfo, LeaveOut, Panic

(***************************************************************************)
(* The inductive invariant                                                 *)
(***************************************************************************)

\* The cache has what somebody vouched for, for as long as it is valid.
Caching ==
  /\ cache \in [Paths -> 0 .. Ttl] /\ filed \in [Paths -> Paths] /\ life = cache
  /\ \A p \in Paths : cache[p] > 0 => <<p, filed[p]>> \in vouched

\* A lookup that has got past the cache is about a store path, and providers are looked
\* for only with a narinfo.
Looking ==
  /\ hpc \in {"fetch", "providers"} => StorePath(Head(todo))
  /\ hpc = "providers" => kind = "have" /\ Head(todo) \in Backing("have")

Claims == claimed \subseteq Paths \ NotStore

\* A process of its own has no connection, and so no frames on the way.
DirectOnly ==
  routing = "direct" =>
    /\ wire = << >> /\ hpc # "flush"
    /\ cpc \in {"new", "ready", "waiting"} \cup Ended

Sending == wire \in Seq(Frames) /\ Says(wire, Backed)
Telling == Told(buf, fd4, Backing(kind), Backed)

QueryInv == Caching /\ Looking /\ Claims /\ DirectOnly /\ Sending /\ Telling

\* Each kind of reply has a backing.
LEMMA KindBacked == Backing(kind) \subseteq Backed
<1>1. CASE kind = "have"
  BY <1>1 DEF Backed
<1>2. CASE kind # "have"
  BY <1>2 DEF Backed, Backing
<1> QED
  BY <1>1, <1>2

\* What is vouched for stays so.
LEMMA BackingGrows ==
  ASSUME vouched \subseteq vouched'
  PROVE  (\A k : Backing(k) \subseteq Backing(k)') /\ Backed \subseteq Backed'
BY DEF Backed, Backing

\* Who a narinfo of q for p stands behind.
LEMMA PairBacks ==
  ASSUME NEW p, NEW q, <<p, q>> \in vouched
  PROVE  /\ p \in Backing("have") /\ q \in Backing("info")
         /\ IF kind = "have" THEN p \in Backing(kind) ELSE q \in Backing(kind)
<1>1. \A v \in vouched : v[1] \in Backing("have") /\ v[2] \in Backing("info")
  BY DEF Backing
<1>2. <<p, q>>[1] = p /\ <<p, q>>[2] = q
  OBVIOUS
<1>3. kind # "have" => \A v \in vouched : v[2] \in Backing(kind)
  BY DEF Backing
<1> QED
  BY <1>1, <1>2, <1>3

\* Nothing but the local file is vouched for at first.
LEMMA InitQuery ==
  ASSUME Init
  PROVE  QueryInv
<1>1. Ttl \in Nat
  BY QueryAssumption
<1>2. Caching
  <2>1. LoadLocal \in [Paths -> 0 .. Ttl] /\ [p \in Paths |-> 0] \in [Paths -> 0 .. Ttl]
    BY <1>1 DEF LoadLocal
  <2>2. cache \in [Paths -> 0 .. Ttl]
    BY <2>1 DEF Init
  <2>3. filed \in [Paths -> Paths] /\ \A p \in Paths : filed[p] = p
    BY DEF Init, FiledInOrder
  <2>4. \A p \in Paths : cache[p] > 0 => <<p, p>> \in vouched
    BY DEF Init
  <2> QED
    BY <2>2, <2>3, <2>4 DEF Init, Caching
<1>3. Looking /\ Claims
  BY DEF Init, Looking, Claims
<1>5. DirectOnly
  BY DEF Init, DirectOnly
<1>4. Sending /\ Telling
  <2>1. << >> \in Seq(Frames) /\ << >> \in Seq(Lines) /\ \A V : Says(<< >>, V)
    BY DEF Says
  <2> QED
    BY <2>1 DEF Init, Sending, Telling, Told
<1> QED
  BY <1>2, <1>3, <1>4, <1>5 DEF QueryInv

\* A narinfo that is added to the cache is vouched for.
LEMMA PutKeeps ==
  ASSUME Caching, NEW p \in Paths, NEW info \in Served(p), Verified(info),
         Put(p, info.path), Vouch(p, info)
  PROVE  /\ Caching' /\ info.path \in Paths
         /\ vouched' = vouched \cup {<<p, info.path>>} /\ <<p, info.path>> \in vouched'
<1>1. Ttl \in Nat
  BY QueryAssumption
<1>2. info.signature = "good" /\ info.path \in Paths
  BY DEF Verified, Served, Narinfo
<1> DEFINE q == info.path
<1>3. /\ cache' = [cache EXCEPT ![p] = Ttl] /\ filed' = [filed EXCEPT ![p] = q]
      /\ vouched' = vouched \cup {<<p, q>>} /\ life' = [life EXCEPT ![p] = Ttl]
  BY <1>2 DEF Put, Vouch
<1> HIDE DEF q
<1>4. q \in Paths
  BY <1>2 DEF q
<1>5. cache' \in [Paths -> 0 .. Ttl] /\ filed' \in [Paths -> Paths] /\ life' = cache'
  BY <1>1, <1>3, <1>4 DEF Caching
<1>6. ASSUME NEW r \in Paths, cache'[r] > 0 PROVE <<r, filed'[r]>> \in vouched'
  <2>1. CASE r = p
    BY <1>3, <2>1 DEF Caching
  <2>2. CASE r # p
    BY <1>3, <1>6, <2>2 DEF Caching
  <2> QED
    BY <2>1, <2>2
<1> QED
  BY <1>3, <1>4, <1>5, <1>6 DEF Caching, q

\* Every step of a lookup keeps the invariant.
LEMMA LookupStep ==
  ASSUME QueryInv, LookUp \/ Fetch \/ NotFetched \/ Providers
  PROVE  QueryInv'
<1> USE DEF QueryInv
<1>1. UNCHANGED <<routing, cpc, wire, kind>>
  BY DEF LookUp, Fetch, NotFetched, Providers, configVars
<1>2. ASSUME vouched \subseteq vouched', hpc' # "flush" \/ routing # "direct"
      PROVE  DirectOnly' /\ Sending'
  <2>1. Backed \subseteq Backed'
    BY <1>2, BackingGrows
  <2> QED
    BY <1>1, <1>2, <2>1 DEF DirectOnly, Sending, Says
<1>3. ASSUME UNCHANGED <<cache, filed, life, vouched>>,
             Told(buf', fd4', Backing(kind), Backed), Looking', Claims', hpc' # "flush"
      PROVE  QueryInv'
  <2>1. Caching'
    BY <1>3 DEF Caching
  <2>2. Backing(kind)' = Backing(kind) /\ Backed' = Backed
    BY <1>1, <1>3 DEF Backed, Backing
  <2>3. Telling'
    BY <1>1, <1>3, <2>2 DEF Told, Telling
  <2> QED
    BY <1>2, <1>3, <2>1, <2>3
<1>4. ASSUME UNCHANGED <<cache, filed, life, vouched>>, LeaveOut PROVE QueryInv'
  <2>1. Told(buf', fd4', Backing(kind), Backed)
    BY <1>1, <1>4 DEF LeaveOut, Telling
  <2> QED
    BY <1>3, <1>4, <2>1 DEF LeaveOut, Looking, Claims
<1>9. ASSUME UNCHANGED vouched PROVE \A k : Backing(k)' = Backing(k)
  BY <1>9 DEF Backing
<1>5. CASE LookUp
  <2> DEFINE p == Head(todo)
  <2>1. UNCHANGED <<cache, filed, life, vouched>>
    BY <1>5 DEF LookUp, cacheVars
  <2>2. CASE LeaveOut
    BY <1>4, <2>1, <2>2
  <2>3. CASE StorePath(p) /\ Cached(p) /\ HaveNarinfo(p, filed[p])
    <3>1. p \in Paths /\ filed[p] \in Paths /\ <<p, filed[p]>> \in vouched
      BY <2>3 DEF StorePath, Cached, Caching
    <3>4. /\ p \in Backing("have")
          /\ IF kind = "have" THEN p \in Backing(kind) ELSE filed[p] \in Backing(kind)
      BY <3>1, PairBacks
    <3>2. /\ Told(buf', fd4', Backing(kind), Backed)
          /\ hpc' \in {"path", "providers", "gone"}
          /\ hpc' = "providers" => todo' = todo /\ kind = "have"
          /\ claimed' \subseteq claimed \cup {p}
      BY <2>3, <3>1, <3>4, NarinfoTells, KindBacked DEF Telling
    <3>3. Looking' /\ Claims'
      BY <1>1, <1>9, <2>1, <2>3, <3>1, <3>2, <3>4 DEF Looking, Claims, StorePath
    <3> QED
      BY <1>3, <2>1, <3>2, <3>3
  <2>4. CASE StorePath(p) /\ hpc' = "fetch" /\ UNCHANGED <<todo, fd4, buf, claimed>>
    <3>1. Looking' /\ Claims'
      BY <2>1, <2>4 DEF Looking, Claims, StorePath
    <3> QED
      BY <1>3, <2>1, <2>4, <3>1 DEF Telling
  <2> QED
    BY <1>5, <2>2, <2>3, <2>4 DEF LookUp
<1>6. CASE Fetch
  <2> DEFINE p == Head(todo)
  <2>1. StorePath(p) /\ hpc = "fetch" /\ p \in Paths
    BY <1>6 DEF Fetch, Looking, StorePath
  <2>2. CASE UNCHANGED <<hpc, todo, fd4, buf, claimed, cacheVars, vouched, life>>
    <3>1. Looking' /\ Claims'
      BY <2>1, <2>2 DEF Looking, Claims, StorePath
    <3> QED
      BY <1>3, <2>1, <2>2, <3>1 DEF Telling, cacheVars
  <2>3. CASE \E info \in Served(p) : /\ Verified(info) /\ Put(p, info.path)
                                     /\ Vouch(p, info) /\ HaveNarinfo(p, info.path)
    <3>0. PICK info \in Served(p) : /\ Verified(info) /\ Put(p, info.path)
                                    /\ Vouch(p, info) /\ HaveNarinfo(p, info.path)
      BY <2>3
    <3> DEFINE q == info.path
    <3>1. /\ Caching' /\ q \in Paths
          /\ vouched' = vouched \cup {<<p, q>>} /\ <<p, q>> \in vouched'
      BY <2>1, <3>0, PutKeeps
    <3>2. HaveNarinfo(p, q)
      BY <3>0
    <3> HIDE DEF q
    <3> DEFINE V == Backing(kind)'
               W == Backed'
    <3>3. /\ p \in Backing("have")' /\ V \subseteq W
          /\ IF kind = "have" THEN p \in V ELSE q \in V
      <4>1. /\ p \in Backing("have")'
            /\ IF kind' = "have" THEN p \in V ELSE q \in V
        <5>1. \A v \in vouched' : v[1] \in Backing("have")' /\ v[2] \in Backing("info")'
          BY DEF Backing
        <5>2. <<p, q>>[1] = p /\ <<p, q>>[2] = q
          OBVIOUS
        <5>3. kind' # "have" => \A v \in vouched' : v[2] \in Backing(kind)'
          BY DEF Backing
        <5> QED
          BY <3>1, <5>1, <5>2, <5>3
      <4>2. V \subseteq W
        <5>1. kind' = "have" => V \subseteq W
          BY DEF Backed
        <5>2. kind' # "have" => V \subseteq W
          BY DEF Backed, Backing
        <5> QED
          BY <5>1, <5>2
      <4> QED
        BY <1>1, <4>1, <4>2
    <3>4. Told(buf, fd4, V, W)
      <4>1. Backing(kind) \subseteq V /\ Backed \subseteq W
        <5>1. (\A k : Backing(k) \subseteq Backing(k)') /\ Backed \subseteq Backed'
          BY <3>1, BackingGrows
        <5>2. Backing(kind)' = {IF kind' = "have" THEN v[1] ELSE v[2] : v \in vouched'}
          BY DEF Backing
        <5> QED
          BY <1>1, <3>1, <5>1, <5>2 DEF Backing
      <4> QED
        BY <4>1 DEF Telling, Told, Says
    <3> HIDE DEF V, W
    <3>5. /\ Told(buf', fd4', V, W)
          /\ hpc' \in {"path", "providers", "gone"}
          /\ hpc' = "providers" => todo' = todo /\ kind = "have"
          /\ claimed' \subseteq claimed \cup {p}
      BY <2>1, <3>1, <3>2, <3>3, <3>4, NarinfoTells
    <3>6. Looking' /\ Claims'
      BY <1>1, <2>1, <3>3, <3>5 DEF Looking, Claims, StorePath
    <3>7. DirectOnly' /\ Sending'
      BY <1>2, <3>1, <3>5
    <3>8. Telling'
      BY <1>1, <3>5 DEF Told, Telling, V, W
    <3> QED
      BY <3>1, <3>6, <3>7, <3>8
  <2> QED
    BY <1>6, <2>2, <2>3 DEF Fetch
<1>7. CASE NotFetched
  BY <1>4, <1>7 DEF NotFetched, cacheVars
<1>8. CASE Providers
  <2> DEFINE p == Head(todo)
  <2>1. /\ UNCHANGED <<cache, filed, life, vouched>>
        /\ kind = "have" /\ p \in Backing("have") /\ StorePath(p)
    BY <1>8 DEF Providers, Looking, cacheVars
  <2>2. CASE LeaveOut
    BY <1>4, <2>1, <2>2
  <2>3. CASE Name(p, filed[p])
    <3>1. hpc' = "path" /\ Emit(Entry(kind, p, filed[p])) /\ claimed' \subseteq claimed \cup {p}
      BY <2>3 DEF Name
    <3>2. Told(buf', fd4', Backing(kind), Backed)
      <4>1. p \in Paths /\ filed[p] \in Paths
        BY <2>1 DEF StorePath, Caching
      <4>2. /\ Entry(kind, p, filed[p]) \in Seq(Frames)
            /\ Says(Entry(kind, p, filed[p]), Backing(kind))
        BY <2>1, <4>1, EntrySays
      <4> QED
        BY <3>1, <4>2, EmitTells, KindBacked DEF Telling
    <3>3. Looking' /\ Claims'
      BY <2>1, <3>1 DEF Looking, Claims, StorePath
    <3> QED
      BY <1>3, <2>1, <3>1, <3>2, <3>3
  <2> QED
    BY <1>8, <2>2, <2>3 DEF Providers
<1> QED
  BY <1>5, <1>6, <1>7, <1>8

\* The rest of the handler: commands, the end of a reply and the end of a connection.
LEMMA HandlerKeeps ==
  ASSUME QueryInv, ReadCommand \/ ReadEof \/ WriteEnd \/ Flush
  PROVE  QueryInv'
<1> USE DEF QueryInv
<1>1. UNCHANGED <<routing, cache, filed, life, vouched, claimed>>
  BY DEF ReadCommand, ReadEof, WriteEnd, Flush, configVars, cacheVars, ghostVars
<1>7. Backed' = Backed /\ (kind' = kind => Backing(kind)' = Backing(kind))
  BY <1>1 DEF Backed, Backing
<1>2. hpc' \notin {"fetch", "providers"}
  BY DEF ReadCommand, ReadEof, WriteEnd, Flush
<1>3. Caching' /\ Claims' /\ Looking'
  BY <1>1, <1>2 DEF Caching, Claims, Looking
<1>4. CASE ReadCommand \/ ReadEof
  <2>1. /\ UNCHANGED <<cpc, fd4, wire>> /\ hpc' # "flush"
        /\ buf' = << >> \/ UNCHANGED <<buf, kind>>
    BY <1>4 DEF ReadCommand, ReadEof, clientVars
  <2>2. << >> \in Seq(Frames) /\ \A V : Says(<< >>, V)
    BY DEF Says
  <2>3. Telling'
    BY <1>1, <1>7, <2>1, <2>2 DEF Told, Telling
  <2>4. DirectOnly' /\ Sending'
    BY <1>1, <1>7, <2>1 DEF DirectOnly, Sending
  <2> QED
    BY <1>3, <2>3, <2>4
<1>5. CASE WriteEnd
  <2>1. /\ Emit(<<EndFrame>>) /\ UNCHANGED <<wire, kind>>
        /\ routing = "direct" => hpc' = "idle" /\ cpc' = "ready"
    BY <1>5 DEF WriteEnd
  <2>2. <<EndFrame>> \in Seq(Frames) /\ Says(<<EndFrame>>, Backing(kind))
    <3>1. EndFrame \in Frames /\ EndFrame \notin Paths
      BY WordsAreNotPaths DEF Frames, EndFrame
    <3> QED
      BY <3>1 DEF Says
  <2>3. Told(buf', fd4', Backing(kind), Backed)
    BY <2>1, <2>2, EmitTells, KindBacked DEF Telling
  <2>4. Telling'
    BY <1>1, <1>7, <2>1, <2>3 DEF Told, Telling
  <2>5. DirectOnly' /\ Sending'
    BY <1>1, <1>7, <2>1 DEF DirectOnly, Sending
  <2> QED
    BY <1>3, <2>4, <2>5
<1>6. CASE Flush
  <2>1. /\ hpc = "flush" /\ hpc' # "flush" /\ wire' \in {wire, wire \o buf} /\ buf' = << >>
        /\ UNCHANGED <<cpc, fd4>>
    BY <1>6 DEF Flush, clientVars
  <2>2. routing # "direct"
    BY <2>1 DEF DirectOnly
  <2>7. wire \in Seq(Frames) /\ buf \in Seq(Frames) /\ Says(wire, Backed) /\ Says(buf, Backed)
    BY KindBacked DEF Telling, Told, Sending, Says
  <2>3. wire \o buf \in Seq(Frames) /\ Says(wire \o buf, Backed)
    BY <2>7, SaysConcat
  <2>4. Sending'
    BY <1>7, <2>1, <2>3 DEF Sending
  <2>5. Telling'
    BY <1>1, <2>1, <2>2 DEF Told, Says, Telling
  <2>6. DirectOnly'
    BY <1>1, <2>2 DEF DirectOnly
  <2> QED
    BY <1>3, <2>4, <2>5, <2>6
<1> QED
  BY <1>4, <1>5, <1>6

\* The client, and guix-daemon.
LEMMA ClientKeeps ==
  ASSUME QueryInv, ClientStep \/ Ask \/ CloseInput \/ Killed
  PROVE  QueryInv'
<1> USE DEF QueryInv
<1>1. UNCHANGED <<routing, cache, filed, life, vouched, claimed, buf, kind, todo>>
  BY DEF ClientStep, Start, Connect, Builtin, AskDaemon, TakeFrame, WriteReply, TakeEof, CopyEnds,
         GuixReads, GuixRefuses, Ask, CloseInput, Killed, configVars, cacheVars, ghostVars,
         handlerVars
<1>7. \A k : Backing(k)' = Backing(k)
  BY <1>1 DEF Backing
<1>8. Backed' = Backed /\ Backing(kind)' = Backing(kind)
  BY <1>1 DEF Backed, Backing
<1>2. hpc' \in {hpc, "idle"}
  BY DEF ClientStep, Start, Connect, Builtin, AskDaemon, TakeFrame, WriteReply, TakeEof, CopyEnds,
         GuixReads, GuixRefuses, Ask, CloseInput, Killed, handlerVars
<1>3. Caching' /\ Claims' /\ Looking'
  BY <1>1, <1>2, <1>7 DEF Caching, Claims, Looking, StorePath
<1>4. Sending'
  <2>1. CASE TakeFrame
    <3>1. wire # << >> /\ wire' = Tail(wire)
      BY <2>1 DEF TakeFrame
    <3>2. /\ Tail(wire) \in Seq(Frames)
          /\ \A i \in DOMAIN Tail(wire) : i + 1 \in DOMAIN wire /\ Tail(wire)[i] = wire[i + 1]
      BY <3>1 DEF Sending
    <3> QED
      BY <1>8, <3>1, <3>2 DEF Sending, Says
  <2>2. CASE ~TakeFrame
    <3>1. wire' \in {wire, << >>}
      BY <2>2 DEF ClientStep, Start, Connect, Builtin, AskDaemon, WriteReply, TakeEof, CopyEnds,
                  GuixReads, GuixRefuses, Ask, CloseInput, Killed
    <3>2. << >> \in Seq(Frames) /\ Says(<< >>, Backed)
      BY DEF Says
    <3> QED
      BY <1>8, <3>1, <3>2 DEF Sending
  <2> QED
    BY <2>1, <2>2
<1>5. CASE routing # "direct"
  <2>1. DirectOnly' /\ Telling'
    BY <1>1, <1>5, <1>8 DEF DirectOnly, Told, Telling
  <2> QED
    BY <1>3, <1>4, <2>1
<1>6. CASE routing = "direct"
  <2>1. wire = << >> /\ hpc # "flush" /\ cpc \in {"new", "ready", "waiting"} \cup Ended
    BY <1>6 DEF DirectOnly
  <2>2. ~Connect /\ ~Builtin /\ ~AskDaemon /\ ~TakeFrame /\ ~WriteReply /\ ~CopyEnds
    BY <2>1 DEF Connect, Builtin, AskDaemon, TakeFrame, WriteReply, CopyEnds, Ended
  <2>3. /\ wire' = wire
        /\ cpc' \in {"new", "ready", "waiting"} \cup Ended
    BY <1>6, <2>1, <2>2 DEF ClientStep, Start, TakeEof, GuixReads, GuixRefuses, Ask, CloseInput,
                            Killed, Ended
  <2>4. DirectOnly'
    BY <1>1, <1>2, <2>1, <2>3 DEF DirectOnly
  <2>5. Telling'
    <3>1. CASE GuixReads
      <4>1. PICK n \in 1 .. Len(fd4) : fd4' = SubSeq(fd4, n + 1, Len(fd4))
        BY <3>1 DEF GuixReads
      <4>2. fd4 \in Seq(Lines) /\ Says(fd4, Backed)
        BY <1>6 DEF Told, Telling
      <4>3. /\ fd4' \in Seq(Lines)
            /\ \A i \in DOMAIN fd4' : i + n \in DOMAIN fd4 /\ fd4'[i] = fd4[i + n]
        BY <4>1, <4>2
      <4> QED
        BY <1>1, <1>8, <4>2, <4>3 DEF Told, Says, Telling
    <3>2. CASE ~GuixReads
      <4>1. fd4' = fd4
        BY <2>2, <3>2 DEF ClientStep, Start, TakeEof, GuixRefuses, Ask, CloseInput, Killed
      <4> QED
        BY <1>1, <1>8, <4>1 DEF Told, Telling
    <3> QED
      BY <3>1, <3>2
  <2> QED
    BY <1>3, <1>4, <2>4, <2>5
<1> QED
  BY <1>5, <1>6

\* What a daemon that stops has written of its reply.
LEMMA BegunSays ==
  ASSUME NEW V, buf \in Seq(Frames), Says(buf, V), NEW part \in Begun
  PROVE  part \in Seq(Frames) /\ Says(part, V)
<1>1. << >> \in Seq(Frames) /\ Says(<< >>, V)
  BY DEF Says
<1>2. CASE hpc # "flush"
  BY <1>1, <1>2 DEF Begun
<1>3. CASE hpc = "flush"
  <2>1. PICK n \in 0 .. Len(buf) - 1, rest \in {<< >>, <<"cut">>, <<EndFrame>>} :
          part = SubSeq(buf, 1, n) \o rest
    <3> DEFINE R == {<< >>, <<"cut">>, <<EndFrame>>}
    <3>1. part \in UNION {{SubSeq(buf, 1, m) \o w : w \in R} : m \in 0 .. Len(buf) - 1}
      BY <1>3, Zenon DEF Begun
    <3> HIDE DEF R
    <3>2. \E m \in 0 .. Len(buf) - 1, w \in R : part = SubSeq(buf, 1, m) \o w
      BY <3>1, Zenon
    <3> QED
      BY <3>2, Zenon DEF R
  <2>2. SubSeq(buf, 1, n) \in Seq(Frames) /\ Says(SubSeq(buf, 1, n), V)
    BY DEF Says
  <2>3. /\ <<"cut">> \in Seq(Frames) /\ Says(<<"cut">>, V)
        /\ <<EndFrame>> \in Seq(Frames) /\ Says(<<EndFrame>>, V)
    <3>1. "cut" \in Frames /\ "cut" \notin Paths /\ EndFrame \in Frames /\ EndFrame \notin Paths
      BY WordsAreNotPaths DEF Frames, EndFrame
    <3>2. \A w \in Frames \ Paths : <<w>> \in Seq(Frames) /\ Says(<<w>>, V)
      BY DEF Says
    <3> QED
      BY <3>1, <3>2
  <2>4. rest \in Seq(Frames) /\ Says(rest, V)
    BY <1>1, <2>3
  <2> QED
    BY <2>1, <2>2, <2>4, SaysConcat
<1> QED
  BY <1>2, <1>3

\* The daemon, the other connections and the time.
LEMMA DaemonKeeps ==
  ASSUME QueryInv, OtherFetch \/ Tick \/ StartDaemon \/ Listen \/ StopDaemon \/ UNCHANGED vars
  PROVE  QueryInv'
<1> USE DEF QueryInv
<1>1. Ttl \in Nat
  BY QueryAssumption
<1>2. /\ UNCHANGED <<routing, cpc, fd4, claimed, kind>>
      /\ \/ UNCHANGED <<hpc, todo, buf, wire>>
         \/ StopDaemon /\ hpc' = "gone" /\ buf' = << >>
  BY DEF OtherFetch, Tick, StartDaemon, Listen, StopDaemon, vars, configVars, clientVars,
         handlerVars, ghostVars
<1>3. Caching' /\ vouched \subseteq vouched'
  <2>1. CASE OtherFetch
    <3>1. PICK p \in Paths \ NotStore : \E info \in Served(p) :
            Verified(info) /\ Put(p, info.path) /\ Vouch(p, info)
      BY <2>1 DEF OtherFetch
    <3>2. PICK info \in Served(p) : Verified(info) /\ Put(p, info.path) /\ Vouch(p, info)
      BY <3>1
    <3>3. Caching' /\ vouched' = vouched \cup {<<p, info.path>>}
      BY <3>2, PutKeeps
    <3> QED
      BY <3>3
  <2>2. CASE Tick
    <3>1. /\ cache' = [p \in Paths |-> Less(cache[p])] /\ life' = [p \in Paths |-> Less(life[p])]
          /\ UNCHANGED <<filed, vouched>>
      BY <2>2 DEF Tick
    <3> QED
      BY <1>1, <3>1 DEF Caching, Less
  <2>3. CASE StartDaemon
    <3>1. /\ cache' = LoadLocal /\ life' = LoadLocal /\ filed' = FiledInOrder
          /\ vouched' = vouched \cup {<<p, p>> : p \in IF offline THEN local ELSE {}}
      BY <2>3 DEF StartDaemon
    <3>2. \A p \in Paths : LoadLocal[p] > 0 => p \in IF offline THEN local ELSE {}
      BY <1>1 DEF LoadLocal
    <3>3. LoadLocal \in [Paths -> 0 .. Ttl]
      BY <1>1 DEF LoadLocal
    <3>4. FiledInOrder \in [Paths -> Paths] /\ \A p \in Paths : FiledInOrder[p] = p
      BY DEF FiledInOrder
    <3> QED
      BY <3>1, <3>2, <3>3, <3>4 DEF Caching
  <2>4. CASE StopDaemon
    BY <1>1, <2>4 DEF Caching, StopDaemon, FiledInOrder
  <2>5. CASE Listen \/ UNCHANGED vars
    BY <2>5 DEF Caching, Listen, vars, ghostVars, cacheVars
  <2> QED
    BY <2>1, <2>2, <2>3, <2>4, <2>5
<1>4. Backed \subseteq Backed' /\ Backing("have") \subseteq Backing("have")'
  BY <1>3, BackingGrows
<1>5. Backing(kind) \subseteq Backing(kind)'
  BY <1>2, <1>3 DEF Backing
<1>6. Looking' /\ Claims' /\ DirectOnly'
  <2>1. StopDaemon => routing # "direct"
    BY DEF StopDaemon
  <2> QED
    BY <1>2, <1>4, <2>1 DEF Looking, StorePath, Claims, DirectOnly
<1>7. Telling'
  <2>1. << >> \in Seq(Frames) /\ \A V : Says(<< >>, V)
    BY DEF Says
  <2> QED
    BY <1>2, <1>4, <1>5, <2>1 DEF Telling, Told, Says
<1>8. Sending'
  <2>1. CASE UNCHANGED wire
    BY <1>4, <2>1 DEF Sending, Says
  <2>2. CASE StopDaemon
    <3>1. PICK part \in Begun : wire' = wire \o part
      BY <2>2 DEF StopDaemon
    <3>2. buf \in Seq(Frames) /\ Says(buf, Backed) /\ wire \in Seq(Frames) /\ Says(wire, Backed)
      BY KindBacked DEF Telling, Told, Sending, Says
    <3>3. part \in Seq(Frames) /\ Says(part, Backed)
      BY <3>2, BegunSays
    <3>4. wire' \in Seq(Frames) /\ Says(wire', Backed)
      BY <3>1, <3>2, <3>3, SaysConcat
    <3> QED
      BY <1>4, <3>4 DEF Sending, Says
  <2> QED
    BY <1>2, <2>1, <2>2
<1> QED
  BY <1>3, <1>6, <1>7, <1>8

\* The invariant holds throughout.
LEMMA QueryInvariant == Spec => []QueryInv
<1>1. Init => QueryInv
  BY InitQuery
<1>2. QueryInv /\ [Next]_vars => QueryInv'
  BY LookupStep, HandlerKeeps, ClientKeeps, DaemonKeeps DEF Next, HandlerStep
<1> QED
  BY <1>1, <1>2, PTL DEF Spec

(***************************************************************************)
(* Theorems                                                                *)
(***************************************************************************)

(* The daemon, or the process that runs the query itself, uses no narinfo  *)
(* that an authorised key has not signed and that is not in the local      *)
(* file, whatever the servers answer, of whatever path, and whoever fills  *)
(* the cache: have names a path only if such a narinfo was received for    *)
(* it, info describes only paths that one is about                         *)
(* (fetch_verified_narinfo, handle_have, handle_info).                     *)
THEOREM OnlyVouchedNamed == Spec => []NamedIsVouched
<1>1. QueryInv => NamedIsVouched
  <2> SUFFICES ASSUME QueryInv PROVE NamedIsVouched
    OBVIOUS
  <2>1. Says(buf, Backing(kind)) /\ Says(wire, Backed) /\ (routing = "direct" => Says(fd4, Backed))
    BY DEF QueryInv, Sending, Telling, Told
  <2>2. \A s, V : Says(s, V) => Range(s) \cap Paths \subseteq V
    BY DEF Says, Range
  <2> QED
    BY <2>1, <2>2 DEF NamedIsVouched, Backed
<1> QED
  BY <1>1, QueryInvariant, PTL

(* Under every policy, info answers for a path that have has claimed with  *)
(* the narinfo in the cache as long as that is younger than the cache's    *)
(* lifetime and the daemon was not restarted; only a NAR hash that is no   *)
(* SHA-256 makes it leave the path out (handle_have, handle_info,          *)
(* NarinfoCache::get).                                                     *)
THEOREM ClaimsDescribed == Spec => InfoKeepsClaims
<1> DEFINE Step == kind = "info" /\ hpc = "path" /\ hpc' = "path" /\ todo' # todo
                     /\ Head(todo) \in Owed
                   => filed[Head(todo)] \in Range(buf') \cup Range(fd4')
<1>1. ASSUME QueryInv, Next, kind = "info", hpc = "path", hpc' = "path", todo' # todo,
             Head(todo) \in Owed
      PROVE  filed[Head(todo)] \in Range(buf') \cup Range(fd4')
  <2> DEFINE p == Head(todo)
             q == filed[p]
  <2>1. LookUp
    <3>1. ~ClientStep /\ ~Ask /\ ~CloseInput /\ ~Killed
      BY <1>1 DEF ClientStep, Start, Connect, Builtin, AskDaemon, TakeFrame, WriteReply,
                  TakeEof, CopyEnds, GuixReads, GuixRefuses, Ask, CloseInput, Killed, handlerVars
    <3>2. ~OtherFetch /\ ~Tick /\ ~StartDaemon /\ ~Listen /\ ~StopDaemon
      BY <1>1 DEF OtherFetch, Tick, StartDaemon, Listen, StopDaemon, handlerVars
    <3>3. ~ReadCommand /\ ~ReadEof /\ ~Fetch /\ ~NotFetched /\ ~Providers /\ ~WriteEnd /\ ~Flush
      BY <1>1 DEF ReadCommand, ReadEof, Fetch, NotFetched, Providers, WriteEnd, Flush
    <3> QED
      BY <1>1, <3>1, <3>2, <3>3 DEF Next, HandlerStep
  <2>2. StorePath(p) /\ Cached(p) /\ q \notin BadHash /\ q \in Paths
    BY <1>1 DEF QueryInv, Claims, Caching, Owed, StorePath, Cached
  <2>3. Name(p, q)
    BY <1>1, <2>1, <2>2 DEF LookUp, HaveNarinfo, Panic, LeaveOut
  <2>4. Emit(Entry(kind, p, q)) /\ Telling
    BY <1>1, <2>3 DEF Name, QueryInv
  <2> DEFINE d == IF q \in NoDeriver THEN EmptyFrame ELSE "deriver"
             e == <<q, d, "sizes">>
  <2>5. Entry(kind, p, q) = e
    BY <1>1 DEF Entry
  <2>6. e \in Seq(Frames) /\ Len(e) = 3 /\ e[1] = q
    BY <2>2 DEF Frames, EmptyFrame
  <2> HIDE DEF e, d
  <2>7. CASE routing = "direct"
    <3> DEFINE l == [i \in 1 .. Len(e) |-> LineOf(e[i])]
    <3>1. fd4' = fd4 \o l /\ fd4 \in Seq(Lines)
      BY <2>4, <2>5, <2>7 DEF Emit, Told, Telling
    <3>2. Says(e, Paths)
      BY DEF Says
    <3>3. l \in Seq(Lines)
      BY <2>6, <3>2, LinesSay
    <3>4. Len(l) = 3 /\ l[1] = q
      <4>1. LineOf(q) = q
        BY <2>2, WordsAreNotPaths DEF LineOf
      <4> QED
        BY <2>6, <3>3, <4>1
    <3> HIDE DEF l
    <3> QED
      BY <3>1, <3>3, <3>4, FirstOfSecond
  <2>8. CASE routing # "direct"
    <3>1. buf' = buf \o e /\ buf \in Seq(Frames)
      BY <2>4, <2>5, <2>8 DEF Emit, Told, Telling
    <3> QED
      BY <2>6, <3>1, FirstOfSecond
  <2> QED
    BY <2>7, <2>8
<1>2. QueryInv /\ [Next]_vars => [Step]_vars
  BY <1>1
<1> QED
  BY <1>2, QueryInvariant, PTL DEF Spec, InfoKeepsClaims

(***************************************************************************)
(* Replies                                                                 *)
(***************************************************************************)

\* Where the path of the i-th record is, and the length of n records.
At(k, i) == IF k = "have" THEN i ELSE 3 * i - 2
Size(k, n) == IF k = "have" THEN n ELSE 3 * n

\* The lines l are the records of the paths s, and the same with the end of the reply.
Part(k, s, l) ==
  /\ s \in Seq(Paths) /\ l \in Seq(Lines) /\ Len(l) = Size(k, Len(s))
  /\ \A i \in 1 .. Len(s) : l[At(k, i)] = s[i]

Closed(l) == l[Len(l)] = ""

Whole(k, s, l) ==
  /\ s \in Seq(Paths) /\ l \in Seq(Lines) /\ Len(l) = Size(k, Len(s)) + 1
  /\ \A i \in 1 .. Len(s) : l[At(k, i)] = s[i]
  /\ Closed(l)

LinesOf(b) == [i \in 1 .. Len(b) |-> LineOf(b[i])]

\* Paths of W, none of them twice, and two such lists with nothing in common.
Good(s, W) ==
  /\ s \in Seq(Paths)
  /\ \A i \in 1 .. Len(s) : s[i] \in W
  /\ \A i, j \in 1 .. Len(s) : s[i] = s[j] => i = j

Apart(s, t, W) ==
  /\ Good(s, W) /\ Good(t, W)
  /\ \A i \in 1 .. Len(s), j \in 1 .. Len(t) : s[i] # t[j]

\* The end frame is the last of the frames b, or none of them.
EndsOnce(b) == \A i \in 1 .. Len(b) : b[i] = EndFrame <=> i = Len(b)
NoEnd(b) == \A i \in 1 .. Len(b) : b[i] # EndFrame

\* What guix-daemon has asked for and got.
Counting ==
  /\ asked \in Seq([kind : {"have", "info"}, paths : Queries])
  /\ offered \in Seq(SUBSET Paths) /\ Len(offered) = Len(asked)
  /\ answers \in Seq(Seq(Lines))
  /\ Len(answers) = Len(asked) \/ Len(answers) = Len(asked) - 1
  /\ cpc \in {"new", "connect"} => asked = << >>
  /\ cpc \in {"builtin", "missing", "waiting", "write"} => asked # << >>
  /\ cpc = "stuck" => routing = "relay"
  /\ routing # "builtin-first" =>
       /\ cpc \notin {"builtin", "missing", "write"}
       /\ \A i \in 1 .. Len(offered) : offered[i] = {}

\* The paths that a reply of the daemon may name, and where its lines go.
Wants == Range(LastAsked.paths) \ offered[Len(offered)]
Got == IF routing = "builtin-first" THEN p2p ELSE fd4
Draft == IF routing = "direct" THEN fd4 ELSE LinesOf(buf)
Working == hpc \in {"path", "fetch", "providers"}
Resting == hpc \in {"idle", "gone"}

\* Where a reply of the daemon is: nowhere, asked for, being written, written, on its way
\* to guix-daemon or the extension, or cut off.
Quiet == Resting /\ command = << >> /\ wire = << >> /\ Got = << >>

Sent ==
  /\ ~InStep /\ Resting /\ wire = << >> /\ Got = << >>
  /\ \E q : Good(q, Wants) /\ command = <<[kind |-> LastAsked.kind, paths |-> q]>>

Drafting ==
  /\ ~InStep /\ Working /\ command = << >> /\ wire = << >>
  /\ kind = LastAsked.kind /\ (hpc # "path" => todo # << >>)
  /\ routing # "direct" => Got = << >> /\ NoEnd(buf)
  /\ \E s : Apart(s, todo, Wants) /\ Part(kind, s, Draft)

Drafted ==
  /\ ~InStep /\ hpc = "flush" /\ command = << >> /\ wire = << >> /\ Got = << >>
  /\ EndsOnce(buf)
  /\ \E s : Good(s, Wants) /\ Whole(LastAsked.kind, s, LinesOf(buf))

Arriving ==
  /\ ~InStep /\ Resting /\ command = << >>
  /\ Got \in Seq(Lines) /\ EndsOnce(wire) /\ (routing = "builtin-first" => wire # << >>)
  /\ \E s : Good(s, Wants) /\ Whole(LastAsked.kind, s, Got \o LinesOf(wire))

CutOff ==
  /\ ~InStep /\ hpc = "gone" /\ command = << >> /\ wire = << >> /\ routing = "direct"
  /\ \E s : Part(LastAsked.kind, s, fd4)

Reply == Quiet \/ Sent \/ Drafting \/ Drafted \/ Arriving \/ CutOff

Replying == (routing = "builtin-first" => cpc = "waiting") => Reply

\* How the extension puts an answer together.
Merging ==
  routing = "builtin-first" =>
    /\ cpc # "connect"
    /\ cpc \in {"builtin", "missing", "waiting", "write"} => ~InStep /\ fd4 = << >>
    /\ cpc \in {"new", "ready", "builtin"} => builtin = << >>
    /\ cpc \in {"new", "ready", "builtin", "missing"} => p2p = << >>
    /\ cpc \in {"missing", "waiting", "write"} =>
         \E s : /\ Part(LastAsked.kind, s, builtin)
                /\ Good(s, Range(LastAsked.paths))
                /\ Range(s) = offered[Len(offered)]
    /\ cpc = "write" => \E s : Part(LastAsked.kind, s, p2p) /\ Good(s, Wants)
    /\ fd4 # << >> =>
         /\ ~InStep
         /\ \E s : /\ Whole(LastAsked.kind, s, fd4)
                   /\ Good(s, Range(LastAsked.paths))
                   /\ offered[Len(offered)] \subseteq Range(s)

AnswerInv == Counting /\ BuiltinKept /\ Replying /\ Merging

\* The commands.
Kinds == {"have", "info"}

\* A list of elements of a set is one of elements of a larger set.
LEMMA SeqWithin ==
  ASSUME NEW S, NEW T, S \subseteq T, NEW s \in Seq(S)
  PROVE  s \in Seq(T)
OBVIOUS

\* Records after records.
LEMMA PartConcat ==
  ASSUME NEW k \in Kinds, NEW s, NEW l, NEW t, NEW m, Part(k, s, l), Part(k, t, m)
  PROVE  Part(k, s \o t, l \o m)
<1> DEFINE a == Len(s)
           b == Len(t)
           c == Len(l)
           d == Len(m)
<1>1. s \in Seq(Paths) /\ t \in Seq(Paths) /\ l \in Seq(Lines) /\ m \in Seq(Lines)
  BY DEF Part
<1>2. a \in Nat /\ b \in Nat /\ c \in Nat /\ d \in Nat /\ c = Size(k, a) /\ d = Size(k, b)
  BY <1>1 DEF Part
<1>3. /\ s \o t \in Seq(Paths) /\ Len(s \o t) = a + b
      /\ \A i \in 1 .. a + b : (s \o t)[i] = IF i <= a THEN s[i] ELSE t[i - a]
  BY <1>1, ConcatProperties
<1>4. /\ l \o m \in Seq(Lines) /\ Len(l \o m) = c + d
      /\ \A i \in 1 .. c + d : (l \o m)[i] = IF i <= c THEN l[i] ELSE m[i - c]
  BY <1>1, ConcatProperties
<1>5. /\ \A i \in 1 .. a : l[At(k, i)] = s[i]
      /\ \A i \in 1 .. b : m[At(k, i)] = t[i]
  BY DEF Part
<1> HIDE DEF a, b, c, d
<1>6. Len(l \o m) = Size(k, Len(s \o t))
  BY <1>2, <1>3, <1>4 DEF Size, Kinds
<1>7. ASSUME NEW i \in 1 .. a + b PROVE (l \o m)[At(k, i)] = (s \o t)[i]
  <2>1. CASE i <= a
    <3>1. i \in 1 .. a /\ At(k, i) \in 1 .. c + d /\ At(k, i) <= c
      BY <1>2, <2>1 DEF At, Size, Kinds
    <3> QED
      BY <1>3, <1>4, <1>5, <2>1, <3>1
  <2>2. CASE i > a
    <3>1. /\ i - a \in 1 .. b /\ At(k, i) \in 1 .. c + d /\ ~(At(k, i) <= c) /\ ~(i <= a)
          /\ At(k, i) - c = At(k, i - a)
      BY <1>2, <2>2 DEF At, Size, Kinds
    <3> QED
      BY <1>3, <1>4, <1>5, <3>1
  <2>3. i <= a \/ i > a
    BY <1>2
  <2> QED
    BY <2>1, <2>2, <2>3
<1> QED
  BY <1>3, <1>4, <1>6, <1>7 DEF Part

\* A list of one element.
LEMMA OneElement ==
  ASSUME NEW S, NEW x \in S
  PROVE  <<x>> \in Seq(S) /\ Len(<<x>>) = 1 /\ <<x>>[1] = x
OBVIOUS

\* The line at the end of a reply.
LEMMA EndLine == <<"">> \in Seq(Lines) /\ Len(<<"">>) = 1 /\ <<"">>[1] = ""
<1>1. "" \in Lines
  BY DEF Lines
<1> QED
  BY ONLY <1>1, OneElement, Zenon

\* The end of a reply.
LEMMA PartEnded ==
  ASSUME NEW k \in Kinds, NEW s, NEW l, Part(k, s, l)
  PROVE  Whole(k, s, l \o <<"">>)
<1> DEFINE e == <<"">>
           a == Len(s)
           c == Len(l)
<1>1. s \in Seq(Paths) /\ l \in Seq(Lines)
  BY DEF Part
<1>7. e \in Seq(Lines)
  BY ONLY EndLine
<1>8. Len(e) = 1
  BY ONLY EndLine
<1>9. e[1] = ""
  BY ONLY EndLine
<1> HIDE DEF e
<1>2. a \in Nat /\ c \in Nat /\ c = Size(k, a) /\ \A i \in 1 .. a : l[At(k, i)] = s[i]
  BY <1>1 DEF Part
<1> DEFINE d == Len(e)
<1>10. /\ l \o e \in Seq(Lines) /\ Len(l \o e) = c + d
       /\ \A i \in 1 .. c + d : (l \o e)[i] = IF i <= c THEN l[i] ELSE e[i - c]
  BY <1>1, <1>7, ConcatProperties
<1>11. d = 1
  BY <1>8
<1> HIDE DEF a, c, d
<1>3. /\ l \o e \in Seq(Lines) /\ Len(l \o e) = c + 1
      /\ \A i \in 1 .. c + 1 : (l \o e)[i] = IF i <= c THEN l[i] ELSE e[i - c]
  BY <1>10, <1>11
<1>4. c + 1 \in 1 .. c + 1 /\ ~(c + 1 <= c) /\ (c + 1) - c = 1
  BY <1>2
<1>5. (l \o e)[c + 1] = ""
  BY <1>3, <1>4, <1>9
<1>6. ASSUME NEW i \in 1 .. a PROVE (l \o e)[At(k, i)] = s[i]
  <2>1. At(k, i) \in 1 .. c + 1 /\ At(k, i) <= c
    BY <1>2 DEF At, Size, Kinds
  <2> QED
    BY <1>2, <1>3, <2>1
<1>12. Closed(l \o e)
  <2>1. Len(l \o e) = c + 1
    BY <1>3
  <2> QED
    BY ONLY <1>5, <2>1 DEF Closed
<1> QED
  BY <1>1, <1>2, <1>3, <1>12, <1>6 DEF Whole, e, a, c

\* Nothing is a record of nothing.
LEMMA PartEmpty ==
  ASSUME NEW k \in Kinds
  PROVE  Part(k, << >>, << >>)
BY DEF Part, Size, Kinds

\* The entry of a path is its record, and does not end the reply.
LEMMA EntryPart ==
  ASSUME NEW k \in Kinds, NEW p \in Paths
  PROVE  /\ Entry(k, p, p) \in Seq(Frames) /\ NoEnd(Entry(k, p, p))
         /\ Part(k, <<p>>, LinesOf(Entry(k, p, p)))
<1> DEFINE d == IF p \in NoDeriver THEN EmptyFrame ELSE "deriver"
<1>1. /\ p \in Frames /\ d \in Frames /\ "sizes" \in Frames /\ LineOf(p) = p /\ p \in Lines
      /\ LineOf(d) \in Lines /\ LineOf("sizes") \in Lines
      /\ p # EndFrame /\ d # EndFrame /\ "sizes" # EndFrame
  BY WordsAreNotPaths DEF Frames, Lines, LineOf, EmptyFrame, EndFrame
<1>2. <<p>> \in Seq(Paths) /\ Len(<<p>>) = 1 /\ <<p>>[1] = p
  OBVIOUS
<1>3. CASE k = "have"
  <2> DEFINE e == <<p>>
  <2>1. Entry(k, p, p) = e
    BY <1>3 DEF Entry
  <2>2. e \in Seq(Frames) /\ Len(e) = 1 /\ e[1] = p
    BY <1>1
  <2> HIDE DEF e
  <2>3. NoEnd(e)
    BY <1>1, <2>2 DEF NoEnd
  <2>4. LinesOf(e) \in Seq(Lines) /\ Len(LinesOf(e)) = 1 /\ LinesOf(e)[1] = p
    BY <1>1, <2>2 DEF LinesOf
  <2>5. Part(k, <<p>>, LinesOf(e))
    BY <1>2, <1>3, <2>4 DEF Part, At, Size
  <2> QED
    BY <2>1, <2>2, <2>3, <2>5
<1>4. CASE k = "info"
  <2> DEFINE e == <<p, d, "sizes">>
  <2>1. Entry(k, p, p) = e
    BY <1>4 DEF Entry
  <2> HIDE DEF d
  <2>2. e \in Seq(Frames) /\ Len(e) = 3 /\ e[1] = p /\ e[2] = d /\ e[3] = "sizes"
    BY <1>1
  <2> HIDE DEF e
  <2>3. NoEnd(e)
    BY <1>1, <2>2 DEF NoEnd
  <2>4. LinesOf(e) \in Seq(Lines) /\ Len(LinesOf(e)) = 3 /\ LinesOf(e)[1] = p
    <3>1. \A i \in 1 .. 3 : LineOf(e[i]) \in Lines
      BY <1>1, <2>2
    <3> QED
      BY <1>1, <2>2, <3>1 DEF LinesOf
  <2>5. Part(k, <<p>>, LinesOf(e))
    BY <1>2, <1>4, <2>4 DEF Part, At, Size
  <2> QED
    BY <2>1, <2>2, <2>3, <2>5
<1> QED
  BY <1>3, <1>4 DEF Kinds

\* The built-in substituter writes one record for each path.
LEMMA BuiltinPart ==
  ASSUME NEW k \in Kinds, NEW s \in Seq(Paths)
  PROVE  Part(k, s, BuiltinLines(k, s))
<1> DEFINE n == Len(s)
<1>1. n \in Nat /\ \A i \in 1 .. n : s[i] \in Paths
  OBVIOUS
<1>2. CASE k = "have"
  <2>2. \A p \in Paths : p \in Lines
    BY DEF Lines
  <2>1. s \in Seq(Lines)
    BY <2>2
  <2> QED
    BY <1>2, <2>1 DEF Part, BuiltinLines, Size, At
<1>3. CASE k = "info"
  <2> DEFINE r(i) == LineOf(Entry(k, s[(i + 2) \div 3], s[(i + 2) \div 3])[((i + 2) % 3) + 1])
             l == [i \in 1 .. 3 * n |-> r(i)]
  <2>1. l = BuiltinLines(k, s)
    BY <1>3 DEF BuiltinLines
  <2> HIDE DEF n
  <2>2. ASSUME NEW p \in Paths
        PROVE  /\ LineOf(Entry(k, p, p)[1]) = p
               /\ \A j \in 1 .. 3 : LineOf(Entry(k, p, p)[j]) \in Lines
    <3> DEFINE d == IF p \in NoDeriver THEN EmptyFrame ELSE "deriver"
               e == <<p, d, "sizes">>
    <3>1. Entry(k, p, p) = e
      BY <1>3 DEF Entry
    <3>2. LineOf(p) = p /\ p \in Lines /\ LineOf(d) \in Lines /\ LineOf("sizes") \in Lines
      BY WordsAreNotPaths DEF Lines, LineOf, EmptyFrame, EndFrame
    <3> HIDE DEF d
    <3>3. e[1] = p /\ e[2] = d /\ e[3] = "sizes"
      OBVIOUS
    <3> HIDE DEF e
    <3>4. \A j \in 1 .. 3 : j = 1 \/ j = 2 \/ j = 3
      OBVIOUS
    <3>5. \A j \in 1 .. 3 : LineOf(e[j]) \in Lines
      BY <3>2, <3>3, <3>4
    <3> QED
      BY <3>1, <3>2, <3>3, <3>5
  <2>3. ASSUME NEW i \in 1 .. 3 * n PROVE r(i) \in Lines
    <3> DEFINE q == (i + 2) \div 3
               j == ((i + 2) % 3) + 1
    <3>1. q \in 1 .. n /\ j \in 1 .. 3
      BY <1>1, i \in 1 .. 3 * n
    <3>2. s[q] \in Paths
      BY <1>1, <3>1
    <3> HIDE DEF q, j
    <3>3. LineOf(Entry(k, s[q], s[q])[j]) \in Lines
      BY <2>2, <3>1, <3>2
    <3> QED
      BY <3>3 DEF q, j
  <2>4. ASSUME NEW i \in 1 .. n PROVE 3 * i - 2 \in 1 .. 3 * n /\ r(3 * i - 2) = s[i]
    <3>1. 3 * i - 2 \in 1 .. 3 * n /\ ((3 * i - 2) + 2) \div 3 = i /\ (((3 * i - 2) + 2) % 3) + 1 = 1
      BY <1>1, i \in 1 .. n
    <3>2. LineOf(Entry(k, s[i], s[i])[1]) = s[i]
      BY <1>1, <2>2
    <3> QED
      BY <3>1, <3>2
  <2> HIDE DEF r
  <2>5. l \in [1 .. 3 * n -> Lines]
    BY <2>3
  <2>6. 3 * n \in Nat
    BY <1>1
  <2>7. l \in Seq(Lines) /\ Len(l) = 3 * n
    BY <2>5, <2>6
  <2>8. \A i \in 1 .. n : l[3 * i - 2] = s[i]
    BY <2>4
  <2> HIDE DEF l
  <2> QED
    BY <1>3, <2>1, <2>7, <2>8 DEF Part, Size, At, n
<1> QED
  BY <1>2, <1>3 DEF Kinds

\* query-data-lines drops the end of the reply and nothing else.
LEMMA DataLines ==
  ASSUME NEW l \in Seq(Lines)
  PROVE  QueryDataLines(l \o <<"">>) = l
<1> DEFINE e == <<"">>
           c == Len(l)
<1>1. e \in Seq(Lines)
  BY ONLY EndLine
<1>2. Len(e) = 1
  BY ONLY EndLine
<1>3. e[1] = ""
  BY ONLY EndLine
<1> HIDE DEF e
<1> DEFINE d == Len(e)
           w == l \o e
<1>4. /\ w \in Seq(Lines) /\ Len(w) = c + d
      /\ \A i \in 1 .. c + d : w[i] = IF i <= c THEN l[i] ELSE e[i - c]
  BY <1>1, ConcatProperties
<1>5. d = 1 /\ c \in Nat /\ Len(l) = c
  BY <1>2
<1> HIDE DEF c, d, w
<1>6. /\ Len(w) = c + 1 /\ c + 1 \in 1 .. c + 1 /\ ~(c + 1 <= c) /\ (c + 1) - c = 1
      /\ \A i \in 1 .. c : i \in 1 .. c + 1 /\ i <= c
  BY <1>4, <1>5
<1>7. w[c + 1] = "" /\ \A i \in 1 .. c : w[i] = l[i]
  BY <1>3, <1>4, <1>5, <1>6
<1>8. w # << >>
  BY <1>4, <1>5, <1>6
<1>9. QueryDataLines(w) = SubSeq(w, 1, c)
  <2>1. Len(w) - 1 = c /\ Len(w) = c + 1
    BY <1>5, <1>6
  <2> QED
    BY <1>7, <1>8, <2>1 DEF QueryDataLines
<1>10. SubSeq(w, 1, c) = l
  <2>1. SubSeq(w, 1, c) \in Seq(Lines) /\ Len(SubSeq(w, 1, c)) = c /\ \A i \in 1 .. c : SubSeq(w, 1, c)[i] = w[i]
    BY <1>4, <1>5
  <2> DEFINE v == SubSeq(w, 1, c)
  <2>2. v \in Seq(Lines) /\ Len(v) = c /\ \A i \in 1 .. c : v[i] = l[i]
    BY <1>7, <2>1
  <2> HIDE DEF v
  <2>3. v = l
    BY <1>5, <2>2
  <2> QED
    BY <2>3 DEF v
<1> QED
  BY <1>9, <1>10 DEF w, e

\* How guix-daemon reads records: it finds their paths, and no end.
LEMMA PartRead ==
  ASSUME NEW k \in Kinds, NEW s, NEW l, Part(k, s, l)
  PROVE  PathLines(k, l) = s /\ \A n \in 1 .. Len(l) : ~Ends(k, l, n)
<1> DEFINE a == Len(s)
           c == Len(l)
<1>1. s \in Seq(Paths) /\ l \in Seq(Lines)
  BY DEF Part
<1>2. /\ a \in Nat /\ c \in Nat /\ c = Size(k, a)
      /\ \A i \in 1 .. a : l[At(k, i)] = s[i] /\ s[i] \in Paths
  BY <1>1 DEF Part
<1>3. \A p \in Paths : p # ""
  BY WordsAreNotPaths
<1>4. CASE k = "have"
  <2>1. c = a /\ \A i \in 1 .. a : l[i] = s[i]
    BY <1>2, <1>4 DEF At, Size
  <2>2. l = s
    BY <1>1, <2>1
  <2> HIDE DEF c
  <2>3. ASSUME NEW n \in 1 .. c PROVE l[n] # ""
    BY <1>2, <1>3, <2>1
  <2> QED
    BY <1>4, <2>2, <2>3 DEF PathLines, Ends, c
<1>5. CASE k = "info"
  <2> HIDE DEF a, c
  <2>1. c = 3 * a /\ \A i \in 1 .. a : l[3 * i - 2] = s[i]
    BY <1>2, <1>5 DEF At, Size
  <2>2. (c + 2) \div 3 = a
    BY <1>2, <2>1
  <2>3. PathLines(k, l) = [i \in 1 .. a |-> l[3 * i - 2]]
    BY <1>5, <2>2 DEF PathLines, c
  <2>4. [i \in 1 .. a |-> l[3 * i - 2]] = s
    <3>1. s = [i \in 1 .. a |-> s[i]]
      BY <1>1 DEF a
    <3> QED
      BY <2>1, <3>1
  <2>5. ASSUME NEW n \in 1 .. c, n % 3 = 1 PROVE l[n] # ""
    <3> DEFINE q == (n \div 3) + 1
    <3>1. q \in 1 .. a /\ 3 * q - 2 = n
      BY <1>2, <2>1, <2>5
    <3> HIDE DEF q
    <3>2. l[3 * q - 2] = s[q] /\ s[q] \in Paths
      BY <1>2, <2>1, <3>1
    <3> QED
      BY <1>3, <3>1, <3>2
  <2> QED
    BY <1>5, <2>3, <2>4, <2>5 DEF Ends, c
<1> QED
  BY <1>4, <1>5 DEF Kinds

\* What comes before the end of a whole reply is its records.
LEMMA WholePart ==
  ASSUME NEW k \in Kinds, NEW s, NEW l, Whole(k, s, l)
  PROVE  /\ l \in Seq(Lines) /\ Len(l) \in Nat \ {0} /\ Closed(l)
         /\ Part(k, s, SubSeq(l, 1, Len(l) - 1))
         /\ SubSeq(l, 1, Len(l) - 1) \in Seq(Lines) /\ Len(SubSeq(l, 1, Len(l) - 1)) = Len(l) - 1
         /\ \A i \in 1 .. Len(l) - 1 : SubSeq(l, 1, Len(l) - 1)[i] = l[i]
<1> DEFINE a == Len(s)
           c == Len(l)
           m == SubSeq(l, 1, c - 1)
<1>1. s \in Seq(Paths) /\ l \in Seq(Lines)
  BY DEF Whole
<1>2. /\ a \in Nat /\ c \in Nat /\ c = Size(k, a) + 1
      /\ \A i \in 1 .. a : l[At(k, i)] = s[i]
  BY <1>1 DEF Whole
<1>3. Size(k, a) \in Nat
  BY <1>2 DEF Size
<1>4. c - 1 \in 0 .. c /\ c \in Nat \ {0} /\ c - 1 = Size(k, a)
  BY <1>2, <1>3
<1>5. m \in Seq(Lines) /\ Len(m) = c - 1 /\ \A i \in 1 .. c - 1 : m[i] = l[i]
  <2> HIDE DEF c
  <2>1. /\ m \in Seq(Lines)
        /\ Len(m) = IF 1 <= c - 1 THEN (c - 1) - 1 + 1 ELSE 0
        /\ \A i \in 1 .. (c - 1) - 1 + 1 : m[i] = l[1 + i - 1]
    <3>1. 1 \in 1 .. c + 1 /\ c - 1 \in 1 - 1 .. c
      BY <1>4
    <3>2. 1 \in 1 .. Len(l) + 1 /\ c - 1 \in 1 - 1 .. Len(l)
      BY <3>1 DEF c
    <3> QED
      BY <1>1, <3>2, SubSeqProperties
  <2> QED
    BY <1>4, <2>1
<1> HIDE DEF m, a, c
<1>6. ASSUME NEW i \in 1 .. a PROVE m[At(k, i)] = s[i]
  <2>1. At(k, i) \in 1 .. c - 1
    BY <1>2, <1>4 DEF At, Size, Kinds
  <2> QED
    BY <1>2, <1>5, <2>1
<1>7. Part(k, s, m)
  BY <1>1, <1>4, <1>5, <1>6 DEF Part, a
<1>8. Closed(l)
  BY DEF Whole
<1> QED
  BY <1>1, <1>4, <1>5, <1>7, <1>8 DEF m, c

\* How guix-daemon reads a whole reply: it ends where the reply ends.
LEMMA WholeRead ==
  ASSUME NEW k \in Kinds, NEW s, NEW l, Whole(k, s, l)
  PROVE  /\ PathLines(k, SubSeq(l, 1, Len(l) - 1)) = s
         /\ \A n \in 1 .. Len(l) : Ends(k, l, n) => n = Len(l)
<1> DEFINE c == Len(l)
           m == SubSeq(l, 1, c - 1)
<1>1. c \in Nat \ {0} /\ Part(k, s, m) /\ Len(m) = c - 1 /\ \A i \in 1 .. c - 1 : m[i] = l[i]
  BY WholePart
<1>2. PathLines(k, m) = s /\ \A n \in 1 .. Len(m) : ~Ends(k, m, n)
  BY <1>1, PartRead
<1> HIDE DEF m, c
<1>3. ASSUME NEW n \in 1 .. c, n # c PROVE ~Ends(k, l, n)
  <2>1. n \in 1 .. c - 1
    BY <1>1, <1>3
  <2>2. m[n] = l[n] /\ ~Ends(k, m, n)
    BY <1>1, <1>2, <2>1
  <2> QED
    BY <2>2 DEF Ends
<1> QED
  BY <1>2, <1>3 DEF m, c

\* Frames become lines one by one.
LEMMA LinesTyped ==
  ASSUME NEW b \in Seq(Frames)
  PROVE  LinesOf(b) \in Seq(Lines) /\ Len(LinesOf(b)) = Len(b)
         /\ \A i \in 1 .. Len(b) : LinesOf(b)[i] = LineOf(b[i])
<1>1. \A f \in Frames : LineOf(f) \in Lines
  BY DEF Frames, Lines, LineOf, EndFrame, EmptyFrame
<1>2. \A i \in 1 .. Len(b) : LineOf(b[i]) \in Lines
  BY <1>1
<1>3. Len(b) \in Nat
  OBVIOUS
<1> QED
  BY <1>2, <1>3 DEF LinesOf

\* The lines of two lists of frames, one after the other.
LEMMA LinesConcat ==
  ASSUME NEW b \in Seq(Frames), NEW d \in Seq(Frames)
  PROVE  b \o d \in Seq(Frames) /\ LinesOf(b \o d) = LinesOf(b) \o LinesOf(d)
<1> DEFINE m == Len(b)
           n == Len(d)
           x == LinesOf(b)
           y == LinesOf(d)
           z == LinesOf(b \o d)
<1>1. /\ b \o d \in Seq(Frames) /\ Len(b \o d) = m + n
      /\ \A i \in 1 .. m + n : (b \o d)[i] = IF i <= m THEN b[i] ELSE d[i - m]
  BY ConcatProperties
<1>2. /\ x \in Seq(Lines) /\ Len(x) = m /\ \A i \in 1 .. m : x[i] = LineOf(b[i])
      /\ y \in Seq(Lines) /\ Len(y) = n /\ \A i \in 1 .. n : y[i] = LineOf(d[i])
  BY LinesTyped
<1>3. /\ z \in Seq(Lines) /\ Len(z) = m + n
      /\ \A i \in 1 .. m + n : z[i] = LineOf((b \o d)[i])
  BY <1>1, LinesTyped
<1> HIDE DEF x, y, z
<1>10. x \in Seq(Lines) /\ y \in Seq(Lines)
  BY <1>2
<1>4. /\ x \o y \in Seq(Lines) /\ Len(x \o y) = Len(x) + Len(y)
      /\ \A i \in 1 .. Len(x) + Len(y) : (x \o y)[i] = IF i <= Len(x) THEN x[i] ELSE y[i - Len(x)]
  BY ONLY <1>10, ConcatProperties
<1>5. m \in Nat /\ n \in Nat
  OBVIOUS
<1> HIDE DEF m, n
<1>6. ASSUME NEW i \in 1 .. m + n PROVE (x \o y)[i] = z[i]
  <2>0. (x \o y)[i] = IF i <= m THEN x[i] ELSE y[i - m]
    BY <1>2, <1>4
  <2>1. CASE i <= m
    <3>1. i \in 1 .. m
      BY <1>5, <2>1
    <3> QED
      BY <1>1, <1>2, <1>3, <2>0, <2>1, <3>1
  <2>2. CASE ~(i <= m)
    <3>1. i - m \in 1 .. n
      BY <1>5, <2>2
    <3> QED
      BY <1>1, <1>2, <1>3, <2>0, <2>2, <3>1
  <2> QED
    BY <2>1, <2>2
<1>7. Len(x \o y) = m + n
  BY <1>2, <1>4
<1> DEFINE w == x \o y
<1>8. w \in Seq(Lines) /\ Len(w) = m + n /\ \A i \in 1 .. m + n : w[i] = z[i]
  BY <1>4, <1>6, <1>7
<1> HIDE DEF w
<1>9. w = z
  BY <1>3, <1>8
<1> QED
  BY <1>1, <1>9 DEF w, x, y, z

\* The end frame comes last.
LEMMA NoEndConcat ==
  ASSUME NEW b \in Seq(Frames), NEW d \in Seq(Frames), NoEnd(b), NoEnd(d)
  PROVE  NoEnd(b \o d)
<1>1. /\ b \o d \in Seq(Frames) /\ Len(b \o d) = Len(b) + Len(d)
      /\ \A i \in 1 .. Len(b) + Len(d) : (b \o d)[i] = IF i <= Len(b) THEN b[i] ELSE d[i - Len(b)]
  BY ConcatProperties
<1>2. \A i \in 1 .. Len(b) + Len(d) : ~(i <= Len(b)) => i - Len(b) \in 1 .. Len(d)
  OBVIOUS
<1>3. \A i \in 1 .. Len(b) + Len(d) : i <= Len(b) => i \in 1 .. Len(b)
  OBVIOUS
<1> QED
  BY <1>1, <1>2, <1>3 DEF NoEnd

\* The end frame after frames of which none is: the reply ends there, with an empty line.
LEMMA EndsLast ==
  ASSUME NEW b \in Seq(Frames), NoEnd(b)
  PROVE  /\ <<EndFrame>> \in Seq(Frames) /\ b \o <<EndFrame>> \in Seq(Frames)
         /\ EndsOnce(b \o <<EndFrame>>)
         /\ LinesOf(b \o <<EndFrame>>) = LinesOf(b) \o <<"">>
         /\ LinesOf(<<EndFrame>>) = <<"">>
<1> DEFINE e == <<EndFrame>>
           m == Len(b)
           n == Len(e)
<1>0. EndFrame \in Frames
  BY DEF Frames, EndFrame
<1>1. e \in Seq(Frames) /\ n = 1 /\ e[1] = EndFrame
  BY ONLY <1>0, OneElement
<1> HIDE DEF e
<1>2. LinesOf(e) = <<"">>
  <2>1. LinesOf(e) \in Seq(Lines) /\ Len(LinesOf(e)) = 1 /\ LinesOf(e)[1] = LineOf(EndFrame)
    BY <1>1, LinesTyped
  <2>2. LineOf(EndFrame) = ""
    BY DEF LineOf
  <2>3. LinesOf(e) = <<LineOf(EndFrame)>>
    <3> DEFINE x == LineOf(EndFrame)
    <3>1. LinesOf(e) \in Seq(Lines) /\ Len(LinesOf(e)) = 1 /\ LinesOf(e)[1] = x
      BY <2>1
    <3> HIDE DEF x
    <3>2. LinesOf(e) = <<x>>
      BY ONLY <3>1
    <3> QED
      BY <3>2 DEF x
  <2> QED
    BY ONLY <2>2, <2>3, Zenon
<1>3. b \o e \in Seq(Frames) /\ LinesOf(b \o e) = LinesOf(b) \o LinesOf(e)
  BY <1>1, LinesConcat
<1>4. /\ Len(b \o e) = m + n
      /\ \A i \in 1 .. m + n : (b \o e)[i] = IF i <= m THEN b[i] ELSE e[i - m]
  BY <1>1, ConcatProperties
<1>5. m \in Nat /\ \A i \in 1 .. m : b[i] # EndFrame
  BY DEF NoEnd
<1> HIDE DEF m, n
<1>6. ASSUME NEW i \in 1 .. m + 1 PROVE (b \o e)[i] = EndFrame <=> i = m + 1
  <2>1. CASE i = m + 1
    <3>1. ~(i <= m) /\ i - m = 1 /\ i \in 1 .. m + n
      BY <1>1, <1>5, <2>1
    <3> QED
      BY <1>1, <1>4, <2>1, <3>1
  <2>2. CASE i # m + 1
    <3>1. i <= m /\ i \in 1 .. m /\ i \in 1 .. m + n
      BY <1>1, <1>5, <2>2
    <3> QED
      BY <1>4, <1>5, <2>2, <3>1
  <2> QED
    BY <2>1, <2>2
<1>7. EndsOnce(b \o e)
  BY <1>1, <1>4, <1>6 DEF EndsOnce
<1> QED
  BY <1>1, <1>2, <1>3, <1>7 DEF e

\* A frame that is taken off the wire becomes the next line.
LEMMA TakeLine ==
  ASSUME NEW g \in Seq(Lines), NEW w \in Seq(Frames), w # << >>, EndsOnce(w)
  PROVE  /\ Tail(w) \in Seq(Frames) /\ Append(g, LineOf(Head(w))) \in Seq(Lines)
         /\ Append(g, LineOf(Head(w))) \o LinesOf(Tail(w)) = g \o LinesOf(w)
         /\ EndsOnce(Tail(w))
         /\ Head(w) = EndFrame <=> Tail(w) = << >>
<1> DEFINE x == Head(w)
           y == Tail(w)
           f == LineOf(x)
<1>1. /\ y \in Seq(Frames) /\ x \in Frames /\ x = w[1] /\ Len(y) = Len(w) - 1
      /\ Len(w) \in Nat \ {0}
      /\ \A i \in 1 .. Len(w) - 1 : y[i] = w[i + 1]
  OBVIOUS
<1>2. w = <<x>> \o y /\ <<x>> \in Seq(Frames)
  OBVIOUS
<1>3. f \in Lines
  BY <1>1 DEF Frames, Lines, LineOf, EndFrame, EmptyFrame
<1>4. EndsOnce(y)
  <2>1. ASSUME NEW i \in 1 .. Len(w) - 1 PROVE y[i] = EndFrame <=> i = Len(w) - 1
    <3>1. i + 1 \in 1 .. Len(w) /\ (i + 1 = Len(w) <=> i = Len(w) - 1)
      BY <1>1
    <3>2. w[i + 1] = EndFrame <=> i + 1 = Len(w)
      BY <3>1 DEF EndsOnce
    <3> QED
      BY <1>1, <3>1, <3>2
  <2> QED
    BY <1>1, <2>1 DEF EndsOnce
<1>5. x = EndFrame <=> y = << >>
  <2>1. x = EndFrame <=> 1 = Len(w)
    <3>1. 1 \in 1 .. Len(w)
      BY <1>1
    <3>2. w[1] = EndFrame <=> 1 = Len(w)
      BY <3>1 DEF EndsOnce
    <3> QED
      BY <1>1, <3>2
  <2>2. Len(y) = 0 <=> y = << >>
    BY <1>1
  <2> QED
    BY <1>1, <2>1, <2>2
<1> HIDE DEF x, y
<1>6. LinesOf(<<x>>) = <<f>>
  <2>1. LinesOf(<<x>>) \in Seq(Lines) /\ Len(LinesOf(<<x>>)) = 1 /\ LinesOf(<<x>>)[1] = f
    <3>1. x \in Frames
      BY <1>1
    <3>2. <<x>> \in Seq(Frames) /\ Len(<<x>>) = 1 /\ <<x>>[1] = x
      BY ONLY <3>1, OneElement
    <3> DEFINE o == <<x>>
    <3>3. o \in Seq(Frames) /\ Len(o) = 1 /\ o[1] = x
      BY <3>2
    <3> HIDE DEF o
    <3>4. LinesOf(o) \in Seq(Lines) /\ Len(LinesOf(o)) = 1 /\ LinesOf(o)[1] = f
      BY <3>3, LinesTyped
    <3> QED
      BY <3>4 DEF o
  <2> HIDE DEF f
  <2> QED
    BY ONLY <2>1
<1> HIDE DEF f
<1>7. LinesOf(w) = <<f>> \o LinesOf(y)
  BY <1>1, <1>2, <1>6, LinesConcat
<1>8. LinesOf(y) \in Seq(Lines)
  BY <1>1, LinesTyped
<1>9. <<f>> \in Seq(Lines) /\ Append(g, f) = g \o <<f>> /\ Append(g, f) \in Seq(Lines)
  BY <1>3
<1>10. (g \o <<f>>) \o LinesOf(y) = g \o (<<f>> \o LinesOf(y))
  BY <1>8, <1>9, ConcatAssociative
<1> QED
  BY <1>1, <1>4, <1>5, <1>7, <1>9, <1>10 DEF x, y, f

\* One path more, and one path less to look at.
LEMMA NamedNext ==
  ASSUME NEW W, NEW s, NEW t, Apart(s, t, W), t # << >>
  PROVE  /\ Head(t) \in Paths /\ Head(t) \in W
         /\ Apart(s \o <<Head(t)>>, Tail(t), W)
         /\ Apart(s, Tail(t), W)
<1> DEFINE p == Head(t)
           r == Tail(t)
           a == Len(s)
           b == Len(t)
           o == <<p>>
<1>1. /\ s \in Seq(Paths) /\ t \in Seq(Paths)
      /\ \A i \in 1 .. a : s[i] \in W
      /\ \A i, j \in 1 .. a : s[i] = s[j] => i = j
      /\ \A i \in 1 .. b : t[i] \in W
      /\ \A i, j \in 1 .. b : t[i] = t[j] => i = j
      /\ \A i \in 1 .. a, j \in 1 .. b : s[i] # t[j]
  BY DEF Apart, Good
<1>2. /\ r \in Seq(Paths) /\ Len(r) = b - 1 /\ \A i \in 1 .. b - 1 : r[i] = t[i + 1]
      /\ p = t[1] /\ b \in Nat \ {0} /\ a \in Nat
  BY <1>1
<1>3. 1 \in 1 .. b /\ \A i \in 1 .. b - 1 : i + 1 \in 1 .. b /\ i + 1 # 1
  BY <1>2
<1>4. p \in Paths /\ p \in W
  BY <1>1, <1>2, <1>3
<1> HIDE DEF r, p, a, b
<1>5. Good(r, W)
  <2>1. \A i \in 1 .. b - 1 : r[i] \in W
    BY <1>1, <1>2, <1>3
  <2>2. \A i, j \in 1 .. b - 1 : r[i] = r[j] => i = j
    <3> SUFFICES ASSUME NEW i \in 1 .. b - 1, NEW j \in 1 .. b - 1, r[i] = r[j] PROVE i = j
      OBVIOUS
    <3>1. t[i + 1] = t[j + 1] /\ i + 1 \in 1 .. b /\ j + 1 \in 1 .. b
      BY <1>2, <1>3
    <3>2. i + 1 = j + 1
      BY <1>1, <3>1
    <3> QED
      BY <1>2, <3>2
  <2> QED
    BY <1>2, <2>1, <2>2 DEF Good
<1>6. \A i \in 1 .. a, j \in 1 .. b - 1 : s[i] # r[j]
  BY <1>1, <1>2, <1>3
<1>7. Apart(s, r, W)
  <2>1. Good(s, W)
    BY DEF Apart
  <2> QED
    BY <1>2, <1>5, <1>6, <2>1 DEF Apart, a
<1>8. o \in Seq(Paths) /\ Len(o) = 1 /\ o[1] = p
  BY ONLY <1>4, OneElement
<1> HIDE DEF o
<1> DEFINE u == s \o o
<1>9. /\ u \in Seq(Paths) /\ Len(u) = a + 1
      /\ \A i \in 1 .. a : u[i] = s[i]
      /\ u[a + 1] = p
  <2>1. /\ u \in Seq(Paths) /\ Len(u) = Len(s) + Len(o)
        /\ \A i \in 1 .. Len(s) + Len(o) : u[i] = IF i <= Len(s) THEN s[i] ELSE o[i - Len(s)]
    <3>1. s \in Seq(Paths) /\ o \in Seq(Paths)
      BY <1>1, <1>8
    <3> QED
      BY ONLY <3>1, ConcatProperties
  <2>2. /\ Len(u) = a + 1
        /\ \A i \in 1 .. a + 1 : u[i] = IF i <= a THEN s[i] ELSE o[i - a]
    BY <1>8, <2>1 DEF a
  <2>3. a + 1 \in 1 .. a + 1 /\ ~(a + 1 <= a) /\ (a + 1) - a = 1 /\ \A i \in 1 .. a : i \in 1 .. a + 1 /\ i <= a
    BY <1>2
  <2> HIDE DEF u
  <2> QED
    BY <1>8, <2>1, <2>2, <2>3
<1> HIDE DEF u
<1>10. \A i \in 1 .. a + 1 : i \in 1 .. a \/ i = a + 1
  BY <1>2
<1>11. \A i \in 1 .. a : s[i] # p
  BY <1>1, <1>2, <1>3
<1>12. Good(u, W)
  <2>1. \A i \in 1 .. a + 1 : u[i] \in W
    BY <1>1, <1>4, <1>9, <1>10
  <2>2. \A i, j \in 1 .. a + 1 : u[i] = u[j] => i = j
    <3> SUFFICES ASSUME NEW i \in 1 .. a + 1, NEW j \in 1 .. a + 1, u[i] = u[j] PROVE i = j
      OBVIOUS
    <3>1. CASE i \in 1 .. a /\ j \in 1 .. a
      BY <1>1, <1>9, <3>1
    <3>2. CASE i \in 1 .. a /\ j = a + 1
      BY <1>9, <1>11, <3>2
    <3>3. CASE j \in 1 .. a /\ i = a + 1
      BY <1>9, <1>11, <3>3
    <3> QED
      BY <1>10, <3>1, <3>2, <3>3
  <2> QED
    BY <1>9, <2>1, <2>2 DEF Good
<1>13. \A i \in 1 .. a + 1, j \in 1 .. b - 1 : u[i] # r[j]
  <2> SUFFICES ASSUME NEW i \in 1 .. a + 1, NEW j \in 1 .. b - 1 PROVE u[i] # r[j]
    OBVIOUS
  <2>1. CASE i \in 1 .. a
    BY <1>6, <1>9, <2>1
  <2>2. CASE i = a + 1
    <3>1. r[j] = t[j + 1] /\ j + 1 \in 1 .. b /\ j + 1 # 1 /\ 1 \in 1 .. b
      BY <1>2, <1>3
    <3>2. t[1] # t[j + 1]
      BY <1>1, <3>1
    <3> QED
      BY <1>2, <1>9, <2>2, <3>1, <3>2
  <2> QED
    BY <1>10, <2>1, <2>2
<1>14. Apart(u, r, W)
  BY <1>2, <1>5, <1>9, <1>12, <1>13 DEF Apart
<1> QED
  BY <1>4, <1>7, <1>14 DEF u, o, r, p

\* Nothing is named at first.
LEMMA NoneNamed ==
  ASSUME NEW W, NEW t, Good(t, W)
  PROVE  Apart(<< >>, t, W)
BY DEF Apart, Good

\* Two lists, the second without the paths of the first.
LEMMA GoodConcat ==
  ASSUME NEW R, NEW s, NEW t, Good(s, R), Good(t, R \ Range(s))
  PROVE  Good(s \o t, R) /\ Range(s) \subseteq Range(s \o t)
<1> DEFINE a == Len(s)
           b == Len(t)
           u == s \o t
<1>1. /\ s \in Seq(Paths) /\ t \in Seq(Paths) /\ a \in Nat /\ b \in Nat
      /\ \A i \in 1 .. a : s[i] \in R /\ s[i] \in Range(s)
      /\ \A i, j \in 1 .. a : s[i] = s[j] => i = j
      /\ \A i \in 1 .. b : t[i] \in R /\ t[i] \notin Range(s)
      /\ \A i, j \in 1 .. b : t[i] = t[j] => i = j
  BY DEF Good, Range
<1>2. /\ u \in Seq(Paths) /\ Len(u) = a + b
      /\ \A i \in 1 .. a + b : u[i] = IF i <= a THEN s[i] ELSE t[i - a]
  BY <1>1, ConcatProperties
<1>3. DOMAIN s = 1 .. a /\ DOMAIN u = 1 .. a + b
  BY <1>1, <1>2
<1> HIDE DEF a, b, u
<1>4. /\ \A i \in 1 .. a : i \in 1 .. a + b /\ i <= a
      /\ \A i \in 1 .. a + b : i \in 1 .. a \/ (~(i <= a) /\ i - a \in 1 .. b)
  BY <1>1
<1>5. /\ \A i \in 1 .. a : u[i] = s[i]
      /\ \A i \in 1 .. a + b : ~(i <= a) => u[i] = t[i - a]
  BY <1>2, <1>4
<1>6. \A i \in 1 .. a + b : u[i] \in R
  BY <1>1, <1>4, <1>5
<1>7. ASSUME NEW i \in 1 .. a + b, NEW j \in 1 .. a + b, u[i] = u[j] PROVE i = j
  <2>1. CASE i \in 1 .. a /\ j \in 1 .. a
    BY <1>1, <1>5, <1>7, <2>1
  <2>2. CASE ~(i <= a) /\ i - a \in 1 .. b /\ ~(j <= a) /\ j - a \in 1 .. b
    <3>1. t[i - a] = t[j - a]
      BY <1>5, <1>7, <2>2
    <3>2. i - a = j - a
      BY <1>1, <2>2, <3>1
    <3> QED
      BY <1>1, <3>2
  <2>3. CASE i \in 1 .. a /\ ~(j <= a) /\ j - a \in 1 .. b
    BY <1>1, <1>5, <1>7, <2>3
  <2>4. CASE j \in 1 .. a /\ ~(i <= a) /\ i - a \in 1 .. b
    BY <1>1, <1>5, <1>7, <2>4
  <2> QED
    BY <1>4, <2>1, <2>2, <2>3, <2>4
<1>8. Good(u, R)
  BY <1>2, <1>6, <1>7 DEF Good
<1>9. ASSUME NEW x \in Range(s) PROVE x \in Range(u)
  <2>1. PICK i \in 1 .. a : x = s[i]
    BY <1>3 DEF Range
  <2> QED
    BY <1>3, <1>4, <1>5, <2>1 DEF Range
<1> QED
  BY <1>8, <1>9 DEF u

\* An answer is not longer than the query.
LEMMA AnswerFits ==
  ASSUME NEW q \in Seq(Paths), NEW s, Good(s, Range(q))
  PROVE  /\ Len(s) \in 0 .. Len(q) /\ s \in [1 .. Len(s) -> Range(q)] /\ IsInjective(s)
<1> DEFINE R == Range(q)
           n == Len(s)
<1>1. /\ s \in Seq(Paths) /\ n \in Nat
      /\ \A i \in 1 .. n : s[i] \in R
      /\ \A i, j \in 1 .. n : s[i] = s[j] => i = j
  BY DEF Good
<1>2. q \in Surjection(1 .. Len(q), R)
  <2>1. q \in [1 .. Len(q) -> R] /\ \A x \in R : \E i \in 1 .. Len(q) : q[i] = x
    BY DEF Range
  <2> QED
    BY <2>1 DEF Surjection
<1> HIDE DEF R
<1>3. s \in [1 .. n -> R]
  BY <1>1
<1>4. DOMAIN s = 1 .. n
  BY <1>1
<1> HIDE DEF n
<1>5. IsInjective(s)
  BY <1>1, <1>4 DEF IsInjective
<1>6. s \in Injection(1 .. n, R)
  BY <1>3, <1>5 DEF Injection
<1>7. Len(q) \in Nat
  OBVIOUS
<1>8. IsFiniteSet(1 .. Len(q)) /\ Cardinality(1 .. Len(q)) = Len(q) /\ Cardinality(1 .. n) = n
  BY <1>1, <1>7, UpTo
<1>9. IsFiniteSet(R) /\ Cardinality(R) <= Cardinality(1 .. Len(q))
  BY ONLY <1>2, <1>8, FS_Surjection
<1>10. Cardinality(1 .. n) <= Cardinality(R)
  BY ONLY <1>6, <1>9, FS_Injection
<1>11. Cardinality(R) \in Nat
  BY <1>9, FS_CardinalityType
<1>12. n \in 0 .. Len(q)
  BY <1>1, <1>7, <1>8, <1>9, <1>10, <1>11
<1> QED
  BY <1>3, <1>5, <1>12 DEF n, R

\* Some of the paths of a query, in their order.
LEMMA SomeOf ==
  ASSUME NEW q \in Seq(Paths), IsInjective(q), NEW S,
         NEW t \in Retained(q, {i \in DOMAIN q : q[i] \in S})
  PROVE  Good(t, Range(q) \cap S) /\ Range(t) = Range(q) \cap S
<1> DEFINE K == {i \in DOMAIN q : q[i] \in S}
<1>1. q \in Seq(Paths) /\ K \in SUBSET DOMAIN q /\ t \in Retained(q, K)
  OBVIOUS
<1>2. \A i \in K : i \in 1 .. Len(q) /\ q[i] \in S /\ q[i] \in Range(q)
  BY DEF Range
<1>3. \A x \in Range(q) \cap S : \E i \in K : q[i] = x
  BY DEF Range
<1> HIDE DEF K
<1>4. t \in Seq(Paths)
  BY <1>1, RetainedList
<1>5. PICK f : PlacedBy(f, q, K, t)
  BY ONLY <1>1, RetainedPlaces
<1>6. /\ \A i \in DOMAIN t : f[i] \in K /\ t[i] = q[f[i]]
      /\ \A i, j \in DOMAIN t : i < j => f[i] < f[j]
      /\ \A i \in K : \E j \in DOMAIN t : f[j] = i
  BY <1>5 DEF PlacedBy
<1>7. DOMAIN t = 1 .. Len(t) /\ Len(t) \in Nat
  BY <1>4
<1>8. ASSUME NEW i \in 1 .. Len(t), NEW j \in 1 .. Len(t), t[i] = t[j] PROVE i = j
  <2>1. f[i] \in K /\ f[j] \in K /\ q[f[i]] = q[f[j]]
    BY <1>6, <1>7, <1>8
  <2>2. f[i] = f[j]
    BY <1>1, <2>1 DEF IsInjective
  <2>3. f[i] \in Nat /\ f[j] \in Nat
    BY <1>2, <2>1
  <2>4. ~(i < j) /\ ~(j < i)
    BY <1>6, <1>7, <2>2, <2>3
  <2> QED
    BY <1>7, <2>4
<1>9. \A i \in 1 .. Len(t) : t[i] \in Range(q) \cap S
  BY <1>2, <1>6, <1>7
<1>10. Good(t, Range(q) \cap S)
  BY <1>4, <1>8, <1>9 DEF Good
<1>11. ASSUME NEW x \in Range(q) \cap S PROVE x \in Range(t)
  <2>1. PICK i \in K : q[i] = x
    BY <1>3
  <2>2. PICK j \in DOMAIN t : f[j] = i
    BY <1>6
  <2>3. t[j] = x
    BY <1>6, <2>1, <2>2
  <2> QED
    BY <2>3 DEF Range
<1>12. ASSUME NEW x \in Range(t) PROVE x \in Range(q) \cap S
  <2>1. PICK j \in DOMAIN t : x = t[j]
    BY DEF Range
  <2> QED
    BY <1>7, <1>9, <2>1
<1> QED
  BY <1>10, <1>11, <1>12

(***************************************************************************)
(* Answers                                                                 *)
(***************************************************************************)

\* The last command.
LEMMA LastCommand ==
  ASSUME Counting, asked # << >>
  PROVE  /\ Len(asked) \in Nat \ {0}
         /\ LastAsked.kind \in Kinds /\ LastAsked.paths \in Queries
         /\ LastAsked.paths \in Seq(Paths) /\ IsInjective(LastAsked.paths)
         /\ offered[Len(offered)] \subseteq Paths
<1> DEFINE C == [kind : {"have", "info"}, paths : Queries]
           n == Len(asked)
<1>1. asked \in Seq(C) /\ n \in Nat
  BY DEF Counting
<1>2. n # 0
  <2> HIDE DEF C
  <2> QED
    BY <1>1, EmptySeq
<1>3. n \in Nat \ {0} /\ n \in 1 .. n
  BY <1>1, <1>2
<1>4. asked[n] \in C
  <2> HIDE DEF C
  <2> QED
    BY <1>1, <1>3
<1>5. LastAsked.kind \in Kinds /\ LastAsked.paths \in Queries
  <2>1. \A x \in C : x.kind \in Kinds /\ x.paths \in Queries
    BY DEF Kinds
  <2>2. LastAsked \in C
    BY <1>4 DEF LastAsked
  <2> QED
    BY ONLY <2>1, <2>2
<1>6. LastAsked.paths \in Seq(Paths) /\ IsInjective(LastAsked.paths)
  BY <1>5, QueryAssumption
<1>7. offered[Len(offered)] \subseteq Paths
  <2>1. offered \in Seq(SUBSET Paths) /\ Len(offered) = n
    BY DEF Counting
  <2>2. offered[n] \in SUBSET Paths
    BY <1>3, <2>1
  <2> QED
    BY <2>1, <2>2
<1> QED
  BY <1>3, <1>5, <1>6, <1>7

\* A command that waits for its answer.
LEMMA Asking ==
  ASSUME Counting, ~InStep
  PROVE  /\ asked # << >> /\ Len(asked) \in Nat \ {0} /\ Len(answers) = Len(asked) - 1
         /\ LastAsked.kind \in Kinds /\ LastAsked.paths \in Queries
         /\ LastAsked.paths \in Seq(Paths) /\ IsInjective(LastAsked.paths)
         /\ offered[Len(offered)] \subseteq Paths
<1>1. /\ Len(asked) \in Nat /\ Len(answers) \in Nat
      /\ Len(answers) = Len(asked) \/ Len(answers) = Len(asked) - 1
  BY DEF Counting
<1>2. Len(answers) = Len(asked) - 1 /\ Len(asked) # 0
  BY <1>1 DEF InStep
<1>3. asked # << >>
  BY <1>2
<1> QED
  BY <1>2, <1>3, LastCommand

\* While everybody has an answer, no reply is under way.
LEMMA AtRest ==
  ASSUME Reply, InStep
  PROVE  Quiet
BY DEF Reply, Sent, Drafting, Drafted, Arriving, CutOff

\* The handler and the daemon leave the client alone.
LEMMA ClientStill ==
  ASSUME AnswerInv, UNCHANGED <<routing, asked, answers, offered, builtin, p2p>>,
         UNCHANGED <<cpc, fd4>> \/ (routing = "direct" /\ cpc' \in {cpc, "ready"})
  PROVE  Counting' /\ BuiltinKept' /\ Merging'
<1> USE DEF AnswerInv
<1>1. Counting'
  BY DEF Counting
<1>2. BuiltinKept'
  BY DEF BuiltinKept
<1>3. Merging'
  <2>1. CASE UNCHANGED <<cpc, fd4>>
    BY <2>1 DEF Merging, InStep, LastAsked, Wants
  <2>2. CASE routing = "direct"
    BY <2>2 DEF Merging
  <2> QED
    BY <2>1, <2>2
<1> QED
  BY <1>1, <1>2, <1>3

\* Nothing that matters to a reply changes.
LEMMA ReplyStill ==
  ASSUME Reply, UNCHANGED <<routing, asked, answers, offered, p2p, fd4, command, wire,
                            hpc, kind, todo, buf>>
  PROVE  Reply'
<1>1. /\ InStep' = InStep /\ LastAsked' = LastAsked /\ Wants' = Wants /\ Got' = Got
      /\ Draft' = Draft /\ Resting' = Resting /\ Working' = Working
  BY DEF InStep, LastAsked, Wants, Got, Draft, Resting, Working
<1>2. CASE Quiet
  BY <1>1, <1>2 DEF Reply, Quiet
<1>3. CASE Sent
  BY <1>1, <1>3 DEF Reply, Sent
<1>4. CASE Drafting
  BY <1>1, <1>4 DEF Reply, Drafting
<1>5. CASE Drafted
  BY <1>1, <1>5 DEF Reply, Drafted
<1>6. CASE Arriving
  BY <1>1, <1>6 DEF Reply, Arriving
<1>7. CASE CutOff
  BY <1>1, <1>7 DEF Reply, CutOff
<1> QED
  BY <1>2, <1>3, <1>4, <1>5, <1>6, <1>7 DEF Reply

\* Steps of the others, and of the time.
LEMMA OthersAnswer ==
  ASSUME AnswerInv, OtherFetch \/ Tick \/ StartDaemon \/ Listen \/ UNCHANGED vars
  PROVE  AnswerInv'
<1>1. UNCHANGED <<routing, cpc, asked, answers, offered, builtin, p2p, fd4, command, wire,
                  hpc, kind, todo, buf>>
  BY DEF OtherFetch, Tick, StartDaemon, Listen, vars, configVars, clientVars, handlerVars
<1>2. Counting' /\ BuiltinKept' /\ Merging'
  BY <1>1, ClientStill
<1>3. Replying'
  BY <1>1, ReplyStill DEF AnswerInv, Replying
<1> QED
  BY <1>2, <1>3 DEF AnswerInv

\* A daemon that stops loses a reply that it has not sent.
LEMMA StopAnswers ==
  ASSUME QueryInv, AnswerInv, Sound', StopDaemon
  PROVE  AnswerInv'
<1>5. UNCHANGED wire
  <2>1. PICK part \in Begun : wire' = wire \o part /\ cut' = (cut \/ part # << >>)
    BY DEF StopDaemon
  <2>2. part = << >>
    BY <2>1 DEF Sound
  <2>3. wire \in Seq(Frames)
    BY DEF QueryInv, Sending
  <2>4. wire \o << >> = wire
    BY ONLY <2>3, ConcatEmptySeq
  <2> QED
    BY ONLY <2>1, <2>2, <2>4
<1>1. /\ UNCHANGED <<routing, cpc, asked, answers, offered, builtin, p2p, fd4, wire>>
      /\ hpc' = "gone" /\ command' \in {command, << >>} /\ routing # "direct"
      /\ hpc # "gone" => command' = << >>
  BY <1>5 DEF StopDaemon, configVars, clientVars
<1>2. Counting' /\ BuiltinKept' /\ Merging'
  BY <1>1, ClientStill
<1>3. ASSUME Reply PROVE Reply'
  <2>1. /\ InStep' = InStep /\ LastAsked' = LastAsked /\ Wants' = Wants /\ Got' = Got
        /\ Resting'
    BY <1>1 DEF InStep, LastAsked, Wants, Got, Resting
  <2>2. CASE Arriving
    <3>1. command' = << >>
      BY <1>1, <2>2 DEF Arriving
    <3> QED
      BY <1>1, <2>1, <2>2, <3>1 DEF Reply, Arriving
  <2>3. CASE wire = << >> /\ Got = << >> /\ command' = << >>
    BY <1>1, <2>1, <2>3 DEF Reply, Quiet
  <2>4. CASE Sent /\ command' = command
    BY <1>1, <2>1, <2>4 DEF Reply, Sent
  <2> QED
    BY <1>1, <1>3, <2>2, <2>3, <2>4 DEF Reply, Quiet, Sent, Drafting, Drafted, CutOff
<1>4. Replying'
  BY <1>1, <1>3 DEF AnswerInv, Replying
<1> QED
  BY <1>2, <1>4 DEF AnswerInv

\* The handler reads a command.
LEMMA ReadCommandAnswers ==
  ASSUME AnswerInv, ReadCommand
  PROVE  AnswerInv'
<1>1. /\ UNCHANGED <<routing, cpc, asked, answers, offered, builtin, p2p, fd4, wire>>
      /\ hpc' = "path" /\ command # << >> /\ command' = << >> /\ buf' = << >>
      /\ kind' = Head(command).kind /\ todo' = Head(command).paths
  BY DEF ReadCommand, configVars, clientVars
<1>2. Counting' /\ BuiltinKept' /\ Merging'
  BY <1>1, ClientStill
<1>3. ASSUME Reply PROVE Reply'
  <2>1. /\ InStep' = InStep /\ LastAsked' = LastAsked /\ Wants' = Wants /\ Got' = Got
        /\ Working'
    BY <1>1 DEF InStep, LastAsked, Wants, Got, Working
  <2>2. Sent
    BY <1>1, <1>3 DEF Reply, Quiet, Drafting, Drafted, Arriving, CutOff
  <2>3. PICK q : Good(q, Wants) /\ command = <<[kind |-> LastAsked.kind, paths |-> q]>>
    BY <2>2 DEF Sent
  <2>4. kind' = LastAsked.kind /\ todo' = q
    <3>1. Head(command) = [kind |-> LastAsked.kind, paths |-> q]
      BY <2>3
    <3> QED
      BY <1>1, <3>1
  <2>5. Apart(<< >>, todo', Wants')
    BY <2>1, <2>3, <2>4, NoneNamed
  <2>6. Draft' = << >> /\ NoEnd(buf')
    <3>1. Got = << >>
      BY <2>2 DEF Sent
    <3>2. routing = "direct" => fd4' = << >>
      BY <1>1, <3>1 DEF Got
    <3>3. LinesOf(<< >>) = << >> /\ NoEnd(<< >>)
      BY DEF LinesOf, NoEnd
    <3> QED
      BY <1>1, <3>2, <3>3 DEF Draft
  <2>7. LastAsked.kind \in Kinds
    BY <2>2, Asking DEF AnswerInv, Sent
  <2>8. Part(kind', << >>, Draft')
    BY <2>4, <2>6, <2>7, PartEmpty
  <2>9. Drafting'
    BY <1>1, <2>1, <2>2, <2>4, <2>5, <2>6, <2>8 DEF Drafting, Sent
  <2> QED
    BY <2>9 DEF Reply
<1>4. Replying'
  BY <1>1, <1>3 DEF AnswerInv, Replying
<1> QED
  BY <1>2, <1>4 DEF AnswerInv

\* The handler sees the end of the connection.
LEMMA ReadEofAnswers ==
  ASSUME AnswerInv, ReadEof
  PROVE  AnswerInv'
<1>1. /\ UNCHANGED <<routing, cpc, asked, answers, offered, builtin, p2p, fd4, wire, command>>
      /\ hpc = "idle" /\ hpc' = "gone"
  BY DEF ReadEof, configVars, clientVars
<1>2. Counting' /\ BuiltinKept' /\ Merging'
  BY <1>1, ClientStill
<1>3. ASSUME Reply PROVE Reply'
  <2>1. /\ InStep' = InStep /\ LastAsked' = LastAsked /\ Wants' = Wants /\ Got' = Got
        /\ Resting' /\ ~Working
    BY <1>1 DEF InStep, LastAsked, Wants, Got, Resting, Working
  <2>2. CASE Quiet
    BY <1>1, <2>1, <2>2 DEF Reply, Quiet
  <2>3. CASE Sent
    BY <1>1, <2>1, <2>3 DEF Reply, Sent
  <2>4. CASE Arriving
    BY <1>1, <2>1, <2>4 DEF Reply, Arriving
  <2> QED
    BY <1>1, <1>3, <2>1, <2>2, <2>3, <2>4 DEF Reply, Drafting, Drafted, CutOff
<1>4. Replying'
  BY <1>1, <1>3 DEF AnswerInv, Replying
<1> QED
  BY <1>2, <1>4 DEF AnswerInv

\* A list of records gets one more.
LEMMA EmitDrafts ==
  ASSUME NEW k \in Kinds, NEW s, NEW p \in Paths, Part(k, s, Draft), buf \in Seq(Frames),
         routing' = routing, Emit(Entry(k, p, p)), routing # "direct" => NoEnd(buf)
  PROVE  /\ Part(k, s \o <<p>>, Draft')
         /\ routing # "direct" => NoEnd(buf') /\ UNCHANGED fd4
<1> DEFINE e == Entry(k, p, p)
<1>1. e \in Seq(Frames) /\ NoEnd(e) /\ Part(k, <<p>>, LinesOf(e))
  BY EntryPart
<1>2. Part(k, s \o <<p>>, Draft \o LinesOf(e))
  BY <1>1, PartConcat
<1> HIDE DEF e
<1>3. CASE routing = "direct"
  <2>1. Draft' = fd4' /\ Draft = fd4
    BY <1>3 DEF Draft
  <2>2. fd4' = fd4 \o LinesOf(e)
    BY <1>3 DEF Emit, LinesOf, e
  <2> QED
    BY <1>2, <1>3, <2>1, <2>2
<1>4. CASE routing # "direct"
  <2>1. Draft' = LinesOf(buf') /\ Draft = LinesOf(buf)
    BY <1>4 DEF Draft
  <2>2. buf' = buf \o e /\ UNCHANGED fd4
    BY <1>4 DEF Emit, e
  <2>3. LinesOf(buf \o e) = LinesOf(buf) \o LinesOf(e)
    BY <1>1, LinesConcat
  <2>4. NoEnd(buf \o e)
    BY <1>1, <1>4, NoEndConcat
  <2> QED
    BY <1>2, <1>4, <2>1, <2>2, <2>3, <2>4
<1> QED
  BY <1>3, <1>4

\* What a step of a lookup does: it leaves the client alone, and names the path, leaves it
\* out, gives up or goes on.
LookupFrame ==
  /\ UNCHANGED <<routing, cpc, asked, answers, offered, builtin, p2p, command, wire, kind>>
  /\ Working /\ (hpc = "path" => todo # << >>)
  /\ \/ Name(Head(todo), Head(todo))
     \/ LeaveOut
     \/ Panic
     \/ UNCHANGED <<todo, fd4, buf>> /\ Working'

\* Every step of a lookup does that, where every narinfo is of the path asked for.
LEMMA LookupFrames ==
  ASSUME QueryInv, Sound', LookUp \/ Fetch \/ NotFetched \/ Providers
  PROVE  LookupFrame
<1>1. UNCHANGED <<routing, cpc, asked, answers, offered, builtin, p2p, command, wire, kind>>
  BY DEF LookUp, Fetch, NotFetched, Providers, configVars
<1>2. Working /\ (hpc = "path" => todo # << >>)
  BY DEF LookUp, Fetch, NotFetched, Providers, Working
<1> DEFINE p == Head(todo)
           Goes == \/ Name(p, p)
                   \/ LeaveOut
                   \/ Panic
                   \/ UNCHANGED <<todo, fd4, buf>> /\ Working'
<1>4. ASSUME NEW r \in Paths, NEW q, <<r, q>> \in vouched' PROVE q = r
  <2>1. \A v \in vouched' : v[1] = v[2]
    BY DEF Sound, InOrder
  <2>2. <<r, q>>[1] = <<r, q>>[2]
    BY <1>4, <2>1
  <2> QED
    BY <2>2
<1>5. ASSUME HaveNarinfo(p, p) PROVE Goes
  BY <1>5 DEF HaveNarinfo, Working
<1>6. ASSUME LookUp PROVE Goes
  <2>1. CASE StorePath(p) /\ Cached(p) /\ HaveNarinfo(p, filed[p])
    <3>1. p \in Paths /\ <<p, filed[p]>> \in vouched /\ vouched' = vouched
      BY <1>6, <2>1 DEF LookUp, QueryInv, Caching, StorePath, Cached
    <3>2. filed[p] = p
      BY <1>4, <3>1
    <3>3. HaveNarinfo(p, p)
      BY <2>1, <3>2 DEF HaveNarinfo, Name, Emit
    <3> QED
      BY <1>5, <3>3
  <2> QED
    BY <1>6, <2>1 DEF LookUp, Working
<1>7. ASSUME Fetch PROVE Goes
  <2>1. CASE \E info \in Served(p) : /\ Verified(info) /\ Put(p, info.path)
                                     /\ Vouch(p, info) /\ HaveNarinfo(p, info.path)
    <3>1. PICK info \in Served(p) : /\ Verified(info) /\ Put(p, info.path)
                                    /\ Vouch(p, info) /\ HaveNarinfo(p, info.path)
      BY <2>1
    <3>2. p \in Paths
      BY <1>7 DEF Fetch, QueryInv, Looking, StorePath
    <3>3. <<p, info.path>> \in vouched'
      BY <3>1, <3>2, PutKeeps DEF QueryInv
    <3>4. info.path = p
      BY <1>4, <3>2, <3>3
    <3>5. HaveNarinfo(p, p)
      BY <3>1, <3>4 DEF HaveNarinfo, Name, Emit
    <3> QED
      BY <1>5, <3>5
  <2> QED
    BY <1>7, <2>1 DEF Fetch, Working
<1>8. ASSUME NotFetched PROVE Goes
  BY <1>8 DEF NotFetched
<1>9. ASSUME Providers PROVE Goes
  <2>1. kind = "have"
    BY <1>9 DEF Providers, QueryInv, Looking
  <2>2. Entry(kind, p, filed[p]) = <<p>> /\ Entry(kind, p, p) = <<p>>
    BY <2>1, Zenon DEF Entry
  <2>3. Name(p, filed[p]) => Name(p, p)
    BY <2>2 DEF Name, Emit
  <2> QED
    BY <1>9, <2>3 DEF Providers
<1>3. Goes
  BY <1>6, <1>7, <1>8, <1>9
<1> QED
  BY <1>1, <1>2, <1>3 DEF LookupFrame

\* The handler looks a path up.
LEMMA LookupAnswers ==
  ASSUME QueryInv, AnswerInv, Sound', LookUp \/ Fetch \/ NotFetched \/ Providers
  PROVE  AnswerInv'
<1>1. /\ UNCHANGED <<routing, cpc, asked, answers, offered, builtin, p2p, command, wire, kind>>
      /\ Working /\ (hpc = "path" => todo # << >>)
      /\ \/ Name(Head(todo), Head(todo))
         \/ LeaveOut
         \/ Panic
         \/ UNCHANGED <<todo, fd4, buf>> /\ Working'
  BY LookupFrames DEF LookupFrame
<1>2. routing # "direct" => UNCHANGED fd4
  BY <1>1 DEF Name, LeaveOut, Panic, Emit
<1>3. Counting' /\ BuiltinKept' /\ Merging'
  BY <1>1, <1>2, ClientStill
<1>4. ASSUME Reply PROVE Reply'
  <2>1. Drafting
    BY <1>1, <1>4 DEF Reply, Quiet, Sent, Drafted, Arriving, CutOff, Working, Resting
  <2>2. /\ InStep' = InStep /\ LastAsked' = LastAsked /\ Wants' = Wants
        /\ routing # "direct" => Got' = Got
    BY <1>1, <1>2 DEF InStep, LastAsked, Wants, Got
  <2>3. PICK s : Apart(s, todo, Wants) /\ Part(kind, s, Draft)
    BY <2>1 DEF Drafting
  <2>4. /\ ~InStep /\ command = << >> /\ wire = << >> /\ kind = LastAsked.kind
        /\ (routing # "direct" => Got = << >> /\ NoEnd(buf)) /\ todo # << >>
    BY <1>1, <2>1 DEF Drafting, Working
  <2>5. kind \in Kinds
    BY <2>4, Asking DEF AnswerInv
  <2>6. CASE Name(Head(todo), Head(todo))
    <3> DEFINE p == Head(todo)
    <3>1. hpc' = "path" /\ todo' = Tail(todo) /\ Emit(Entry(kind, p, p))
      BY <2>6 DEF Name
    <3>2. p \in Paths /\ Apart(s \o <<p>>, todo', Wants')
      BY <2>2, <2>3, <2>4, <3>1, NamedNext
    <3>3. buf \in Seq(Frames)
      BY DEF QueryInv, Telling, Told
    <3>4. /\ Part(kind, s \o <<p>>, Draft')
          /\ routing # "direct" => NoEnd(buf') /\ UNCHANGED fd4
      BY <1>1, <2>3, <2>4, <2>5, <3>1, <3>2, <3>3, EmitDrafts
    <3> HIDE DEF p
    <3>5. Drafting'
      BY <1>1, <2>2, <2>4, <3>1, <3>2, <3>4 DEF Drafting, Working
    <3> QED
      BY <3>5 DEF Reply
  <2>7. CASE LeaveOut
    <3>1. hpc' = "path" /\ todo' = Tail(todo) /\ UNCHANGED <<fd4, buf>>
      BY <2>7 DEF LeaveOut
    <3>2. Apart(s, todo', Wants')
      BY <2>2, <2>3, <2>4, <3>1, NamedNext
    <3>3. Draft' = Draft
      BY <1>1, <3>1 DEF Draft
    <3>4. Drafting'
      BY <1>1, <2>2, <2>3, <2>4, <3>1, <3>2, <3>3 DEF Drafting, Working
    <3> QED
      BY <3>4 DEF Reply
  <2>8. CASE Panic
    <3>1. hpc' = "gone" /\ UNCHANGED <<todo, fd4, buf>>
      BY <2>8 DEF Panic
    <3>2. CASE routing = "direct"
      <4>1. Part(LastAsked'.kind, s, fd4')
        BY <2>2, <2>3, <2>4, <3>1, <3>2 DEF Draft
      <4>2. CutOff'
        BY <1>1, <2>2, <2>4, <3>1, <3>2, <4>1 DEF CutOff
      <4> QED
        BY <4>2 DEF Reply
    <3>3. CASE routing # "direct"
      <4>1. Quiet'
        BY <1>1, <2>2, <2>4, <3>1, <3>3 DEF Quiet, Resting
      <4> QED
        BY <4>1 DEF Reply
    <3> QED
      BY <3>2, <3>3
  <2>9. CASE UNCHANGED <<todo, fd4, buf>> /\ Working'
    <3>1. Draft' = Draft
      BY <1>1, <2>9 DEF Draft
    <3>2. Drafting'
      BY <1>1, <2>2, <2>3, <2>4, <2>9, <3>1 DEF Drafting
    <3> QED
      BY <3>2 DEF Reply
  <2> QED
    BY <1>1, <2>6, <2>7, <2>8, <2>9
<1>5. Replying'
  BY <1>1, <1>4 DEF AnswerInv, Replying
<1> QED
  BY <1>3, <1>5 DEF AnswerInv

\* The end of a reply.
LEMMA WriteEndAnswers ==
  ASSUME QueryInv, AnswerInv, WriteEnd
  PROVE  AnswerInv'
<1>1. /\ UNCHANGED <<routing, asked, answers, offered, builtin, p2p, command, wire>>
      /\ hpc = "path" /\ todo = << >> /\ Emit(<<EndFrame>>)
      /\ IF routing = "direct" THEN hpc' = "idle" /\ cpc' = "ready"
                               ELSE hpc' = "flush" /\ UNCHANGED <<cpc, fd4>>
  BY DEF WriteEnd, configVars, Emit
<1>2. Counting' /\ BuiltinKept' /\ Merging'
  BY <1>1, ClientStill
<1>3. ASSUME Reply PROVE Reply'
  <2>1. Drafting
    BY <1>1, <1>3 DEF Reply, Quiet, Sent, Drafted, Arriving, CutOff, Resting
  <2>2. InStep' = InStep /\ LastAsked' = LastAsked /\ Wants' = Wants
    BY <1>1 DEF InStep, LastAsked, Wants
  <2>3. PICK s : Apart(s, todo, Wants) /\ Part(kind, s, Draft)
    BY <2>1 DEF Drafting
  <2>4. /\ ~InStep /\ command = << >> /\ wire = << >> /\ kind = LastAsked.kind
        /\ (routing # "direct" => Got = << >> /\ NoEnd(buf))
    BY <2>1 DEF Drafting
  <2>5. kind \in Kinds
    BY <2>4, Asking DEF AnswerInv
  <2>6. Good(s, Wants')
    BY <2>2, <2>3 DEF Apart
  <2>7. Whole(kind, s, Draft \o <<"">>)
    BY <2>3, <2>5, PartEnded
  <2>8. buf \in Seq(Frames)
    BY DEF QueryInv, Telling, Told
  <2>9. CASE routing = "direct"
    <3>1. fd4' = fd4 \o LinesOf(<<EndFrame>>)
      BY <1>1, <2>9 DEF Emit, LinesOf
    <3>2. LinesOf(<<EndFrame>>) = <<"">>
      <4>1. << >> \in Seq(Frames) /\ NoEnd(<< >>)
        BY DEF NoEnd
      <4> QED
        BY ONLY <4>1, EndsLast
    <3>3. Whole(LastAsked'.kind, s, fd4')
      BY <2>2, <2>4, <2>7, <2>9, <3>1, <3>2 DEF Draft
    <3>4. Got' \o LinesOf(wire') = fd4'
      <4>1. fd4' \in Seq(Lines)
        BY <3>3 DEF Whole
      <4>2. LinesOf(wire') = << >>
        BY <1>1, <2>4 DEF LinesOf
      <4>3. Got' = fd4'
        BY <1>1, <2>9 DEF Got
      <4>4. fd4' \o << >> = fd4'
        BY ONLY <4>1
      <4> QED
        BY ONLY <4>2, <4>3, <4>4
    <3>5. Whole(LastAsked'.kind, s, Got' \o LinesOf(wire'))
      BY ONLY <3>3, <3>4
    <3>6. EndsOnce(wire')
      BY <1>1, <2>4 DEF EndsOnce
    <3>8. Got' \in Seq(Lines)
      BY <1>1, <2>9, <3>3 DEF Got, Whole
    <3>7. Arriving'
      BY <1>1, <2>2, <2>4, <2>6, <2>9, <3>5, <3>6, <3>8 DEF Arriving, Resting
    <3> QED
      BY <3>7 DEF Reply
  <2>10. CASE routing # "direct"
    <3>1. buf' = buf \o <<EndFrame>> /\ hpc' = "flush" /\ UNCHANGED <<cpc, fd4>>
      BY <1>1, <2>10 DEF Emit
    <3>2. EndsOnce(buf') /\ LinesOf(buf') = LinesOf(buf) \o <<"">>
      BY <2>4, <2>8, <2>10, <3>1, EndsLast
    <3>3. Whole(LastAsked'.kind, s, LinesOf(buf'))
      BY <2>2, <2>4, <2>7, <2>10, <3>2 DEF Draft
    <3>4. Got' = << >>
      BY <1>1, <2>4, <2>10, <3>1 DEF Got
    <3>5. Drafted'
      BY <1>1, <2>2, <2>4, <2>6, <3>1, <3>2, <3>3, <3>4 DEF Drafted
    <3> QED
      BY <3>5 DEF Reply
  <2> QED
    BY <2>9, <2>10
<1>4. Replying'
  BY <1>1, <1>3 DEF AnswerInv, Replying
<1> QED
  BY <1>2, <1>4 DEF AnswerInv

\* A reply is sent whole or not at all.
LEMMA FlushAnswers ==
  ASSUME QueryInv, AnswerInv, Flush
  PROVE  AnswerInv'
<1>1. /\ UNCHANGED <<routing, cpc, asked, answers, offered, builtin, p2p, fd4, command>>
      /\ hpc = "flush"
      /\ \/ wire' = wire \o buf /\ hpc' = "idle"
         \/ UNCHANGED wire /\ hpc' = "gone"
  BY DEF Flush, configVars, clientVars
<1>2. Counting' /\ BuiltinKept' /\ Merging'
  BY <1>1, ClientStill
<1>3. ASSUME Reply PROVE Reply'
  <2>1. Drafted
    BY <1>1, <1>3 DEF Reply, Quiet, Sent, Drafting, Arriving, CutOff, Resting, Working
  <2>2. /\ InStep' = InStep /\ LastAsked' = LastAsked /\ Wants' = Wants /\ Got' = Got
        /\ Resting'
    BY <1>1 DEF InStep, LastAsked, Wants, Got, Resting
  <2>3. PICK s : Good(s, Wants) /\ Whole(LastAsked.kind, s, LinesOf(buf))
    BY <2>1 DEF Drafted
  <2>4. ~InStep /\ command = << >> /\ wire = << >> /\ Got = << >> /\ EndsOnce(buf)
    BY <2>1 DEF Drafted
  <2>5. CASE wire' = wire \o buf
    <3>1. buf \in Seq(Frames)
      BY DEF QueryInv, Telling, Told
    <3>2. wire' = buf
      <4>1. << >> \o buf = buf
        BY ONLY <3>1
      <4> QED
        BY ONLY <2>4, <2>5, <4>1
    <3>3. Got' \o LinesOf(wire') = LinesOf(buf)
      <4>1. LinesOf(buf) \in Seq(Lines)
        BY <3>1, LinesTyped
      <4>2. << >> \o LinesOf(buf) = LinesOf(buf)
        BY ONLY <4>1
      <4> QED
        BY ONLY <2>2, <2>4, <3>2, <4>2
    <3>4. wire' # << >>
      <4>1. Len(LinesOf(buf)) \in Nat \ {0}
        <5>1. LastAsked.kind \in Kinds
          BY <2>4, Asking DEF AnswerInv
        <5> QED
          BY <2>3, <5>1, WholePart
      <4>2. Len(LinesOf(buf)) = Len(buf)
        BY <3>1, LinesTyped
      <4> QED
        BY <3>1, <3>2, <4>1, <4>2
    <3>5. Whole(LastAsked'.kind, s, Got' \o LinesOf(wire')) /\ Good(s, Wants') /\ EndsOnce(wire')
      BY ONLY <2>2, <2>3, <2>4, <3>2, <3>3
    <3>7. Got' \in Seq(Lines)
      BY <2>2, <2>4
    <3>6. Arriving'
      BY <1>1, <2>2, <2>4, <3>4, <3>5, <3>7 DEF Arriving
    <3> QED
      BY <3>6 DEF Reply
  <2>6. CASE UNCHANGED wire
    <3>1. Quiet'
      BY <1>1, <2>2, <2>4, <2>6 DEF Quiet
    <3> QED
      BY <3>1 DEF Reply
  <2> QED
    BY <1>1, <2>5, <2>6
<1>4. Replying'
  BY <1>1, <1>3 DEF AnswerInv, Replying
<1> QED
  BY <1>2, <1>4 DEF AnswerInv

\* A process that ends, or hangs, leaves everything else as it is.
LEMMA EndingAnswers ==
  ASSUME AnswerInv, cpc' \in Ended \/ (cpc' = "stuck" /\ routing = "relay"),
         UNCHANGED <<routing, asked, answers, offered, builtin, p2p, fd4, command, wire,
                     hpc, kind, todo, buf>>
  PROVE  AnswerInv'
<1> USE DEF AnswerInv
<1>1. /\ cpc' \notin {"new", "connect", "ready", "builtin", "missing", "waiting", "write"}
      /\ cpc' = "stuck" => routing = "relay"
  BY DEF Ended
<1>2. Counting'
  BY <1>1 DEF Counting
<1>3. BuiltinKept'
  BY DEF BuiltinKept
<1>4. Merging'
  BY <1>1 DEF Merging, InStep, LastAsked
<1>5. Replying'
  BY <1>1, ReplyStill DEF Replying
<1> QED
  BY <1>2, <1>3, <1>4, <1>5

\* The client is started.
LEMMA StartAnswers ==
  ASSUME AnswerInv, Start \/ Connect
  PROVE  AnswerInv'
<1> USE DEF AnswerInv
<1>1. /\ cpc \in {"new", "connect"} /\ hpc' \in {hpc, "idle"}
      /\ UNCHANGED <<routing, asked, answers, offered, builtin, p2p, fd4, command, wire>>
      /\ cpc' \in {"ready", "connect", "failed", "delegated"}
      /\ cpc = "new" /\ routing = "builtin-first" => cpc' = "ready"
  BY DEF Start, Connect, RouteInvocation, configVars
<1>2. asked = << >> /\ InStep
  <2>1. asked = << >>
    BY <1>1 DEF Counting
  <2>2. Len(asked) = 0 /\ Len(answers) \in Nat
    BY <2>1 DEF Counting
  <2> QED
    BY <2>1, <2>2 DEF Counting, InStep
<1>3. Counting'
  BY <1>1, <1>2 DEF Counting
<1>4. BuiltinKept'
  BY <1>1 DEF BuiltinKept
<1>5. Merging'
  BY <1>1 DEF Merging, InStep, LastAsked
<1>6. Replying'
  <2>1. CASE routing = "builtin-first"
    BY <1>1, <2>1 DEF Replying
  <2>2. CASE routing # "builtin-first"
    <3>1. Quiet
      BY <1>2, <2>2, AtRest DEF Replying
    <3>2. Quiet'
      BY <1>1, <3>1 DEF Quiet, Resting, Got
    <3> QED
      BY <3>2 DEF Replying, Reply
  <2> QED
    BY <2>1, <2>2
<1> QED
  BY <1>3, <1>4, <1>5, <1>6

\* guix-daemon asks.
LEMMA AskAnswers ==
  ASSUME AnswerInv, Ask
  PROVE  AnswerInv'
<1> USE DEF AnswerInv
<1> DEFINE C == [kind : {"have", "info"}, paths : Queries]
           n == Len(asked)
<1>1. /\ cpc \in {"ready", "stuck"} /\ InStep /\ (cpc = "stuck" => routing = "relay")
      /\ UNCHANGED <<routing, builtin, p2p, fd4, answers, wire, hpc, kind, todo, buf>>
  BY DEF Ask, configVars, handlerVars, Counting
<1>2. PICK k \in {"have", "info"}, q \in Queries :
        LET c == [kind |-> k, paths |-> q] IN
        /\ asked' = Append(asked, c) /\ offered' = Append(offered, {})
        /\ IF routing = "builtin-first"
             THEN cpc' = "builtin" /\ UNCHANGED command
             ELSE cpc' \in {"stuck", "waiting"} /\ command' = <<c>>
  BY DEF Ask
<1> DEFINE c == [kind |-> k, paths |-> q]
<1>3. /\ asked' = Append(asked, c) /\ offered' = Append(offered, {})
      /\ IF routing = "builtin-first"
           THEN cpc' = "builtin" /\ UNCHANGED command
           ELSE cpc' \in {"stuck", "waiting"} /\ command' = <<c>>
  BY <1>2
<1>4. c \in C /\ c.kind = k /\ c.paths = q
  OBVIOUS
<1>5. asked \in Seq(C) /\ offered \in Seq(SUBSET Paths) /\ Len(offered) = n /\ n \in Nat
  BY DEF Counting
<1>6. answers \in Seq(Seq(Lines)) /\ Len(answers) = n
  BY <1>1 DEF Counting, InStep
<1> HIDE DEF C, c
<1>7. asked' \in Seq(C) /\ Len(asked') = n + 1 /\ asked'[n + 1] = c
  BY <1>3, <1>4, <1>5
<1>8. /\ offered' \in Seq(SUBSET Paths) /\ Len(offered') = n + 1 /\ offered'[n + 1] = {}
      /\ \A i \in 1 .. n : offered'[i] = offered[i]
  <2>1. {} \in SUBSET Paths
    OBVIOUS
  <2> QED
    BY <1>3, <1>5, <2>1
<1> HIDE DEF n
<1>9. ~InStep' /\ LastAsked' = c
  BY <1>1, <1>5, <1>6, <1>7 DEF InStep, LastAsked
<1>10. Counting'
  <2>1. Len(answers') = Len(asked') - 1
    BY <1>1, <1>5, <1>6, <1>7
  <2>2. /\ cpc' \notin {"new", "connect", "missing", "write"}
        /\ routing # "builtin-first" => cpc' # "builtin"
        /\ cpc' = "stuck" => cpc = "stuck"
    BY <1>1, <1>3 DEF Ask
  <2>4. asked' # << >>
    BY <1>5, <1>7
  <2>3. ASSUME routing # "builtin-first", NEW i \in 1 .. n + 1 PROVE offered'[i] = {}
    <3>1. i \in 1 .. n \/ i = n + 1
      BY <1>5
    <3> QED
      BY <1>5, <1>8, <2>3, <3>1 DEF Counting
  <2> QED
    BY <1>1, <1>6, <1>7, <1>8, <2>1, <2>2, <2>3, <2>4 DEF Counting, C
<1>11. BuiltinKept'
  <2>1. \A i \in 1 .. n : offered'[i] = offered[i] /\ answers'[i] = answers[i] /\ Len(answers') = n
    BY <1>1, <1>6, <1>8
  <2> QED
    BY <1>1, <1>6, <2>1 DEF BuiltinKept
<1>12. Merging'
  BY <1>1, <1>3, <1>9 DEF Merging
<1>13. Replying'
  <2>1. CASE routing = "builtin-first"
    BY <1>1, <1>3, <2>1 DEF Replying
  <2>2. CASE routing # "builtin-first"
    <3>1. Quiet
      BY <1>1, <2>2, AtRest DEF Replying
    <3>2. q \in Seq(Paths) /\ IsInjective(q)
      BY QueryAssumption
    <3>3. Wants' = Range(q)
      BY <1>4, <1>8, <1>9 DEF Wants
    <3>4. Good(q, Wants')
      BY <3>2, <3>3 DEF Good, IsInjective, Range
    <3>5. command' = <<[kind |-> LastAsked'.kind, paths |-> q]>>
      BY <1>3, <1>4, <1>9, <2>2 DEF c
    <3>6. Sent'
      BY <1>1, <1>9, <3>1, <3>4, <3>5 DEF Sent, Quiet, Resting, Got
    <3> QED
      BY <3>6 DEF Replying, Reply
  <2> QED
    BY <2>1, <2>2
<1> QED
  BY <1>10, <1>11, <1>12, <1>13

\* Guix's own substituter answers.
LEMMA BuiltinAnswers ==
  ASSUME AnswerInv, Builtin
  PROVE  AnswerInv'
<1> USE DEF AnswerInv
<1> DEFINE q == LastAsked.paths
           k == LastAsked.kind
           n == Len(asked)
<1>1. /\ cpc = "builtin" /\ cpc' = "missing"
      /\ UNCHANGED <<routing, asked, p2p, fd4, answers, command, wire>>
  BY DEF Builtin, configVars
<1>2. routing = "builtin-first"
  BY <1>1 DEF Counting
<1>3. ~InStep /\ fd4 = << >> /\ p2p = << >>
  BY <1>1, <1>2 DEF Merging
<1>4. k \in Kinds /\ q \in Seq(Paths) /\ IsInjective(q) /\ n \in Nat \ {0} /\ Len(answers) = n - 1
  BY <1>3, Asking
<1>17. PICK S \in SUBSET (Range(q) \ NotStore) : \E known \in Among(S) :
         /\ builtin' = QueryDataLines(BuiltinLines(k, known) \o <<"">>)
         /\ offered' = [offered EXCEPT ![Len(offered)] = S]
  BY DEF Builtin
<1>5. PICK known \in Among(S) :
        /\ builtin' = QueryDataLines(BuiltinLines(k, known) \o <<"">>)
        /\ offered' = [offered EXCEPT ![Len(offered)] = S]
  BY <1>17
<1>6. Good(known, Range(q) \cap S) /\ Range(known) = Range(q) \cap S
  BY <1>4, SomeOf DEF Among
<1>7. Range(q) \cap S = S /\ S \subseteq Paths
  BY <1>4 DEF Range
<1>8. Part(k, known, BuiltinLines(k, known))
  <2>1. known \in Seq(Paths)
    BY <1>6 DEF Good
  <2> QED
    BY <1>4, <2>1, BuiltinPart
<1>9. builtin' = BuiltinLines(k, known)
  <2>1. BuiltinLines(k, known) \in Seq(Lines)
    BY <1>8 DEF Part
  <2> QED
    BY <1>5, <2>1, DataLines
<1>10. Good(known, Range(q)) /\ Range(known) = S
  BY <1>6, <1>7 DEF Good
<1>11. /\ offered' \in Seq(SUBSET Paths) /\ Len(offered') = n /\ offered'[n] = S
       /\ \A i \in 1 .. n - 1 : offered'[i] = offered[i]
  <2>1. offered \in Seq(SUBSET Paths) /\ Len(offered) = n
    BY DEF Counting
  <2> DEFINE T == SUBSET Paths
  <2>2. /\ offered \in Seq(T) /\ Len(offered) = n /\ n \in Nat \ {0} /\ S \in T
        /\ offered' = [offered EXCEPT ![n] = S]
    BY <1>4, <1>5, <1>7, <2>1
  <2> HIDE DEF T, n
  <2>3. /\ offered' \in Seq(T) /\ Len(offered') = n /\ offered'[n] = S
        /\ \A i \in 1 .. n - 1 : offered'[i] = offered[i]
    BY ONLY <2>2
  <2> QED
    BY <2>3 DEF T
<1>12. LastAsked' = LastAsked /\ ~InStep'
  BY <1>1, <1>3 DEF LastAsked, InStep
<1>13. Counting'
  BY <1>1, <1>2, <1>11 DEF Counting
<1>14. BuiltinKept'
  BY <1>1, <1>4, <1>11 DEF BuiltinKept
<1>15. Merging'
  <2>1. Part(LastAsked'.kind, known, builtin') /\ Good(known, Range(LastAsked'.paths))
        /\ Range(known) = offered'[Len(offered')]
    BY <1>8, <1>9, <1>10, <1>11, <1>12
  <2> HIDE DEF q, k, n
  <2> QED
    BY <1>1, <1>2, <1>3, <1>12, <2>1 DEF Merging
<1>16. Replying'
  BY <1>1, <1>2 DEF Replying
<1> QED
  BY <1>13, <1>14, <1>15, <1>16

\* The extension asks the daemon about the rest.
LEMMA AskDaemonAnswers ==
  ASSUME AnswerInv, AskDaemon
  PROVE  AnswerInv'
<1> USE DEF AnswerInv
<1> DEFINE q == LastAsked.paths
           k == LastAsked.kind
<1>1. /\ cpc = "missing"
      /\ UNCHANGED <<routing, asked, builtin, p2p, fd4, answers, offered, kind, todo, buf>>
  BY DEF AskDaemon, configVars
<1>2. routing = "builtin-first"
  BY <1>1 DEF Counting
<1>3. ~InStep /\ fd4 = << >> /\ p2p = << >>
  BY <1>1, <1>2 DEF Merging
<1>4. k \in Kinds /\ q \in Seq(Paths) /\ IsInjective(q)
  BY <1>3, Asking
<1>5. PICK s : Part(k, s, builtin) /\ Good(s, Range(q)) /\ Range(s) = offered[Len(offered)]
  BY <1>1, <1>2 DEF Merging
<1>6. PICK missing \in MissingPaths :
        \/ /\ cpc' = "waiting" /\ hpc' = "idle" /\ wire' = << >>
           /\ command' = <<[kind |-> k, paths |-> missing]>>
        \/ cpc' = "failed"
        \/ cpc' = "write"
  BY DEF AskDaemon
<1>7. Good(missing, Wants)
  <2>1. PathLines(k, builtin) = s
    BY <1>4, <1>5, PartRead
  <2> DEFINE S == Paths \ Range(s)
  <2>2. missing \in Among(S)
    BY <2>1 DEF MissingPaths
  <2> HIDE DEF S
  <2>3. Good(missing, Range(q) \cap S)
    BY <1>4, <2>2, SomeOf DEF Among
  <2>4. Range(q) \cap S \subseteq Wants
    BY <1>5 DEF S, Wants
  <2> QED
    BY <2>3, <2>4 DEF Good
<1>8. LastAsked' = LastAsked /\ ~InStep' /\ Wants' = Wants
  BY <1>1, <1>3 DEF LastAsked, InStep, Wants
<1>9. Counting'
  BY <1>1, <1>2, <1>6 DEF Counting
<1>10. BuiltinKept'
  BY <1>1 DEF BuiltinKept
<1>11. Merging'
  <2>1. Part(k, << >>, << >>) /\ Good(<< >>, Wants)
    BY <1>4, PartEmpty DEF Good
  <2>2. Part(LastAsked'.kind, << >>, p2p') /\ Good(<< >>, Wants')
    BY <1>1, <1>3, <1>8, <2>1
  <2>3. Part(LastAsked'.kind, s, builtin') /\ Good(s, Range(LastAsked'.paths))
        /\ Range(s) = offered'[Len(offered')]
    BY <1>1, <1>5, <1>8
  <2>4. cpc' \in {"waiting", "failed", "write"} /\ fd4' = << >>
    BY <1>1, <1>3, <1>6
  <2> HIDE DEF q, k
  <2> QED
    BY <1>8, <2>2, <2>3, <2>4 DEF Merging
<1>12. Replying'
  <2>1. CASE cpc' = "waiting"
    <3>1. hpc' = "idle" /\ wire' = << >> /\ command' = <<[kind |-> k, paths |-> missing]>>
      BY <1>6, <2>1
    <3>2. Got' = << >>
      BY <1>1, <1>2, <1>3 DEF Got
    <3>3. Good(missing, Wants') /\ command' = <<[kind |-> LastAsked'.kind, paths |-> missing]>>
      BY <1>7, <1>8, <3>1
    <3>4. Sent'
      BY <1>8, <3>1, <3>2, <3>3 DEF Sent, Resting
    <3> QED
      BY <3>4 DEF Replying, Reply
  <2>2. CASE cpc' # "waiting"
    BY <1>1, <1>2, <2>2 DEF Replying
  <2> QED
    BY <2>1, <2>2
<1> QED
  BY <1>9, <1>10, <1>11, <1>12

\* What comes before the end line of a reply is its records.
LEMMA WholeOpen ==
  ASSUME NEW k \in Kinds, NEW s, NEW l \in Seq(Lines), Whole(k, s, l \o <<"">>)
  PROVE  Part(k, s, l)
<1> DEFINE e == <<"">>
           w == l \o e
           m == SubSeq(w, 1, Len(w) - 1)
<1>0. l \in Seq(Lines)
  OBVIOUS
<1>1. e \in Seq(Lines) /\ Len(e) = 1
  BY ONLY EndLine
<1> HIDE DEF e
<1>2. /\ w \in Seq(Lines) /\ Len(w) = Len(l) + Len(e)
      /\ \A i \in 1 .. Len(l) + Len(e) : w[i] = IF i <= Len(l) THEN l[i] ELSE e[i - Len(l)]
  BY <1>1, ConcatProperties
<1>3. Whole(k, s, w)
  BY DEF e
<1> HIDE DEF w
<1>4. /\ Part(k, s, m) /\ m \in Seq(Lines) /\ Len(m) = Len(w) - 1
      /\ \A i \in 1 .. Len(w) - 1 : m[i] = w[i]
  BY <1>3, WholePart
<1> HIDE DEF m
<1>5. Len(w) - 1 = Len(l) /\ \A i \in 1 .. Len(l) : i \in 1 .. Len(l) + Len(e) /\ i <= Len(l)
  BY ONLY <1>0, <1>1, <1>2
<1>6. \A i \in 1 .. Len(l) : m[i] = l[i]
  BY ONLY <1>2, <1>4, <1>5
<1>7. m = l
  BY ONLY <1>0, <1>4, <1>5, <1>6
<1> QED
  BY <1>4, <1>7

\* The last frame of a reply is a line of its own.
LEMMA TakeEnd ==
  ASSUME NEW w \in Seq(Frames), w # << >>, Head(w) = EndFrame, Tail(w) = << >>
  PROVE  LinesOf(w) = <<"">>
<1>1. w = <<EndFrame>>
  <2> DEFINE f == EndFrame
  <2>1. Head(w) = f
    OBVIOUS
  <2> HIDE DEF f
  <2>2. w = <<f>>
    <3>1. w \in Seq(Frames) /\ w # << >>
      OBVIOUS
    <3>2. Len(Tail(w)) = Len(w) - 1 /\ Len(w) \in Nat /\ Head(w) = w[1]
      BY ONLY <3>1
    <3>3. Len(Tail(w)) = 0
      <4>1. Tail(w) \in Seq(Frames)
        BY ONLY <3>1
      <4> QED
        BY ONLY <4>1, Tail(w) = << >>, EmptySeq, Zenon
    <3>4. Len(w) = 1 /\ w[1] = f
      BY ONLY <2>1, <3>2, <3>3
    <3> QED
      BY ONLY <3>1, <3>4
  <2> QED
    BY <2>2 DEF f
<1>2. << >> \in Seq(Frames) /\ NoEnd(<< >>)
  BY DEF NoEnd
<1>3. LinesOf(<<EndFrame>>) = <<"">>
  BY ONLY <1>2, EndsLast
<1> QED
  BY ONLY <1>1, <1>3

\* A frame arrives.
LEMMA TakeFrameAnswers ==
  ASSUME QueryInv, AnswerInv, TakeFrame
  PROVE  AnswerInv'
<1> USE DEF AnswerInv
<1> DEFINE k == LastAsked.kind
           f == LineOf(Head(wire))
<1>1. /\ cpc = "waiting" /\ wire # << >> /\ wire' = Tail(wire)
      /\ UNCHANGED <<routing, asked, builtin, answers, offered, command, hpc, kind, todo, buf>>
  BY DEF TakeFrame, configVars, handlerVars
<1>2. Arriving
  BY <1>1 DEF Replying, Reply, Quiet, Sent, Drafting, Drafted, CutOff
<1>3. PICK s : Good(s, Wants) /\ Whole(k, s, Got \o LinesOf(wire))
  BY <1>2 DEF Arriving
<1>4. ~InStep /\ Resting /\ command = << >> /\ Got \in Seq(Lines) /\ EndsOnce(wire)
  BY <1>2 DEF Arriving
<1>5. wire \in Seq(Frames)
  BY DEF QueryInv, Sending
<1>6. /\ Tail(wire) \in Seq(Frames) /\ Append(Got, f) \in Seq(Lines)
      /\ Append(Got, f) \o LinesOf(Tail(wire)) = Got \o LinesOf(wire)
      /\ EndsOnce(Tail(wire))
      /\ Head(wire) = EndFrame <=> Tail(wire) = << >>
  BY <1>1, <1>4, <1>5, TakeLine
<1>7. k \in Kinds
  BY <1>4, Asking
<1>8. LastAsked' = LastAsked /\ ~InStep' /\ Wants' = Wants /\ Resting'
  BY <1>1, <1>4 DEF LastAsked, InStep, Wants, Resting
<1> HIDE DEF f
<1>9. ASSUME Got' = Append(Got, f), routing = "builtin-first" => wire' # << >>
      PROVE  Arriving'
  <2>1. Whole(LastAsked'.kind, s, Got' \o LinesOf(wire')) /\ Good(s, Wants')
    BY <1>1, <1>3, <1>6, <1>8, <1>9
  <2>2. Got' \in Seq(Lines) /\ EndsOnce(wire')
    BY <1>1, <1>6, <1>9
  <2> QED
    BY <1>1, <1>4, <1>8, <1>9, <2>1, <2>2 DEF Arriving
<1>10. BuiltinKept'
  BY <1>1 DEF BuiltinKept
<1>11. CASE routing # "builtin-first"
  <2>1. fd4' = Append(fd4, f) /\ cpc' \in {"ready", "waiting"} /\ p2p' = p2p
    BY <1>1, <1>11 DEF TakeFrame, f
  <2>2. Counting'
    BY <1>1, <1>11, <2>1 DEF Counting
  <2>3. Merging'
    BY <1>1, <1>11 DEF Merging
  <2>4. Got' = Append(Got, f)
    BY <1>1, <1>11, <2>1 DEF Got
  <2> QED
    BY <1>9, <1>10, <1>11, <2>2, <2>3, <2>4 DEF Replying, Reply
<1>12. CASE routing = "builtin-first"
  <2>1. Got = p2p /\ Got' = p2p' /\ UNCHANGED fd4
    BY <1>1, <1>12 DEF Got, TakeFrame
  <2>2. cpc' \in {"waiting", "write"}
    BY <1>1, <1>12 DEF TakeFrame
  <2>3. Counting'
    BY <1>1, <1>12, <2>2 DEF Counting
  <2>4. fd4' = << >>
    BY <1>1, <1>12, <2>1 DEF Merging
  <2>5. \E t : Part(LastAsked'.kind, t, builtin') /\ Good(t, Range(LastAsked'.paths))
               /\ Range(t) = offered'[Len(offered')]
    BY <1>1, <1>8, <1>12 DEF Merging
  <2>6. CASE Head(wire) = EndFrame
    <3>1. p2p' = p2p /\ cpc' = "write"
      BY <1>12, <2>6 DEF TakeFrame
    <3>2. LinesOf(wire) = <<"">>
      BY <1>1, <1>5, <1>6, <2>6, TakeEnd
    <3>3. Whole(k, s, p2p \o <<"">>) /\ p2p \in Seq(Lines)
      BY ONLY <1>3, <1>4, <2>1, <3>2
    <3>4. Part(k, s, p2p)
      BY <1>7, <3>3, WholeOpen
    <3>5. Part(LastAsked'.kind, s, p2p') /\ Good(s, Wants')
      BY <1>3, <1>8, <3>1, <3>4
    <3>6. Merging'
      BY <1>8, <2>4, <2>5, <3>1, <3>5 DEF Merging
    <3>7. Replying'
      BY <1>1, <1>12, <3>1 DEF Replying
    <3> QED
      BY <1>10, <2>3, <3>6, <3>7
  <2>7. CASE Head(wire) # EndFrame
    <3>1. p2p' = Append(p2p, f) /\ cpc' = "waiting"
      BY <1>1, <1>12, <2>7 DEF TakeFrame, f
    <3>2. wire' # << >> /\ Got' = Append(Got, f)
      BY <1>1, <1>6, <2>1, <2>7, <3>1
    <3>3. Merging'
      BY <1>8, <2>4, <2>5, <3>1 DEF Merging
    <3> QED
      BY <1>9, <1>10, <2>3, <3>2, <3>3 DEF Replying, Reply
  <2> QED
    BY <2>6, <2>7
<1> QED
  BY <1>11, <1>12

\* The extension writes what it has put together.
LEMMA WriteReplyAnswers ==
  ASSUME AnswerInv, WriteReply
  PROVE  AnswerInv'
<1> USE DEF AnswerInv
<1> DEFINE k == LastAsked.kind
           R == Range(LastAsked.paths)
<1>1. /\ cpc = "write" /\ cpc' = "ready" /\ fd4' = fd4 \o Merged \o <<"">>
      /\ builtin' = << >> /\ p2p' = << >>
      /\ UNCHANGED <<routing, asked, answers, offered>>
  BY DEF WriteReply, configVars
<1>2. routing = "builtin-first"
  BY <1>1 DEF Counting
<1>3. ~InStep /\ fd4 = << >>
  BY <1>1, <1>2 DEF Merging
<1>4. k \in Kinds
  BY <1>3, Asking
<1>5. PICK s : Part(k, s, builtin) /\ Good(s, R) /\ Range(s) = offered[Len(offered)]
  BY <1>1, <1>2 DEF Merging
<1>6. PICK t : Part(k, t, p2p) /\ Good(t, Wants)
  BY <1>1, <1>2 DEF Merging
<1>7. Good(s \o t, R) /\ Range(s) \subseteq Range(s \o t)
  <2>1. Wants = R \ Range(s)
    BY <1>5 DEF Wants
  <2> HIDE DEF R
  <2> QED
    BY <1>5, <1>6, <2>1, GoodConcat
<1>8. Part(k, s \o t, Merged)
  BY <1>4, <1>5, <1>6, PartConcat DEF Merged
<1>9. Whole(k, s \o t, Merged \o <<"">>)
  BY <1>4, <1>8, PartEnded
<1>10. fd4' = Merged \o <<"">>
  <2>1. Merged \in Seq(Lines)
    BY <1>8 DEF Part
  <2>2. << >> \o Merged = Merged
    BY ONLY <2>1
  <2> QED
    BY ONLY <1>1, <1>3, <2>2
<1>11. LastAsked' = LastAsked /\ ~InStep'
  BY <1>1, <1>3 DEF LastAsked, InStep
<1>12. Counting'
  BY <1>1, <1>2 DEF Counting
<1>13. BuiltinKept'
  BY <1>1 DEF BuiltinKept
<1>14. Merging'
  <2>1. Whole(LastAsked'.kind, s \o t, fd4') /\ Good(s \o t, Range(LastAsked'.paths))
        /\ offered'[Len(offered')] \subseteq Range(s \o t)
    BY ONLY <1>1, <1>5, <1>7, <1>9, <1>10, <1>11
  <2> DEFINE u == s \o t
  <2>2. Whole(LastAsked'.kind, u, fd4') /\ Good(u, Range(LastAsked'.paths))
        /\ offered'[Len(offered')] \subseteq Range(u)
    BY <2>1
  <2> HIDE DEF u, k, R
  <2> QED
    BY <1>1, <1>2, <1>11, <2>2 DEF Merging
<1>15. Replying'
  BY <1>1, <1>2 DEF Replying
<1> QED
  BY <1>12, <1>13, <1>14, <1>15

\* The connection ends: the extension goes on with what it has.
LEMMA TakeEofAnswers ==
  ASSUME AnswerInv, TakeEof
  PROVE  AnswerInv'
<1> USE DEF AnswerInv
<1>1. /\ hpc = "gone" /\ wire = << >> /\ cpc \in {"ready", "waiting"}
      /\ UNCHANGED <<routing, asked, answers, offered, builtin, p2p, fd4, command, wire,
                     hpc, kind, todo, buf>>
      /\ cpc = "ready" => routing = "relay"
  BY DEF TakeEof, configVars, handlerVars
<1>2. CASE routing # "builtin-first"
  <2>1. cpc' \in Ended \/ (cpc' = "stuck" /\ routing = "relay")
    BY <1>2 DEF TakeEof, Ended
  <2> QED
    BY <1>1, <2>1, EndingAnswers
<1>3. CASE routing = "builtin-first"
  <2>1. cpc = "waiting" /\ cpc' = "write"
    BY <1>1, <1>3 DEF TakeEof
  <2>2. p2p = << >>
    BY <1>1, <1>3, <2>1 DEF Replying, Reply, Quiet, Sent, Drafting, Drafted, Arriving, CutOff, Got
  <2>3. ~InStep /\ fd4 = << >>
    BY <1>3, <2>1 DEF Merging
  <2>4. LastAsked.kind \in Kinds
    BY <2>3, Asking
  <2>5. LastAsked' = LastAsked /\ ~InStep' /\ Wants' = Wants
    BY <1>1, <2>3 DEF LastAsked, InStep, Wants
  <2>6. Part(LastAsked.kind, << >>, << >>) /\ Good(<< >>, Wants)
    BY <2>4, PartEmpty DEF Good
  <2>7. Part(LastAsked'.kind, << >>, p2p') /\ Good(<< >>, Wants')
    BY <1>1, <2>2, <2>5, <2>6
  <2>8. \E t : Part(LastAsked'.kind, t, builtin') /\ Good(t, Range(LastAsked'.paths))
               /\ Range(t) = offered'[Len(offered')]
    BY <1>1, <1>3, <2>1, <2>5 DEF Merging
  <2>9. Merging'
    BY <1>1, <2>1, <2>3, <2>5, <2>7, <2>8 DEF Merging
  <2>10. Counting'
    BY <1>1, <1>3, <2>1 DEF Counting
  <2>11. BuiltinKept'
    BY <1>1 DEF BuiltinKept
  <2>12. Replying'
    BY <1>1, <1>3, <2>1 DEF Replying
  <2> QED
    BY <2>9, <2>10, <2>11, <2>12
<1> QED
  BY <1>2, <1>3

\* What guix-daemon reads is an answer to the last command, all of it, with everything
\* that the built-in substituter has offered.
Answered(s) ==
  /\ answers' = Append(answers, s) /\ fd4' = << >>
  /\ Good(s, Range(LastAsked.paths)) /\ offered[Len(offered)] \subseteq Range(s)
  /\ routing = "builtin-first" => cpc \notin {"builtin", "missing", "waiting", "write"}
  /\ routing # "builtin-first" => Resting /\ command = << >> /\ wire = << >>

\* The lines of a whole reply are read to the end, and give its paths.
LEMMA WholeAnswered ==
  ASSUME NEW k \in Kinds, NEW s, Whole(k, s, fd4), NEW n \in 1 .. Len(fd4), Ends(k, fd4, n),
         answers' = Append(answers, PathLines(k, SubSeq(fd4, 1, n - 1))),
         fd4' = SubSeq(fd4, n + 1, Len(fd4))
  PROVE  answers' = Append(answers, s) /\ fd4' = << >>
<1>1. n = Len(fd4) /\ PathLines(k, SubSeq(fd4, 1, Len(fd4) - 1)) = s
  BY WholeRead
<1>2. Len(fd4) \in Nat
  BY WholePart
<1>3. SubSeq(fd4, Len(fd4) + 1, Len(fd4)) = << >>
  BY <1>2, SubSeqEmpty
<1> QED
  BY ONLY <1>1, <1>3, answers' = Append(answers, PathLines(k, SubSeq(fd4, 1, n - 1))),
          fd4' = SubSeq(fd4, n + 1, Len(fd4))

\* guix-daemon reads.
LEMMA GuixGets ==
  ASSUME QueryInv, AnswerInv, GuixReads
  PROVE  \E s : Answered(s)
<1> USE DEF AnswerInv
<1> DEFINE k == LastAsked.kind
<1>1. ~InStep /\ UNCHANGED <<routing, cpc, asked, offered, command, wire>>
  BY DEF GuixReads, configVars
<1>2. PICK n \in 1 .. Len(fd4) :
        /\ Ends(k, fd4, n)
        /\ answers' = Append(answers, PathLines(k, SubSeq(fd4, 1, n - 1)))
        /\ fd4' = SubSeq(fd4, n + 1, Len(fd4))
  BY DEF GuixReads
<1>3. k \in Kinds
  BY <1>1, Asking
<1>4. fd4 # << >>
  BY <1>2
<1> HIDE DEF k
<1>5. CASE routing = "builtin-first"
  <2>1. PICK s : /\ Whole(k, s, fd4) /\ Good(s, Range(LastAsked.paths))
                 /\ offered[Len(offered)] \subseteq Range(s)
    BY <1>4, <1>5 DEF Merging, k
  <2>2. answers' = Append(answers, s) /\ fd4' = << >>
    BY <1>2, <1>3, <2>1, WholeAnswered
  <2>3. cpc \notin {"builtin", "missing", "waiting", "write"}
    BY <1>4, <1>5 DEF Merging
  <2>4. Answered(s)
    BY <1>5, <2>1, <2>2, <2>3 DEF Answered
  <2> QED
    BY <2>4
<1>6. CASE routing # "builtin-first"
  <2>1. Reply /\ Got = fd4
    BY <1>6 DEF Replying, Got
  <2>2. \A s : Part(k, s, fd4) => FALSE
    BY <1>2, <1>3, PartRead
  <2>3. ~Drafting /\ ~CutOff
    BY <1>4, <1>6, <2>1, <2>2 DEF Drafting, CutOff, Draft, k
  <2>4. Arriving
    BY <1>4, <2>1, <2>3 DEF Reply, Quiet, Sent, Drafted
  <2>5. PICK s : Good(s, Wants) /\ Whole(k, s, fd4 \o LinesOf(wire))
    BY <2>1, <2>4 DEF Arriving, k
  <2>6. Resting /\ command = << >> /\ fd4 \in Seq(Lines)
    BY <2>1, <2>4 DEF Arriving
  <2>7. wire \in Seq(Frames)
    BY DEF QueryInv, Sending
  <2> DEFINE x == LinesOf(wire)
             l == fd4 \o x
  <2>8. x \in Seq(Lines) /\ Len(x) = Len(wire)
    BY <2>7, LinesTyped
  <2> HIDE DEF x
  <2>9. /\ l \in Seq(Lines) /\ Len(l) = Len(fd4) + Len(x)
        /\ \A i \in 1 .. Len(fd4) + Len(x) : l[i] = IF i <= Len(fd4) THEN fd4[i] ELSE x[i - Len(fd4)]
    BY ONLY <2>6, <2>8, ConcatProperties
  <2>10. Whole(k, s, l)
    BY <2>5 DEF x
  <2> HIDE DEF l
  <2>11. n \in 1 .. Len(l) /\ n <= Len(fd4) /\ n \in 1 .. Len(fd4) + Len(x)
    BY <2>6, <2>8, <2>9
  <2>12. l[n] = fd4[n]
    BY <2>9, <2>11
  <2>13. Ends(k, l, n)
    BY <1>2, <2>12 DEF Ends
  <2>14. n = Len(l)
    BY <1>3, <2>10, <2>11, <2>13, WholeRead
  <2>15. Len(x) = 0
    BY <2>6, <2>8, <2>9, <2>11, <2>14
  <2>16. wire = << >> /\ x = << >>
    <3>1. Len(wire) = 0
      BY ONLY <2>8, <2>15
    <3> QED
      BY ONLY <2>7, <2>8, <2>15, <3>1, EmptySeq, Zenon
  <2>17. l = fd4
    BY ONLY <2>6, <2>16, ConcatEmptySeq DEF l
  <2>18. answers' = Append(answers, s) /\ fd4' = << >>
    BY <1>2, <1>3, <2>10, <2>17, WholeAnswered
  <2>19. offered[Len(offered)] = {}
    <3>1. Len(offered) \in Nat \ {0}
      BY <1>1, Asking DEF Counting
    <3> QED
      BY <1>6, <3>1 DEF Counting
  <2>20. Good(s, Range(LastAsked.paths))
    BY <2>5 DEF Good, Wants
  <2>21. Answered(s)
    BY <1>6, <2>6, <2>16, <2>18, <2>19, <2>20 DEF Answered
  <2> QED
    BY <2>21
<1> QED
  BY <1>5, <1>6

\* What guix-daemon reads leaves nothing behind.
LEMMA GuixReadsAnswers ==
  ASSUME QueryInv, AnswerInv, GuixReads
  PROVE  AnswerInv'
<1> USE DEF AnswerInv
<1> DEFINE n == Len(asked)
<1>1. /\ ~InStep
      /\ UNCHANGED <<routing, cpc, asked, builtin, p2p, offered, command, wire, hpc>>
  BY DEF GuixReads, configVars, handlerVars
<1>2. PICK s : Answered(s)
  BY GuixGets
<1>3. /\ answers' = Append(answers, s) /\ fd4' = << >>
      /\ Good(s, Range(LastAsked.paths)) /\ offered[Len(offered)] \subseteq Range(s)
      /\ routing = "builtin-first" => cpc \notin {"builtin", "missing", "waiting", "write"}
      /\ routing # "builtin-first" => Resting /\ command = << >> /\ wire = << >>
  BY <1>2 DEF Answered
<1>4. n \in Nat \ {0} /\ Len(answers) = n - 1 /\ Len(offered) = n /\ answers \in Seq(Seq(Lines))
  BY <1>1, Asking DEF Counting
<1>5. s \in Seq(Paths)
  BY <1>3 DEF Good
<1> DEFINE T == Seq(Lines)
<1>6. answers \in Seq(T) /\ s \in T
  <2>1. Paths \subseteq Lines
    BY DEF Lines
  <2>2. s \in Seq(Lines)
    BY ONLY <1>5, <2>1, SeqWithin
  <2> QED
    BY <1>4, <2>2
<1> HIDE DEF T, n
<1>7. /\ answers' \in Seq(T) /\ Len(answers') = n /\ answers'[n] = s
      /\ \A i \in 1 .. n - 1 : answers'[i] = answers[i]
  BY <1>3, <1>4, <1>6
<1>8. InStep'
  BY <1>1, <1>7 DEF InStep, n
<1>9. Counting'
  BY <1>1, <1>7 DEF Counting, T, n
<1>10. BuiltinKept'
  <2>1. ASSUME NEW i \in 1 .. n PROVE offered[i] \subseteq Range(answers'[i])
    <3>1. CASE i = n
      BY <1>3, <1>4, <1>7, <3>1
    <3>2. CASE i # n
      <4>1. i \in 1 .. n - 1 /\ i \in 1 .. Len(answers)
        BY <1>4, <3>2
      <4> QED
        BY <1>7, <4>1 DEF BuiltinKept
    <3> QED
      BY <3>1, <3>2
  <2> QED
    BY <1>1, <1>7, <2>1 DEF BuiltinKept
<1>11. Merging'
  BY <1>1, <1>3 DEF Merging
<1>12. Replying'
  <2>1. CASE routing = "builtin-first"
    BY <1>1, <1>3, <2>1 DEF Replying
  <2>2. CASE routing # "builtin-first"
    <3>1. Quiet'
      BY <1>1, <1>3, <2>2 DEF Quiet, Resting, Got
    <3> QED
      BY <3>1 DEF Replying, Reply
  <2> QED
    BY <2>1, <2>2
<1> QED
  BY <1>9, <1>10, <1>11, <1>12

(***************************************************************************)
(* Answers                                                                 *)
(***************************************************************************)

\* Nothing is asked and nothing is on its way when the process starts.
LEMMA InitAnswers ==
  ASSUME Init
  PROVE  AnswerInv
<1>1. /\ asked = << >> /\ answers = << >> /\ offered = << >> /\ fd4 = << >> /\ p2p = << >>
      /\ builtin = << >> /\ command = << >> /\ wire = << >> /\ hpc = "gone" /\ cpc = "new"
  BY DEF Init
<1>2. Counting
  <2>1. Len(asked) = 0 /\ Len(offered) = 0 /\ Len(answers) = 0
    BY <1>1
  <2>2. /\ asked \in Seq([kind : {"have", "info"}, paths : Queries])
        /\ offered \in Seq(SUBSET Paths) /\ answers \in Seq(Seq(Lines))
    BY <1>1
  <2> QED
    BY <1>1, <2>1, <2>2 DEF Counting
<1>3. BuiltinKept
  BY <1>1 DEF BuiltinKept
<1>4. Reply
  BY <1>1 DEF Reply, Quiet, Resting, Got
<1>5. Merging
  BY <1>1 DEF Merging
<1> QED
  BY <1>2, <1>3, <1>4, <1>5 DEF AnswerInv, Replying

\* A process that ends leaves its answers as they are.
LEMMA EndAnswers ==
  ASSUME AnswerInv, CloseInput \/ Killed \/ GuixRefuses
  PROVE  AnswerInv'
<1>1. /\ cpc' \in Ended
      /\ UNCHANGED <<routing, asked, answers, offered, builtin, p2p, fd4, command, wire,
                     hpc, kind, todo, buf>>
  BY DEF CloseInput, Killed, GuixRefuses, Ended, configVars, handlerVars
<1> QED
  BY <1>1, EndingAnswers

\* The relay that waits for its input ends with the next command.
LEMMA CopyEndsAnswers ==
  ASSUME AnswerInv, CopyEnds
  PROVE  AnswerInv'
<1> USE DEF AnswerInv
<1>1. /\ cpc = "stuck" /\ cpc' = "done" /\ command # << >> /\ command' = << >>
      /\ UNCHANGED <<routing, asked, answers, offered, builtin, p2p, fd4, wire, hpc>>
  BY DEF CopyEnds, configVars, handlerVars
<1>2. routing = "relay"
  BY <1>1 DEF Counting
<1>3. Counting' /\ BuiltinKept' /\ Merging'
  BY <1>1, <1>2 DEF Counting, BuiltinKept, Merging
<1>4. Sent
  BY <1>1, <1>2 DEF Replying, Reply, Quiet, Drafting, Drafted, Arriving, CutOff
<1>5. Quiet'
  BY <1>1, <1>4 DEF Sent, Quiet, Resting, Got
<1> QED
  BY <1>3, <1>5 DEF Replying, Reply

\* Every step keeps the replies and the answers in order.
LEMMA AnswerStep ==
  ASSUME QueryInv, AnswerInv, Sound', [Next]_vars
  PROVE  AnswerInv'
<1>1. CASE ClientStep
  BY <1>1, StartAnswers, BuiltinAnswers, AskDaemonAnswers, TakeFrameAnswers,
     WriteReplyAnswers, TakeEofAnswers, CopyEndsAnswers, GuixReadsAnswers, EndAnswers
     DEF ClientStep
<1>2. CASE HandlerStep
  BY <1>2, ReadCommandAnswers, ReadEofAnswers, LookupAnswers, WriteEndAnswers, FlushAnswers
     DEF HandlerStep
<1>3. CASE Ask \/ CloseInput \/ Killed
  BY <1>3, AskAnswers, EndAnswers
<1>4. CASE OtherFetch \/ Tick \/ StartDaemon \/ Listen \/ StopDaemon \/ UNCHANGED vars
  BY <1>4, OthersAnswer, StopAnswers
<1> QED
  BY <1>1, <1>2, <1>3, <1>4 DEF Next

(***************************************************************************)
(* Types                                                                   *)
(***************************************************************************)

\* A lookup is about a path that is still to be looked at.
LookedAt == hpc \in {"fetch", "providers"} => todo # << >>

\* Where the parts of the system are, and the counters.
Places ==
  /\ routing \in Routings /\ policy \in {"p2p-only", "fallback"}
  /\ offline \in BOOLEAN /\ local \in SUBSET Paths
  /\ daemon \in {"down", "starting", "binding", "up"}
  /\ socket \in {"none", "stale", "bound", "open"}
  /\ cpc \in {"new", "connect", "ready", "builtin", "missing", "waiting", "write", "stuck"}
          \cup Ended
  /\ socket_path \in BOOLEAN
  /\ hpc \in {"idle", "path", "fetch", "providers", "flush", "gone"}
  /\ servers \in 0 .. Servers
  /\ ticks \in 0 .. MaxTicks /\ stops \in 0 .. MaxStops

\* The command on its way and the one the handler works on.
Commands ==
  /\ command \in Seq(Command) /\ Len(command) <= 1
  /\ kind \in Kinds /\ todo \in Seq(Paths) /\ LookedAt
  /\ Len(asked) <= MaxCommands

\* What the client has read and not yet passed on, and what somebody vouches for.
Contents ==
  /\ builtin \in Seq(Lines) /\ p2p \in Seq(Lines) /\ fd4 \in Seq(Lines)
  /\ vouched \subseteq Paths \X Paths /\ cut \in BOOLEAN

\* These parts, with what the replies and the answers are, give the types.
LEMMA TypeParts ==
  ASSUME QueryInv, Counting, Places, Commands, Contents
  PROVE  TypeOK
<1>1. /\ asked \in Seq([kind : {"have", "info"}, paths : Queries])
      /\ offered \in Seq(SUBSET Paths) /\ Len(offered) = Len(asked)
      /\ answers \in Seq(Seq(Lines))
      /\ Len(answers) = Len(asked) \/ Len(answers) = Len(asked) - 1
  BY DEF Counting
<1>2. asked \in Seq(Command)
  <2>1. [kind : {"have", "info"}, paths : Queries] \subseteq Command
    BY QueryAssumption DEF Command
  <2> QED
    BY ONLY <1>1, <2>1, SeqWithin
<1>4. Len(answers) <= Len(asked)
  <2>1. Len(asked) \in Nat
    BY <1>1
  <2> QED
    BY <1>1, <2>1
<1>5. /\ cache \in [Paths -> 0 .. Ttl] /\ life \in [Paths -> 0 .. Ttl]
      /\ filed \in [Paths -> Paths] /\ claimed \in SUBSET Paths
  BY DEF QueryInv, Caching, Claims
<1>6. wire \in Seq(Frames) /\ buf \in Seq(Frames)
  BY DEF QueryInv, Sending, Telling, Told
<1> QED
  BY <1>1, <1>2, <1>4, <1>5, <1>6 DEF TypeOK, Places, Commands, Contents, Kinds

\* Where the parts of the system are after a step.
LEMMA PlacesStep ==
  ASSUME Places, [Next]_vars
  PROVE  Places'
<1> USE DEF Places
<1>1. Servers \in Nat /\ MaxTicks \in Nat /\ MaxStops \in Nat
  BY QueryAssumption
<1>2. CASE ClientStep
  <2>1. UNCHANGED <<routing, policy, offline, local, daemon, socket, servers, ticks, stops>>
    BY <1>2 DEF ClientStep, Start, Connect, Builtin, AskDaemon, TakeFrame, WriteReply, TakeEof,
                CopyEnds, GuixReads, GuixRefuses, configVars, handlerVars
  <2>2. hpc' \in {hpc, "idle"} /\ socket_path' \in BOOLEAN
    BY <1>2 DEF ClientStep, Start, Connect, Builtin, AskDaemon, TakeFrame, WriteReply, TakeEof,
                CopyEnds, GuixReads, GuixRefuses, configVars, handlerVars
  <2>3. cpc' \in {cpc, "connect", "ready", "missing", "waiting", "write", "stuck"} \cup Ended
    BY <1>2 DEF ClientStep, Start, Connect, Builtin, AskDaemon, TakeFrame, WriteReply, TakeEof,
                CopyEnds, GuixReads, GuixRefuses, RouteInvocation, Ended
  <2> QED
    BY <2>1, <2>2, <2>3
<1>3. CASE HandlerStep
  <2>1. UNCHANGED <<routing, policy, offline, local, daemon, socket, socket_path, ticks, stops>>
    BY <1>3 DEF HandlerStep, ReadCommand, ReadEof, LookUp, Fetch, NotFetched, Providers,
                WriteEnd, Flush, configVars, clientVars
  <2>2. cpc' \in {cpc, "ready"}
    BY <1>3 DEF HandlerStep, ReadCommand, ReadEof, LookUp, Fetch, NotFetched, Providers,
                WriteEnd, Flush, clientVars
  <2>3. hpc' \in {"idle", "path", "fetch", "providers", "flush", "gone"}
    BY <1>3 DEF HandlerStep, ReadCommand, ReadEof, LookUp, Fetch, NotFetched, Providers,
                WriteEnd, Flush, HaveNarinfo, Name, LeaveOut, Panic
  <2>4. servers' \in {servers, Servers, 0} \/ (servers > 0 /\ servers' = servers - 1)
    BY <1>3 DEF HandlerStep, ReadCommand, ReadEof, LookUp, Fetch, NotFetched, Providers,
                WriteEnd, Flush
  <2>5. servers' \in 0 .. Servers
    BY <1>1, <2>4
  <2> QED
    BY <2>1, <2>2, <2>3, <2>5
<1>4. CASE Ask \/ CloseInput \/ Killed
  <2>1. UNCHANGED <<routing, policy, offline, local, daemon, socket, socket_path, hpc, servers,
                    ticks, stops>>
    BY <1>4 DEF Ask, CloseInput, Killed, configVars, handlerVars
  <2>2. cpc' \in {"builtin", "waiting", "stuck", "done", "failed"}
    BY <1>4 DEF Ask, CloseInput, Killed
  <2> QED
    BY <2>1, <2>2 DEF Ended
<1>5. CASE OtherFetch \/ Tick \/ StartDaemon \/ Listen \/ StopDaemon \/ UNCHANGED vars
  <2>1. UNCHANGED <<routing, policy, offline, local, cpc, socket_path>>
    BY <1>5 DEF OtherFetch, Tick, StartDaemon, Listen, StopDaemon, vars, configVars, clientVars
  <2>2. daemon' \in {"down", "starting", "binding", "up"} /\ hpc' \in {hpc, "gone"}
    BY <1>5 DEF OtherFetch, Tick, StartDaemon, Listen, StopDaemon, vars, handlerVars
  <2>3. socket' \in {"none", "stale", "bound", "open"}
    BY <1>5 DEF OtherFetch, Tick, StartDaemon, Listen, StopDaemon, vars
  <2>4. ticks' = ticks \/ (ticks < MaxTicks /\ ticks' = ticks + 1)
    BY <1>5 DEF OtherFetch, Tick, StartDaemon, Listen, StopDaemon, vars
  <2>5. stops' = stops \/ (stops < MaxStops /\ stops' = stops + 1)
    BY <1>5 DEF OtherFetch, Tick, StartDaemon, Listen, StopDaemon, vars
  <2>6. servers' \in {servers, 0}
    BY <1>5 DEF OtherFetch, Tick, StartDaemon, Listen, StopDaemon, vars, handlerVars
  <2>7. servers' \in 0 .. Servers /\ ticks' \in 0 .. MaxTicks /\ stops' \in 0 .. MaxStops
    BY <1>1, <2>4, <2>5, <2>6
  <2> QED
    BY <2>1, <2>2, <2>3, <2>7
<1> QED
  BY <1>2, <1>3, <1>4, <1>5 DEF Next

\* No command is sent, or one.
LEMMA OneCommand ==
  ASSUME command \in Seq(Command), Len(command) <= 1, NEW c \in Command,
         command' \in {command, <<c>>}
  PROVE  command' \in Seq(Command) /\ Len(command') <= 1
<1> DEFINE e == <<c>>
<1>1. e \in Seq(Command) /\ Len(e) = 1
  BY OneElement
<1>2. command' = command \/ command' = e
  OBVIOUS
<1> HIDE DEF e
<1>3. CASE command' = command
  BY <1>3, Zenon
<1>4. CASE command' = e
  <2>1. command' \in Seq(Command) /\ Len(command') = 1
    BY ONLY <1>1, <1>4, Zenon
  <2> QED
    BY ONLY <2>1
<1> QED
  BY ONLY <1>2, <1>3, <1>4

\* The commands after a step.
LEMMA CommandsStep ==
  ASSUME Commands, Counting, [Next]_vars
  PROVE  Commands'
<1> USE DEF Commands
<1>1. Len(asked') <= MaxCommands
  <2>1. CASE Ask
    <3>1. PICK c : asked' = Append(asked, c)
      BY <2>1 DEF Ask
    <3>2. Len(asked) \in Nat /\ Len(asked') = Len(asked) + 1
      BY <3>1 DEF Counting
    <3>3. Len(asked) < MaxCommands /\ MaxCommands \in Nat
      BY <2>1, QueryAssumption DEF Ask
    <3> QED
      BY ONLY <3>2, <3>3
  <2>2. CASE ~Ask
    <3>1. CASE ClientStep
      BY <3>1 DEF ClientStep, Start, Connect, Builtin, AskDaemon, TakeFrame, WriteReply,
                  TakeEof, CopyEnds, GuixReads, GuixRefuses
    <3>2. CASE HandlerStep
      BY <3>2 DEF HandlerStep, ReadCommand, ReadEof, LookUp, Fetch, NotFetched, Providers,
                  WriteEnd, Flush, clientVars
    <3>3. CASE ~ClientStep /\ ~HandlerStep
      BY <2>2, <3>3 DEF Next, CloseInput, Killed, OtherFetch, Tick, StartDaemon, Listen,
                        StopDaemon, vars, clientVars
    <3> QED
      BY <3>1, <3>2, <3>3
  <2> QED
    BY <2>1, <2>2
<1>2. << >> \in Seq(Command) /\ Len(<< >>) = 0
  OBVIOUS
<1>3. command \in Seq(Command) /\ Len(command) <= 1
  OBVIOUS
<1>4. CASE Ask
  <2>1. PICK k \in {"have", "info"}, q \in Queries :
          command' \in {command, <<[kind |-> k, paths |-> q]>>}
    BY <1>4 DEF Ask
  <2> DEFINE c == [kind |-> k, paths |-> q]
  <2>2. c \in Command /\ command' \in {command, <<c>>}
    BY <2>1, QueryAssumption DEF Command
  <2> HIDE DEF c
  <2>3. command' \in Seq(Command) /\ Len(command') <= 1
    BY ONLY <1>3, <2>2, OneCommand
  <2>4. UNCHANGED <<kind, todo, hpc>>
    BY <1>4 DEF Ask, handlerVars
  <2> QED
    BY <1>1, <2>3, <2>4 DEF LookedAt
<1>5. CASE AskDaemon
  <2>1. PICK m \in MissingPaths : command' \in {command, <<[kind |-> LastAsked.kind, paths |-> m]>>}
    BY <1>5 DEF AskDaemon
  <2>2. cpc = "missing" /\ UNCHANGED <<kind, todo>> /\ hpc' \in {hpc, "idle"}
    BY <1>5 DEF AskDaemon
  <2> DEFINE c == [kind |-> LastAsked.kind, paths |-> m]
             q == LastAsked.paths
  <2>3. c \in Command /\ command' \in {command, <<c>>}
    <3>1. LastAsked.kind \in Kinds /\ LastAsked.paths \in Seq(Paths) /\ IsInjective(LastAsked.paths)
      <4>1. asked # << >>
        BY <2>2 DEF Counting
      <4> QED
        BY <4>1, LastCommand
    <3>2. m \in Seq(Paths)
      <4> DEFINE R == Paths \ Range(PathLines(LastAsked.kind, builtin))
      <4>1. m \in Retained(q, {i \in DOMAIN q : q[i] \in R})
        BY DEF MissingPaths, Among
      <4> HIDE DEF R, q
      <4>2. Good(m, Range(q) \cap R)
        BY <3>1, <4>1, SomeOf DEF q
      <4> QED
        BY <4>2 DEF Good
    <3> QED
      BY <2>1, <3>1, <3>2 DEF Command, Kinds
  <2> HIDE DEF c
  <2>4. command' \in Seq(Command) /\ Len(command') <= 1
    BY ONLY <1>3, <2>3, OneCommand
  <2> QED
    BY <1>1, <2>2, <2>4 DEF LookedAt
<1>6. CASE ReadCommand
  <2>1. /\ command # << >> /\ command' = << >> /\ hpc' = "path"
        /\ kind' = Head(command).kind /\ todo' = Head(command).paths
    BY <1>6 DEF ReadCommand
  <2>2. Head(command) \in Command
    BY <2>1
  <2>3. kind' \in Kinds /\ todo' \in Seq(Paths)
    BY <2>1, <2>2 DEF Command, Kinds
  <2> QED
    BY <1>1, <1>2, <2>1, <2>3 DEF LookedAt
<1>7. CASE LookUp \/ Fetch \/ NotFetched \/ Providers
  <2>1. UNCHANGED <<command, kind>>
    BY <1>7 DEF LookUp, Fetch, NotFetched, Providers
  <2>2. todo # << >>
    BY <1>7 DEF LookUp, Fetch, NotFetched, Providers, LookedAt
  <2>3. \/ todo' = Tail(todo) /\ hpc' = "path"
        \/ todo' = todo
    BY <1>7 DEF LookUp, Fetch, NotFetched, Providers, HaveNarinfo, Name, LeaveOut, Panic
  <2>4. Tail(todo) \in Seq(Paths)
    BY <2>2
  <2> QED
    BY <1>1, <2>1, <2>2, <2>3, <2>4 DEF LookedAt
<1>8. CASE ReadEof \/ WriteEnd \/ Flush
  <2>1. UNCHANGED <<command, kind, todo>> /\ hpc' \notin {"fetch", "providers"}
    BY <1>8 DEF ReadEof, WriteEnd, Flush
  <2> QED
    BY <1>1, <2>1 DEF LookedAt
<1>9. CASE StopDaemon
  <2>1. command' \in {command, << >>} /\ todo' = << >> /\ kind' = kind /\ hpc' = "gone"
    BY <1>9 DEF StopDaemon
  <2>2. command' \in Seq(Command) /\ Len(command') <= 1
    <3>1. CASE command' = command
      BY <1>1, <3>1
    <3>2. CASE command' = << >>
      BY <1>2, <3>2
    <3> QED
      BY <2>1, <3>1, <3>2
  <2> QED
    BY <1>1, <1>2, <2>1, <2>2 DEF LookedAt
<1>10. CASE Start \/ Connect \/ Builtin \/ TakeFrame \/ WriteReply \/ TakeEof \/ CopyEnds
            \/ GuixReads \/ GuixRefuses
  <2>1. command' \in {command, << >>} /\ UNCHANGED <<kind, todo>> /\ hpc' \in {hpc, "idle"}
    BY <1>10 DEF Start, Connect, Builtin, TakeFrame, WriteReply, TakeEof, CopyEnds, GuixReads,
                 GuixRefuses, handlerVars
  <2>2. command' \in Seq(Command) /\ Len(command') <= 1
    <3>1. CASE command' = command
      BY <1>1, <3>1
    <3>2. CASE command' = << >>
      BY <1>2, <3>2
    <3> QED
      BY <2>1, <3>1, <3>2
  <2> QED
    BY <1>1, <1>2, <2>1, <2>2 DEF LookedAt
<1>11. CASE CloseInput \/ Killed \/ OtherFetch \/ Tick \/ StartDaemon \/ Listen \/ UNCHANGED vars
  <2>1. UNCHANGED <<command, kind, todo, hpc>>
    BY <1>11 DEF CloseInput, Killed, OtherFetch, Tick, StartDaemon, Listen, vars, handlerVars
  <2> QED
    BY <1>1, <2>1 DEF LookedAt
<1> QED
  BY <1>4, <1>5, <1>6, <1>7, <1>8, <1>9, <1>10, <1>11 DEF Next, ClientStep, HandlerStep

\* What guix-daemon reads in lines are lines.
LEMMA ReadLines ==
  ASSUME NEW k, NEW l \in Seq(Lines)
  PROVE  PathLines(k, l) \in Seq(Lines)
<1>1. CASE k = "have"
  BY <1>1 DEF PathLines
<1>2. CASE k # "have"
  <2> DEFINE m == (Len(l) + 2) \div 3
  <2>1. Len(l) \in Nat /\ m \in Nat
    OBVIOUS
  <2>2. \A i \in 1 .. m : 3 * i - 2 \in 1 .. Len(l)
    BY <2>1
  <2>3. PathLines(k, l) = [i \in 1 .. m |-> l[3 * i - 2]]
    BY <1>2 DEF PathLines
  <2> HIDE DEF m
  <2>4. \A i \in 1 .. m : l[3 * i - 2] \in Lines
    BY <2>2
  <2> QED
    BY <2>1, <2>3, <2>4
<1> QED
  BY <1>1, <1>2

\* What guix-daemon reads: one answer more, and what it has not read of fd 4.
LEMMA OneMore ==
  ASSUME Counting, Contents, GuixReads
  PROVE  /\ \E a \in Seq(Lines) : answers' = Append(answers, a)
         /\ fd4' \in Seq(Lines) /\ Len(answers') = Len(answers) + 1
         /\ SubSeq(answers', 1, Len(answers)) = answers
         /\ answers' \in Seq(Seq(Lines)) /\ Len(answers') = Len(asked)
<1> DEFINE k == LastAsked.kind
<1>1. PICK n \in 1 .. Len(fd4) :
        /\ answers' = Append(answers, PathLines(k, SubSeq(fd4, 1, n - 1)))
        /\ fd4' = SubSeq(fd4, n + 1, Len(fd4))
  BY DEF GuixReads
<1>2. fd4 \in Seq(Lines)
  BY DEF Contents
<1>3. SubSeq(fd4, 1, n - 1) \in Seq(Lines) /\ fd4' \in Seq(Lines)
  BY <1>1, <1>2
<1> DEFINE a == PathLines(k, SubSeq(fd4, 1, n - 1))
           T == Seq(Lines)
<1>4. a \in T /\ answers' = Append(answers, a) /\ answers \in Seq(T)
  BY <1>1, <1>3, ReadLines DEF Counting
<1> HIDE DEF a, T
<1>5. /\ answers' \in Seq(T) /\ Len(answers') = Len(answers) + 1
      /\ \A i \in 1 .. Len(answers) : answers'[i] = answers[i]
  BY <1>4
<1>6. SubSeq(answers', 1, Len(answers)) = answers
  BY <1>4, <1>5
<1>7. Len(answers) + 1 = Len(asked)
  <2>1. Len(answers) = Len(asked) - 1 /\ Len(asked) \in Nat \ {0}
    BY Asking DEF GuixReads
  <2> QED
    BY <2>1
<1> QED
  BY <1>3, <1>4, <1>5, <1>6, <1>7 DEF T

\* What is asked, offered and answered after a step.
LEMMA CountingStep ==
  ASSUME Counting, Contents, [Next]_vars
  PROVE  Counting'
<1> USE DEF Counting
<1>1. CASE Ask
  <2> DEFINE C == [kind : {"have", "info"}, paths : Queries]
             n == Len(asked)
  <2>1. PICK k \in {"have", "info"}, q \in Queries :
          asked' = Append(asked, [kind |-> k, paths |-> q]) /\ offered' = Append(offered, {})
    BY <1>1 DEF Ask
  <2> DEFINE c == [kind |-> k, paths |-> q]
  <2>2. c \in C /\ asked' = Append(asked, c)
    BY <2>1
  <2>3. asked \in Seq(C) /\ offered \in Seq(SUBSET Paths) /\ Len(offered) = n /\ n \in Nat
    OBVIOUS
  <2> HIDE DEF C, c
  <2>4. asked' \in Seq(C) /\ Len(asked') = n + 1
    BY <2>2, <2>3
  <2>5. /\ offered' \in Seq(SUBSET Paths) /\ Len(offered') = n + 1 /\ offered'[n + 1] = {}
        /\ \A i \in 1 .. n : offered'[i] = offered[i]
    <3>1. {} \in SUBSET Paths
      OBVIOUS
    <3> QED
      BY <2>1, <2>3, <3>1
  <2>6. UNCHANGED <<answers, routing>> /\ Len(answers) = n
    BY <1>1 DEF Ask, InStep, configVars
  <2>7. /\ cpc' \in {"builtin", "waiting", "stuck"} /\ (cpc' = "builtin" => routing = "builtin-first")
        /\ cpc' = "stuck" => cpc = "stuck"
    BY <1>1 DEF Ask
  <2> HIDE DEF n
  <2>8. Len(answers') = Len(asked') - 1 /\ asked' # << >>
    BY <2>3, <2>4, <2>6
  <2>9. ASSUME routing # "builtin-first", NEW i \in 1 .. n + 1 PROVE offered'[i] = {}
    <3>1. i \in 1 .. n \/ i = n + 1
      BY <2>3
    <3> QED
      BY <2>3, <2>5, <2>9, <3>1
  <2> QED
    BY <2>4, <2>5, <2>6, <2>7, <2>8, <2>9 DEF C
<1>2. CASE GuixReads
  <2>1. /\ answers' \in Seq(Seq(Lines)) /\ Len(answers') = Len(asked)
    BY <1>2, OneMore
  <2>2. UNCHANGED <<routing, cpc, asked, offered>>
    BY <1>2 DEF GuixReads, configVars
  <2> QED
    BY <2>1, <2>2
<1>3. CASE Builtin
  <2>1. /\ cpc = "builtin" /\ cpc' = "missing" /\ UNCHANGED <<routing, asked, answers>>
    BY <1>3 DEF Builtin, configVars
  <2>2. routing = "builtin-first" /\ asked # << >>
    BY <2>1
  <2>3. LastAsked.paths \in Seq(Paths) /\ Len(asked) \in Nat \ {0}
    BY <2>2, LastCommand
  <2>4. PICK S \in SUBSET (Range(LastAsked.paths) \ NotStore) :
          offered' = [offered EXCEPT ![Len(offered)] = S]
    BY <1>3 DEF Builtin
  <2>5. S \in SUBSET Paths
    BY <2>3 DEF Range
  <2>6. offered' \in Seq(SUBSET Paths) /\ Len(offered') = Len(offered)
    <3> DEFINE T == SUBSET Paths
    <3> DEFINE n == Len(offered)
    <3>1. /\ offered \in Seq(T) /\ Len(offered) = n /\ n \in Nat \ {0} /\ S \in T
          /\ offered' = [offered EXCEPT ![n] = S]
      BY <2>3, <2>4, <2>5
    <3> HIDE DEF T, n
    <3>2. offered' \in Seq(T) /\ Len(offered') = n
      BY ONLY <3>1
    <3> QED
      BY <3>2 DEF T, n
  <2> QED
    BY <2>1, <2>2, <2>6
<1>4. CASE ~Ask /\ ~GuixReads /\ ~Builtin
  <2>1. UNCHANGED <<routing, asked, answers, offered>>
    <3>1. CASE ClientStep
      BY <1>4, <3>1 DEF ClientStep, Start, Connect, AskDaemon, TakeFrame, WriteReply,
                        TakeEof, CopyEnds, GuixRefuses, configVars
    <3>2. CASE HandlerStep
      BY <3>2 DEF HandlerStep, ReadCommand, ReadEof, LookUp, Fetch, NotFetched, Providers,
                  WriteEnd, Flush, clientVars, configVars
    <3>3. CASE ~ClientStep /\ ~HandlerStep
      BY <1>4, <3>3 DEF Next, CloseInput, Killed, OtherFetch, Tick, StartDaemon, Listen,
                        StopDaemon, vars, clientVars, configVars
    <3> QED
      BY <3>1, <3>2, <3>3
  <2>2. \/ cpc' = cpc
        \/ cpc \in {"new", "connect"} /\ cpc' \in {"ready", "connect"} \cup Ended
             /\ (cpc' = "connect" => cpc = "new")
        \/ cpc = "missing" /\ cpc' \in {"waiting", "write", "failed"}
        \/ cpc = "waiting" /\ cpc' \in {"ready", "write"} /\ (cpc' = "write" => routing = "builtin-first")
        \/ cpc' \in Ended \cup {"ready"}
        \/ cpc' = "stuck" /\ routing = "relay"
    <3>1. CASE ClientStep
      BY <1>4, <3>1 DEF ClientStep, Start, Connect, AskDaemon, TakeFrame, WriteReply,
                        TakeEof, CopyEnds, GuixRefuses, RouteInvocation, Ended
    <3>2. CASE HandlerStep
      BY <3>2 DEF HandlerStep, ReadCommand, ReadEof, LookUp, Fetch, NotFetched, Providers,
                  WriteEnd, Flush, clientVars
    <3>3. CASE ~ClientStep /\ ~HandlerStep
      BY <1>4, <3>3 DEF Next, CloseInput, Killed, OtherFetch, Tick, StartDaemon, Listen,
                        StopDaemon, vars, clientVars, Ended
    <3> QED
      BY <3>1, <3>2, <3>3
  <2>3. Ended \cap {"new", "connect", "ready", "builtin", "missing", "waiting", "write", "stuck"} = {}
    BY DEF Ended
  <2> QED
    BY <2>1, <2>2, <2>3
<1> QED
  BY <1>1, <1>2, <1>3, <1>4

\* What somebody vouches for, and whether a reply was cut, after a step.
LEMMA VouchedStep ==
  ASSUME QueryInv, Places, Contents, [Next]_vars
  PROVE  /\ vouched' \subseteq Paths \X Paths /\ cut' \in BOOLEAN
         /\ vouched \subseteq vouched' /\ (cut => cut')
         /\ cpc' = cpc \/ UNCHANGED <<vouched, cut>>
<1> USE DEF Contents
<1>1. CASE Fetch \/ OtherFetch
  <2>1. UNCHANGED <<cpc, cut>>
    BY <1>1 DEF Fetch, OtherFetch, clientVars
  <2>2. CASE UNCHANGED vouched
    BY <2>1, <2>2
  <2>3. CASE \E p \in Paths : \E info \in Served(p) :
               Verified(info) /\ Put(p, info.path) /\ Vouch(p, info)
    <3>1. PICK p \in Paths : \E info \in Served(p) :
               Verified(info) /\ Put(p, info.path) /\ Vouch(p, info)
      BY <2>3
    <3>2. PICK info \in Served(p) : Verified(info) /\ Put(p, info.path) /\ Vouch(p, info)
      BY <3>1
    <3>3. info.path \in Paths /\ vouched' = vouched \cup {<<p, info.path>>}
      BY <3>2, PutKeeps DEF QueryInv
    <3> QED
      BY <2>1, <3>3
  <2>4. hpc = "fetch" => Head(todo) \in Paths
    BY DEF QueryInv, Looking, StorePath
  <2> QED
    BY <1>1, <2>2, <2>3, <2>4 DEF Fetch, OtherFetch
<1>2. CASE StartDaemon
  BY <1>2 DEF StartDaemon, Places, clientVars
<1>3. CASE StopDaemon
  BY <1>3 DEF StopDaemon, clientVars
<1>4. CASE ~Fetch /\ ~OtherFetch /\ ~StartDaemon /\ ~StopDaemon
  <2>1. UNCHANGED <<vouched, cut>>
    <3>1. CASE ClientStep
      BY <3>1 DEF ClientStep, Start, Connect, Builtin, AskDaemon, TakeFrame, WriteReply,
                  TakeEof, CopyEnds, GuixReads, GuixRefuses, ghostVars
    <3>2. CASE HandlerStep
      BY <1>4, <3>2 DEF HandlerStep, ReadCommand, ReadEof, LookUp, NotFetched, Providers,
                        WriteEnd, Flush, ghostVars
    <3>3. CASE ~ClientStep /\ ~HandlerStep
      BY <1>4, <3>3 DEF Next, Ask, CloseInput, Killed, Tick, Listen, vars, ghostVars
    <3> QED
      BY <3>1, <3>2, <3>3
  <2> QED
    BY <2>1
<1> QED
  BY <1>1, <1>2, <1>3, <1>4

\* What has been read after a step.
LEMMA ContentsStep ==
  ASSUME QueryInv, Counting, Places, Contents, [Next]_vars, QueryInv'
  PROVE  Contents'
<1> USE DEF Contents
<1>1. vouched' \subseteq Paths \X Paths /\ cut' \in BOOLEAN
  BY VouchedStep
<1>2. << >> \in Seq(Lines)
  OBVIOUS
<1>3. CASE Builtin
  <2>1. cpc = "builtin" /\ UNCHANGED <<routing, p2p, fd4>>
    BY <1>3 DEF Builtin, configVars
  <2> DEFINE q == LastAsked.paths
             k == LastAsked.kind
  <2>2. q \in Seq(Paths) /\ IsInjective(q) /\ k \in Kinds
    <3>1. asked # << >>
      BY <2>1 DEF Counting
    <3> QED
      BY <3>1, LastCommand
  <2>3. PICK S : \E known \in Among(S) :
          builtin' = QueryDataLines(BuiltinLines(k, known) \o <<"">>)
    BY <1>3 DEF Builtin
  <2>4. PICK known \in Among(S) : builtin' = QueryDataLines(BuiltinLines(k, known) \o <<"">>)
    BY <2>3
  <2>5. known \in Seq(Paths)
    <3>1. Good(known, Range(q) \cap S)
      BY <2>2, SomeOf DEF Among
    <3> QED
      BY <3>1 DEF Good
  <2>6. BuiltinLines(k, known) \in Seq(Lines)
    BY <2>2, <2>5, BuiltinPart DEF Part
  <2>7. builtin' \in Seq(Lines)
    BY <2>4, <2>6, DataLines
  <2> QED
    BY <1>1, <2>1, <2>7
<1>4. CASE TakeFrame
  <2> DEFINE h == LineOf(Head(wire))
  <2>1. /\ wire # << >> /\ builtin' = builtin
        /\ p2p' \in {p2p, Append(p2p, h)} /\ fd4' \in {fd4, Append(fd4, h)}
    BY <1>4 DEF TakeFrame
  <2>2. Head(wire) \in Frames
    BY <2>1 DEF QueryInv, Sending
  <2>3. h \in Lines
    BY <2>2 DEF Frames, Lines, LineOf, EndFrame, EmptyFrame
  <2> HIDE DEF h
  <2>4. Append(p2p, h) \in Seq(Lines) /\ Append(fd4, h) \in Seq(Lines)
    BY <2>3
  <2> QED
    BY <1>1, <2>1, <2>4
<1>5. CASE WriteReply
  <2> DEFINE e == <<"">>
  <2>1. builtin' = << >> /\ p2p' = << >> /\ fd4' = fd4 \o Merged \o e
    BY <1>5 DEF WriteReply
  <2>2. e \in Seq(Lines)
    BY ONLY EndLine
  <2> HIDE DEF e
  <2>3. Merged \in Seq(Lines)
    BY DEF Merged
  <2>4. fd4 \o Merged \in Seq(Lines)
    BY <2>3
  <2>5. fd4' \in Seq(Lines)
    BY <2>1, <2>2, <2>4
  <2> QED
    BY <1>1, <1>2, <2>1, <2>5
<1>6. CASE GuixReads
  <2>1. fd4' \in Seq(Lines)
    BY <1>6, OneMore
  <2>2. UNCHANGED <<builtin, p2p>>
    BY <1>6 DEF GuixReads
  <2> QED
    BY <1>1, <2>1, <2>2
<1>7. CASE HandlerStep
  <2>1. UNCHANGED <<builtin, p2p, routing>>
    BY <1>7 DEF HandlerStep, ReadCommand, ReadEof, LookUp, Fetch, NotFetched, Providers,
                WriteEnd, Flush, clientVars, configVars
  <2>2. routing # "direct" => fd4' = fd4
    BY <1>7 DEF HandlerStep, ReadCommand, ReadEof, LookUp, Fetch, NotFetched, Providers,
                WriteEnd, Flush, clientVars, HaveNarinfo, Name, LeaveOut, Panic, Emit
  <2>3. routing = "direct" => fd4' \in Seq(Lines)
    BY <2>1 DEF QueryInv, Telling, Told
  <2> QED
    BY <1>1, <2>1, <2>2, <2>3
<1>8. CASE \/ Start \/ Connect \/ AskDaemon \/ TakeEof \/ CopyEnds \/ GuixRefuses
           \/ Ask \/ CloseInput \/ Killed
  <2>1. UNCHANGED <<builtin, p2p, fd4>>
    BY <1>8 DEF Start, Connect, AskDaemon, TakeEof, CopyEnds, GuixRefuses, Ask, CloseInput, Killed
  <2> QED
    BY <1>1, <2>1
<1>9. CASE OtherFetch \/ Tick \/ StartDaemon \/ Listen \/ StopDaemon \/ UNCHANGED vars
  <2>1. UNCHANGED <<builtin, p2p, fd4>>
    BY <1>9 DEF OtherFetch, Tick, StartDaemon, Listen, StopDaemon, vars, clientVars
  <2> QED
    BY <1>1, <2>1
<1> QED
  BY <1>3, <1>4, <1>5, <1>6, <1>7, <1>8, <1>9 DEF Next, ClientStep

\* Nothing is asked and nothing has been read at first.
LEMMA InitTypes ==
  ASSUME Init
  PROVE  Places /\ Commands /\ Contents
<1>1. Servers \in Nat /\ MaxTicks \in Nat /\ MaxStops \in Nat /\ MaxCommands \in Nat
  BY QueryAssumption
<1>2. /\ << >> \in Seq(Lines) /\ << >> \in Seq(Command) /\ << >> \in Seq(Paths)
      /\ Len(<< >>) = 0
  OBVIOUS
<1>3. local \in SUBSET Paths
  BY QueryAssumption DEF Init
<1>4. Places
  <2>1. /\ routing \in Routings /\ policy \in {"p2p-only", "fallback"} /\ offline \in BOOLEAN
        /\ daemon \in {"down", "up"} /\ socket \in {"none", "stale", "open"}
        /\ cpc = "new" /\ socket_path \in BOOLEAN /\ hpc = "gone"
    BY DEF Init
  <2>2. servers = 0 /\ ticks = 0 /\ stops = 0
    BY DEF Init
  <2>3. servers \in 0 .. Servers /\ ticks \in 0 .. MaxTicks /\ stops \in 0 .. MaxStops
    BY ONLY <1>1, <2>2
  <2> QED
    BY <1>3, <2>1, <2>3 DEF Places
<1>5. Commands
  <2>1. /\ command = << >> /\ todo = << >> /\ asked = << >> /\ hpc = "gone" /\ kind = "have"
    BY DEF Init
  <2> QED
    BY <1>1, <1>2, <2>1 DEF Commands, LookedAt, Kinds
<1>6. Contents
  <2>1. vouched \subseteq Paths \X Paths
    BY DEF Init
  <2> QED
    BY <1>2, <2>1 DEF Init, Contents
<1> QED
  BY <1>4, <1>5, <1>6

\* What holds however the replies come to be.
Typing == Counting /\ Places /\ Commands /\ Contents

LEMMA TypingInvariant == Spec => [](QueryInv /\ Typing)
<1>1. Init => Typing
  BY InitAnswers, InitTypes DEF Typing, AnswerInv
<1>2. QueryInv /\ Typing /\ [Next]_vars /\ QueryInv' => Typing'
  BY CountingStep, PlacesStep, CommandsStep, ContentsStep DEF Typing
<1> QED
  BY <1>1, <1>2, QueryInvariant, PTL DEF Spec

(* Every variable keeps its type: at most one command is on its way,       *)
(* guix-daemon never has more answers than it has asked for, and what is   *)
(* on fd 4 and on the socket are lines and frames of replies               *)
(* (handle_socket_connection, ReplyWriter, substitute.scm).                *)
THEOREM TypesKept == Spec => []TypeOK
<1>1. QueryInv /\ Typing => TypeOK
  BY TypeParts DEF Typing
<1> QED
  BY <1>1, TypingInvariant, PTL

(***************************************************************************)
(* Answers in order                                                        *)
(***************************************************************************)

\* What has been spoilt stays so.
LEMMA SoundBefore ==
  ASSUME QueryInv, Typing, [Next]_vars, Sound'
  PROVE  Sound
<1>1. vouched \subseteq vouched' /\ (cut => cut')
  BY VouchedStep DEF Typing
<1>2. ~cut' /\ \A v \in vouched' : v[1] = v[2]
  BY DEF Sound, InOrder
<1> QED
  BY <1>1, <1>2 DEF Sound, InOrder

\* The replies and the answers are in order while nothing has spoilt them.
LEMMA AnswerInvariant == Spec => [](QueryInv /\ Typing /\ (Sound => AnswerInv))
<1>1. Init => AnswerInv
  BY InitAnswers
<1>2. QueryInv /\ Typing /\ (Sound => AnswerInv) /\ [Next]_vars => (Sound => AnswerInv)'
  BY AnswerStep, SoundBefore
<1> QED
  BY <1>1, <1>2, TypingInvariant, PTL DEF Spec

(* With the built-in substituter first, every path that it offers for a    *)
(* command is in the answer that guix-daemon reads, whatever the daemon    *)
(* adds to it or fails to add, as long as no reply of a stopped daemon was *)
(* cut and no narinfo was of another path than asked for                   *)
(* (handle-builtin-first-query-line, socket-query-lines,                   *)
(* query-data-lines).                                                      *)
THEOREM BuiltinNeverLost == Spec => [](Sound => BuiltinKept)
<1>1. (Sound => AnswerInv) => (Sound => BuiltinKept)
  BY DEF AnswerInv
<1> QED
  BY <1>1, AnswerInvariant, PTL

\* A command is a command of the service.
LEMMA AskServes ==
  ASSUME Ask
  PROVE  Service!Next
<1>1. PICK k \in {"have", "info"}, q \in Queries :
        asked' = Append(asked, [kind |-> k, paths |-> q])
  BY DEF Ask
<1> DEFINE c == [kind |-> k, paths |-> q]
<1>2. c \in Service!Command
  BY DEF Service!Command
<1>3. /\ cpc \in {"ready", "stuck"} /\ Len(answers) = Len(asked) /\ Len(asked) < MaxCommands
      /\ cpc' \in {"builtin", "waiting", "stuck"} /\ answers' = answers
      /\ UNCHANGED <<vouched, cut>>
  BY DEF Ask, InStep, ghostVars
<1>4. cpc \notin Ended /\ cpc' \notin Ended
  BY <1>3 DEF Ended
<1>5. (cpc \notin Ended)' = (cpc \notin Ended)
  BY <1>4
<1>7. Sound' = Sound
  BY <1>3 DEF Sound, InOrder
<1>6. Service!Ask(c)
  BY <1>1, <1>3, <1>4, <1>5, <1>7 DEF Service!Ask
<1> QED
  BY <1>2, <1>6 DEF Service!Next

\* What guix-daemon reads is an answer of the service.
LEMMA AnswerServes ==
  ASSUME QueryInv, Typing, Sound => AnswerInv, GuixReads
  PROVE  Service!Next
<1>1. ~InStep /\ UNCHANGED <<asked, cpc, vouched, cut>>
  BY DEF GuixReads, ghostVars
<1>2. Len(asked) \in Nat \ {0} /\ Len(answers) = Len(asked) - 1 /\ LastAsked.paths \in Seq(Paths)
  BY <1>1, Asking DEF Typing
<1>3. Service!Unanswered
  BY <1>2 DEF Service!Unanswered
<1>4. /\ Len(answers') = Len(answers) + 1 /\ SubSeq(answers', 1, Len(answers)) = answers
      /\ answers' \in Seq(Seq(Lines)) /\ Len(answers') = Len(asked)
  BY OneMore DEF Typing
<1>5. ASSUME Sound PROVE answers'[Len(answers')] \in Service!Answers(LastAsked)
  <2>1. PICK s : Answered(s)
    BY <1>5, GuixGets
  <2>2. answers' = Append(answers, s) /\ Good(s, Range(LastAsked.paths))
    BY <2>1 DEF Answered
  <2>3. answers'[Len(answers')] = s
    <3> DEFINE T == Seq(Lines)
    <3>1. answers \in Seq(T) /\ Len(answers') = Len(answers) + 1
      BY <1>4 DEF Typing, Counting
    <3> HIDE DEF T
    <3> QED
      BY <2>2, <3>1
  <2> DEFINE q == LastAsked.paths
  <2>4. Len(s) \in 0 .. Len(q) /\ s \in [1 .. Len(s) -> Range(q)] /\ IsInjective(s)
    BY <1>2, <2>2, AnswerFits
  <2>5. s \in Service!Answers(LastAsked)
    BY <2>4 DEF Service!Answers, Service!Range, Service!IsInjective, Range, IsInjective
  <2> QED
    BY <2>3, <2>5
<1>6. Sound' = Sound /\ (cpc \notin Ended)' = (cpc \notin Ended)
  BY <1>1 DEF Sound, InOrder
<1>7. Service!Answer
  BY <1>1, <1>3, <1>4, <1>5, <1>6 DEF Service!Answer, LastAsked
<1> QED
  BY <1>7 DEF Service!Next

\* Every step of a query process is a step of the service, or none.
LEMMA ServiceStep ==
  ASSUME QueryInv, Typing, Sound => AnswerInv, [Next]_vars
  PROVE  [Service!Next]_(Service!vars)
<1>1. CASE Ask
  BY <1>1, AskServes
<1>2. CASE GuixReads
  BY <1>2, AnswerServes
<1>3. CASE ~Ask /\ ~GuixReads
  <2>1. UNCHANGED <<asked, answers>>
    <3>1. CASE ClientStep
      BY <1>3, <3>1 DEF ClientStep, Start, Connect, Builtin, AskDaemon, TakeFrame, WriteReply,
                        TakeEof, CopyEnds, GuixRefuses
    <3>2. CASE HandlerStep
      BY <3>2 DEF HandlerStep, ReadCommand, ReadEof, LookUp, Fetch, NotFetched, Providers,
                  WriteEnd, Flush, clientVars
    <3>3. CASE ~ClientStep /\ ~HandlerStep
      BY <1>3, <3>3 DEF Next, CloseInput, Killed, OtherFetch, Tick, StartDaemon, Listen,
                        StopDaemon, vars, clientVars
    <3> QED
      BY <3>1, <3>2, <3>3
  <2>2. cpc \in Ended => cpc' \in Ended
    <3>1. CASE ClientStep
      BY <1>3, <3>1 DEF ClientStep, Start, Connect, Builtin, AskDaemon, TakeFrame, WriteReply,
                        TakeEof, CopyEnds, GuixRefuses, Ended
    <3>2. CASE HandlerStep
      BY <3>2 DEF HandlerStep, ReadCommand, ReadEof, LookUp, Fetch, NotFetched, Providers,
                  WriteEnd, Flush, clientVars, Here
    <3>3. CASE ~ClientStep /\ ~HandlerStep
      BY <1>3, <3>3 DEF Next, CloseInput, Killed, OtherFetch, Tick, StartDaemon, Listen,
                        StopDaemon, vars, clientVars, Ended
    <3> QED
      BY <3>1, <3>2, <3>3
  <2>3. cpc' = cpc \/ UNCHANGED <<vouched, cut>>
    BY VouchedStep DEF Typing
  <2>4. CASE UNCHANGED <<vouched, cut>>
    <3>1. Sound' = Sound
      BY <2>4 DEF Sound, InOrder
    <3>2. CASE cpc \notin Ended /\ cpc' \in Ended
      <4>1. (cpc \notin Ended) = TRUE /\ (cpc \notin Ended)' = FALSE
        BY <3>2
      <4>2. Service!End
        BY <2>1, <3>1, <4>1 DEF Service!End
      <4> QED
        BY <4>2 DEF Service!Next
    <3>3. CASE (cpc \in Ended) = (cpc' \in Ended)
      <4>1. UNCHANGED (cpc \notin Ended)
        BY <3>3
      <4> QED
        BY <2>1, <3>1, <4>1 DEF Service!vars
    <3> QED
      BY <2>2, <3>2, <3>3
  <2>5. CASE cpc' = cpc
    <3>1. UNCHANGED (cpc \notin Ended)
      BY <2>5
    <3>2. CASE Sound' = Sound
      BY <2>1, <3>1, <3>2 DEF Service!vars
    <3>3. CASE Sound' # Sound
      <4>1. Sound' = FALSE
        <5>1. Sound' => Sound
          BY SoundBefore
        <5>2. Sound \in BOOLEAN /\ Sound' \in BOOLEAN
          BY DEF Sound
        <5> QED
          BY <3>3, <5>1, <5>2
      <4>2. Service!Spoil
        BY <2>1, <3>1, <4>1 DEF Service!Spoil
      <4> QED
        BY <4>2 DEF Service!Next
    <3> QED
      BY <3>2, <3>3
  <2> QED
    BY <2>3, <2>4, <2>5
<1> QED
  BY <1>1, <1>2, <1>3

(* Whoever guix-daemon talks to, whatever the built-in substituter and the *)
(* servers answer and whenever the daemon stops, what can be read on fd 4  *)
(* is one answer per command, in order; and until a reply is cut short by  *)
(* a daemon that stops or a narinfo of another path is received, each      *)
(* answer names paths of its command and none of them twice (ReplyWriter,  *)
(* handle-query-reply, handle-builtin-first-query-line, run_query_mode).   *)
THEOREM QueryImplemented == Spec => ImplementsQuery
<1>1. Init => Service!Init
  <2> SUFFICES ASSUME Init PROVE Service!Init
    OBVIOUS
  <2>1. Sound = TRUE
    <3>1. ~cut /\ vouched = {<<p, p>> : p \in {q \in Paths : cache[q] > 0}}
      BY DEF Init
    <3>2. \A v \in vouched : v[1] = v[2]
      BY <3>1
    <3> QED
      BY <3>1, <3>2 DEF Sound, InOrder
  <2> QED
    BY <2>1 DEF Init, Service!Init, Ended
<1>2. QueryInv /\ Typing /\ (Sound => AnswerInv) /\ [Next]_vars => [Service!Next]_(Service!vars)
  BY ServiceStep
<1> QED
  BY <1>1, <1>2, AnswerInvariant, PTL DEF Spec, ImplementsQuery, Service!Spec
=============================================================================
