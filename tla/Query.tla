------------------------------- MODULE Query ---------------------------------
(***************************************************************************)
(* The --query side: what guix-daemon may substitute.  The process it      *)
(* starts is the Guix extension (guix/extensions/substitute.scm) with one  *)
(* of its three routings, the relay behind the wrapper (src/wrapper.rs,    *)
(* src/relay.rs), or guix-p2p itself ("direct", run_query_mode).  Behind   *)
(* the socket is handle_socket_connection with handle_have and handle_info *)
(* of src/daemon.rs, the narinfo cache of src/narinfo.rs, which all        *)
(* connections share, and the narinfo fetches of src/http_client.rs.       *)
(*                                                                         *)
(* The daemon may stop and start at any time; it leaves its socket file    *)
(* behind, and may leave part of a reply on the wire.  http-first and      *)
(* p2p-first are one policy here: the query handlers treat them alike.     *)
(***************************************************************************)
EXTENDS Lists

CONSTANTS
  Paths,        \* what guix-daemon asks about
  NotStore,     \* those that are not store paths
  BadHash,      \* those whose narinfo states a NAR hash that is not a SHA-256
  NoDeriver,    \* those whose narinfo names no deriver
  Queries,      \* lists of paths that guix-daemon asks about: it writes a set of paths
  LocalFiles,   \* what the local narinfo file may describe
  Misfiled,     \* <<p, q>>: a server may answer for p with the signed narinfo of q
  Servers,      \* config.substitute_urls: how many there are
  Ttl,          \* lifetime of a cached narinfo, in ticks
  MaxCommands,  \* bound: commands to one process
  MaxTicks,     \* bound: ticks
  MaxStops      \* bound: stops of the daemon

ASSUME QueryAssumption ==
  /\ NotStore \subseteq Paths /\ BadHash \subseteq Paths /\ NoDeriver \subseteq Paths
  /\ Queries \subseteq Seq(Paths) /\ \A q \in Queries : IsInjective(q)
  /\ LocalFiles \subseteq SUBSET (Paths \ NotStore)
  /\ Misfiled \subseteq Paths \X (Paths \ NotStore)
  /\ Paths \cap {"", "deriver", "sizes", "cut", "fd4:", "fd4-empty:"} = {}
  /\ Servers \in Nat /\ Ttl \in Nat \ {0}
  /\ MaxCommands \in Nat /\ MaxTicks \in Nat /\ MaxStops \in Nat

VARIABLES
  routing,      \* who guix-daemon has started
  policy,       \* the substitute policy in force for the connection
  offline,      \* config.local_narinfo_path is set
  local,        \* the paths described in that file
  daemon,       \* "down", "starting", "binding" or "up"
  socket,       \* the socket file: "none", "stale", "bound" (not yet chmod) or "open"
  cache,        \* NarinfoCache: ticks that the entry under each path has left
  filed,        \* and the path that the narinfo in it is about
  cpc,          \* what the client does next
  socket_path,  \* the extension has seen a socket when it started
  asked,        \* commands of guix-daemon
  builtin,      \* lines of the built-in substituter for the command
  p2p,          \* lines of the daemon for it
  fd4,          \* lines that guix-daemon has not read
  answers,      \* the paths that each answer names
  command,      \* the command on its way to the handler, if any
  wire,         \* frames on their way to the client
  hpc,          \* the handler of the connection
  kind, todo,   \* its command and the paths it has not looked at
  servers,      \* substitute servers not asked yet
  buf,          \* frames of its reply
  ticks, stops, \* bounded counters
  offered,      \* what the built-in substituter has offered for each command
  vouched,      \* <<p, q>>: a narinfo of q, signed by an authorised key or local, was
                \* received for p
  life,         \* how long the last such narinfo is valid, by the time it was received
  claimed,      \* paths that the daemon has claimed for this process
  cut           \* a reply was cut short by a daemon that stopped

configVars  == <<routing, policy, offline, local>>
clientVars  == <<cpc, socket_path, asked, builtin, p2p, fd4, answers, offered>>
handlerVars == <<hpc, kind, todo, servers, buf>>
cacheVars   == <<cache, filed>>
ghostVars   == <<vouched, life, claimed, cut>>
vars == <<configVars, daemon, socket, cacheVars, clientVars, command, wire, handlerVars,
          ticks, stops, ghostVars>>

Routings == {"builtin-first", "p2p-first", "p2p-only", "relay", "direct"}
Forced == {"builtin-first", "p2p-only"}        \* the mode header asks for p2p-only
Ended == {"done", "failed", "delegated"}
Command == [kind : {"have", "info"}, paths : Seq(Paths)]
Lines == Paths \cup {"", "deriver", "sizes", "cut"}
Frames == Paths \cup {"fd4:", "fd4-empty:", "deriver", "sizes", "cut"}

(* The values each variable takes. *)
TypeOK ==
  /\ routing \in Routings /\ policy \in {"p2p-only", "fallback"}
  /\ offline \in BOOLEAN /\ local \in SUBSET Paths
  /\ daemon \in {"down", "starting", "binding", "up"}
  /\ socket \in {"none", "stale", "bound", "open"}
  /\ cache \in [Paths -> 0 .. Ttl] /\ filed \in [Paths -> Paths]
  /\ cpc \in {"new", "connect", "ready", "builtin", "missing", "waiting", "write", "stuck"} \cup Ended
  /\ socket_path \in BOOLEAN
  /\ asked \in Seq(Command) /\ Len(asked) <= MaxCommands
  /\ builtin \in Seq(Lines) /\ p2p \in Seq(Lines) /\ fd4 \in Seq(Lines)
  /\ answers \in Seq(Seq(Lines)) /\ Len(answers) <= Len(asked)
  /\ command \in Seq(Command) /\ Len(command) <= 1
  /\ wire \in Seq(Frames) /\ buf \in Seq(Frames)
  /\ hpc \in {"idle", "path", "fetch", "providers", "flush", "gone"}
  /\ kind \in {"have", "info"} /\ todo \in Seq(Paths)
  /\ servers \in 0 .. Servers
  /\ ticks \in 0 .. MaxTicks /\ stops \in 0 .. MaxStops
  /\ offered \in Seq(SUBSET Paths) /\ Len(offered) = Len(asked)
  /\ vouched \in SUBSET (Paths \X Paths) /\ life \in [Paths -> 0 .. Ttl]
  /\ claimed \in SUBSET Paths /\ cut \in BOOLEAN

\* load_local_narinfo_metadata at the start of a process.
LoadLocal == [p \in Paths |-> IF offline /\ p \in local THEN Ttl ELSE 0]
FiledInOrder == [p \in Paths |-> p]

Init ==
  /\ routing \in Routings /\ policy \in {"p2p-only", "fallback"}
  /\ routing \in Forced => policy = "p2p-only"
  /\ offline \in BOOLEAN
  /\ local \in LocalFiles
  /\ \/ daemon = "down" /\ socket \in {"none", "stale"}
     \/ daemon = "up" /\ socket = "open"
  /\ cache = IF daemon = "up" \/ routing = "direct" THEN LoadLocal ELSE [p \in Paths |-> 0]
  /\ filed = FiledInOrder
  /\ life = cache /\ vouched = {<<p, p>> : p \in {q \in Paths : cache[q] > 0}}
  /\ claimed = {} /\ cut = FALSE
  /\ cpc = "new" /\ socket_path = FALSE
  /\ asked = << >> /\ builtin = << >> /\ p2p = << >> /\ fd4 = << >>
  /\ answers = << >> /\ offered = << >>
  /\ command = << >> /\ wire = << >>
  /\ hpc = "gone" /\ kind = "have" /\ todo = << >> /\ servers = 0 /\ buf = << >>
  /\ ticks = 0 /\ stops = 0

-----------------------------------------------------------------------------
(* Replies. *)

\* ReplyWriter::write_line of an empty line, and write_end.
EmptyFrame == "fd4-empty:"
EndFrame == "fd4:"

\* extract_fd4_line and what the extension makes of a frame.
LineOf(f) == IF f \in {EmptyFrame, EndFrame} THEN "" ELSE f

\* What handle_have and handle_info write about p, with the narinfo of q at hand.
Entry(k, p, q) ==
  IF k = "have" THEN <<p>>
  ELSE <<q, IF q \in NoDeriver THEN EmptyFrame ELSE "deriver", "sizes">>

\* The lines of the built-in substituter about the paths of s.
BuiltinLines(k, s) ==
  IF k = "have" THEN s
  ELSE [i \in 1 .. 3 * Len(s) |-> LET p == s[(i + 2) \div 3]
                                      IN  LineOf(Entry(k, p, p)[((i + 2) % 3) + 1])]

\* query-data-lines: only the terminator is dropped.
QueryDataLines(text) ==
  IF text # << >> /\ text[Len(text)] = "" THEN SubSeq(text, 1, Len(text) - 1) ELSE text

\* How guix-daemon and info-present-paths read the lines: an info record is a path, a
\* deriver or an empty line, and the references with the sizes.
PathLines(k, lines) ==
  IF k = "have" THEN lines ELSE [i \in 1 .. (Len(lines) + 2) \div 3 |-> lines[3 * i - 2]]

Ends(k, lines, n) == lines[n] = "" /\ (k = "info" => n % 3 = 1)

\* The client's standard input and fd 4 as guix-daemon sees them.
LastAsked == asked[Len(asked)]
InStep == Len(answers) = Len(asked)

GuixReads ==
  /\ ~InStep
  /\ \E n \in 1 .. Len(fd4) :
       /\ Ends(LastAsked.kind, fd4, n)
       /\ \A m \in 1 .. n - 1 : ~Ends(LastAsked.kind, fd4, m)
       /\ answers' = Append(answers, PathLines(LastAsked.kind, SubSeq(fd4, 1, n - 1)))
       /\ fd4' = SubSeq(fd4, n + 1, Len(fd4))
  /\ UNCHANGED <<configVars, daemon, socket, cacheVars, cpc, socket_path, asked, builtin, p2p,
                 offered, command, wire, handlerVars, ticks, stops, ghostVars>>

\* It gives up on a process whose record has something else where the number of
\* references belongs.
GuixRefuses ==
  /\ ~InStep /\ cpc \notin Ended /\ LastAsked.kind = "info"
  /\ \E n \in 1 .. Len(fd4) :
       /\ n % 3 = 0 /\ fd4[n] # "sizes"
       /\ \A m \in 1 .. n - 1 : ~Ends("info", fd4, m)
  /\ cpc' = "failed"
  /\ UNCHANGED <<configVars, daemon, socket, cacheVars, socket_path, asked, builtin, p2p, fd4,
                 answers, offered, command, wire, handlerVars, ticks, stops, ghostVars>>

-----------------------------------------------------------------------------
(* The client. *)

\* socket?, and socket_exists in the wrapper: a socket file is there.
SocketExists == socket # "none"

\* route_invocation: the relay, or Guix's own program.
RouteInvocation == IF SocketExists THEN "connect" ELSE "delegated"

\* The wrapper, or maybe-relay-through-socket, which decides likewise.
Start ==
  /\ cpc = "new"
  /\ cpc' = IF routing \in {"direct", "builtin-first"} THEN "ready" ELSE RouteInvocation
  /\ socket_path' = (routing = "builtin-first" /\ SocketExists)
  /\ hpc' = IF routing = "direct" THEN "idle" ELSE hpc
  /\ UNCHANGED <<configVars, daemon, socket, cacheVars, asked, builtin, p2p, fd4, answers, offered,
                 command, wire, kind, todo, servers, buf, ticks, stops, ghostVars>>

\* open-relay-socket: nobody may listen any more, or not everybody may connect yet.
Connects == socket \in {"bound", "open"}
Refused == socket # "open"

Connect ==
  /\ cpc = "connect"
  /\ \/ Connects /\ cpc' = "ready" /\ hpc' = "idle"
     \/ Refused /\ cpc' = "failed" /\ UNCHANGED hpc
  /\ UNCHANGED <<configVars, daemon, socket, cacheVars, socket_path, asked, builtin, p2p, fd4,
                 answers, offered, command, wire, kind, todo, servers, buf, ticks, stops,
                 ghostVars>>

\* guix-daemon writes a command.  A relay whose connection has ended still reads it.
Ask ==
  /\ cpc \in {"ready", "stuck"} /\ InStep /\ Len(asked) < MaxCommands
  /\ \E k \in {"have", "info"}, q \in Queries :
       LET c == [kind |-> k, paths |-> q] IN
       /\ asked' = Append(asked, c)
       /\ offered' = Append(offered, {})
       /\ IF routing = "builtin-first"
            THEN cpc' = "builtin" /\ UNCHANGED command
            ELSE cpc' = (IF cpc = "stuck" THEN cpc ELSE "waiting") /\ command' = <<c>>
  /\ UNCHANGED <<configVars, daemon, socket, cacheVars, socket_path, builtin, p2p, fd4, answers, wire,
                 handlerVars, ticks, stops, ghostVars>>

\* Those of the paths asked about that are in S, in their order: a set of one list.
Among(S) ==
  LET asks == LastAsked.paths IN Retained(asks, {i \in DOMAIN asks : asks[i] \in S})

\* call-builtin-substitute: Guix's own substituter knows some of the paths.
Builtin ==
  /\ cpc = "builtin"
  /\ \E S \in SUBSET (Range(LastAsked.paths) \ NotStore) : \E known \in Among(S) :
       /\ builtin' = QueryDataLines(BuiltinLines(LastAsked.kind, known) \o <<"">>)
       /\ offered' = [offered EXCEPT ![Len(offered)] = S]
  /\ cpc' = "missing"
  /\ UNCHANGED <<configVars, daemon, socket, cacheVars, socket_path, asked, p2p, fd4, answers,
                 command, wire, handlerVars, ticks, stops, ghostVars>>

\* Fault: the daemon is asked about every path.
MissingPaths_All == {LastAsked.paths}

\* missing-paths, with info-present-paths: a set of one list.
MissingPaths == Among(Paths \ Range(PathLines(LastAsked.kind, builtin)))

\* socket-query-lines opens a connection for the missing paths.  Where that fails, the
\* process ends, and with it the built-in answer.
AskDaemon ==
  /\ cpc = "missing"
  /\ \E missing \in MissingPaths :
       IF socket_path /\ missing # << >>
         THEN \/ /\ Connects
                 /\ cpc' = "waiting" /\ hpc' = "idle"
                 /\ command' = <<[kind |-> LastAsked.kind, paths |-> missing]>>
                 /\ wire' = << >>
              \/ /\ Refused
                 /\ cpc' = "failed"
                 /\ UNCHANGED <<hpc, command, wire>>
         ELSE cpc' = "write" /\ UNCHANGED <<hpc, command, wire>>
  /\ UNCHANGED <<configVars, daemon, socket, cacheVars, socket_path, asked, builtin, p2p, fd4,
                 answers, offered, kind, todo, servers, buf, ticks, stops, ghostVars>>

\* handle-query-reply and socket-query-lines read to the end frame; the relay copies.
TakeFrame ==
  /\ cpc = "waiting" /\ wire # << >>
  /\ wire' = Tail(wire)
  /\ IF routing = "builtin-first"
       THEN /\ p2p' = IF Head(wire) = EndFrame THEN p2p ELSE Append(p2p, LineOf(Head(wire)))
            /\ cpc' = IF Head(wire) = EndFrame THEN "write" ELSE cpc
            /\ UNCHANGED fd4
       ELSE /\ fd4' = Append(fd4, LineOf(Head(wire)))
            /\ cpc' = IF Head(wire) = EndFrame THEN "ready" ELSE cpc
            /\ UNCHANGED p2p
  /\ UNCHANGED <<configVars, daemon, socket, cacheVars, socket_path, asked, builtin, answers,
                 offered, command, handlerVars, ticks, stops, ghostVars>>

\* Fault: what the daemon says replaces what the built-in substituter has said.
Merged_P2pReplaces == IF p2p = << >> THEN builtin ELSE p2p

Merged == builtin \o p2p

\* The end of handle-builtin-first-query-line.
WriteReply ==
  /\ cpc = "write"
  /\ fd4' = fd4 \o Merged \o <<"">>
  /\ cpc' = "ready" /\ builtin' = << >> /\ p2p' = << >>
  /\ UNCHANGED <<configVars, daemon, socket, cacheVars, socket_path, asked, answers,
                 offered, command, wire, handlerVars, ticks, stops, ghostVars>>

\* The connection ends: an error for handle-query-reply, the end of the reply for
\* socket-query-lines; a direct process has panicked.  The relay goes on to wait for its
\* copy of standard input.
TakeEof ==
  /\ hpc = "gone" /\ wire = << >>
  /\ \/ cpc = "waiting"
     \/ cpc = "ready" /\ routing = "relay"
  /\ cpc' = CASE routing = "builtin-first" -> "write"
              [] routing = "relay" -> "stuck"
              [] OTHER -> "failed"
  /\ UNCHANGED <<configVars, daemon, socket, cacheVars, socket_path, asked, builtin, p2p, fd4,
                 answers, offered, command, wire, handlerVars, ticks, stops, ghostVars>>

\* The copy fails on its first write to a connection that has ended.
CopyEnds ==
  /\ cpc = "stuck" /\ command # << >>
  /\ cpc' = "done" /\ command' = << >>
  /\ UNCHANGED <<configVars, daemon, socket, cacheVars, socket_path, asked, builtin, p2p, fd4,
                 answers, offered, wire, handlerVars, ticks, stops, ghostVars>>

\* Standard input ends between two commands.
CloseInput ==
  /\ cpc \in {"ready", "stuck"} /\ InStep
  /\ cpc' = "done"
  /\ UNCHANGED <<configVars, daemon, socket, cacheVars, socket_path, asked, builtin, p2p, fd4,
                 answers, offered, command, wire, handlerVars, ticks, stops, ghostVars>>

Killed ==
  /\ cpc \notin Ended
  /\ cpc' = "failed"
  /\ UNCHANGED <<configVars, daemon, socket, cacheVars, socket_path, asked, builtin, p2p, fd4,
                 answers, offered, command, wire, handlerVars, ticks, stops, ghostVars>>

-----------------------------------------------------------------------------
(* The handler of the connection, and its narinfo lookups. *)

\* extract_hash_part
StorePath(p) == p \in Paths \ NotStore

Cached(p) == cache[p] > 0

Here == routing = "direct" => cpc \notin Ended
Broken == cpc \in Ended

ReadCommand ==
  /\ hpc = "idle" /\ command # << >> /\ Here
  /\ hpc' = "path" /\ kind' = Head(command).kind /\ todo' = Head(command).paths
  /\ command' = << >> /\ buf' = << >>
  /\ UNCHANGED <<configVars, daemon, socket, cacheVars, clientVars, wire, servers, ticks, stops,
                 ghostVars>>

\* The client has closed its side, or shut it down after its only command.
ReadEof ==
  /\ hpc = "idle" /\ command = << >>
  /\ routing # "direct" /\ (Broken \/ routing = "builtin-first")
  /\ hpc' = "gone"
  /\ UNCHANGED <<configVars, daemon, socket, cacheVars, clientVars, command, wire, kind, todo,
                 servers, buf, ticks, stops, ghostVars>>

\* The direct process writes to fd 4, the handler of a connection to its buffer.
Emit(frames) ==
  IF routing = "direct"
    THEN fd4' = fd4 \o [i \in 1 .. Len(frames) |-> LineOf(frames[i])] /\ UNCHANGED buf
    ELSE buf' = buf \o frames /\ UNCHANGED fd4

\* Done with a path: it is named in the reply, or left out.
Name(p, q) ==
  /\ hpc' = "path" /\ todo' = Tail(todo)
  /\ Emit(Entry(kind, p, q))
  /\ claimed' = IF kind = "have" THEN claimed \cup {p} ELSE claimed

LeaveOut == hpc' = "path" /\ todo' = Tail(todo) /\ UNCHANGED <<fd4, buf, claimed>>

\* decode_nix_base32 indexes past its buffer for a text of 1, 3 or 6 characters, modulo 8.
Panic == hpc' = "gone" /\ UNCHANGED <<todo, fd4, buf, claimed>>

\* A narinfo, of q, is at hand for p.  info needs its NAR hash, and so does have under
\* p2p-only, which goes on to look for providers; otherwise have decodes it for the
\* dashboard.
HaveNarinfo(p, q) ==
  \/ kind = "have" /\ policy # "p2p-only" /\ Name(p, q)
  \/ kind = "info" /\ q \notin BadHash /\ Name(p, q)
  \/ /\ kind = "have" /\ policy = "p2p-only" /\ q \notin BadHash
     /\ hpc' = "providers" /\ UNCHANGED <<todo, fd4, buf, claimed>>
  \/ q \in BadHash /\ (kind = "info" \/ policy = "p2p-only") /\ LeaveOut
  \/ q \in BadHash /\ (kind = "have" /\ policy # "p2p-only" => routing # "direct") /\ Panic

\* Whether a path that is not in the cache is looked up at the servers.
AsksServers == IF policy = "p2p-only" THEN kind = "have" ELSE ~offline

LookUp ==
  /\ hpc = "path" /\ todo # << >> /\ Here
  /\ LET p == Head(todo) IN
       \/ ~StorePath(p) /\ LeaveOut /\ UNCHANGED servers
       \/ StorePath(p) /\ Cached(p) /\ HaveNarinfo(p, filed[p]) /\ UNCHANGED servers
       \/ StorePath(p) /\ ~Cached(p) /\ ~AsksServers /\ LeaveOut /\ UNCHANGED servers
       \/ /\ StorePath(p) /\ ~Cached(p) /\ AsksServers
          /\ hpc' = "fetch" /\ servers' = Servers
          /\ UNCHANGED <<todo, fd4, buf, claimed>>
  /\ UNCHANGED <<configVars, daemon, socket, cacheVars, cpc, socket_path, asked, builtin, p2p,
                 answers, offered, command, wire, kind, ticks, stops, vouched, life, cut>>

\* parse_narinfo accepts every text: what is missing in it is empty, the signature too.
Narinfo == [path : Paths \ NotStore, signature : {"none", "bad", "good"}]

\* What a server may send for p: nobody compares its store path with p.
Served(p) == {info \in Narinfo : info.path = p \/ <<p, info.path>> \in Misfiled}

\* Fault: a narinfo is used without a look at its signature.
Verified_Always(info) == TRUE

\* verify_narinfo_signature with the keys of load_acl_keys.
Verified(info) == info.signature = "good"

\* Fault: the narinfo is not put in the cache.
Put_Nothing(p, q) == UNCHANGED cacheVars

Put(p, q) == cache' = [cache EXCEPT ![p] = Ttl] /\ filed' = [filed EXCEPT ![p] = q]

\* A narinfo was received for p: what the model remembers of it.
Vouch(p, info) ==
  LET good == info.signature = "good" IN
  /\ vouched' = IF good THEN vouched \cup {<<p, info.path>>} ELSE vouched
  /\ life' = IF good THEN [life EXCEPT ![p] = Ttl] ELSE life

\* One server answers with a narinfo, or does not.
Fetch ==
  /\ hpc = "fetch" /\ servers > 0 /\ Here
  /\ \/ /\ servers' = servers - 1
        /\ UNCHANGED <<hpc, todo, fd4, buf, claimed, cacheVars, vouched, life>>
     \/ \E info \in Served(Head(todo)) :
          /\ Verified(info)
          /\ servers' = 0
          /\ Put(Head(todo), info.path)
          /\ Vouch(Head(todo), info)
          /\ HaveNarinfo(Head(todo), info.path)
  /\ UNCHANGED <<configVars, daemon, socket, cpc, socket_path, asked, builtin, p2p, answers,
                 offered, command, wire, kind, ticks, stops, cut>>

\* The ACL cannot be read, or no server has a narinfo that is signed.
NotFetched ==
  /\ hpc = "fetch" /\ servers \in {0, Servers} /\ Here
  /\ LeaveOut /\ servers' = 0
  /\ UNCHANGED <<configVars, daemon, socket, cacheVars, cpc, socket_path, asked, builtin, p2p,
                 answers, offered, command, wire, kind, ticks, stops, vouched, life, cut>>

\* wait_for_providers_for_duration: enough providers in time, or not.
Providers ==
  /\ hpc = "providers" /\ Here
  /\ Name(Head(todo), filed[Head(todo)]) \/ LeaveOut
  /\ UNCHANGED <<configVars, daemon, socket, cacheVars, cpc, socket_path, asked, builtin, p2p,
                 answers, offered, command, wire, kind, servers, ticks, stops, vouched, life,
                 cut>>

\* reply.write_end.
WriteEnd ==
  /\ hpc = "path" /\ todo = << >> /\ Here
  /\ Emit(<<EndFrame>>)
  /\ IF routing = "direct" THEN hpc' = "idle" /\ cpc' = "ready"
                           ELSE hpc' = "flush" /\ UNCHANGED cpc
  /\ UNCHANGED <<configVars, daemon, socket, cacheVars, socket_path, asked, builtin, p2p, answers,
                 offered, command, wire, kind, todo, servers, ticks, stops, ghostVars>>

\* Fault: a reply that names nothing is not sent.
Flush_Entries ==
  /\ hpc = "flush"
  /\ wire' = IF Len(buf) > 1 THEN wire \o buf ELSE wire
  /\ hpc' = "idle" /\ buf' = << >>
  /\ UNCHANGED <<configVars, daemon, socket, cacheVars, clientVars, command, kind, todo, servers,
                 ticks, stops, ghostVars>>

\* reply.flush_socket, where nothing stops its write_all: what the client does with the
\* first frames does not depend on the others.
Flush ==
  /\ hpc = "flush"
  /\ \/ wire' = wire \o buf /\ hpc' = "idle"
     \/ Broken /\ hpc' = "gone" /\ UNCHANGED wire
  /\ buf' = << >>
  /\ UNCHANGED <<configVars, daemon, socket, cacheVars, clientVars, command, kind, todo, servers,
                 ticks, stops, ghostVars>>

\* What write_all has written of a reply when the daemon stops: some frames, and perhaps
\* the beginning of the next, which may look like the end of the reply.
Begun ==
  IF hpc # "flush" THEN {<< >>}
  ELSE UNION {{SubSeq(buf, 1, n) \o rest : rest \in {<< >>, <<"cut">>, <<EndFrame>>}} :
              n \in 0 .. Len(buf) - 1}

-----------------------------------------------------------------------------
(* The daemon, and the time, for as long as the client runs. *)

Running == cpc \notin Ended

\* Another connection fetches a narinfo.
OtherFetch ==
  /\ daemon = "up" /\ routing # "direct" /\ Running
  /\ \E p \in Paths \ NotStore : \E info \in Served(p) :
       /\ Verified(info)
       /\ Put(p, info.path)
       /\ Vouch(p, info)
  /\ UNCHANGED <<configVars, daemon, socket, clientVars, command, wire, handlerVars, ticks,
                 stops, claimed, cut>>

Less(n) == IF n = 0 THEN 0 ELSE n - 1

Tick ==
  /\ ticks < MaxTicks /\ Running
  /\ ticks' = ticks + 1
  /\ cache' = [p \in Paths |-> Less(cache[p])]
  /\ life' = [p \in Paths |-> Less(life[p])]
  /\ UNCHANGED <<configVars, daemon, socket, filed, clientVars, command, wire, handlerVars,
                 stops, vouched, claimed, cut>>

\* main: the caches are new; then start_socket_listener.
StartDaemon ==
  /\ daemon = "down" /\ routing # "direct" /\ Running
  /\ daemon' = "starting"
  /\ cache' = LoadLocal /\ filed' = FiledInOrder /\ life' = LoadLocal
  /\ vouched' = vouched \cup {<<p, p>> : p \in IF offline THEN local ELSE {}}
  /\ UNCHANGED <<configVars, socket, clientVars, command, wire, handlerVars, ticks, stops,
                 claimed, cut>>

Listen ==
  /\ Running
  /\ \/ daemon = "starting" /\ daemon' = "binding" /\ socket' = "none"
     \/ daemon = "binding" /\ daemon' = "up" /\ socket' = "bound"
     \/ daemon = "up" /\ socket = "bound" /\ socket' = "open" /\ UNCHANGED daemon
  /\ UNCHANGED <<configVars, cacheVars, clientVars, command, wire, handlerVars, ticks, stops,
                 ghostVars>>

\* The daemon is stopped or crashes.  Its socket file stays.
StopDaemon ==
  /\ daemon # "down" /\ routing # "direct" /\ stops < MaxStops /\ Running
  /\ stops' = stops + 1
  /\ daemon' = "down"
  /\ socket' = IF socket = "none" THEN "none" ELSE "stale"
  /\ cache' = [p \in Paths |-> 0] /\ filed' = FiledInOrder /\ life' = [p \in Paths |-> 0]
  /\ \E part \in Begun :
       /\ wire' = wire \o part
       /\ cut' = (cut \/ part # << >>)
  /\ command' = IF hpc = "gone" THEN command ELSE << >>
  /\ hpc' = "gone" /\ todo' = << >> /\ servers' = 0 /\ buf' = << >>
  /\ UNCHANGED <<configVars, clientVars, kind, ticks, vouched, claimed>>

ClientStep ==
  \/ Start \/ Connect \/ Builtin \/ AskDaemon \/ TakeFrame \/ WriteReply \/ TakeEof
  \/ CopyEnds \/ GuixReads \/ GuixRefuses

HandlerStep ==
  \/ ReadCommand \/ ReadEof \/ LookUp \/ Fetch \/ NotFetched \/ Providers \/ WriteEnd \/ Flush

Next ==
  \/ ClientStep \/ HandlerStep \/ Ask \/ CloseInput \/ Killed
  \/ OtherFetch \/ Tick \/ StartDaemon \/ Listen \/ StopDaemon

Spec == Init /\ [][Next]_vars

(* The client reads what has arrived; every request to a server and every  *)
(* wait for providers has a timeout (create_http_client,                   *)
(* wait_for_providers_for_duration).                                       *)
FairSpec == Spec /\ WF_vars(ClientStep) /\ WF_vars(HandlerStep)

-----------------------------------------------------------------------------
(* Properties. *)

(* What the protocol rests on: no reply was cut short by a daemon that     *)
(* stopped, and every narinfo that was received is of the path it was      *)
(* asked for.                                                              *)
InOrder == \A v \in vouched : v[1] = v[2]
Sound == ~cut /\ InOrder

Service == INSTANCE QueryService WITH running <- cpc \notin Ended, sound <- Sound

(* Whoever guix-daemon talks to, and whenever the daemon comes and goes,   *)
(* what it reads on fd 4 is one answer per command, in order; and until a  *)
(* reply is cut or a server sends the narinfo of another path, each answer *)
(* names paths of its command and none of them twice (ReplyWriter,         *)
(* handle-query-reply, handle-builtin-first-query-line).                   *)
ImplementsQuery == Service!Spec

(* The daemon uses no narinfo that an authorised key has not signed and    *)
(* that is not in the local file, whatever the servers answer and whoever  *)
(* fills the cache: have names a path only if one was received for it, of  *)
(* whatever path, and info describes only paths that one is about          *)
(* (fetch_verified_narinfo, handle_have, handle_info).                     *)
Backing(k) == {IF k = "have" THEN v[1] ELSE v[2] : v \in vouched}
NamedIsVouched ==
  /\ Range(buf) \cap Paths \subseteq Backing(kind)
  /\ \A s \in {wire} \cup (IF routing = "direct" THEN {fd4} ELSE {}) :
       Range(s) \cap Paths \subseteq Backing("have") \cup Backing("info")

(* "The daemon answers `have` and `info` queries only when the requested   *)
(* store path has trusted narinfo metadata" (README.md).                   *)
ClaimedIsTrusted == claimed \subseteq Backing("info")

(* With the built-in substituter first, its answers are in the answer that *)
(* guix-daemon gets, whatever the daemon adds or fails to add              *)
(* (handle-builtin-first-query-line).  A refused connection leaves no      *)
(* answer to speak of: the process ends.                                   *)
BuiltinKept == \A i \in 1 .. Len(answers) : offered[i] \subseteq Range(answers[i])

(* Under every policy, info answers for what have has claimed with the     *)
(* narinfo in the cache as long as that is younger than the cache's        *)
(* lifetime and the daemon has not been restarted when it looks; only a    *)
(* NAR hash that is no SHA-256 makes it leave the path out (handle_have,   *)
(* handle_info, NarinfoCache).                                             *)
Owed == {p \in claimed : life[p] > 0 /\ filed[p] \notin BadHash}
InfoKeepsClaims ==
  [][kind = "info" /\ hpc = "path" /\ hpc' = "path" /\ todo' # todo /\ Head(todo) \in Owed
     => filed[Head(todo)] \in Range(buf') \cup Range(fd4')]_vars

(* Nobody waits for ever: a command is answered, or the process ends       *)
(* (handle_have and handle_info end every reply; TakeEof); except for a    *)
(* relay whose daemon is gone with the command, which waits for more input *)
(* while guix-daemon waits for its reply, and after a reply was cut.       *)
QueriesSettle ==
  (cpc \notin Ended /\ ~InStep) ~>
    (InStep \/ cpc \in Ended \/ (cpc = "stuck" /\ command = << >>) \/ cut)

(* "the extension must write the reply for each `have`/`info` command      *)
(* before waiting for stdin EOF, because `guix-daemon` keeps the query     *)
(* process open" (docs/architecture.md).  After a reply that was cut it    *)
(* does not (README, section 6).                                           *)
ExtensionReplies ==
  (cpc \notin Ended /\ ~InStep /\ routing \notin {"relay", "direct"}) ~> (InStep \/ cpc \in Ended)
=============================================================================
