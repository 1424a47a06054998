----------------------------- MODULE Substitute ------------------------------
(***************************************************************************)
(* A substitution from the request of guix-daemon to its terminal reply:   *)
(* try_swarm_substitute and handle_socket_connection of src/daemon.rs, the *)
(* HTTP candidates of src/http_client.rs, and the process guix-daemon      *)
(* talks to: the relay (src/relay.rs), the Guix extension                  *)
(* (guix/extensions/substitute.scm) with a lasting connection or           *)
(* "builtin-first", or guix-p2p itself ("direct", no socket).              *)
(*                                                                         *)
(* The socket carries frames from the daemon in order and may break at any *)
(* point.  How a P2P download ends is P2pDownload and BlockDownload; here  *)
(* it is a choice.  Trace lines are left out.                              *)
(***************************************************************************)
EXTENDS Naturals, Sequences

CONSTANTS
  MaxRequests,  \* bound: requests of guix-daemon to one process
  Chunks,       \* nar: frames that carry a NAR
  Candidates    \* HTTP candidates: URLs of the narinfo times substitute servers

ASSUME SubstituteAssumption ==
  MaxRequests \in Nat /\ Chunks \in Nat \ {0} /\ Candidates \in Nat

VARIABLES
  client,     \* who guix-daemon has started
  policy,     \* the policy in force for its requests
  auto_seed,  \* config.auto_seed_downloads
  cpc,        \* the client: "ready", "builtin", "waiting", "draining", "done", "failed"
  asked,      \* requests of guix-daemon
  replies,    \* terminal replies on fd 4
  dest,       \* the destination of each request: "file", the bytes of the verified
              \* NAR, or "tree", what they unpack to, where it is complete
  chunks,     \* nar: frames in the client's temporary file: "nar" or, of another
              \* NAR than the narinfo's, "junk"
  command,    \* the request on its way to the daemon, 0 if there is none
  wire,       \* frames on their way to the client
  dpc,        \* the handler of the connection
  cur,        \* the request it works on
  data,       \* what it has downloaded: "none", "genuine" or "corrupt"
  source,     \* where from: "none", "p2p" or "http"
  left,       \* HTTP candidates not tried yet
  mismatched, \* last_mismatched_download is there
  failures,   \* download methods that have failed for this request
  sent,       \* nar: frames written
  outcome,    \* the terminal reply in its buffer
  kept        \* requests whose NAR was given to the NarStore, with its contents

clientVars == <<client, policy, auto_seed, asked, replies, dest, chunks>>
fetchVars  == <<data, source, left, mismatched, failures>>
daemonVars == <<dpc, cur, fetchVars, sent, outcome, kept>>
vars == <<clientVars, cpc, command, wire, daemonVars>>

Clients == {"relay", "extension", "builtin-first", "direct"}
Policies == {"p2p-only", "p2p-first", "http-first"}
SeedModes == {"off", "p2p", "all"}
Replies == {"success", "not-found", "hash-mismatch"}
Ended == {"done", "failed"}

\* Clients whose connection carries one request, and is shut down after it.
OneShot == {"relay", "builtin-first"}

\* What a client makes of a NAR: write_nar_to_destination copies its bytes, the
\* extension and the built-in substituter unpack it (restore-file).
Form == IF client \in {"relay", "direct"} THEN "file" ELSE "tree"

TypeOK ==
  /\ client \in Clients /\ policy \in Policies /\ auto_seed \in SeedModes
  /\ cpc \in {"ready", "builtin", "waiting", "draining"} \cup Ended
  /\ asked \in 0 .. MaxRequests
  /\ replies \in Seq(Replies) /\ Len(replies) <= asked
  /\ dest \in [1 .. MaxRequests -> {"absent", "partial", "file", "tree"}]
  /\ chunks \in Seq({"nar", "junk"})
  /\ command \in 0 .. asked
  /\ wire \in Seq({"nar", "junk", "nar-end"} \cup Replies)
  /\ dpc \in {"idle", "narinfo", "p2p", "http", "verify", "deliver", "stream", "keep",
              "unwritten", "flush", "gone"}
  /\ cur \in 0 .. asked
  /\ data \in {"none", "genuine", "corrupt"}
  /\ source \in {"none", "p2p", "http"}
  /\ left \in 0 .. Candidates
  /\ mismatched \in BOOLEAN
  /\ failures \in SUBSET {"p2p", "http"}
  /\ sent \in 0 .. Chunks
  /\ outcome \in Replies \cup {"none"}
  /\ kept \in SUBSET [req : 1 .. MaxRequests, data : {"genuine", "corrupt"}]

\* The extension's built-in-first routing uses p2p-only connections.
Init ==
  /\ client \in Clients /\ policy \in Policies /\ auto_seed \in SeedModes
  /\ client = "builtin-first" => policy = "p2p-only"
  /\ cpc = "ready" /\ asked = 0 /\ replies = << >>
  /\ dest = [r \in 1 .. MaxRequests |-> "absent"]
  /\ chunks = << >> /\ command = 0 /\ wire = << >>
  /\ dpc = IF client = "builtin-first" THEN "gone" ELSE "idle"
  /\ cur = 0 /\ data = "none" /\ source = "none" /\ left = 0 /\ mismatched = FALSE
  /\ failures = {} /\ sent = 0 /\ outcome = "none" /\ kept = {}

-----------------------------------------------------------------------------
(* The client. *)

Alive == cpc \notin Ended

\* guix-daemon writes a request.  The relay forwards the first one only.
Send ==
  /\ cpc = "ready" /\ asked < MaxRequests
  /\ client = "relay" => asked = 0
  /\ asked' = asked + 1
  /\ IF client = "builtin-first"
       THEN cpc' = "builtin" /\ UNCHANGED command
       ELSE cpc' = "waiting" /\ command' = asked + 1
  /\ UNCHANGED <<client, policy, auto_seed, replies, dest, chunks, wire, daemonVars>>

\* The built-in substituter of Guix writes the destination, and answers.
BuiltinWrites ==
  /\ cpc = "builtin" /\ dest[asked] = "absent"
  /\ dest' = [dest EXCEPT ![asked] = "tree"]
  /\ UNCHANGED <<client, policy, auto_seed, cpc, asked, replies, chunks, command, wire,
                 daemonVars>>

\* Its answer is passed on, but a not-found goes to the daemon if there is a socket:
\* a connection is opened for this request.
Builtin ==
  /\ cpc = "builtin"
  /\ \/ /\ \E r \in Replies :
             /\ (r = "success") <=> (dest[asked] = Form)
             /\ replies' = Append(replies, r)
        /\ cpc' = "ready"
        /\ UNCHANGED <<command, wire, dpc>>
     \/ /\ dest[asked] # Form
        /\ cpc' = "waiting" /\ command' = asked /\ wire' = << >> /\ dpc' = "idle"
        /\ UNCHANGED replies
  /\ UNCHANGED <<client, policy, auto_seed, asked, dest, chunks, cur, fetchVars, sent,
                 outcome, kept>>

\* Standard input ends between two requests.
CloseInput ==
  /\ cpc = "ready"
  /\ client = "direct" => dpc = "idle"
  /\ cpc' = IF client = "relay" THEN "failed" ELSE "done"
  /\ UNCHANGED <<clientVars, command, wire, daemonVars>>

\* guix-daemon kills the process, it cannot connect or write, or it crashes.
Killed ==
  /\ Alive
  /\ cpc' = "failed"
  /\ UNCHANGED <<clientVars, command, wire, daemonVars>>

Reading(frames) == cpc \in {"waiting", "draining"} /\ wire # << >> /\ Head(wire) \in frames

WholeNar == [i \in 1 .. Chunks |-> "nar"]

TakeNar ==
  /\ Reading({"nar", "junk"})
  /\ chunks' = Append(chunks, Head(wire))
  /\ wire' = Tail(wire)
  /\ UNCHANGED <<client, policy, auto_seed, cpc, asked, replies, dest, command, daemonVars>>

\* write_nar_to_destination, restore-nar-destination.
TakeNarEnd ==
  /\ Reading({"nar-end"})
  /\ wire' = Tail(wire)
  /\ chunks' = << >>
  /\ \/ /\ chunks # << >>
        /\ dest' = [dest EXCEPT ![asked] = IF chunks = WholeNar THEN Form ELSE "partial"]
        /\ UNCHANGED cpc
     \/ /\ cpc' = "failed"
        /\ dest' \in {dest, [dest EXCEPT ![asked] = "partial"]}
  /\ UNCHANGED <<client, policy, auto_seed, asked, replies, command, daemonVars>>

\* The relay reads on to the end of the connection.
TakeReply ==
  /\ Reading(Replies)
  /\ wire' = Tail(wire)
  /\ replies' = Append(replies, Head(wire))
  /\ cpc' = IF client = "relay" THEN "draining" ELSE "ready"
  /\ UNCHANGED <<client, policy, auto_seed, asked, dest, chunks, command, daemonVars>>

\* Fault: the end of the connection is taken for the end of the request.
EndOfConnection_Quiet == IF chunks = << >> THEN "done" ELSE "failed"

\* An error, unless the relay has its terminal reply and no NAR is cut short.
EndOfConnection == IF cpc = "draining" /\ chunks = << >> THEN "done" ELSE "failed"

TakeEof ==
  /\ cpc \in {"waiting", "draining"} /\ wire = << >> /\ dpc = "gone"
  /\ cpc' = EndOfConnection
  /\ UNCHANGED <<clientVars, command, wire, daemonVars>>

-----------------------------------------------------------------------------
(* The connection handler. *)

\* The substitute process writes to fd 4; the handler of a connection to its buffer.
Terminal(r) ==
  IF client = "direct"
    THEN /\ replies' = Append(replies, r)
         /\ dpc' = "idle" /\ cpc' = "ready"
         /\ UNCHANGED outcome
    ELSE /\ outcome' = r
         /\ dpc' = "flush"
         /\ UNCHANGED <<replies, cpc>>

Here == client = "direct" => cpc = "waiting"  \* a direct process has not been killed
Broken == cpc \in Ended                       \* writes to the client may fail

ReadCommand ==
  /\ dpc = "idle" /\ command # 0 /\ Here
  /\ dpc' = "narinfo" /\ cur' = command /\ command' = 0
  /\ data' = "none" /\ source' = "none" /\ left' = Candidates /\ mismatched' = FALSE
  /\ failures' = {} /\ sent' = 0 /\ outcome' = "none"
  /\ UNCHANGED <<clientVars, cpc, wire, kept>>

InputEnded == Broken \/ (client \in OneShot /\ asked > 0)

ReadEof ==
  /\ dpc = "idle" /\ command = 0 /\ client # "direct" /\ InputEnded
  /\ dpc' = "gone"
  /\ UNCHANGED <<clientVars, cpc, command, wire, cur, fetchVars, sent, outcome, kept>>

\* Fault: a request without a narinfo is dropped.
NoNarinfo_Silent == dpc' = "idle" /\ UNCHANGED <<replies, cpc, outcome>>

\* A bad store path or NAR hash, no local narinfo, or none that is signed.
NoNarinfo == Terminal("not-found")

Narinfo ==
  /\ dpc = "narinfo" /\ Here
  /\ \/ NoNarinfo
     \/ /\ dpc' = IF policy = "http-first" THEN "http" ELSE "p2p"
        /\ UNCHANGED <<replies, cpc, outcome>>
  /\ UNCHANGED <<client, policy, auto_seed, asked, dest, chunks, command, wire, cur,
                 fetchVars, sent, kept>>

\* Fault: a failed P2P download is reported at once.
FallsBack_Never(method) == FALSE

FallsBack(method) ==
  \/ method = "p2p" /\ policy = "p2p-first"
  \/ method = "http" /\ policy = "http-first"

\* A method has failed: the other one is next, or the request has failed.
MethodFails(method) ==
  /\ failures' = failures \cup {method}
  /\ IF FallsBack(method)
       THEN /\ dpc' = IF method = "p2p" THEN "http" ELSE "p2p"
            /\ UNCHANGED <<replies, cpc, outcome>>
       ELSE Terminal("not-found")

Downloaded(d, method) ==
  /\ data' = d /\ source' = method
  /\ dpc' = "verify"
  /\ UNCHANGED <<replies, cpc, outcome, failures>>

\* try_p2p_download returns an assembled NAR, whose blocks fit the hashes of the
\* handshakes, or an error.
P2pDownload ==
  /\ dpc = "p2p" /\ Here
  /\ \/ \E d \in {"genuine", "corrupt"} : Downloaded(d, "p2p")
     \/ MethodFails("p2p") /\ UNCHANGED <<data, source>>
  /\ UNCHANGED <<client, policy, auto_seed, asked, dest, chunks, command, wire, cur,
                 left, mismatched, sent, kept>>

\* One round of the loop of download_nar_http: the candidate cannot be fetched or
\* decompressed, has another hash, is good, or breaks off while its body is read,
\* which ends the loop.
HttpCandidate ==
  /\ dpc = "http" /\ left > 0 /\ Here
  /\ left' = left - 1
  /\ \/ mismatched' \in {mismatched, TRUE} /\ UNCHANGED <<data, source, failures, replies, cpc, outcome, dpc>>
     \/ Downloaded("genuine", "http") /\ UNCHANGED mismatched
     \/ MethodFails("http") /\ UNCHANGED <<mismatched, data, source>>
  /\ UNCHANGED <<client, policy, auto_seed, asked, dest, chunks, command, wire, cur, sent, kept>>

\* No candidate was good: the last one with another hash is returned, or an error.
HttpExhausted ==
  /\ dpc = "http" /\ left = 0 /\ Here
  /\ IF mismatched
       THEN Downloaded("corrupt", "http")
       ELSE MethodFails("http") /\ UNCHANGED <<data, source>>
  /\ UNCHANGED <<client, policy, auto_seed, asked, dest, chunks, command, wire, cur,
                 left, mismatched, sent, kept>>

\* Fault: the hash of an HTTP download is taken as checked already.
HashMatches_HttpTrusted == data = "genuine" \/ source = "http"

HashMatches == data = "genuine"

\* On a mismatch the daemon also removes the destination, where it has the permission.
Verify ==
  /\ dpc = "verify" /\ Here
  /\ IF HashMatches
       THEN dpc' = "deliver" /\ UNCHANGED <<replies, cpc, outcome, dest>>
       ELSE /\ Terminal("hash-mismatch")
            /\ dest' \in {dest, [dest EXCEPT ![cur] = "absent"]}
  /\ UNCHANGED <<client, policy, auto_seed, asked, chunks, command, wire, cur, fetchVars,
                 sent, kept>>

\* write_nar_to_destination by the direct process.
DeliverDirect ==
  /\ dpc = "deliver" /\ client = "direct" /\ Here
  /\ \/ /\ dest' = [dest EXCEPT ![cur] = IF data = "genuine" THEN Form ELSE "partial"]
        /\ dpc' = "keep"
     \/ /\ dest' \in {dest, [dest EXCEPT ![cur] = "partial"]}
        /\ dpc' = "unwritten"
  /\ UNCHANGED <<client, policy, auto_seed, cpc, asked, replies, chunks, command, wire, cur,
                 fetchVars, sent, outcome, kept>>

NotWritten ==
  /\ dpc = "unwritten" /\ Here
  /\ Terminal("not-found")
  /\ UNCHANGED <<client, policy, auto_seed, asked, dest, chunks, command, wire, cur,
                 fetchVars, sent, kept>>

\* The traces are flushed before the NAR; they stay in the buffer where that fails,
\* and the second attempt to flush them ends the connection.
FlushTraces ==
  /\ dpc = "deliver" /\ client # "direct"
  /\ dpc' = "stream" \/ (Broken /\ dpc' = "gone")
  /\ UNCHANGED <<clientVars, cpc, command, wire, cur, fetchVars, sent, outcome, kept>>

\* write_nar_data_to_socket; where it fails there is no terminal reply.
StreamNar ==
  /\ dpc = "stream"
  /\ \/ /\ sent < Chunks
        /\ sent' = sent + 1
        /\ wire' = Append(wire, IF data = "genuine" THEN "nar" ELSE "junk")
        /\ UNCHANGED dpc
     \/ /\ sent = Chunks
        /\ wire' = Append(wire, "nar-end")
        /\ dpc' = "keep"
        /\ UNCHANGED sent
     \/ /\ Broken
        /\ dpc' = "idle"
        /\ UNCHANGED <<wire, sent>>
  /\ UNCHANGED <<clientVars, cpc, command, cur, fetchVars, outcome, kept>>

ShouldSeed == auto_seed = "all" \/ (auto_seed = "p2p" /\ source = "p2p")

\* The NAR goes to the NarStore, then the success reply is written.
Keep ==
  /\ dpc = "keep" /\ Here
  /\ kept' = IF ShouldSeed THEN kept \cup {[req |-> cur, data |-> data]} ELSE kept
  /\ Terminal("success")
  /\ UNCHANGED <<client, policy, auto_seed, asked, dest, chunks, command, wire, cur,
                 fetchVars, sent>>

\* reply.flush_socket after the command.
FlushReply ==
  /\ dpc = "flush"
  /\ \/ wire' = Append(wire, outcome) /\ dpc' = "idle"
     \/ Broken /\ dpc' = "gone" /\ UNCHANGED wire
  /\ UNCHANGED <<clientVars, cpc, command, cur, fetchVars, sent, outcome, kept>>

\* The handler panics, or the daemon goes down: the socket is closed.
HandlerDies ==
  /\ dpc # "gone" /\ client # "direct"
  /\ dpc' = "gone"
  /\ UNCHANGED <<clientVars, cpc, command, wire, cur, fetchVars, sent, outcome, kept>>

ClientStep == BuiltinWrites \/ Builtin \/ TakeNar \/ TakeNarEnd \/ TakeReply \/ TakeEof

DaemonStep ==
  \/ ReadCommand \/ ReadEof \/ Narinfo \/ P2pDownload \/ HttpCandidate \/ HttpExhausted
  \/ Verify \/ DeliverDirect \/ NotWritten \/ FlushTraces \/ StreamNar \/ Keep \/ FlushReply

Next == ClientStep \/ DaemonStep \/ Send \/ CloseInput \/ Killed \/ HandlerDies

Spec == Init /\ [][Next]_vars

(* Both processes go on as long as they can: the client reads what has     *)
(* arrived, and every wait of the handler has a deadline (the timeouts of  *)
(* the P2P phases and of the HTTP client).  Nothing makes guix-daemon ask, *)
(* or anything fail.                                                       *)
FairSpec == Spec /\ WF_vars(ClientStep) /\ WF_vars(DaemonStep)

-----------------------------------------------------------------------------
(* Properties. *)

Service == INSTANCE SubstituteService WITH
  form <- Form, status <- IF cpc \in Ended THEN cpc ELSE "running"

(* Whoever guix-daemon talks to, through whatever failures, the process    *)
(* keeps the substitute protocol: one terminal reply per request, in       *)
(* order, and "success" exactly when the destination holds the verified    *)
(* NAR, in the one form that this substituter writes (try_swarm_substitute,*)
(* forward, handle-relay-output).                                          *)
ImplementsService == Service!Spec

(* The NarStore trusts its caller (save_with_source checks no hash): what  *)
(* try_swarm_substitute gives it is the NAR of the narinfo, and guix-p2p   *)
(* hands out to other peers nothing it would not accept itself.            *)
KeptIsGenuine == \A k \in kept : k.data = "genuine"

(* try_swarm_substitute reports not-found for a path with a narinfo only   *)
(* when every method that the policy allows has failed, or (direct         *)
(* process) the destination could not be written.  A download that         *)
(* succeeds and has another hash ends in hash-mismatch (README, section 6).*)
Methods == IF policy = "p2p-only" THEN {"p2p"} ELSE {"p2p", "http"}
GivesUpLast ==
  [][(dpc \in {"p2p", "http"}) /\ (outcome' = "not-found" \/ Len(replies') > Len(replies))
       => failures' = Methods]_vars

(* Nobody waits for ever: a request is answered, or its process ends (the  *)
(* error paths of try_swarm_substitute that write no reply close the       *)
(* connection or follow its end).                                          *)
RequestsSettle == (Alive /\ Len(replies) < asked) ~> (Len(replies) = asked \/ ~Alive)
=============================================================================
