# Verification of guix-p2p

guix-p2p is a substituter for GNU Guix that fetches NARs (store archives) from
peers over libp2p and falls back to HTTP substitute servers. This directory
holds TLA+ models of its core, the TLC configurations that check them, and
proofs that TLAPS checks. `PROJECT.json` lists components, runs, mutants, the
correspondence of definitions and source lines, findings, hazards and theorems.

## 1. The system

### Parts, their state and their operations

| Part | State | Operations | Module |
|---|---|---|---|
| Block scheduler: `download_blocks_from_peers` (`daemon.rs`), `ActiveDownload` (`swarm/downloader.rs`) | state of each block, slots and failures of each peer, copies received, two deadlines | dispatch, requeue (expired, rejected, failed), record a response, assemble | `BlockDownload`, with the open requests: `BlockRequests` |
| Connection manager (`connection.rs`) | known peers: connected, attempts, last attempt, last activity | connect, disconnect, activity, attempt, `can_connect`, prune | `ConnectionManager` |
| P2P session: `try_p2p_download`, `handshake_with_providers`, `wait_for_providers` (`daemon.rs`); reputation (`reputation.rs`); swarm task (`runtime.rs`, `dht.rs`); notification bus (`channel.rs`) | what each worker has found, asked and heard; failures per peer; open requests and queries; provider cache; a bounded broadcast queue per receiver | lookup, refresh, selection, handshake round, retry, fallback round; answers, failures, DHT results, connection events, prune tick | `P2pDownload` |
| NAR store (`nar_store.rs`), start-up (`main.rs`), seed API (`dashboard.rs`, `dashboard/seed_config.rs`), health monitor | index, cache files, sidecar metadata, `config.toml`, what was announced | scan, save, seed, annotate, remove, announce; POST and DELETE of seeds; read, truncate, write of the configuration | `Seeds` |
| Substitution: `try_swarm_substitute`, `handle_socket_connection` (`daemon.rs`), HTTP candidates (`http_client.rs`), relay (`relay.rs`), Guix extension (`guix/extensions/substitute.scm`) | the request, the policy, what was downloaded, frames on the socket, destination | narinfo, P2P, HTTP candidates, verify, deliver, keep, reply; frames taken by the client; end of the connection | `Substitute`, abstract: `SubstituteService` |
| Queries: `handle_have`, `handle_info`, `start_socket_listener` (`daemon.rs`), `NarinfoCache` (`narinfo.rs`), `fetch_verified_narinfo` (`http_client.rs`), relay, wrapper, extension (`substitute.scm`) | cached narinfos with their expiry, the socket file, lines of the built-in substituter and of the daemon | start, connect, ask, merge, write; per path: cache, servers, providers; expiry; stop and start of the daemon | `Query`, abstract: `QueryService` |
| Peer store and identity (`peer_store.rs`, `identity.rs`), their use in `main.rs`, `dht.rs`, `runtime.rs` | key pair file, `peers.json`, entries with time stamps, contacts in the routing table | load or generate, load and prune, record, remove, save; mDNS, identify, connection and dial error events | `PeerBook` |
| Serving: `handle_block_exchange` (`runtime.rs`), `handle_request` (`nar_store.rs`), `bandwidth.rs`, block layout (`swarm/block.rs`), listeners of `dashboard.rs` | replies that wait for their allowance, the limiter, the event bus, event history, transfer counts | handshake and block requests, acquire, send or drop, record | `Serving` |
| Provider probe, connectivity, configuration, diagnostics, dashboard views | see `PROJECT.json` | | not modelled (section 8) |

### How they interact

guix-daemon starts a client (the relay, or the Guix extension) per
substitution or session and writes `substitute` commands to it. The client
forwards them over a Unix socket to the long-lived daemon, which starts one
task per connection. The task fetches a narinfo, tries P2P and HTTP in the order
of the policy, verifies the hash, streams the NAR back as frames, and ends
with one terminal reply. For P2P it sends commands to the swarm task over
an unbounded channel, and learns results from a broadcast channel that *all*
tasks share: each receiver sees everybody's answers, keeps at most 4096, and is
told `Lagged` when it has lost some. The connection manager, the reputation
tracker, the provider cache and the NAR store are shared under mutexes. Peers
serve each other from the NAR store; dashboard requests change it while the
node runs. A reply to a peer waits for its upload allowance in a task of its
own, and is sent by the swarm task when that task is done.

Before it substitutes, guix-daemon asks a process started with `--query` what
there is (`have`) and what it depends on (`info`). With the extension's default
routing that process asks Guix's own substituter first and the daemon about
what is missing; otherwise it passes commands on, or answers itself. All
connections of the daemon share one cache of narinfos.

### What is hard

* Answers to retried, timed-out and foreign requests arrive on one lossy bus,
  with nothing in an answer that names the request it belongs to.
* Two ledgers in one loop (block states and peer slots) and a third in
  `ActiveDownload` must agree after any mix of late, duplicate, rejected and
  failed answers.
* A chain of phases, each with its own deadline and error path, must always end
  in exactly one terminal reply, and that reply must match the destination.
* Files are written in place, and `config.toml` is rewritten with no lock.
* Timeouts of equal length race (block timeout and stall guard).
* An empty line is data in one place of an `info` reply and ends the reply in
  another, and such lines pass through frames, a relay and a merge of two sources.
* The daemon may come and go between any two lines of a query, and leaves a
  socket file that nobody listens on.
* Several processes may share one `cache_dir`, and the clock that orders stored
  peers may be set back.
* Many replies share one upload allowance, and the dashboard's event bus forgets.

The `hazards` in `PROJECT.json` list these at their lines, with the properties
that cover them. Hazards without a property say why.

### What correctness means

* Scheduler: block states and slots agree, nothing accepted is lost or fetched
  again, no peer with a free slot is idle while a block waits, giving up is
  justified, complete means success, and every download ends. (The requests that are
  really open exceed the limit at times, and a slot may stay booked for nothing: section 6.)
* Session: `min_providers` counts different peers; a peer that answered is
  left alone; attempts are bounded; success lifts the backoff; every job ends.
* Store: what is served is what its hash says, through crashes and disk errors;
  acknowledged seeds stay; what is served is announced, unless the announcement or the
  metadata failed.
* Substitution: the contract of `SubstituteService`, only verified NARs are
  kept, giving up comes last, and nobody waits for ever.
* Queries: the contract of `QueryService`, in full until a reply is cut or a narinfo of
  another path is received; no narinfo is used that nobody authorised has signed;
  built-in answers are not lost; what `have` claims `info` describes; a command is
  answered or the process ends, but for the two cases that `QueriesSettle` names.
* Peers and identity: a bounded, ordered list without duplicates that gives up
  the oldest first; nothing local is stored; a private address is in the routing table
  by mDNS, configuration or a connection only; what cannot be dialled goes, but
  for the four cases that `FailedStaysAway` names; one identity.
* Serving: what a handshake advertises is what is served, as long as the file is what the
  index says; the limit holds for everybody together and keeps no reply for ever;
  the views add up.

## 2. Modules and the code

`P2pDownload` extends `ConnectionManager`, and `BlockRequests` extends `BlockDownload`. `Substitute` instantiates
`SubstituteService`, and `Query` `QueryService`. `BlockDownload` stands for the "download" step
of `P2pDownload`, whose outcome is a choice in `Substitute`: each module closes
over the ones below it by letting their result be anything they may return.
`Lists` has what `PeerBook`, `Serving` and `Query` say of lists and sums (`retain`, a
filter, a stable sort, `sum`) in a form without recursion: the result of a filter or a sort is the one list whose
indices are numbered in the wanted order, a sum counts units. Each
`MC...` module only names finite sets for TLC. Mutated forms of a
definition carry the comment `Fault:`, stand before it and are used by nothing.

**BlockDownload.** One download. A pass of the loop from its deadline check to
the receive awaits nothing and is one action (`Pass`), the handling of one
notification another (`BlocksReceived`, `BlockRequestFailed`,
`OtherNotification`, `RecvError`, `Elapsed`). Block contents are "nar" (the bytes
of the narinfo's NAR) or "other"; a hash is identified with the contents it matches,
is "unmatched", or is "missing" past the end of a short list. `HashMap` order is an
arbitrary choice (`Assignments`). A response carries any set of (index, data)
pairs, indices out of range included. An index that occurs twice in one
response with both contents is a set here, of which at most one matches the
hash, as in `record_blocks`. The clock advances with notifications and
timeouts; `MaxBurst` bounds the notifications in one tick.

**BlockRequests.** The scheduler's ledger is not what a peer owes: a notification
names a peer and no request, and one failure frees all slots of its peer. This module
adds the requests that are open (`open`, by the dispatch that made them, `sent`), each
of which ends once, by an answer, an error or a failure. It is about a daemon with one
download, whose peers run this code, so that every notification about blocks ends one
of its requests.

**ConnectionManager, P2pDownload.** A worker is a relay connection with one
receiver of the bus, serving one substitution after another. Deadlines are
choices: a lookup or a round may end at any loop top, so every property
holds for all timeouts. The score order of `best_peers` is arbitrary. Instants
are abstracted to "backoff has passed" and "idle too long". A request is answered
or fails once (request-response of libp2p) at any later time, also after its job.

**Seeds.** A NarStore method runs under one mutex and is one step; a write cut
short by a crash is the step in which that write fails, followed by `Crash`.
`fs::write` is a truncation and a write, two steps, since another request may
read in between. A cache file is "none", "damaged" or "nar"; the start-up scan
compares its hash with its name, and fails to read any file or metadata as a
fault. `Announce` succeeds or fails for each NAR (`Refusable` says for which
`start_providing` may return an error). The ghost variables `acked`, `deleted`, `unsaved`,
`skipped`, `refused` and `overtaken` record what was promised to users and which exceptions
the code admits; no action reads them but to maintain them.

**Substitute, SubstituteService.** The client (four kinds), the socket and the
handler. A NAR is `Chunks` frames; the socket delivers in order and closes when
the handler ends; a handler's writes fail only once the client is gone. A destination is
absent, "partial", a "file" with the NAR's bytes (`write_nar_to_destination` of the relay and
the direct process) or the unpacked "tree" (`restore-file` of the extension): `Form` says
which of the two a client writes, and is a parameter of `SubstituteService`. The
client may be killed and the handler may die (panic, daemon stopped) at any
point. `SubstituteService` is what guix-daemon relies on: requests one by one, one
terminal reply each, `success` exactly with a verified destination, an orderly
end only with everything answered. `status` is mapped to "running" while the
client runs.

**Query, QueryService.** One process started by guix-daemon with one of five
routings (the extension's three, the relay behind the wrapper, guix-p2p itself),
and the handler of its connection. A path is a model value; constants say which
paths are not store paths, which have a NAR hash that is no SHA-256 (it does
not decode, or unwinds the handler) and which have no deriver, since an empty
deriver line is what makes framing hard. `Among` is the filter of `missing-paths`, and
the paths that the built-in substituter knows are chosen with it too. Fd 4 and the socket are sequences of
lines and frames, and guix-daemon reads them with its own idea of where a
reply ends (external). The cache counts the ticks a narinfo has left. The
daemon's stop, start, bind and change of mode are steps, between which a
client may find no socket, a stale one or one it may not open. The servers'
answers are choices: a narinfo whose signature is missing, bad or good, of the path asked
for or, where `Misfiled` allows it, of another, since nobody compares them; the cache has it
under the path asked for (`filed` says which path it is about), `have` names the former
and `info` the latter. A daemon that stops while it writes a reply leaves any part of it on the
wire, down to part of a line (`Begun`, ghost `cut`). A relay whose connection has
ended is "stuck" until its copy of standard input fails or ends. Ghosts: `offered` (by the
built-in substituter), `vouched` and `life` (what was signed, about which path, and for how
long), `claimed`. `QueryService` is one answer per command, in order, naming, as long as the
replies are sound, paths of the command once each.

**PeerBook.** Two processes on one `cache_dir`. A file is truncated in one step
and filled in the next; two writers that overlap leave one of the texts or an
unreadable mixture. A contact is a peer with one of its addresses; constants
say which are loopback, private or may be this host's. `Prune` is the code's
`retain`, deduplication, stable sort (`Before`) and truncation. `Bootstrap` are the configured
peers, which `dht::bootstrap` puts in the routing table whatever their addresses are; a
connection puts the address that was dialled there too (Kad's default). `met` is what this
process has found by mDNS or reached. `removed`, `failed` and `raced` are ghosts. `removed`
has every stored contact whose dial failed. It leaves `failed` in the cases in which
the code lets it come back: another process has it in memory when the dial fails, another
process loads the file before the removal is saved, the process ends before it has opened
the file to save, or the file cannot be opened. `raced` is two first starts at once.

**Serving.** A block is an interval of byte positions, so the layout of
`BlockInfo`, `compute_block_hashes` and `serve_blocks` is computed, not assumed. `size` is what
the index says of a file and `file` what is on disk: `Rewrite` is a save over the file that
fails part of the way or is done again, `Remove` the file's end. A handshake takes its count from
the former and its hashes from the latter. A request that gets no reply is in
`unanswered`. Each reply waits in a task of its own for a limiter that holds at most one second's
allowance (external, `leaky_bucket`); replies leave in the order in which they get
through, and are sent or dropped: the channel of a request may break at any time and is closed after
`Timeout` seconds, counted in refills. The event bus is a sequence of which a receiver finds the last
`BusCapacity` events, and two listeners read it at their own pace.

## 3. Runs

| Run | Question | Bounds |
|---|---|---|
| `block_download` | Do the ledgers of the scheduler agree under every order of events, and does every download end? | 2 peers, 2 blocks, an index past the end, 1 slot per peer, timeouts 1 and 3 ticks; 0.5 M states |
| `p2p_download_safety` | Is the quorum real, and is no one asked in vain? | 1 worker, 2 peers (symmetric), 2 attempts, bus of 2; 1.4 M states |
| `p2p_download_jobs` | Does every job end, and is backoff lifted, with answers left over from an earlier job? | 2 jobs, 1 peer, a connection event or prune tick; 0.28 M states |
| `seeds_safety` | Do seeds survive concurrent requests, disk faults and a crash? | 2 NARs, 2 paths, 2 requests at once (symmetric), 3 in all, 1 download, 1 crash, 2 faults, announcements of one NAR may fail; 3.5 M states |
| `substitute_service` | Does every client with every policy implement the service? | 2 requests, 2 frames, 2 HTTP candidates; 31 k states |
| `query_service` | Is every command answered properly, whoever answers and whenever the daemon comes and goes? | 3 paths (no deriver, bad hash, no store path), 2 commands, 2 servers, narinfos live for 1 tick, 1 tick, 1 stop of the daemon; 1.7 M states |
| `peer_book` | Do the two files and what is in memory stay in order through crashes, other processes and a clock that is set? | 2 processes (symmetric), 3 contacts, one of them configured and loopback, limits 1 and 2, 3 events, 2 starts, 1 change of clock or network, entries live for 1 of 3 ticks; 2.3 M states |
| `serving` | Do handshakes, blocks, the limit and the views fit each other? | 1 peer, 1 NAR of 0, 3 or 4 bytes with blocks of 2, no limit or 3 bytes a second, channels open for 1 s, 2 requests, 1 other event, bus of 1, history of 2; 2.4 M states |
| `limit_exceeded`, `handshake_of_other_nar`, `config_settings_lost`, `narinfo_of_another_path` | the findings of section 6 | smallest that shows them |

The two runs of `P2pDownload` ask for different sizes, more peers or more jobs; one
instance with both is too large.

Why the bounds are enough for the cases of interest. Two blocks and two peers
with one slot each let a block time out at one peer, move to the other and come
back late from the first, while the other block competes for both slots. With
`OverallTimeout` past `StallTimeout` every break of the loop occurs. Two
providers with `min_providers` 2 allow a partial first round and a fallback; a bus
of 2 (and of 1) overflows. Two seed requests suffice for every race on
`config.toml`, and two faults for a failed repair of a failed write. Two
requests show whatever one substitution leaves for the next. Two query commands
are a `have` and the `info` that follows it, one tick is the expiry of a narinfo, and one
stop makes a daemon go away and come back. With limits 1 and 2 a later start
may cut the list of an earlier one, two starts are two processes that overlap or one
that comes back after a crash, and the clock, which starts at 1 of 3, may go back, on, or far
enough for an entry to expire. File sizes 0, 3 and 4 are empty, a block and a part,
and a multiple, and files are cut to the smaller ones; a reply of 4 bytes exceeds a
second's allowance of 3, and two of them share it. That narinfos are of another path than
asked for (`Misfiled`) makes `query_service` five times as large, and too large for
its liveness property; `narinfo_of_another_path` has them, and the theorems on `Query` hold
with them. The theorems of section 5 carry the main invariants to every size.

Deadlock is checked in `BlockDownload` and `P2pDownload`. In the other modules the
bounded requests, commands, events and starts are used up and nothing need follow.

## 4. Fairness

* `BlockDownload!FairSpec`: weak fairness of `Next`. The loop is one task that
  tokio polls when its receive or its 1 s timeout is ready, and `Elapsed` is always
  possible at the receive. `MaxBurst` says that a tick of the clock holds
  finitely many notifications. Nothing is assumed of peers.
* `P2pDownload!FairSpec`: weak fairness of reading the cache, of the *ends* of
  lookups and rounds (each has a deadline in the code), and of the end of the
  block download, which is `Termination` above. None for answers.
* `Substitute!FairSpec`: weak fairness of the client's reads and of the
  handler. Every wait of the handler has a deadline: the P2P phases their own,
  the HTTP client a total request timeout. Nothing makes guix-daemon ask, the
  client die or the handler fail.
* `Query!FairSpec`: weak fairness of the client's steps, with guix-daemon's reading
  of what it is sent, and of the handler's, whose waits have timeouts
  (`create_http_client`, `wait_for_providers_for_duration`). The daemon need not start,
  come back or finish binding.
* `Serving!FairSpec`: seconds pass (`Refill`), tasks that have their allowance go
  on, and the swarm task sends what is ready. The listeners need not keep up.
* `PeerBook` states safety only and no fairness.

## 5. Proofs

All theorems hold for every value of the constants that satisfies the named
assumptions of the modules. Each safety property that a passing run checks is proved; so
are the action properties and both refinements.
Arguments, by module:

* `BlockDownload_proofs`: every safety property of the scheduler (eight
  theorems: `TypeCorrect`, `SlotsAgree`, `OpenRequestsBounded`, `CompleteIsHeld`,
  `RoomIsUsed`, `GivesUpRightly`, `CompleteSucceeds`, `AcceptedStays`), for any
  number of peers and blocks. From `Peers` finite, the two markers not peers, and
  `MaxInFlight` positive. The inductive invariant `IInv` adds to the checked
  properties that the contents held match the hash they were accepted for
  (`ContentsMatch`), which makes assembling succeed, and `LeftOnce`, which
  ties the reason for leaving the loop to the state then: `GiveUpJustified`
  is about a state after further steps. That a peer never has more slots than
  `MaxInFlight` is a lemma: the slots are a set whose size grows by one per assigned
  block, in the order of the walk (`DispatchCapacity`: the block given last was admitted
  below the limit, and all others were counted then). `OpenRequestsBounded` says of
  `BlockRequests` what is left of the documented limit: what a peer owes is at most its
  slots and `MaxInFlight` for each failure counted against it. A pass adds to the open requests what it
  adds to the slots, an expired block costs a slot and counts a failure, and a failed request
  empties at most `MaxInFlight` slots and counts one (`ReqInv`, with `Untouched` for the
  first dispatch). It is a theorem and not a property of a run; the run of
  `BlockRequests`, `limit_exceeded`, shows that the limit itself does not hold.
* `P2pDownload_proofs`: `TypesKept`, `NobodyCountedTwice`, `QuorumHolds`,
  `BudgetHolds`, `AnsweredAreLeftAlone`, for any number of workers, jobs and peers.
  The invariant `SessionInv` says of each worker that a peer it waits for has
  not answered in this job (`Apart`; without it a late second reply would count
  twice), that only a round waits for anyone (`Quiet`), that a job has asked nobody
  before its first round (`Fresh`), what the decision to download has seen
  (`Quorum`), and that what a round has sent is what it counts, on top of the round
  before it (`Budget`). Steps of other workers and of the swarm task leave a
  session as it is (`Same`). `BackoffReset` has a hypothesis that the others do not:
  one worker. With two, an attempt of the other puts a peer that has answered
  this one under backoff again.
* `Seeds_proofs`: `OnlyGenuineServed` and `MetadataAgrees`. The invariant `SInv`
  is the two properties with the types they need. Every action but the scan and
  a crash is, on the store, one of four steps (`StoreStep`); a save only
  happens to a NAR that is not indexed, so that a failing write never damages
  a file that is served. `AckedSeedsSurvive` extends `SInv` to the paths that are acknowledged *or
  will be* (`Held`): their NARs are safe from any single fault (`Safe`), because
  as long as nothing has failed they are indexed and no save opens their file.
  `SeedsAreAnnounced` follows from the requests that are about to announce (`AboutTo`); its
  exceptions are a save that failed after it had indexed the NAR, a seed request whose client went
  away (both `skipped`), and an error of `start_providing` (`refused`).
* `Substitute_proofs`: `OnlyGenuineKept`, whose invariant adds that past the
  verification (`deliver`, `stream`, `keep`) the downloaded data are genuine.
  `ServiceImplemented` is the refinement `Spec => Service!Spec`, for every kind of client, any number of
  requests and any number of frames. Its invariant `ProtocolInv` counts replies
  against requests (`Counted`), keeps later destinations untouched, ties the
  handler and the command on its way to the last request (`Placed`), and
  describes, for each place of the handler, what the client has taken and what is
  still on the wire (`Delivering`): the frames of one NAR in order, with the
  terminal reply behind them, or a refusal alone, or a destination that is already
  written, in the one form of its client. `GivesUpAfterAll` rests on `FetchInv`, the methods that have failed at each
  place of the handler.
* `Query_proofs`: `OnlyVouchedNamed` and `ClaimsDescribed`, for any `Misfiled`. `QueryInv` says that the
  cache has only what somebody vouched for, under the path it was asked for, and for as long as
  that is valid (`Caching`), that a lookup past the cache is about a store path (`Looking`), and
  that buffer, wire and, for the direct process, fd 4 name paths that a narinfo
  was received for (`have`) or is about (`info`) (`Sending`, `Telling`). From the
  frame words not being paths (a path starts with `/gnu/store/`).
  `BuiltinNeverLost` and the refinement `QueryImplemented` (`Spec => Service!Spec`) rest on
  `AnswerInv`, which is about where guix-daemon finds the end of a reply. It holds while
  `Sound` does: no reply was cut, and every narinfo is of the path asked for. Neither
  comes back once lost, so that the theorems say what is true up to then, and the
  refinement keeps one answer per command after it (`Typing`). Lines are the
  records of a list of paths (`Part`), with the empty line at their end (`Whole`); an
  info record may have an empty line inside, and an end is only looked for where a record
  may start, so a `Whole` has one end, its last line (`PartRead`, `WholeRead`). At
  any time there is at most one reply, and it is in one of six places (`Reply`): nowhere,
  asked for, being written (`Drafting`: the records so far and the paths still to
  look at have nothing in common), written, on its way (`Arriving`: what has
  arrived and the frames on the wire are one `Whole`), or cut off by a direct process that
  failed, whose lines have no end yet. `Merging` says of the extension that the built-in lines are
  the records of what was offered, that the daemon's are of other paths (it was only asked
  for the missing ones), and that what is written is one `Whole` with both.
  When guix-daemon reads, nothing is left on fd 4, and on a connection that lives on
  nothing is under way (`GuixGets`): a later command cannot get the end of an earlier
  answer. That an answer is not longer than the
  query is a pigeonhole argument (`AnswerFits`). Both proofs use that no list
  in `Queries` has a path twice: guix-daemon writes a set of paths, and a handler
  answers a path as often as it is asked.
* `PeerBook_proofs`: `StoreStaysInOrder`, `OnlyOldestEvicted`, `LocalNeverPersisted`,
  `PrivateNeverSpreads`, `FailedNeverReturns`, `IdentityStable`, for any number of
  processes, contacts, starts, clock values and configured peers. The first two need what `retain`, the stable sort
  and the truncation return for a list of any length (`Lists_proofs`). `PrivateNeverSpreads`
  excepts what is configured and what the process itself has met; `FailedNeverReturns` is about
  the contacts that none of its four exceptions applies to (section 2).
  `IdentityStable` needs that the process that makes an identity is the only one
  (`OneIdentity`) and, as the model chooses a new key, that there are fewer keys than
  starts (`KeyCount`).
* `Serving_proofs`: `AdvertisedServed`, `UploadIsCapped`, `HistoryLatest`,
  `TransfersCounted`, for files, blocks, limits and histories of any size, empty files
  included. Every reply that waits, is ready or was sent is one that `handle_request` makes of the
  index entry, for the count, and of the file as it was read, for hashes and blocks
  (`Honest`; each reply remembers the size of that file). Where the two sizes are the same and not
  0, `from_file_size` and `compute_block_hashes` both return
  the one number of blocks that the file needs (`NeedsOne`), and the blocks cover
  the file by division with remainder. `Ledger` is the limiter's account: what was sent, what ready
  replies were given, what waiting ones have been given so far, and the
  balance, are together at most the allowance of the seconds so far. The history
  needs that a listener that lost nothing has numbered each event it received.
* `Lists_proofs`: the lemmas on `Lists` that the last three use. `Retained` keeps exactly the
  chosen elements, in order, and everything if all are chosen; `Total` is a number, grows with a new
  element by its value, and does not depend on the names of the elements. They
  are proved with cardinalities and least counterexamples rather than by induction.

Only model-checked:

* Liveness (`Termination`, `JobsEnd`, `RequestsSettle`, `QueriesSettle`,
  `RepliesLeave`), out of the prover's reach, as `ENABLED` and induction over data are.

The `TypeOK` of `Seeds`, `Substitute`, `Query`, `PeerBook` and `Serving` are not properties
of a run, but are proved (`TypesKept` in each `_proofs` module). Those of `Seeds` and
`Substitute` need that a request at work names a store path and its NAR, and that a
command on its way is for the last request.

## 6. Findings

Each is a run that TLC refutes, with the line of the documentation it
contradicts in `PROJECT.json`.

1. `limit_exceeded`: a failure notification names a peer and no request. One failed
   request frees all slots of its peer, and the next pass asks it again although its other
   requests are open, beyond `max_in_flight_blocks_per_peer`.
2. `handshake_of_other_nar`: a handshake reply names no NAR, and a receiver is not
   drained between jobs, so a late reply to one job is taken for the next.
3. `config_settings_lost`: unlocked read and truncating write of `config.toml`.
4. `narinfo_of_another_path`: the store path of a signed narinfo is not compared with the
   hash part it was fetched for, so `have` claims a path without trusted metadata.

The modules state eight more claims of the documentation that the code does not keep. They
are in no configuration of this directory; TLC refutes each when it takes the place of the
properties in the configuration named.

| Claim | Configuration | What happens |
|---|---|---|
| `ShortHashesReject` (comment at `daemon.rs:1424`) | `BlockDownload.cfg` | A first handshake with fewer hashes than blocks makes `record_blocks` index out of range and unwinds the task (`downloader.rs:79`). |
| `IdlePeersAreAsked` (`docs/swarm-protocol.md:165`) | `BlockRequests_limit.cfg` with 2 blocks, 1 slot, `StallTimeout = 2` | Another peer completes a block late; when the request of the peer it had moved to fails, `requeue_in_flight_blocks_for_peer` frees only blocks that are in flight there. The slot stays booked and the peer is not asked (`daemon.rs:1738`). |
| `DeletedStaysAway` (`docs/architecture.md:963-964`) | `Seeds_settings.cfg` with one NAR, `NarOf <- MCTwins`, 1 crash | Two store paths with equal contents share a cache entry; deleting it leaves one of them configured (`dashboard.rs:685`). |
| `ExtensionReplies` (`docs/architecture.md:531-533`) | `Query.cfg` | A daemon that stops within `write_all` leaves part of an `info` record; the extension ends it with an empty line, guix-daemon takes that for a field, and both wait (`substitute.scm:344`). |
| `FailedIsGone` (`docs/dht-protocol.md:104-106`) | `PeerBook.cfg` | A removal that is not saved, by a crash or an error that is only logged, is undone by the next start (`peer_store.rs:101`). |
| `ClaimedIsServed` (`docs/swarm-protocol.md:123`) | `Serving.cfg` | A file that a failed save has cut, or that is empty (`block.rs:17` counts one block), is advertised with blocks it does not have (`nar_store.rs:404`). |
| `RequestsAnswered` (`docs/swarm-protocol.md:125`) | `Serving.cfg` | A file that cannot be read any more: `serve_blocks` returns `None`, and the channel is dropped without a reply (`nar_store.rs:454`). |
| `RepliesInTime` (`docs/swarm-protocol.md:122-125`) | `Serving.cfg` | A reply waits for its whole allowance; 256 KiB at 16 KiB/s take 16 s, the channel closes after 10 s, and the error of `send_response` is ignored (`runtime.rs:187`). |

Observations without a property, because they are seen in one step, are a matter of
degree, or no document is definite:

* The block timeout equals the stall timeout (`daemon.rs:1532`), so the pass that
  re-requests a silent peer's block elsewhere may end the download;
  `docs/swarm-protocol.md:192` describes the retry.
* An error while reading the body of one HTTP candidate skips the remaining ones
  (`http_client.rs:186`; `docs/architecture.md:343-345` describes trying each).
* The extension restores a tree at the destination (`substitute.scm:113`), the relay and the
  direct process copy the NAR there (`nar_restore.rs:29`). `docs/architecture.md:166-168`
  says that guix-daemon expects a NAR file, `534-537` that the extension restores it.
* A P2P download with the wrong hash ends in `hash-mismatch`, without HTTP, also under
  `p2p-first` (`daemon.rs:689`; `docs/swarm-protocol.md:175-177` says "fall back to HTTP
  download"). Its blocks passed their hashes, and its peers keep the credit for them.
* A NAR whose metadata cannot be written is indexed and served, and not announced
  (`nar_store.rs:206`; `docs/architecture.md:700-701`). An error of `start_providing` is
  only logged (`runtime.rs:232`).
* Configured bootstrap addresses go into the routing table whatever their kind
  (`dht.rs:170`; `docs/dht-protocol.md:100-102` excludes loopback addresses).
* A relay whose daemon is gone waits for its copy of standard input (`relay.rs:195-197`),
  while guix-daemon waits for the reply (`QueriesSettle` excepts it).
* Under `p2p-only`, `have` fetches narinfos from servers although
  `local_narinfo_path` is set (`daemon.rs:210`; `docs/architecture.md:189-191`).
* With a socket file that nobody listens on, the builtin-first extension loses the
  built-in answer along with the process (`substitute.scm:41-44`, `368-392`).
* Under the other policies `have` claims a path whose NAR hash is no SHA-256, and
  `info` leaves it out (`daemon.rs:170`; `docs/architecture.md:183`). `decode_nix_base32` unwinds for texts of 1, 3 or 6
  characters modulo 8.
* A torn key pair file makes every later start fail; two first starts at once may
  leave a process with an identity that is not on disk (`identity.rs:22`).
* Processes that share a `cache_dir` overwrite each other's `peers.json`. At the limit,
  a new contact with the time stamp of the entries it competes with is dropped at once.
* `BlockServed` counts the indices asked for, those out of range too, and is
  emitted even if `send_response` fails (`runtime.rs:186`).
* Rejected blocks do not count as a failure of their peer
  (`requeue_rejected_blocks`, `daemon.rs:1677`).
* Peers that were silent in the first round are asked again in the fallback round.
* A failed request counts twice against a peer (`runtime.rs:381`,
  `daemon.rs:1415`).
* At `max_peers` known entries `can_connect` refuses everyone
  (`connection.rs:157`); `prune_dead` forgets connected peers; a closed connection
  marks a peer disconnected although another may be open.
* The block size in a handshake reply is ignored: a provider with another
  block size is a further cause of finding 2.
* Reputation is saved only when `main` returns (`main.rs:516`), which daemon mode does
  not; the comment at `reputation.rs:41-44` speaks of restarts of the daemon.
* The relay cannot report a missing destination: it waits (`relay.rs:119`).
* `DELETE` of an unknown hash is acknowledged; a deleted seed is not withdrawn
  from the DHT, and the health monitor may announce it once more.
* Narinfos of `local_narinfo_path` expire from the cache after 60 s and are not
  loaded again (`main.rs:331`).
* The loops of `provider_probe.rs` end after one second without a notification.

## 7. Plan

Done: the modules above, in the order scheduler, session, seeds, substitution,
queries, peers and identity, serving with the block layout.

Proved: every safety property of the passing runs, the action properties, that
`Substitute` implements `SubstituteService` and that `Query` implements `QueryService`.

Of the code that is left, the timing loops of the provider probe are the part with
behaviour of its own.

## 8. Not modelled

Parsing and formatting (narinfo text, base32, NAR serialisation, TOML, command
lines), cryptography, libp2p itself (Kademlia, transports, AutoNAT), HTML and
geolocation, diagnostics, packaging and scripts. They enter as choices: a
narinfo is usable or not, its signature is good or not, a query reports some set of
peers, a hash matches, does not, or does not decode. Which keys the ACL holds is
such a choice as well.

Views: sizes and time stamps of seeds, trace lines, the build registry, and of the
dashboard's listeners the arms of `maintain_transfers` for downloads and the
catalogue, which copy fields of an event. The floating-point score of a
peer only orders candidates, for which the models allow any order;
`reputation.json` is read at start and not written by the daemon. The download limiter
is the upload limiter's code applied to HTTP bodies. A node with
`peer_store_enabled = false` keeps no entries and is not modelled. The provider probe and the connectivity status
(section 6, `PROJECT.json`) keep no state that another part reads.

## 9. Running

    tlc -workers 2 -config Seeds_safety.cfg MCSeeds
    tlapm BlockDownload_proofs.tla
