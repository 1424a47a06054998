------------------------------- MODULE Serving -------------------------------
(***************************************************************************)
(* The serving side of a node.  handle_block_exchange (src/runtime.rs)     *)
(* takes a request of another peer, has NarStore::handle_request           *)
(* (src/nar_store.rs) read the reply from disk, and starts a task that     *)
(* waits for the upload allowance (src/bandwidth.rs).  When the task is    *)
(* done the swarm task hands the reply to its channel, which may have      *)
(* closed, and puts a BlockServed event on the dashboard's bus, where the  *)
(* listeners of src/dashboard.rs find it, if they are not too slow: the    *)
(* bus forgets.                                                            *)
(*                                                                         *)
(* Bytes are positions in a NAR file; a block is the interval of its file  *)
(* that the reply carries.  The limiter is the leaky-bucket library's: a   *)
(* balance of at most one second's allowance, refilled once a second.      *)
(***************************************************************************)
EXTENDS Naturals, Sequences, Lists

CONSTANTS
  Peers,
  Nars,
  Sizes,         \* sizes that a NAR file may have
  BlockSize,     \* config.block_size
  IndexLists,    \* what a peer may ask for
  HashBytes,     \* size of a block hash
  ErrorBytes,    \* size of the error message
  Timeout,       \* seconds until the channel of a request closes
  Rates,         \* values of max_upload_rate_kbps, in bytes; 0 is also "unset"
  Listeners,     \* tasks that record what happens: "history" and "transfers"
  BusCapacity,   \* of the event bus
  HistoryLimit,  \* EVENT_HISTORY_LIMIT
  MaxRequests,   \* bound: requests of peers
  MaxOthers      \* bound: events of the other tasks

ASSUME ServingAssumption ==
  /\ IsFiniteSet(Peers)
  /\ Sizes \subseteq Nat /\ BlockSize \in Nat \ {0}
  /\ IndexLists \subseteq Seq(Nat) /\ << >> \notin IndexLists
  /\ HashBytes \in Nat /\ ErrorBytes \in Nat /\ Timeout \in Nat /\ Rates \subseteq Nat
  /\ Listeners = {"history", "transfers"}
  /\ BusCapacity \in Nat \ {0} /\ HistoryLimit \in Nat
  /\ MaxRequests \in Nat /\ MaxOthers \in Nat

VARIABLES
  size,        \* size of each NAR, as its index entry has it
  file,        \* size of its file now
  index,       \* NARs in NarStore.index
  readable,    \* NARs whose file can be read
  rate,        \* upload_limit_bytes_per_sec
  balance,     \* what the limiter can give out now
  tasks,       \* replies that wait for their allowance, each in a task of its own
  outbox,      \* response_tx: replies that have it, in order
  sent,        \* what was sent
  unanswered,  \* requests for blocks that got no reply
  uploaded,    \* bytes of it
  requests,    \* requests so far
  others,      \* events of other tasks so far
  bus,         \* events sent to the bus; receivers find the last BusCapacity of them
  cursor,      \* how many of them each listener has received or lost
  lagged,      \* listeners that have lost events
  next_id, entries,   \* EventHistory
  total, blocks,      \* TransferStats: total_blocks_served, serving_peers[..].blocks
  refills      \* refills of a balance that was not full

storeVars == <<size, file, index, readable>>
replyVars == <<tasks, outbox, sent, unanswered, uploaded, requests>>
viewVars  == <<cursor, lagged, next_id, entries, total, blocks>>
vars == <<storeVars, rate, balance, replyVars, others, bus, viewVars, refills>>

Block == [index : Nat, from : Nat, to : Nat]
Reply == [kind : {"handshake", "blocks", "error"}, block_count : Nat, hashes : Nat,
          data : Seq(Block)]
\* A reply, with the size of the file it was read from and the second the request came.
Task == [reply : Reply, nar : Nars, peer : Peers, asked : Seq(Nat), file : Sizes,
         since : Nat, left : Nat]
Event == [kind : {"BlockServed"}, nar : Nars, peer : Peers, indices : Nat]
           \cup [kind : {"other"}]

(* The values each variable takes. *)
TypeOK ==
  /\ size \in [Nars -> Sizes] /\ file \in [Nars -> Sizes]
  /\ index \in SUBSET Nars /\ readable \in SUBSET Nars
  /\ rate \in Rates /\ balance \in 0 .. rate
  /\ DOMAIN tasks \subseteq 1 .. MaxRequests /\ \A i \in DOMAIN tasks : tasks[i] \in Task
  /\ outbox \in Seq(Task) /\ uploaded \in Nat
  /\ sent \in SUBSET [reply : Reply, nar : Nars, asked : Seq(Nat), file : Sizes]
  /\ unanswered \in SUBSET [nar : Nars, asked : Seq(Nat)]
  /\ requests \in 0 .. MaxRequests /\ others \in 0 .. MaxOthers
  /\ bus \in Seq(Event) /\ cursor \in [Listeners -> 0 .. Len(bus)]
  /\ lagged \in SUBSET Listeners
  /\ next_id \in Nat /\ entries \in Seq([id : Nat, event : Event])
  /\ Len(entries) <= HistoryLimit
  /\ total \in [Nars -> Nat] /\ blocks \in [Nars -> [Peers -> Nat]]
  /\ refills \in Nat

Init ==
  /\ size \in [Nars -> Sizes] /\ file = size /\ index \in SUBSET Nars /\ readable = index
  /\ rate \in Rates /\ balance = rate
  /\ tasks = << >> /\ outbox = << >> /\ sent = {} /\ unanswered = {} /\ uploaded = 0 /\ requests = 0
  /\ others = 0 /\ bus = << >>
  /\ cursor = [l \in Listeners |-> 0] /\ lagged = {}
  /\ next_id = 0 /\ entries = << >>
  /\ total = [n \in Nars |-> 0] /\ blocks = [n \in Nars |-> [p \in Peers |-> 0]]
  /\ refills = 0

-----------------------------------------------------------------------------
(* Replies. *)

Least(a, b) == IF a < b THEN a ELSE b

\* Fault: a last block that is not full is forgotten.
BlockCount_Full(n) == n \div Least(BlockSize, IF n = 0 THEN 1 ELSE n)

\* BlockInfo::from_file_size: an empty file counts as one byte.
BlockCount(n) ==
  LET effective == IF n = 0 THEN 1 ELSE n
      bs == Least(BlockSize, effective)
  IN effective \div bs + (IF effective % bs > 0 THEN 1 ELSE 0)

\* compute_block_hashes: one for each chunk of the file.
HashCount(n) == (n + BlockSize - 1) \div BlockSize

\* handle_request for a handshake: the count is that of the index entry, the hashes are those
\* of the file; a file that cannot be read gives an empty reply.
HandshakeReply(n) ==
  LET known == n \in readable IN
  [kind |-> "handshake", data |-> << >>,
   block_count |-> IF known THEN BlockCount(size[n]) ELSE 0,
   hashes |-> IF known THEN HashCount(file[n]) ELSE 0]

\* The block with number i of a file of z bytes, where it has one.
BlockAt(i, z) ==
  [index |-> i, from |-> i * BlockSize, to |-> Least(i * BlockSize + BlockSize, z)]

\* serve_blocks: those of the blocks that the file has.
Inside(z, indices) ==
  Retained(indices, {k \in DOMAIN indices : indices[k] * BlockSize < z})

BlocksReply(z, inside) ==
  [kind |-> IF inside = << >> THEN "error" ELSE "blocks", block_count |-> 0, hashes |-> 0,
   data |-> [k \in DOMAIN inside |-> BlockAt(inside[k], z)]]

DataBytes(data) == Total([k \in DOMAIN data |-> data[k].to - data[k].from])

\* response_size_bytes
ResponseSize(r) ==
  CASE r.kind = "handshake" -> HashBytes * r.hashes
    [] r.kind = "blocks" -> DataBytes(r.data)
    [] r.kind = "error" -> ErrorBytes

-----------------------------------------------------------------------------
(* The swarm task, and a task for each reply. *)

Queue(p, n, asked, r) ==
  LET free == CHOOSE i \in 1 .. MaxRequests :
                i \notin DOMAIN tasks /\ \A j \in 1 .. i - 1 : j \in DOMAIN tasks
      task == [reply |-> r, nar |-> n, peer |-> p, asked |-> asked, file |-> file[n],
               since |-> refills, left |-> ResponseSize(r)]
  IN tasks' = [i \in DOMAIN tasks \cup {free} |-> IF i = free THEN task ELSE tasks[i]]

Arrives ==
  /\ requests < MaxRequests
  /\ requests' = requests + 1
  /\ UNCHANGED <<storeVars, rate, balance, outbox, sent, uploaded, others, bus, viewVars, refills>>

\* handle_block_exchange, BlockRequest::Handshake
RequestHandshake(p, n) ==
  /\ Arrives /\ UNCHANGED unanswered
  /\ IF n \in index THEN Queue(p, n, << >>, HandshakeReply(n)) ELSE UNCHANGED tasks

\* handle_block_exchange, BlockRequest::GetBlocks.  A request that cannot be served gets no
\* reply: its channel is dropped.
RequestBlocks(p, n, indices) ==
  /\ Arrives
  /\ IF n \in index /\ n \in readable
       THEN /\ \E s \in Inside(file[n], indices) :
                 Queue(p, n, indices, BlocksReply(file[n], s))
            /\ UNCHANGED unanswered
       ELSE /\ unanswered' = unanswered \cup {[nar |-> n, asked |-> indices]}
            /\ UNCHANGED tasks

\* Fault: a limit of 0 is taken for a limit.
Limited_EvenZero == TRUE

\* rate_limiter: no limit, or a limit of 0, is no limiter.
Limited == rate > 0

\* Fault: a reply of more than a second's allowance waits for one second's only.
LeftAfter_OneChunk(left) == 0

\* What a reply still has to wait for after a turn of the loop in consume.
LeftAfter(left) == left - Least(left, rate)

Acquire(i) ==
  /\ Limited /\ tasks[i].left > 0
  /\ LET chunk == Least(tasks[i].left, IF rate > 0 THEN rate ELSE 1) IN
       /\ balance >= chunk
       /\ balance' = balance - chunk
  /\ tasks' = [tasks EXCEPT ![i].left = LeftAfter(@)]
  /\ UNCHANGED <<storeVars, rate, outbox, sent, unanswered, uploaded, requests, others, bus,
                 viewVars, refills>>

\* The loop is over, and the reply goes to the swarm task.
Released(i) ==
  /\ ~Limited \/ tasks[i].left = 0
  /\ outbox' = Append(outbox, [tasks[i] EXCEPT !.left = 0])
  /\ tasks' = [j \in DOMAIN tasks \ {i} |-> tasks[j]]
  /\ UNCHANGED <<storeVars, rate, balance, sent, unanswered, uploaded, requests, others, bus,
                 viewVars, refills>>

\* The channel of a reply is open until its request times out, or until its connection closes.
\* Of k refills the first may come at once: k - 1 seconds have passed for sure.
InTime(t) == refills - t.since <= Timeout

\* The arm of response_rx: send_response, whose failure nobody looks at, and an event.
SendResponse ==
  /\ outbox # << >>
  /\ LET t == Head(outbox) IN
       /\ \/ /\ InTime(t)
             /\ sent' = sent \cup {[reply |-> t.reply, nar |-> t.nar, asked |-> t.asked,
                                   file |-> t.file]}
             /\ uploaded' = uploaded + ResponseSize(t.reply)
          \/ UNCHANGED <<sent, uploaded>>
       /\ bus' = Append(bus, [kind |-> "BlockServed", nar |-> t.nar, peer |-> t.peer,
                              indices |-> Len(t.asked)])
  /\ outbox' = Tail(outbox)
  /\ UNCHANGED <<storeVars, rate, balance, tasks, unanswered, requests, others, viewVars, refills>>

\* A second has passed.
Refill ==
  /\ balance < rate
  /\ balance' = rate
  /\ refills' = refills + 1
  /\ UNCHANGED <<storeVars, rate, replyVars, others, bus, viewVars>>

\* The dashboard or another program removes a NAR, or its file only.
Remove(n) ==
  /\ n \in readable
  /\ readable' = readable \ {n}
  /\ index' \in {index, index \ {n}}
  /\ UNCHANGED <<size, file, rate, balance, replyVars, others, bus, viewVars, refills>>

\* The NAR is saved again, and the write stops early (the disk is full) or makes up for one
\* that did; the index entry stays what it was.
Rewrite(n) ==
  /\ n \in readable
  /\ \E z \in Sizes : z <= size[n] /\ z # file[n] /\ file' = [file EXCEPT ![n] = z]
  /\ UNCHANGED <<size, index, readable, rate, balance, replyVars, others, bus, viewVars, refills>>

-----------------------------------------------------------------------------
(* The listeners of the dashboard. *)

\* The other tasks report what they do on the same bus.
OtherEvent ==
  /\ others < MaxOthers
  /\ others' = others + 1
  /\ bus' = Append(bus, [kind |-> "other"])
  /\ UNCHANGED <<storeVars, rate, balance, replyVars, viewVars, refills>>

Behind(l) == Len(bus) - cursor[l]

\* RecvError::Lagged: the receiver goes on with the oldest event that is left.
Lag(l) ==
  /\ Behind(l) > BusCapacity
  /\ cursor' = [cursor EXCEPT ![l] = Len(bus) - BusCapacity]
  /\ lagged' = lagged \cup {l}
  /\ UNCHANGED <<storeVars, rate, balance, replyVars, others, bus, next_id, entries, total,
                 blocks, refills>>

Receives(l) ==
  /\ Behind(l) \in 1 .. BusCapacity
  /\ cursor' = [cursor EXCEPT ![l] = @ + 1]
  /\ UNCHANGED <<storeVars, rate, balance, replyVars, others, bus, lagged, refills>>

\* Fault: the newest entry goes when the history is full.
Shortened_Newest(s) == IF Len(s) > HistoryLimit THEN SubSeq(s, 1, HistoryLimit) ELSE s

\* pop_front, as often as needed.
Shortened(s) == IF Len(s) > HistoryLimit THEN SubSeq(s, Len(s) - HistoryLimit + 1, Len(s)) ELSE s

\* maintain_event_history and record_event_history
RecordEventHistory ==
  /\ Receives("history")
  /\ next_id' = next_id + 1
  /\ entries' = Shortened(Append(entries, [id |-> next_id, event |-> bus[cursor["history"] + 1]]))
  /\ UNCHANGED <<total, blocks>>

\* Fault: a peer's count is that of its last reply.
RecordTransferPeer_Last(old, count) == count

\* record_transfer_peer
RecordTransferPeer(old, count) == old + count

\* maintain_transfers, BlockServed: a handshake has no indices and counts for nothing.
MaintainTransfers ==
  /\ Receives("transfers")
  /\ LET e == bus[cursor["transfers"] + 1] IN
       IF e.kind = "BlockServed" /\ e.indices > 0
         THEN /\ total' = [total EXCEPT ![e.nar] = @ + e.indices]
              /\ blocks' = [blocks EXCEPT ![e.nar][e.peer] = RecordTransferPeer(@, e.indices)]
         ELSE UNCHANGED <<total, blocks>>
  /\ UNCHANGED <<next_id, entries>>

Next ==
  \/ \E p \in Peers, n \in Nars :
       RequestHandshake(p, n) \/ \E s \in IndexLists : RequestBlocks(p, n, s)
  \/ \E i \in DOMAIN tasks : Acquire(i) \/ Released(i)
  \/ SendResponse \/ Refill \/ OtherEvent
  \/ \E n \in Nars : Remove(n) \/ Rewrite(n)
  \/ \E l \in Listeners : Lag(l)
  \/ RecordEventHistory \/ MaintainTransfers

Spec == Init /\ [][Next]_vars

(* Seconds pass, and the runtime goes on with a task that can go on.  The  *)
(* listeners need not keep up.                                             *)
FairSpec ==
  /\ Spec
  /\ WF_vars(Refill) /\ WF_vars(SendResponse)
  /\ WF_vars(\E i \in DOMAIN tasks : Acquire(i) \/ Released(i))

-----------------------------------------------------------------------------
(* Properties. *)

Elements(s) == {s[i] : i \in DOMAIN s}
Replies == Elements(tasks) \cup Elements(outbox) \cup sent

Bytes(b) == b.from .. b.to - 1

\* A handshake that offers something.
Offer(t) == t.reply.kind = "handshake" /\ t.reply.block_count > 0

\* Reply u has the blocks that were asked for, all of them and in that order.
Complete(u) == [k \in DOMAIN u.reply.data |-> u.reply.data[k].index] = u.asked

\* A request for blocks that a handshake counted.
Covered(asked, count) == asked # << >> /\ \A i \in Elements(asked) : i < count

(* What a handshake advertises is the NAR, as long as the file is what the *)
(* index says and is not empty: there is a hash for each of its blocks,    *)
(* the blocks it counts are all the bytes of the file and share none, and  *)
(* a reply that is read from the same file to a request for some of them   *)
(* has all that were asked for.  That holds for sizes around a multiple of *)
(* the block size, and however long the replies wait and the file changes  *)
(* and comes back meanwhile (from_file_size, compute_block_hashes,         *)
(* serve_blocks, handle_request).  It says nothing of requests without a   *)
(* reply, of a file that differs from its index entry, or of replies that  *)
(* come too late: the next three are what the documentation says of those, *)
(* and do not hold (README, section 6).                                    *)
AdvertisedIsServed ==
  \A t \in Replies : Offer(t) /\ t.file = size[t.nar] /\ t.file > 0 =>
    LET count == t.reply.block_count
        all == {BlockAt(i, t.file) : i \in 0 .. count - 1}
    IN /\ t.reply.hashes = count
       /\ UNION {Bytes(b) : b \in all} = 0 .. t.file - 1
       /\ \A b, c \in all : b # c => Bytes(b) \cap Bytes(c) = {}
       /\ \A u \in Replies :
            u.nar = t.nar /\ u.file = t.file /\ Covered(u.asked, count) => Complete(u)

(* docs/swarm-protocol.md: a peer must "serve at least the blocks claimed  *)
(* in HANDSHAKE_REPLY".  The code takes the claim from the index and the   *)
(* blocks from the file (handle_request, serve_blocks).                    *)
ClaimedIsServed ==
  \A t, u \in Replies :
    Offer(t) /\ u.nar = t.nar /\ Covered(u.asked, t.reply.block_count) => Complete(u)

(* docs/swarm-protocol.md: a peer must "respond to each GET_BLOCKS         *)
(* request".  A request for blocks that a handshake has claimed gets no    *)
(* reply at all once the file cannot be read (serve_blocks).               *)
RequestsAnswered ==
  \A t \in sent, u \in unanswered :
    ~(Offer(t) /\ u.nar = t.nar /\ Covered(u.asked, t.reply.block_count))

(* docs/swarm-protocol.md: a peer must respond within 10 seconds to a      *)
(* handshake and within 30 to a request for blocks.  A reply that is ready *)
(* finds the channel of its request open; a low upload limit keeps it      *)
(* waiting until the channel has closed (wait_for_upload, send_response).  *)
RepliesInTime == \A i \in DOMAIN outbox : InTime(outbox[i])

(* docs/configuration.md: max_upload_rate_kbps caps what is served.  All   *)
(* replies so far are no more than the allowance of the seconds so far,    *)
(* however many wait at the same time and however large one is (consume).  *)
UploadCapped == rate > 0 => uploaded <= rate * (refills + 1)

(* No reply waits for ever, whatever its size, the limit and the other     *)
(* replies, and 0 is no limit: each is handed to its channel in the end,   *)
(* open or closed (rate_limiter, consume, the task of                      *)
(* handle_block_exchange).                                                 *)
RepliesLeave == tasks # << >> ~> (tasks = << >> /\ outbox = << >>)

(* docs/architecture.md: /api/events returns the latest events with a      *)
(* monotonic id.  The ids follow each other, and as long as the listener   *)
(* was not too slow the entries are the last events it has received        *)
(* (maintain_event_history, record_event_history).                         *)
HistoryIsLatest ==
  /\ \A i \in DOMAIN entries : entries[i].id = next_id + i - 1 - Len(entries)
  /\ Len(entries) = Least(next_id, HistoryLimit)
  /\ "history" \notin lagged =>
       \A i \in DOMAIN entries : entries[i].event = bus[entries[i].id + 1]

(* The blocks served of a NAR are those of its peers, and as long as the   *)
(* listener was not too slow they are the blocks asked for in the replies  *)
(* it knows of, whether or not they were sent or had all of them           *)
(* (maintain_transfers, record_transfer_peer).                             *)
TransfersAddUp ==
  \A n \in Nars :
    /\ total[n] = Total(blocks[n])
    /\ "transfers" \notin lagged =>
         total[n] = Total([k \in 1 .. cursor["transfers"] |->
                       IF bus[k].kind = "BlockServed" /\ bus[k].nar = n THEN bus[k].indices ELSE 0])
=============================================================================
