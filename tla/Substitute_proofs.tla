-------------------------- MODULE Substitute_proofs --------------------------
(* Theorems about Substitute, for every number of requests, frames and      *)
(* HTTP candidates.                                                        *)
EXTENDS Substitute, SequenceTheorems, TLAPS

(* KeptIsGenuine made inductive: behind the verification, the data at hand *)
(* is the NAR of the narinfo.                                              *)
VerifiedBehind == dpc \in {"deliver", "stream", "keep"} => data = "genuine"
KInv == KeptIsGenuine /\ VerifiedBehind

(* Every step of the client and of the connection handler keeps KInv.      *)
LEMMA KInvStep == KInv /\ [Next]_vars => KInv'
<1> SUFFICES ASSUME KInv, [Next]_vars PROVE KInv' OBVIOUS
<1> USE DEF KInv, KeptIsGenuine, VerifiedBehind
<1>1. CASE ClientStep
  <2> USE <1>1 DEF ClientStep, daemonVars, fetchVars, clientVars
  <2>1. CASE Builtin BY <2>1 DEF Builtin
  <2>2. CASE BuiltinWrites BY <2>2 DEF BuiltinWrites
  <2>3. CASE TakeNar BY <2>3 DEF TakeNar
  <2>4. CASE TakeNarEnd BY <2>4 DEF TakeNarEnd
  <2>5. CASE TakeReply BY <2>5 DEF TakeReply
  <2>6. CASE TakeEof BY <2>6 DEF TakeEof
  <2> QED BY <2>1, <2>2, <2>3, <2>4, <2>5, <2>6
<1>2. CASE Send \/ CloseInput \/ Killed
  BY <1>2 DEF Send, CloseInput, Killed, daemonVars, fetchVars
<1>3. CASE HandlerDies
  BY <1>3 DEF HandlerDies, fetchVars
<1>4. CASE ReadCommand \/ ReadEof
  BY <1>4 DEF ReadCommand, ReadEof, fetchVars
<1>5. CASE Narinfo
  BY <1>5 DEF Narinfo, NoNarinfo, Terminal, fetchVars
<1>6. CASE P2pDownload
  BY <1>6 DEF P2pDownload, Downloaded, MethodFails, Terminal
<1>7. CASE HttpCandidate \/ HttpExhausted
  BY <1>7 DEF HttpCandidate, HttpExhausted, Downloaded, MethodFails, Terminal
<1>8. CASE Verify
  BY <1>8 DEF Verify, HashMatches, Terminal, fetchVars
<1>9. CASE DeliverDirect \/ NotWritten
  BY <1>9 DEF DeliverDirect, NotWritten, Terminal, fetchVars
<1>10. CASE FlushTraces \/ StreamNar \/ FlushReply
  BY <1>10 DEF FlushTraces, StreamNar, FlushReply, fetchVars
<1>11. CASE Keep
  BY <1>11 DEF Keep, Terminal, fetchVars
<1>12. CASE UNCHANGED vars
  BY <1>12 DEF vars, daemonVars, fetchVars
<1> QED
  BY <1>1, <1>2, <1>3, <1>4, <1>5, <1>6, <1>7, <1>8, <1>9, <1>10, <1>11, <1>12
  DEF Next, DaemonStep

(* What try_swarm_substitute gives to the NarStore is the NAR that the     *)
(* narinfo names, whatever peers and servers have sent.                    *)
THEOREM OnlyGenuineKept == Spec => []KeptIsGenuine
<1>1. Init => KInv
  BY DEF Init, KInv, KeptIsGenuine, VerifiedBehind
<1>2. KInv => KeptIsGenuine
  BY DEF KInv
<1> QED
  BY <1>1, <1>2, KInvStep, PTL DEF Spec

-----------------------------------------------------------------------------
(* Substitute implements SubstituteService. *)

Frames == {"nar", "junk", "nar-end"} \cup Replies
Preparing == {"narinfo", "p2p", "http", "verify", "deliver"}
Resting == {"idle", "gone"}

(* The types that the argument needs.                                      *)
ProtocolTypes ==
  /\ client \in Clients
  /\ cpc \in {"ready", "builtin", "waiting", "draining"} \cup Ended
  /\ asked \in 0 .. MaxRequests
  /\ replies \in Seq(Replies)
  /\ dest \in [1 .. MaxRequests -> {"absent", "partial", "file", "tree"}]
  /\ chunks \in Seq({"nar", "junk"})
  /\ wire \in Seq(Frames)
  /\ dpc \in Preparing \cup Resting \cup {"stream", "keep", "unwritten", "flush"}
  /\ sent \in 0 .. Chunks

(* The client has answered all requests, or all but the last.              *)
Counted ==
  /\ cpc \in {"ready", "draining"} => Len(replies) = asked
  /\ cpc \in {"builtin", "waiting"} => asked = Len(replies) + 1

(* Destinations of requests to come are untouched.                         *)
Untouched == \A r \in 1 .. MaxRequests : r > asked => dest[r] = "absent"

(* A handler at work, or a command on its way to one, is about the last    *)
(* request, which is unanswered if its client still lives.                 *)
Placed ==
  /\ command # 0 => command = asked /\ dpc \in Resting
  /\ dpc \notin Resting => command = 0 /\ cur = asked /\ asked > 0
  /\ command # 0 \/ dpc \notin Resting => cpc \in {"waiting"} \cup Ended
  /\ command # 0 \/ dpc \in Preparing => dest[asked] = "absent"
  /\ dpc \in Preparing => sent = 0
  /\ dpc = "flush" => outcome \in Replies
  /\ client = "direct" => dpc \notin {"stream", "flush", "gone"}
  /\ client # "direct" => dpc # "unwritten"

(* The k-th frame of a NAR that is delivered.                              *)
FrameAt(k) ==
  IF k <= Chunks THEN "nar" ELSE IF k = Chunks + 1 THEN "nar-end" ELSE "success"

(* n frames were sent: ch was taken and wi is on its way.                  *)
Streamed(ch, wi, n) ==
  /\ Len(ch) <= Chunks /\ Len(ch) + Len(wi) = n
  /\ \A i \in 1 .. Len(ch) : ch[i] = "nar"
  /\ \A i \in 1 .. Len(wi) : wi[i] = FrameAt(Len(ch) + i)

(* The destination waits for the NAR, of which n frames were sent.         *)
Streaming(n) == dest[asked] = "absent" /\ Streamed(chunks, wire, n)

(* The destination is written, and what is left on the wire is w.          *)
Written(w) == dest[asked] = Form /\ chunks = << >> /\ wire = w

(* The handler refuses, and the refusal is on the wire.                    *)
Refused ==
  /\ dest[asked] = "absent" /\ chunks = << >>
  /\ \E r \in Replies \ {"success"} : wire = <<r>>

(* What a waiting client of a connection has before it, for each place of  *)
(* the handler.                                                            *)
Delivering ==
  cpc = "waiting" /\ client # "direct" =>
    /\ command # 0 \/ dpc \in Preparing => Streaming(0)
    /\ dpc = "stream" => Streaming(sent)
    /\ dpc = "keep" => Streaming(Chunks + 1) \/ Written(<< >>)
    /\ dpc = "flush" =>
         \/ outcome = "success" /\ (Streaming(Chunks + 1) \/ Written(<< >>))
         \/ outcome \in Replies \ {"success"} /\ Streaming(0)
    /\ dpc \in Resting =>
         \/ \E n \in 0 .. Chunks + 2 : Streaming(n)
         \/ Written(<< >>) \/ Written(<<"success">>)
         \/ Refused

(* The direct process has nobody to send frames to.                        *)
Direct ==
  client = "direct" =>
    /\ wire = << >> /\ chunks = << >>
    /\ cpc = "waiting" /\ dpc = "keep" => dest[asked] = Form
    /\ cpc = "waiting" /\ dpc = "unwritten" => dest[asked] # Form

(* Between requests nothing is on the wire.                                *)
Calm ==
  /\ cpc \in {"ready", "builtin", "draining"} => chunks = << >> /\ wire = << >>
  /\ cpc = "builtin" => client = "builtin-first" /\ dest[asked] \in {"absent", "tree"}
  /\ cpc = "draining" => client = "relay"

ProtocolInv ==
  /\ ProtocolTypes /\ Counted /\ Untouched /\ Placed
  /\ Delivering /\ Direct /\ Calm /\ VerifiedBehind

(* Before the first frame both ends are empty.                             *)
LEMMA NothingStreamed ==
  /\ Streamed(<< >>, << >>, 0)
  /\ \A ch \in Seq({"nar", "junk"}), wi \in Seq(Frames) :
       Streamed(ch, wi, 0) => ch = << >> /\ wi = << >>
<1>1. Streamed(<< >>, << >>, 0) BY SubstituteAssumption DEF Streamed
<1>2. ASSUME NEW ch \in Seq({"nar", "junk"}), NEW wi \in Seq(Frames), Streamed(ch, wi, 0)
      PROVE  ch = << >> /\ wi = << >>
  <2>1. Len(ch) = 0 /\ Len(wi) = 0 BY <1>2 DEF Streamed
  <2> QED BY <2>1
<1> QED BY <1>1, <1>2

(* The handler sends the next frame.                                       *)
LEMMA StreamSends ==
  ASSUME NEW ch \in Seq({"nar", "junk"}), NEW wi \in Seq(Frames), NEW n \in Nat,
         Streamed(ch, wi, n)
  PROVE  Streamed(ch, Append(wi, FrameAt(n + 1)), n + 1)
<1> DEFINE ws == Append(wi, FrameAt(n + 1))
<1>1. /\ Len(ch) \in Nat /\ Len(wi) \in Nat /\ Len(ch) + Len(wi) = n
      /\ Len(ws) = Len(wi) + 1
      /\ ws[Len(wi) + 1] = FrameAt(n + 1)
      /\ \A i \in 1 .. Len(wi) : ws[i] = wi[i]
  BY DEF Streamed
<1>2. ASSUME NEW i \in 1 .. Len(ws) PROVE ws[i] = FrameAt(Len(ch) + i)
  <2>1. CASE i \in 1 .. Len(wi) BY <1>1, <2>1 DEF Streamed
  <2>2. CASE i = Len(wi) + 1
    <3>1. Len(ch) + i = n + 1 BY <1>1, <2>2
    <3> QED BY <1>1, <2>2, <3>1
  <2> QED BY <1>1, <1>2, <2>1, <2>2
<1>3. Len(ch) + Len(ws) = n + 1 BY <1>1
<1> HIDE DEF ws
<1>4. Streamed(ch, ws, n + 1) BY <1>2, <1>3 DEF Streamed
<1> QED BY <1>4 DEF ws

(* The client takes a nar: frame: it is the next of the NAR.               *)
LEMMA StreamTaken ==
  ASSUME NEW ch \in Seq({"nar", "junk"}), NEW wi \in Seq(Frames), NEW n \in Nat,
         Streamed(ch, wi, n), wi # << >>, Head(wi) \in {"nar", "junk"}
  PROVE  Streamed(Append(ch, Head(wi)), Tail(wi), n)
<1> DEFINE cs == Append(ch, Head(wi))
           ws == Tail(wi)
<1>1. /\ Len(ch) \in Nat /\ Len(wi) \in Nat /\ Len(wi) > 0 /\ Len(ch) + Len(wi) = n
      /\ Head(wi) = wi[1]
      /\ Len(ws) = Len(wi) - 1
      /\ \A i \in 1 .. Len(ws) : ws[i] = wi[i + 1]
      /\ Len(cs) = Len(ch) + 1
      /\ cs[Len(ch) + 1] = Head(wi)
      /\ \A i \in 1 .. Len(ch) : cs[i] = ch[i]
  BY DEF Streamed
<1>2. Head(wi) = FrameAt(Len(ch) + 1) BY <1>1 DEF Streamed
<1>3. Len(ch) + 1 <= Chunks /\ Head(wi) = "nar"
  BY <1>1, <1>2, SubstituteAssumption DEF FrameAt
<1>4. \A i \in 1 .. Len(cs) : cs[i] = "nar"
  <2>1. \A i \in 1 .. Len(cs) : i \in 1 .. Len(ch) \/ i = Len(ch) + 1 BY <1>1
  <2> QED BY <1>1, <1>3, <2>1 DEF Streamed
<1>5. ASSUME NEW i \in 1 .. Len(ws) PROVE ws[i] = FrameAt(Len(cs) + i)
  <2>1. i + 1 \in 1 .. Len(wi) /\ Len(ch) + (i + 1) = Len(cs) + i BY <1>1
  <2>2. wi[i + 1] = FrameAt(Len(ch) + (i + 1)) BY <2>1 DEF Streamed
  <2> QED BY <1>1, <2>1, <2>2
<1>6. Len(cs) <= Chunks /\ Len(cs) + Len(ws) = n BY <1>1, <1>3
<1> HIDE DEF cs, ws
<1>7. Streamed(cs, ws, n) BY <1>4, <1>5, <1>6 DEF Streamed
<1> QED BY <1>7 DEF cs, ws

(* The client takes nar-end: it has the whole NAR, and a success reply at   *)
(* most follows.                                                           *)
LEMMA StreamEnds ==
  ASSUME NEW ch \in Seq({"nar", "junk"}), NEW wi \in Seq(Frames), NEW n \in Nat,
         n <= Chunks + 2, Streamed(ch, wi, n), wi # << >>, Head(wi) = "nar-end"
  PROVE  /\ ch = WholeNar /\ ch # << >>
         /\ \/ n = Chunks + 1 /\ Tail(wi) = << >>
            \/ n = Chunks + 2 /\ Tail(wi) = <<"success">>
<1>1. /\ Len(ch) \in Nat /\ Len(wi) \in Nat /\ Len(wi) > 0 /\ Len(ch) + Len(wi) = n
      /\ Head(wi) = wi[1]
  BY DEF Streamed
<1>2. Head(wi) = FrameAt(Len(ch) + 1) BY <1>1 DEF Streamed
<1>3. Len(ch) = Chunks BY <1>1, <1>2, SubstituteAssumption DEF FrameAt, Streamed
<1>4. ch = WholeNar /\ ch # << >>
  BY <1>1, <1>3, SubstituteAssumption DEF WholeNar, Streamed
<1>5. Len(wi) = 1 \/ Len(wi) = 2
  <2>1. \A k, c \in Nat : k > 0 /\ c + k <= c + 2 => k = 1 \/ k = 2 OBVIOUS
  <2> QED BY <1>1, <1>3, <2>1, SubstituteAssumption
<1>6. CASE Len(wi) = 1
  <2>1. Tail(wi) \in Seq(Frames) /\ Len(Tail(wi)) = 0 BY <1>6, HeadTailProperties
  <2>2. Tail(wi) = << >> BY <2>1, EmptySeq
  <2> QED BY <1>1, <1>3, <1>4, <1>6, <2>2, SubstituteAssumption
<1>7. CASE Len(wi) = 2
  <2>1. Tail(wi) \in Seq(Frames) /\ Len(Tail(wi)) = 1 /\ Tail(wi)[1] = wi[2]
    <3>1. wi \in Seq(Frames) /\ wi # << >> OBVIOUS
    <3> QED BY ONLY <1>7, <3>1, HeadTailProperties
  <2>2. wi[2] = FrameAt(Chunks + 2) BY <1>3, <1>7, SubstituteAssumption DEF Streamed
  <2>3. FrameAt(Chunks + 2) = "success" BY SubstituteAssumption DEF FrameAt
  <2>4. Tail(wi) = <<"success">>
    <3>1. <<"success">> \in Seq(Frames) /\ Len(<<"success">>) = 1 /\ <<"success">>[1] = "success"
      BY DEF Frames, Replies
    <3>2. \A i \in 1 .. 1 : i = 1 OBVIOUS
    <3>3. \A i \in 1 .. Len(Tail(wi)) : Tail(wi)[i] = <<"success">>[i]
      BY <2>1, <2>2, <2>3, <3>1, <3>2
    <3> QED BY <2>1, <3>1, <3>3, SeqEqual
  <2> QED BY <1>1, <1>3, <1>4, <1>7, <2>4, SubstituteAssumption
<1> QED BY <1>5, <1>6, <1>7

(* No reply is at the head of the wire before the NAR is taken.            *)
LEMMA StreamHead ==
  ASSUME NEW ch \in Seq({"nar", "junk"}), NEW wi \in Seq(Frames), NEW n,
         Streamed(ch, wi, n), wi # << >>
  PROVE  Head(wi) \notin Replies
<1>1. /\ Len(ch) \in Nat /\ Len(wi) \in Nat /\ Len(wi) > 0 /\ Head(wi) = wi[1]
  OBVIOUS
<1>2. Head(wi) = FrameAt(Len(ch) + 1) BY <1>1 DEF Streamed
<1> QED BY <1>1, <1>2, SubstituteAssumption DEF FrameAt, Streamed, Replies

(* A step of the service, or none.                                         *)
ServiceStep == [Service!Next]_(Service!vars)

USE DEF Form

(* A step that changes nothing of what guix-daemon sees.                   *)
LEMMA Unseen ==
  ASSUME UNCHANGED <<client, asked, replies, dest>>, cpc' = cpc \/ (Alive /\ Alive')
  PROVE  ServiceStep
BY DEF ServiceStep, Service!vars, Alive, Ended

(* guix-daemon asks, or the built-in substituter of Guix works.            *)
LEMMA AskingStep ==
  ASSUME ProtocolInv, Send \/ BuiltinWrites \/ Builtin
  PROVE  ProtocolInv' /\ ServiceStep
<1> USE SubstituteAssumption
    DEF ProtocolInv, clientVars, fetchVars, daemonVars
<1>1. CASE Send
  <2> USE <1>1 DEF Send
  <2>1. ProtocolTypes' BY DEF ProtocolTypes
  <2>2. asked + 1 \in 1 .. MaxRequests /\ dest[asked + 1] = "absent"
    BY DEF ProtocolTypes, Untouched
  <2>3. Counted' /\ Untouched' BY DEF ProtocolTypes, Counted, Untouched
  <2>4. Placed' BY <2>2 DEF ProtocolTypes, Placed, Preparing, Resting, Ended
  <2>5. Delivering' BY <2>2, NothingStreamed DEF ProtocolTypes, Calm, Delivering, Streaming, Placed, Preparing, Resting, Ended
  <2>6. Direct' /\ Calm' /\ VerifiedBehind'
    BY <2>2 DEF ProtocolTypes, Direct, Calm, VerifiedBehind, Placed, Resting, Ended, Clients
  <2>7. Service!Ask BY DEF Service!Ask, Counted, ProtocolTypes, Ended
  <2> QED BY <2>1, <2>3, <2>4, <2>5, <2>6, <2>7 DEF ServiceStep, Service!Next
<1>2. CASE BuiltinWrites
  <2> USE <1>2 DEF BuiltinWrites
  <2>1. asked \in 1 .. MaxRequests BY DEF ProtocolTypes, Counted
  <2>2. ProtocolTypes' BY DEF ProtocolTypes
  <2>3. Counted' /\ Untouched' BY <2>1 DEF ProtocolTypes, Counted, Untouched
  <2>4. Placed' /\ Delivering'
    BY <2>1 DEF ProtocolTypes, Placed, Delivering, Preparing, Resting, Ended
  <2>5. Direct' /\ Calm' /\ VerifiedBehind'
    BY <2>1 DEF ProtocolTypes, Direct, Calm, VerifiedBehind
  <2>6. Service!Write(Form)
    BY <2>1 DEF Service!Write, Service!Unanswered, Counted, Calm, ProtocolTypes, Ended
  <2> QED BY <2>2, <2>3, <2>4, <2>5, <2>6 DEF ServiceStep, Service!Next, Service!Contents
<1>3. CASE Builtin
  <2> USE <1>3 DEF Builtin
  <2>1. asked \in 1 .. MaxRequests /\ dest[asked] \in {"absent", Form}
    BY DEF ProtocolTypes, Counted, Calm
  <2>2. CASE /\ \E r \in Replies :
                  /\ (r = "success") <=> (dest[asked] = Form)
                  /\ replies' = Append(replies, r)
             /\ cpc' = "ready"
             /\ UNCHANGED <<command, wire, dpc>>
    <3> USE <2>2
    <3>1. PICK r \in Replies :
            /\ (r = "success") <=> (dest[asked] = Form)
            /\ replies' = Append(replies, r)
      OBVIOUS
    <3>2. replies' \in Seq(Replies) /\ Len(replies') = Len(replies) + 1
      BY <3>1 DEF ProtocolTypes
    <3>3. ProtocolTypes' BY <3>2 DEF ProtocolTypes
    <3>4. Counted' /\ Untouched' BY <3>2 DEF ProtocolTypes, Counted, Untouched
    <3>5. Placed' /\ Delivering'
      BY DEF ProtocolTypes, Placed, Delivering, Preparing, Resting, Ended
    <3>6. Direct' /\ Calm' /\ VerifiedBehind' BY DEF Direct, Calm, VerifiedBehind
    <3>7. Service!Answer(r)
      BY <3>1 DEF Service!Answer, Service!Unanswered, Counted, ProtocolTypes, Ended
    <3> QED BY <3>3, <3>4, <3>5, <3>6, <3>7 DEF ServiceStep, Service!Next, Service!Replies, Replies
  <2>3. CASE /\ dest[asked] # Form
             /\ cpc' = "waiting" /\ command' = asked /\ wire' = << >> /\ dpc' = "idle"
             /\ UNCHANGED replies
    <3> USE <2>1, <2>3
    <3>1. ProtocolTypes' BY DEF ProtocolTypes, Resting
    <3>2. Counted' /\ Untouched' BY DEF ProtocolTypes, Counted, Untouched
    <3>3. Placed' BY DEF Placed, Preparing, Resting, Calm
    <3>4. Delivering' BY NothingStreamed DEF Delivering, Streaming, Calm, Preparing, Resting
    <3>5. Direct' /\ Calm' /\ VerifiedBehind' BY DEF Direct, Calm, VerifiedBehind
    <3>6. ServiceStep BY Unseen DEF Alive, Ended
    <3> QED BY <3>1, <3>2, <3>3, <3>4, <3>5, <3>6
  <2> QED BY <2>2, <2>3
<1> QED BY <1>1, <1>2, <1>3

(* The client ends: its input does, it is killed, or the connection ends.  *)
LEMMA EndingStep ==
  ASSUME ProtocolInv, CloseInput \/ Killed \/ TakeEof
  PROVE  ProtocolInv' /\ ServiceStep
<1> USE DEF ProtocolInv, clientVars, fetchVars, daemonVars, Ended
<1>1. /\ Alive /\ cpc' \in Ended
      /\ UNCHANGED <<client, policy, auto_seed, asked, replies, dest, chunks, command, wire,
                     dpc, cur, data, sent, outcome>>
  BY DEF CloseInput, Killed, TakeEof, EndOfConnection, Alive
<1>2. cpc' = "done" => cpc \in {"ready", "draining"}
  BY DEF CloseInput, Killed, TakeEof, EndOfConnection
<1>3. ProtocolTypes' /\ Counted' /\ Untouched'
  BY <1>1 DEF ProtocolTypes, Counted, Untouched
<1>4. Placed' /\ Delivering'
  BY <1>1 DEF Placed, Delivering
<1>5. Direct' /\ Calm' /\ VerifiedBehind' BY <1>1 DEF Direct, Calm, VerifiedBehind
<1>6. CASE cpc' = "done"
  <2>1. Service!End BY <1>1, <1>2, <1>6 DEF Service!End, Counted, Alive
  <2> QED BY <1>3, <1>4, <1>5, <2>1 DEF ServiceStep, Service!Next
<1>7. CASE cpc' = "failed"
  <2>1. Service!Fail("absent") BY <1>1, <1>7 DEF Service!Fail, Alive
  <2> QED BY <1>3, <1>4, <1>5, <2>1 DEF ServiceStep, Service!Next, Service!Contents
<1> QED BY <1>1, <1>6, <1>7

(* A client that reads is waiting for a connection with something on it.   *)
LEMMA ReaderWaits ==
  ASSUME ProtocolInv, cpc \in {"waiting", "draining"}, wire # << >>
  PROVE  /\ cpc = "waiting" /\ client # "direct"
         /\ asked \in 1 .. MaxRequests /\ asked = Len(replies) + 1
         /\ command = 0 /\ dpc \notin Preparing
         /\ \/ \E n \in Nat : /\ n <= Chunks + 2 /\ Streaming(n)
                              /\ dpc \in {"keep", "flush"} => n = Chunks + 1
                              /\ dpc = "flush" => outcome = "success"
                              /\ dpc = "stream" => n = sent
            \/ dpc \in Resting /\ (Written(<<"success">>) \/ Refused)
<1> USE SubstituteAssumption DEF ProtocolInv
<1>1. cpc = "waiting" /\ client # "direct" BY DEF Calm, Direct
<1>2. asked \in 1 .. MaxRequests /\ asked = Len(replies) + 1
  BY <1>1 DEF ProtocolTypes, Counted
<1>3. ~Streaming(0) BY NothingStreamed DEF ProtocolTypes, Streaming
<1>4. command = 0 /\ dpc \notin Preparing BY <1>1, <1>3 DEF Delivering
<1>5. \A w : Written(w) => w # << >> BY DEF Written
<1>6. CASE dpc = "stream"
  <2>1. Streaming(sent) /\ sent \in Nat /\ sent <= Chunks + 2
    BY <1>1, <1>6 DEF Delivering, ProtocolTypes
  <2> QED BY <1>1, <1>2, <1>4, <1>6, <2>1
<1>7. CASE dpc \in {"keep", "flush"}
  <2>1. Streaming(Chunks + 1) /\ (dpc = "flush" => outcome = "success")
    BY <1>1, <1>3, <1>5, <1>7 DEF Delivering
  <2> QED BY <1>1, <1>2, <1>4, <1>7, <2>1
<1>8. CASE dpc \in Resting
  <2>1. \/ \E n \in 0 .. Chunks + 2 : Streaming(n)
        \/ Written(<<"success">>) \/ Refused
    BY <1>1, <1>5, <1>8 DEF Delivering
  <2>2. \A n \in 0 .. Chunks + 2 : n \in Nat /\ n <= Chunks + 2 OBVIOUS
  <2> QED BY <1>1, <1>2, <1>4, <1>8, <2>1, <2>2 DEF Resting
<1>9. dpc \in Preparing \cup Resting \cup {"stream", "keep", "flush"}
  BY <1>1 DEF ProtocolTypes, Placed
<1> QED BY <1>4, <1>6, <1>7, <1>8, <1>9

(* The client takes a frame.                                               *)
LEMMA ReadingStep ==
  ASSUME ProtocolInv, TakeNar \/ TakeNarEnd \/ TakeReply
  PROVE  ProtocolInv' /\ ServiceStep
<1> USE SubstituteAssumption DEF ProtocolInv, fetchVars, daemonVars
<1>1. cpc \in {"waiting", "draining"} /\ wire # << >>
  BY DEF TakeNar, TakeNarEnd, TakeReply, Reading
<1>2. /\ cpc = "waiting" /\ client # "direct"
      /\ asked \in 1 .. MaxRequests /\ asked = Len(replies) + 1
      /\ command = 0 /\ dpc \notin Preparing
  BY <1>1, ReaderWaits
<1>3. Tail(wire) \in Seq(Frames) /\ Head(wire) \in Frames BY <1>1 DEF ProtocolTypes
<1>4. chunks \in Seq({"nar", "junk"}) /\ wire \in Seq(Frames) BY DEF ProtocolTypes
<1>5. CASE TakeNar
  <2> USE <1>5 DEF TakeNar
  <2>1. Head(wire) \in {"nar", "junk"} BY DEF Reading
  <2>2. ProtocolTypes' BY <1>3, <2>1 DEF ProtocolTypes
  <2>3. Counted' /\ Untouched' /\ Placed' /\ VerifiedBehind'
    BY DEF Counted, Untouched, Placed, VerifiedBehind
  <2>4. Direct' /\ Calm' BY <1>2 DEF Direct, Calm
  <2>5. PICK n \in Nat :
           /\ n <= Chunks + 2 /\ Streaming(n)
           /\ dpc \in {"keep", "flush"} => n = Chunks + 1
           /\ dpc = "flush" => outcome = "success"
           /\ dpc = "stream" => n = sent
    <3>1. ~Written(<<"success">>) /\ ~Refused
      BY <2>1 DEF Written, Refused, Replies
    <3> QED BY <1>1, <3>1, ReaderWaits
  <2>6. dest'[asked'] = "absent" /\ Streamed(chunks', wire', n)
    BY <1>1, <1>4, <2>1, <2>5, StreamTaken DEF Streaming
  <2>7. n \in 0 .. Chunks + 2 BY <2>5
  <2>8. Delivering' BY <1>2, <2>5, <2>6, <2>7 DEF Delivering, Streaming
  <2>9. ServiceStep BY Unseen
  <2> QED BY <2>2, <2>3, <2>4, <2>8, <2>9
<1>6. CASE TakeNarEnd
  <2> USE <1>6 DEF TakeNarEnd
  <2>1. Head(wire) = "nar-end" BY DEF Reading
  <2>2. PICK n \in Nat :
           /\ n <= Chunks + 2 /\ Streaming(n)
           /\ dpc \in {"keep", "flush"} => n = Chunks + 1
           /\ dpc = "flush" => outcome = "success"
           /\ dpc = "stream" => n = sent
    <3>1. ~Written(<<"success">>) /\ ~Refused
      BY <2>1 DEF Written, Refused, Replies
    <3> QED BY <1>1, <3>1, ReaderWaits
  <2>3. /\ chunks = WholeNar /\ chunks # << >>
        /\ \/ n = Chunks + 1 /\ Tail(wire) = << >>
           \/ n = Chunks + 2 /\ Tail(wire) = <<"success">>
        /\ dest[asked] = "absent"
    BY <1>1, <1>4, <2>1, <2>2, StreamEnds DEF Streaming
  <2>4. dpc # "stream"
    <3>1. sent <= Chunks /\ sent \in Nat BY DEF ProtocolTypes
    <3>2. n > Chunks BY <2>3
    <3> QED BY <2>2, <3>1, <3>2
  <2>5. /\ wire' = Tail(wire) /\ chunks' = << >>
        /\ UNCHANGED <<client, asked, replies, command, dpc, cur, sent, outcome, data>>
    OBVIOUS
  <2>6. CASE dest' = [dest EXCEPT ![asked] = Form] /\ UNCHANGED cpc
    <3> USE <2>6
    <3>0. dest' \in [1 .. MaxRequests -> {"absent", "partial", "file", "tree"}]
      BY <2>6 DEF ProtocolTypes
    <3>1. ProtocolTypes' BY <1>3, <2>5, <2>6, <3>0 DEF ProtocolTypes
    <3>2. dest'[asked] = Form BY <1>2 DEF ProtocolTypes
    <3>3. Counted' /\ Untouched' BY <1>2, <2>5 DEF ProtocolTypes, Counted, Untouched
    <3>4. Placed' BY <1>2, <2>5 DEF Placed
    <3>5. Direct' /\ Calm' /\ VerifiedBehind'
      BY <1>2, <2>5 DEF Direct, Calm, VerifiedBehind
    <3>6. Delivering'
      BY <1>2, <2>2, <2>3, <2>4, <2>5, <3>2 DEF Delivering, Written, Resting
    <3>7. Service!Write(Form)
      BY <1>2, <2>3, <2>5 DEF Service!Write, Service!Unanswered, Ended, ProtocolTypes
    <3> QED BY <3>1, <3>3, <3>4, <3>5, <3>6, <3>7 DEF ServiceStep, Service!Next, Service!Contents
  <2>7. CASE cpc' = "failed" /\ dest' \in {dest, [dest EXCEPT ![asked] = "partial"]}
    <3> USE <2>7
    <3>1. ProtocolTypes' BY <1>3 DEF ProtocolTypes, Ended
    <3>2. Counted' /\ Untouched' BY <1>2, <2>5 DEF ProtocolTypes, Counted, Untouched
    <3>3. Placed' BY <1>2, <2>5 DEF Placed, Ended
    <3>4. Direct' /\ Calm' /\ VerifiedBehind'
      BY <1>2, <2>5 DEF Direct, Calm, VerifiedBehind
    <3>5. Delivering' BY DEF Delivering
    <3>6. Service!Fail("partial")
      BY <1>2, <2>5 DEF Service!Fail, Service!Unanswered, Ended, ProtocolTypes
    <3> QED BY <3>1, <3>2, <3>3, <3>4, <3>5, <3>6 DEF ServiceStep, Service!Next, Service!Contents
  <2> QED BY <2>3, <2>6, <2>7
<1>7. CASE TakeReply
  <2> USE <1>7 DEF TakeReply
  <2>1. Head(wire) \in Replies BY DEF Reading
  <2>2. \A n : ~Streaming(n) BY <1>1, <1>4, <2>1, StreamHead DEF Streaming
  <2>3. dpc \in Resting /\ (Written(<<"success">>) \/ Refused)
    BY <1>1, <2>2, ReaderWaits
  <2>4. /\ (Head(wire) = "success") <=> (dest[asked] = Form)
        /\ chunks = << >> /\ Tail(wire) = << >>
    <3>1. \A r : Head(<<r>>) = r /\ Tail(<<r>>) = << >> OBVIOUS
    <3>2. CASE Written(<<"success">>) BY <3>1, <3>2 DEF Written
    <3>3. CASE Refused BY <3>1, <3>3 DEF Refused
    <3> QED BY <2>3, <3>2, <3>3
  <2>5. replies' \in Seq(Replies) /\ Len(replies') = Len(replies) + 1
    BY <2>1 DEF ProtocolTypes
  <2>6. ProtocolTypes' BY <1>3, <2>5 DEF ProtocolTypes
  <2>7. Counted' /\ Untouched' BY <1>2, <2>5 DEF ProtocolTypes, Counted, Untouched
  <2>8. Placed' BY <1>2, <2>3 DEF Placed, Resting, Preparing
  <2>9. Delivering' /\ Direct' /\ Calm' /\ VerifiedBehind'
    BY <1>2, <2>4 DEF Delivering, Direct, Calm, VerifiedBehind
  <2>10. Service!Answer(Head(wire))
    BY <1>2, <2>4 DEF Service!Answer, Service!Unanswered, Ended, ProtocolTypes
  <2> QED
    BY <2>1, <2>6, <2>7, <2>8, <2>9, <2>10
    DEF ServiceStep, Service!Next, Service!Replies, Replies
<1> QED BY <1>5, <1>6, <1>7

(* A terminal reply: of the direct process on fd 4, of a handler in its     *)
(* buffer.                                                                 *)
LEMMA TerminalStep ==
  ASSUME ProtocolInv, dpc \notin Resting, Here, NEW r \in Replies, Terminal(r),
         UNCHANGED <<client, asked, dest, chunks, command, wire, cur, sent>>,
         client = "direct" => (r = "success" <=> dest[asked] = Form),
         client # "direct" => (r = "success" <=> dpc = "keep"),
         dpc \in Preparing \cup {"keep", "unwritten"}
  PROVE  ProtocolInv' /\ ServiceStep
<1> USE SubstituteAssumption DEF ProtocolInv
<1>1. CASE client = "direct"
  <2>1. /\ replies' = Append(replies, r) /\ dpc' = "idle" /\ cpc' = "ready" /\ cpc = "waiting"
    BY <1>1 DEF Terminal, Here
  <2>2. replies' \in Seq(Replies) /\ Len(replies') = Len(replies) + 1
    BY <2>1 DEF ProtocolTypes
  <2>3. ProtocolTypes' BY <2>1, <2>2 DEF ProtocolTypes, Resting
  <2>4. Counted' /\ Untouched' BY <2>1, <2>2 DEF ProtocolTypes, Counted, Untouched
  <2>5. Placed' BY <2>1 DEF Placed, Resting, Preparing
  <2>6. Delivering' /\ Direct' /\ Calm' /\ VerifiedBehind'
    BY <1>1, <2>1 DEF Delivering, Direct, Calm, VerifiedBehind
  <2>7. Service!Answer(r)
    BY <1>1, <2>1 DEF Service!Answer, Service!Unanswered, Ended, ProtocolTypes, Counted
  <2> QED BY <2>3, <2>4, <2>5, <2>6, <2>7 DEF ServiceStep, Service!Next, Service!Replies, Replies
<1>2. CASE client # "direct"
  <2>1. outcome' = r /\ dpc' = "flush" /\ UNCHANGED <<replies, cpc>>
    BY <1>2 DEF Terminal
  <2>2. ProtocolTypes' /\ Counted' /\ Untouched'
    BY <2>1 DEF ProtocolTypes, Counted, Untouched
  <2>3. Placed' BY <1>2, <2>1 DEF Placed, Resting, Preparing
  <2>4. Direct' /\ Calm' /\ VerifiedBehind' BY <1>2, <2>1 DEF Direct, Calm, VerifiedBehind
  <2>5. Delivering'
    <3> SUFFICES ASSUME cpc = "waiting"
                 PROVE  \/ r = "success" /\ (Streaming(Chunks + 1) \/ Written(<< >>))
                        \/ r \in Replies \ {"success"} /\ Streaming(0)
      BY <1>2, <2>1, <2>3 DEF Delivering, Streaming, Written, Preparing, Resting, Placed
    <3> QED BY <1>2 DEF Delivering, Placed
  <2>6. ServiceStep BY <2>1, Unseen
  <2> QED BY <2>2, <2>3, <2>4, <2>5, <2>6
<1> QED BY <1>1, <1>2

(* The handler goes on preparing the delivery.                             *)
LEMMA PreparingStep ==
  ASSUME ProtocolInv, dpc \in Preparing, dpc' \in Preparing,
         dpc' = "deliver" => data' = "genuine",
         UNCHANGED <<client, cpc, asked, replies, dest, chunks, command, wire, cur, sent>>
  PROVE  ProtocolInv' /\ ServiceStep
<1> USE DEF ProtocolInv
<1>1. ProtocolTypes' /\ Counted' /\ Untouched' BY DEF ProtocolTypes, Counted, Untouched
<1>2. Placed' BY DEF Placed, Resting, Preparing
<1>3. Delivering' BY DEF Delivering, Streaming, Resting, Preparing
<1>4. Direct' /\ Calm' /\ VerifiedBehind' BY DEF Direct, Calm, VerifiedBehind, Preparing
<1>5. ServiceStep BY Unseen
<1> QED BY <1>1, <1>2, <1>3, <1>4, <1>5

(* From the command to the verified NAR.                                   *)
LEMMA FetchingStep ==
  ASSUME ProtocolInv,
         ReadCommand \/ Narinfo \/ P2pDownload \/ HttpCandidate \/ HttpExhausted \/ Verify
  PROVE  ProtocolInv' /\ ServiceStep
<1> USE DEF clientVars, fetchVars
<1>1. CASE ReadCommand
  <2> USE <1>1 DEF ReadCommand, ProtocolInv
  <2>1. ProtocolTypes' /\ Counted' /\ Untouched'
    BY SubstituteAssumption DEF ProtocolTypes, Counted, Untouched, Preparing
  <2>2. asked > 0 BY DEF Placed, ProtocolTypes
  <2>3. Placed' BY <2>2 DEF Placed, Resting, Preparing
  <2>4. Delivering' BY DEF Delivering, Streaming, Resting, Preparing
  <2>5. Direct' /\ Calm' /\ VerifiedBehind' BY DEF Direct, Calm, VerifiedBehind
  <2>6. ServiceStep BY Unseen
  <2> QED BY <2>1, <2>3, <2>4, <2>5, <2>6
<1>2. ASSUME dpc \in Preparing PROVE dest[asked] # Form /\ dpc \notin Resting /\ dpc # "keep"
  BY <1>2 DEF ProtocolInv, Placed, Preparing, Resting
<1>3. CASE Narinfo
  <2> USE <1>3 DEF Narinfo
  <2>1. dpc \in Preparing BY DEF Preparing
  <2>2. CASE NoNarinfo BY <1>2, <2>1, <2>2, TerminalStep DEF NoNarinfo, Replies
  <2>3. CASE ~NoNarinfo BY <2>1, <2>3, PreparingStep DEF Preparing
  <2> QED BY <2>2, <2>3
<1>4. ASSUME NEW method \in {"p2p", "http"}, MethodFails(method), dpc \in Preparing, Here,
             UNCHANGED <<client, asked, dest, chunks, command, wire, cur, sent>>
      PROVE  ProtocolInv' /\ ServiceStep
  <2>1. CASE FallsBack(method)
    <3>1. dpc' \in {"p2p", "http"} /\ UNCHANGED <<replies, cpc>> BY <1>4, <2>1 DEF MethodFails
    <3> QED BY <1>4, <3>1, PreparingStep DEF Preparing
  <2>2. CASE ~FallsBack(method)
    <3>1. Terminal("not-found") BY <1>4, <2>2 DEF MethodFails
    <3> QED BY <1>2, <1>4, <3>1, TerminalStep DEF Replies
  <2> QED BY <2>1, <2>2
<1>5. ASSUME NEW d, NEW method, Downloaded(d, method), dpc \in Preparing,
             UNCHANGED <<client, asked, dest, chunks, command, wire, cur, sent>>
      PROVE  ProtocolInv' /\ ServiceStep
  BY <1>5, PreparingStep DEF Downloaded, Preparing
<1>6. CASE P2pDownload
  BY <1>4, <1>5, <1>6 DEF P2pDownload, Preparing
<1>7. CASE HttpCandidate
  <2>1. /\ dpc \in Preparing /\ dpc # "deliver" /\ Here
        /\ UNCHANGED <<client, asked, dest, chunks, command, wire, cur, sent>>
    BY <1>7 DEF HttpCandidate, Preparing
  <2>2. CASE UNCHANGED <<replies, cpc, dpc>>
    BY <2>1, <2>2, PreparingStep
  <2> QED BY <1>4, <1>5, <1>7, <2>1, <2>2 DEF HttpCandidate
<1>8. CASE HttpExhausted
  BY <1>4, <1>5, <1>8 DEF HttpExhausted, Preparing
<1>9. CASE Verify
  <2>1. dpc \in Preparing BY <1>9 DEF Verify, Preparing
  <2>2. CASE HashMatches
    BY <1>9, <2>1, <2>2, PreparingStep DEF Verify, HashMatches, Preparing
  <2>3. CASE ~HashMatches
    <3>1. dest[cur] = "absent" /\ dest \in [1 .. MaxRequests -> {"absent", "partial", "file", "tree"}]
      BY <1>2, <2>1 DEF ProtocolInv, Placed, ProtocolTypes
    <3>2. [dest EXCEPT ![cur] = "absent"] = dest BY <3>1
    <3>3. UNCHANGED dest BY <1>9, <2>3, <3>2 DEF Verify
    <3>4. Terminal("hash-mismatch") BY <1>9, <2>3 DEF Verify
    <3> QED BY <1>2, <1>9, <2>1, <3>3, <3>4, TerminalStep DEF Verify, Replies
  <2> QED BY <2>2, <2>3
<1> QED BY <1>1, <1>3, <1>6, <1>7, <1>8, <1>9

(* Whatever the handler was doing, what it has sent is in order when it     *)
(* stops.                                                                  *)
LEMMA RestingStep ==
  ASSUME ProtocolInv, client # "direct", dpc' \in Resting, dpc' = "idle" => dpc # "gone",
         dpc' = "idle" => cpc \in Ended,
         UNCHANGED <<client, cpc, asked, replies, dest, chunks, command, wire, cur, sent,
                     outcome, data>>
  PROVE  ProtocolInv' /\ ServiceStep
<1> USE SubstituteAssumption DEF ProtocolInv
<1>1. ProtocolTypes' /\ Counted' /\ Untouched' BY DEF ProtocolTypes, Counted, Untouched
<1>2. Placed' BY DEF Placed, Resting, Preparing
<1>3. Delivering'
  <2> SUFFICES ASSUME cpc = "waiting"
               PROVE  \/ \E n \in 0 .. Chunks + 2 : Streaming(n)
                      \/ Written(<< >>) \/ Written(<<"success">>) \/ Refused
    BY <1>2 DEF Delivering, Streaming, Written, Refused, Resting, Preparing
  <2>1. dpc \in Preparing \cup Resting \cup {"stream", "keep", "flush"}
    BY DEF ProtocolTypes, Placed
  <2>2. sent \in 0 .. Chunks + 2 /\ Chunks + 1 \in 0 .. Chunks + 2 /\ 0 \in 0 .. Chunks + 2
    BY DEF ProtocolTypes
  <2> QED BY <2>1, <2>2 DEF Delivering
<1>4. Direct' /\ Calm' /\ VerifiedBehind' BY DEF Direct, Calm, VerifiedBehind, Resting
<1>5. ServiceStep BY Unseen
<1> QED BY <1>1, <1>2, <1>3, <1>4, <1>5

(* The connection ends, or the socket is broken.                           *)
LEMMA BreakingStep ==
  ASSUME ProtocolInv,
         \/ ReadEof \/ HandlerDies
         \/ FlushTraces /\ dpc' = "gone"
         \/ StreamNar /\ dpc' = "idle"
         \/ FlushReply /\ dpc' = "gone"
  PROVE  ProtocolInv' /\ ServiceStep
<1>1. /\ client # "direct" /\ dpc' \in Resting
      /\ dpc' = "idle" => dpc # "gone" /\ cpc \in Ended
      /\ UNCHANGED <<client, cpc, asked, replies, dest, chunks, command, wire, cur, sent,
                     outcome, data>>
  BY DEF ProtocolInv, Placed, ReadEof, HandlerDies, FlushTraces, StreamNar, FlushReply, Broken,
         Resting, clientVars, fetchVars
<1> QED BY <1>1, RestingStep

(* The verified NAR is delivered.                                          *)
LEMMA DeliveringStep ==
  ASSUME ProtocolInv,
         \/ DeliverDirect \/ NotWritten \/ Keep
         \/ FlushTraces /\ dpc' # "gone"
         \/ StreamNar /\ dpc' # "idle"
         \/ FlushReply /\ dpc' # "gone"
  PROVE  ProtocolInv' /\ ServiceStep
<1> USE SubstituteAssumption DEF ProtocolInv, clientVars, fetchVars
<1>1. CASE DeliverDirect
  <2> USE <1>1 DEF DeliverDirect
  <2>1. /\ cpc = "waiting" /\ client = "direct" /\ cur = asked /\ asked \in 1 .. MaxRequests
        /\ dest[asked] = "absent" /\ data = "genuine" /\ command = 0
    BY DEF Here, Placed, VerifiedBehind, Preparing, Resting, ProtocolTypes
  <2>2. PICK c \in {Form, "partial", "absent"} :
           /\ dest' = [dest EXCEPT ![asked] = c]
           /\ dpc' = IF c = Form THEN "keep" ELSE "unwritten"
    <3>1. [dest EXCEPT ![asked] = "absent"] = dest BY <2>1 DEF ProtocolTypes
    <3> QED BY <2>1, <3>1
  <2>3. dest' \in [1 .. MaxRequests -> {"absent", "partial", "file", "tree"}]
    BY <2>2 DEF ProtocolTypes
  <2>4. dest'[asked] = c BY <2>1, <2>2 DEF ProtocolTypes
  <2>5. ProtocolTypes' BY <2>2, <2>3 DEF ProtocolTypes
  <2>6. Counted' /\ Untouched' BY <2>1, <2>2 DEF ProtocolTypes, Counted, Untouched
  <2>7. Placed' BY <2>1, <2>2 DEF Placed, Preparing, Resting
  <2>8. Delivering' /\ Direct' /\ Calm' /\ VerifiedBehind'
    BY <2>1, <2>2, <2>4 DEF Delivering, Direct, Calm, VerifiedBehind
  <2>9. Service!Write(c)
    BY <2>1, <2>2 DEF Service!Write, Service!Unanswered, Counted, ProtocolTypes, Ended
  <2> QED BY <2>5, <2>6, <2>7, <2>8, <2>9 DEF ServiceStep, Service!Next, Service!Contents
<1>2. CASE NotWritten
  <2> USE <1>2 DEF NotWritten
  <2>1. client = "direct" /\ cpc = "waiting" /\ dest[asked] # Form
    BY DEF Placed, Here, Direct
  <2> QED BY <2>1, TerminalStep DEF Replies, Resting
<1>3. CASE Keep
  <2> USE <1>3 DEF Keep
  <2>1. client = "direct" => dest[asked] = Form BY DEF Here, Direct
  <2> QED BY <2>1, TerminalStep DEF Replies, Resting
<1>4. CASE FlushTraces /\ dpc' # "gone"
  <2> USE <1>4 DEF FlushTraces
  <2>1. dpc = "deliver" /\ dpc' = "stream" /\ client # "direct" OBVIOUS
  <2>2. ProtocolTypes' /\ Counted' /\ Untouched'
    BY <2>1 DEF ProtocolTypes, Counted, Untouched
  <2>3. Placed' BY <2>1 DEF Placed, Preparing, Resting
  <2>4. Direct' /\ Calm' /\ VerifiedBehind'
    BY <2>1 DEF Direct, Calm, VerifiedBehind
  <2>5. sent = 0 BY <2>1 DEF Placed, Preparing
  <2>6. Delivering' BY <2>1, <2>5 DEF Delivering, Streaming, Placed, Preparing, Resting
  <2>7. ServiceStep BY Unseen
  <2> QED BY <2>2, <2>3, <2>4, <2>6, <2>7
<1>5. CASE StreamNar /\ dpc' # "idle"
  <2> USE <1>5 DEF StreamNar
  <2>1. /\ client # "direct" /\ command = 0 /\ dpc = "stream" /\ data = "genuine"
        /\ cpc \in {"waiting"} \cup Ended
        /\ UNCHANGED <<client, cpc, asked, replies, dest, chunks, command, cur, outcome, data>>
    BY DEF Placed, VerifiedBehind, Resting
  <2>2. /\ wire' = Append(wire, FrameAt(sent + 1))
        /\ \/ sent < Chunks /\ sent' = sent + 1 /\ dpc' = "stream"
           \/ sent = Chunks /\ sent' = sent /\ dpc' = "keep"
    <3>1. sent < Chunks => FrameAt(sent + 1) = "nar" BY DEF FrameAt, ProtocolTypes
    <3>2. FrameAt(Chunks + 1) = "nar-end" BY DEF FrameAt
    <3> QED BY <2>1, <3>1, <3>2
  <2>3. FrameAt(sent + 1) \in Frames BY DEF FrameAt, Frames, Replies
  <2>4. wire' \in Seq(Frames) BY <2>2, <2>3 DEF ProtocolTypes
  <2>5. sent' \in 0 .. Chunks BY <2>2 DEF ProtocolTypes
  <2>6. ProtocolTypes' BY <2>1, <2>2, <2>4, <2>5 DEF ProtocolTypes
  <2>7. Counted' /\ Untouched' BY <2>1 DEF Counted, Untouched
  <2>8. Placed' BY <2>1, <2>2 DEF Placed, Preparing, Resting
  <2>9. Direct' /\ Calm' /\ VerifiedBehind'
    BY <2>1, <2>2 DEF Direct, Calm, VerifiedBehind, Ended
  <2>10. Delivering'
    <3> SUFFICES ASSUME cpc = "waiting"
                 PROVE  /\ dest[asked] = "absent"
                        /\ Streamed(chunks, wire', sent + 1)
      BY <2>1, <2>2 DEF Delivering, Streaming, Preparing, Resting
    <3>1. dest[asked] = "absent" /\ Streamed(chunks, wire, sent)
      BY <2>1 DEF Delivering, Streaming
    <3> QED BY <2>2, <3>1, StreamSends DEF ProtocolTypes
  <2>11. ServiceStep BY <2>1, Unseen
  <2> QED BY <2>6, <2>7, <2>8, <2>9, <2>10, <2>11
<1>6. CASE FlushReply /\ dpc' # "gone"
  <2> USE <1>6 DEF FlushReply
  <2>1. /\ client # "direct" /\ command = 0 /\ dpc = "flush" /\ dpc' = "idle"
        /\ cpc \in {"waiting"} \cup Ended /\ wire' = Append(wire, outcome)
        /\ UNCHANGED <<client, cpc, asked, replies, dest, chunks, command, cur, data, sent>>
    BY DEF Placed, Resting
  <2>2. outcome \in Replies BY <2>1 DEF Placed
  <2>3. wire' \in Seq(Frames) BY <2>1, <2>2 DEF ProtocolTypes, Frames
  <2>4. ProtocolTypes' BY <2>1, <2>3 DEF ProtocolTypes, Resting
  <2>5. Counted' /\ Untouched' BY <2>1 DEF Counted, Untouched
  <2>6. Placed' BY <2>1 DEF Placed, Preparing, Resting
  <2>7. Direct' /\ Calm' /\ VerifiedBehind'
    BY <2>1 DEF Direct, Calm, VerifiedBehind, Ended
  <2>8. Delivering'
    <3> SUFFICES ASSUME cpc = "waiting"
                 PROVE  \/ \E n \in 0 .. Chunks + 2 :
                             dest[asked] = "absent" /\ Streamed(chunks, wire', n)
                        \/ dest[asked] = Form /\ chunks = << >> /\ wire' = <<"success">>
                        \/ /\ dest[asked] = "absent" /\ chunks = << >>
                           /\ \E r \in Replies \ {"success"} : wire' = <<r>>
      BY <2>1 DEF Delivering, Streaming, Written, Refused, Preparing, Resting
    <3>1. Append(<< >>, outcome) = <<outcome>> OBVIOUS
    <3>2. CASE outcome = "success" /\ Streaming(Chunks + 1)
      <4>1. FrameAt((Chunks + 1) + 1) = outcome BY <3>2 DEF FrameAt
      <4>2. Streamed(chunks, wire', (Chunks + 1) + 1)
        BY <2>1, <3>2, <4>1, StreamSends DEF Streaming, ProtocolTypes
      <4>3. (Chunks + 1) + 1 \in 0 .. Chunks + 2 OBVIOUS
      <4> QED BY <3>2, <4>2, <4>3 DEF Streaming
    <3>3. CASE outcome = "success" /\ Written(<< >>) BY <2>1, <3>1, <3>3 DEF Written
    <3>4. CASE outcome \in Replies \ {"success"} /\ Streaming(0)
      BY <2>1, <3>1, <3>4, NothingStreamed DEF Streaming, ProtocolTypes
    <3> QED BY <2>1, <3>2, <3>3, <3>4 DEF Delivering
  <2>9. ServiceStep BY <2>1, Unseen
  <2> QED BY <2>4, <2>5, <2>6, <2>7, <2>8, <2>9
<1> QED BY <1>1, <1>2, <1>3, <1>4, <1>5, <1>6

(* Every step of client and handler is one of the service, or unseen.      *)
LEMMA ProtocolStep ==
  ASSUME ProtocolInv, [Next]_vars
  PROVE  ProtocolInv' /\ ServiceStep
<1>1. CASE UNCHANGED vars
  <2> USE <1>1 DEF vars, clientVars, daemonVars, fetchVars, ProtocolInv
  <2>1. ProtocolTypes' /\ Counted' /\ Untouched' BY DEF ProtocolTypes, Counted, Untouched
  <2>2. Placed' BY DEF Placed
  <2>3. Delivering' BY DEF Delivering, Streaming, Written, Refused
  <2>4. Direct' /\ Calm' /\ VerifiedBehind' BY DEF Direct, Calm, VerifiedBehind
  <2> QED BY <2>1, <2>2, <2>3, <2>4, Unseen
<1>2. CASE Next
  BY <1>2, AskingStep, EndingStep, ReadingStep, FetchingStep, BreakingStep, DeliveringStep
  DEF Next, ClientStep, DaemonStep
<1> QED BY <1>1, <1>2

(* The invariant holds where the process starts.                           *)
LEMMA ProtocolInit == Init => ProtocolInv
<1> SUFFICES ASSUME Init PROVE ProtocolInv OBVIOUS
<1> USE SubstituteAssumption DEF Init
<1>1. ProtocolTypes BY DEF ProtocolTypes, Resting, Ended, Frames
<1>2. Counted /\ Untouched BY DEF Counted, Untouched
<1>3. Placed BY DEF Placed, Resting, Preparing
<1>4. Delivering /\ Direct /\ Calm /\ VerifiedBehind
  BY DEF Delivering, Direct, Calm, VerifiedBehind
<1> QED BY <1>1, <1>2, <1>3, <1>4 DEF ProtocolInv

(* Whoever guix-daemon talks to and whatever fails, it sees a substituter  *)
(* that keeps the protocol of SubstituteService: one terminal reply per    *)
(* request, in order, "success" exactly with the verified NAR in the       *)
(* destination, and no end in order with a request unanswered.  The relay  *)
(* and the direct process implement it with a NAR file as the form of the  *)
(* destination, the extension with the unpacked tree, for any number of    *)
(* requests and of frames per NAR.                                         *)
THEOREM ServiceImplemented == Spec => ImplementsService
<1>1. Init => Service!Init BY DEF Init, Service!Init, Ended
<1>2. ProtocolInv /\ [Next]_vars => ProtocolInv' /\ [Service!Next]_(Service!vars)
  BY ProtocolStep DEF ServiceStep
<1> QED BY <1>1, <1>2, ProtocolInit, PTL DEF Spec, ImplementsService, Service!Spec

-----------------------------------------------------------------------------
(* Giving up. *)

(* Which methods have failed at each place of the handler, and that it has *)
(* said nothing yet.                                                       *)
FetchInv ==
  /\ policy \in Policies
  /\ dpc \in {"narinfo", "p2p", "http"} => outcome = "none"
  /\ dpc = "narinfo" => failures = {}
  /\ dpc = "p2p" => failures = IF policy = "http-first" THEN {"http"} ELSE {}
  /\ dpc = "http" => /\ policy # "p2p-only"
                     /\ failures = IF policy = "http-first" THEN {} ELSE {"p2p"}

(* What GivesUpLast says of a step.                                        *)
GivesUp ==
  dpc \in {"p2p", "http"} /\ (outcome' = "not-found" \/ Len(replies') > Len(replies))
    => failures' = Methods

(* A method fails: the next is tried, or it was the last.                  *)
LEMMA MethodFailsStep ==
  ASSUME ProtocolTypes, FetchInv, NEW method \in {"p2p", "http"}, dpc = method,
         MethodFails(method), UNCHANGED policy
  PROVE  FetchInv' /\ GivesUp
<1>1. failures' = failures \cup {method} BY DEF MethodFails
<1>2. CASE FallsBack(method)
  <2>1. dpc' = (IF method = "p2p" THEN "http" ELSE "p2p") /\ UNCHANGED <<replies, outcome>>
    BY <1>2 DEF MethodFails
  <2>2. \/ method = "p2p" /\ policy = "p2p-first"
        \/ method = "http" /\ policy = "http-first"
    BY <1>2 DEF FallsBack
  <2>3. FetchInv' BY <1>1, <2>1, <2>2 DEF FetchInv
  <2>4. ~(Len(replies') > Len(replies)) /\ outcome' # "not-found"
    <3>1. outcome = "none" BY DEF FetchInv
    <3>2. Len(replies') = Len(replies) /\ Len(replies) \in Nat BY <2>1 DEF ProtocolTypes
    <3> QED BY <2>1, <3>1, <3>2
  <2> QED BY <2>3, <2>4 DEF GivesUp
<1>3. CASE ~FallsBack(method)
  <2>1. dpc' \in {"idle", "flush"} BY <1>3 DEF MethodFails, Terminal
  <2>2. failures' = Methods BY <1>1, <1>3 DEF FetchInv, FallsBack, Methods, Policies
  <2>3. FetchInv' BY <2>1 DEF FetchInv
  <2> QED BY <2>2, <2>3 DEF GivesUp
<1> QED BY <1>2, <1>3

(* Every step keeps FetchInv, and gives up last.                           *)
LEMMA FetchStep ==
  ASSUME ProtocolInv, FetchInv, [Next]_vars
  PROVE  FetchInv' /\ GivesUp
<1> USE DEF clientVars, fetchVars, daemonVars
<1>1. ProtocolTypes /\ Len(replies) \in Nat BY DEF ProtocolInv, ProtocolTypes
<1>2. ASSUME UNCHANGED <<policy, replies, outcome, dpc, failures>> PROVE FetchInv' /\ GivesUp
  <2>1. ~(Len(replies') > Len(replies)) BY <1>1, <1>2
  <2> QED BY <1>2, <2>1 DEF FetchInv, GivesUp
<1>3. ASSUME UNCHANGED policy, dpc \notin {"p2p", "http"},
             dpc' \notin {"narinfo", "p2p", "http"}
      PROVE  FetchInv' /\ GivesUp
  BY <1>3 DEF FetchInv, GivesUp
<1>4. ASSUME UNCHANGED <<policy, replies, outcome>>, dpc' \notin {"narinfo", "p2p", "http"}
      PROVE  FetchInv' /\ GivesUp
  <2>1. ~(Len(replies') > Len(replies)) BY <1>1, <1>4
  <2> QED BY <1>4, <2>1 DEF FetchInv, GivesUp
<1>5. CASE Send \/ CloseInput \/ Killed \/ BuiltinWrites \/ TakeNar \/ TakeNarEnd \/ TakeEof
  BY <1>2, <1>5 DEF Send, CloseInput, Killed, BuiltinWrites, TakeNar, TakeNarEnd, TakeEof
<1>6. CASE Builtin
  <2>1. dpc \in Resting BY <1>6 DEF Builtin, ProtocolInv, Placed, Ended
  <2>2. dpc' \in Resting /\ UNCHANGED policy BY <1>6, <2>1 DEF Builtin, Resting
  <2> QED BY <1>3, <2>1, <2>2 DEF Resting
<1>7. CASE TakeReply
  <2>1. dpc \notin Preparing BY <1>7, ReaderWaits DEF TakeReply, Reading
  <2>2. UNCHANGED <<dpc, policy>> BY <1>7 DEF TakeReply
  <2> QED BY <1>3, <2>1, <2>2 DEF Preparing
<1>8. CASE ReadCommand
  <2>1. /\ dpc = "idle" /\ dpc' = "narinfo" /\ outcome' = "none" /\ failures' = {}
        /\ UNCHANGED policy
    BY <1>8 DEF ReadCommand
  <2> QED BY <2>1 DEF FetchInv, GivesUp
<1>9. CASE Narinfo
  <2>1. dpc = "narinfo" /\ UNCHANGED <<policy, failures>> BY <1>9 DEF Narinfo
  <2>2. CASE NoNarinfo BY <1>3, <2>1, <2>2 DEF NoNarinfo, Terminal
  <2>3. CASE /\ dpc' = IF policy = "http-first" THEN "http" ELSE "p2p"
             /\ UNCHANGED <<replies, cpc, outcome>>
    BY <2>1, <2>3 DEF FetchInv, GivesUp, Policies
  <2> QED BY <1>9, <2>2, <2>3 DEF Narinfo
<1>10. ASSUME NEW d, NEW method, Downloaded(d, method), UNCHANGED policy
       PROVE  FetchInv' /\ GivesUp
  BY <1>4, <1>10 DEF Downloaded
<1>11. CASE P2pDownload \/ HttpCandidate \/ HttpExhausted
  <2>1. UNCHANGED policy BY <1>11 DEF P2pDownload, HttpCandidate, HttpExhausted
  <2>2. \/ \E d, method : Downloaded(d, method)
        \/ \E method \in {"p2p", "http"} : dpc = method /\ MethodFails(method)
        \/ UNCHANGED <<policy, replies, outcome, dpc, failures>>
    BY <1>11 DEF P2pDownload, HttpCandidate, HttpExhausted
  <2> QED BY <1>1, <1>2, <1>10, <2>1, <2>2, MethodFailsStep
<1>12. CASE ReadEof \/ HandlerDies
  BY <1>4, <1>12 DEF ReadEof, HandlerDies
<1>13. CASE Verify \/ DeliverDirect \/ NotWritten \/ FlushTraces \/ StreamNar \/ Keep \/ FlushReply
  <2>1. UNCHANGED policy /\ dpc \notin {"p2p", "http"} /\ dpc' \notin {"narinfo", "p2p", "http"}
    BY <1>13
    DEF Verify, DeliverDirect, NotWritten, FlushTraces, StreamNar, Keep, FlushReply, Terminal
  <2> QED BY <1>3, <2>1
<1>14. CASE UNCHANGED vars BY <1>2, <1>14 DEF vars
<1> QED
  BY <1>5, <1>6, <1>7, <1>8, <1>9, <1>11, <1>12, <1>13, <1>14 DEF Next, ClientStep, DaemonStep

(* try_swarm_substitute reports not-found from a download method only when *)
(* every method that the policy allows has failed for this request.        *)
THEOREM GivesUpAfterAll == Spec => GivesUpLast
<1>1. Init => ProtocolInv /\ FetchInv
  <2>1. Init => FetchInv BY DEF Init, FetchInv
  <2> QED BY <2>1, ProtocolInit
<1>2. ProtocolInv /\ FetchInv /\ [Next]_vars => ProtocolInv' /\ FetchInv'
  BY ProtocolStep, FetchStep
<1>3. ProtocolInv /\ FetchInv /\ [Next]_vars =>
        [(dpc \in {"p2p", "http"}) /\ (outcome' = "not-found" \/ Len(replies') > Len(replies))
           => failures' = Methods]_vars
  BY FetchStep DEF GivesUp
<1> QED BY <1>1, <1>2, <1>3, PTL DEF Spec, GivesUpLast

-----------------------------------------------------------------------------
(* Types. *)

(* What the other invariants say nothing of: the settings, the fetching of *)
(* a NAR and what was kept.                                                *)
FetchTypes ==
  /\ policy \in Policies /\ auto_seed \in SeedModes
  /\ Len(replies) <= asked /\ cur \in 0 .. asked
  /\ data \in {"none", "genuine", "corrupt"} /\ source \in {"none", "p2p", "http"}
  /\ left \in 0 .. Candidates /\ mismatched \in BOOLEAN
  /\ failures \subseteq {"p2p", "http"}
  /\ outcome \in Replies \cup {"none"}
  /\ kept \subseteq [req : 1 .. MaxRequests, data : {"genuine", "corrupt"}]

(* What a step does to the variables of FetchTypes.                        *)
LEMMA FetchChanges ==
  ASSUME [Next]_vars
  PROVE  /\ UNCHANGED <<policy, auto_seed>> /\ asked' \in {asked, asked + 1}
         /\ replies' = replies \/ cpc' \in {"ready", "draining"}
         /\ cur' = cur \/ (command # 0 /\ cur' = command /\ asked' = asked)
         /\ data' \in {data, "none", "genuine", "corrupt"} /\ source' \in {source, "none", "p2p", "http"}
         /\ left' \in {left, Candidates} \/ (left > 0 /\ left' = left - 1)
         /\ mismatched' \in {mismatched, TRUE, FALSE}
         /\ failures' \in {failures, {}, failures \cup {"p2p"}, failures \cup {"http"}}
         /\ outcome' \in {outcome, "none", "success", "not-found", "hash-mismatch"}
         /\ kept' = kept \/ (dpc = "keep" /\ kept' = kept \cup {[req |-> cur, data |-> data]})
<1> USE DEF clientVars, fetchVars, daemonVars
<1>1. CASE ClientStep \/ Send \/ CloseInput \/ Killed \/ HandlerDies
  <2>1. /\ UNCHANGED <<policy, auto_seed, cur, data, source, left, mismatched, failures, outcome, kept>>
        /\ asked' \in {asked, asked + 1}
    BY <1>1 DEF ClientStep, Builtin, BuiltinWrites, TakeNar, TakeNarEnd, TakeReply, TakeEof,
                Send, CloseInput, Killed, HandlerDies
  <2>2. replies' = replies \/ cpc' \in {"ready", "draining"}
    BY <1>1 DEF ClientStep, Builtin, BuiltinWrites, TakeNar, TakeNarEnd, TakeReply, TakeEof,
                Send, CloseInput, Killed, HandlerDies
  <2> QED BY <2>1, <2>2
<1>2. CASE ReadCommand \/ ReadEof \/ FlushTraces \/ StreamNar \/ FlushReply
  BY <1>2 DEF ReadCommand, ReadEof, FlushTraces, StreamNar, FlushReply
<1>3. CASE Narinfo \/ NotWritten
  BY <1>3 DEF Narinfo, NoNarinfo, NotWritten, Terminal
<1>4. CASE P2pDownload
  BY <1>4 DEF P2pDownload, Downloaded, MethodFails, Terminal
<1>5. CASE HttpCandidate
  BY <1>5 DEF HttpCandidate, Downloaded, MethodFails, Terminal
<1>6. CASE HttpExhausted
  BY <1>6 DEF HttpExhausted, Downloaded, MethodFails, Terminal
<1>7. CASE Verify \/ DeliverDirect
  BY <1>7 DEF Verify, DeliverDirect, Terminal
<1>8. CASE Keep
  BY <1>8 DEF Keep, Terminal
<1>9. CASE UNCHANGED vars
  BY <1>9 DEF vars
<1> QED
  BY <1>1, <1>2, <1>3, <1>4, <1>5, <1>6, <1>7, <1>8, <1>9 DEF Next, DaemonStep

(* Every step keeps FetchTypes.                                            *)
LEMMA FetchTyped ==
  ASSUME ProtocolInv, FetchTypes, [Next]_vars, ProtocolInv'
  PROVE  FetchTypes'
<1> USE DEF FetchTypes
<1>1. asked \in Nat /\ asked' \in Nat /\ asked <= MaxRequests /\ MaxRequests \in Nat /\ Candidates \in Nat
  BY SubstituteAssumption DEF ProtocolInv, ProtocolTypes
<1>2. policy' \in Policies /\ auto_seed' \in SeedModes BY FetchChanges
<1>3. asked' = asked \/ asked' = asked + 1 BY FetchChanges
<1>4. Len(replies') <= asked'
  <2>1. Len(replies) \in Nat /\ Len(replies') \in Nat BY DEF ProtocolInv, ProtocolTypes
  <2>2. CASE replies' = replies
    <3>1. Len(replies') = Len(replies) /\ Len(replies) <= asked BY <2>2
    <3> QED BY ONLY <1>1, <1>3, <2>1, <3>1
  <2>3. CASE cpc' \in {"ready", "draining"}
    BY <1>1, <2>1, <2>3 DEF ProtocolInv, Counted
  <2> QED BY <2>2, <2>3, FetchChanges
<1>5. cur' \in 0 .. asked'
  <2>1. CASE cur' = cur
    <3>1. cur \in 0 .. asked OBVIOUS
    <3> QED BY ONLY <1>1, <1>3, <2>1, <3>1
  <2>2. CASE command # 0 /\ cur' = command /\ asked' = asked
    <3>1. command = asked BY <2>2 DEF ProtocolInv, Placed
    <3> QED BY <1>1, <2>2, <3>1
  <2> QED BY <2>1, <2>2, FetchChanges
<1>6. data' \in {"none", "genuine", "corrupt"} /\ source' \in {"none", "p2p", "http"}
  BY FetchChanges
<1>7. left' \in 0 .. Candidates
  <2>1. left' \in {left, Candidates} \/ (left > 0 /\ left' = left - 1) BY FetchChanges
  <2> QED BY <1>1, <2>1
<1>8. mismatched' \in BOOLEAN BY FetchChanges, Zenon
<1>9. failures' \subseteq {"p2p", "http"} BY FetchChanges
<1>10. outcome' \in Replies \cup {"none"} BY FetchChanges DEF Replies
<1>11. kept' \subseteq [req : 1 .. MaxRequests, data : {"genuine", "corrupt"}]
  <2>1. CASE kept' = kept BY <2>1
  <2>2. CASE dpc = "keep" /\ kept' = kept \cup {[req |-> cur, data |-> data]}
    <3>1. cur = asked /\ asked > 0 /\ data = "genuine"
      BY <2>2 DEF ProtocolInv, Placed, Resting, VerifiedBehind
    <3>2. cur \in 1 .. MaxRequests BY <1>1, <3>1
    <3> QED BY <2>2, <3>1, <3>2
  <2> QED BY <2>1, <2>2, FetchChanges
<1> QED BY <1>2, <1>4, <1>5, <1>6, <1>7, <1>8, <1>9, <1>10, <1>11

(* Every variable keeps its type: in particular there are never more       *)
(* replies than requests, and a command on its way is for a request that   *)
(* was made (handle_socket_connection, forward, handle-relay-output).      *)
THEOREM TypesKept == Spec => []TypeOK
<1>1. Init => FetchTypes
  <2> SUFFICES ASSUME Init PROVE FetchTypes OBVIOUS
  <2>1. Len(replies) <= asked /\ cur \in 0 .. asked /\ left \in 0 .. Candidates
    BY SubstituteAssumption DEF Init
  <2> QED BY <2>1 DEF Init, FetchTypes
<1>2. ProtocolInv /\ FetchTypes /\ [Next]_vars /\ ProtocolInv' => FetchTypes'
  BY FetchTyped
<1>3. ProtocolInv /\ FetchTypes => TypeOK
  <2> SUFFICES ASSUME ProtocolInv, FetchTypes PROVE TypeOK OBVIOUS
  <2>1. command \in 0 .. asked
    <3>1. asked \in Nat BY DEF ProtocolInv, ProtocolTypes
    <3>2. command = 0 \/ command = asked BY DEF ProtocolInv, Placed
    <3> QED BY <3>1, <3>2
  <2>2. /\ client \in Clients /\ cpc \in {"ready", "builtin", "waiting", "draining"} \cup Ended
        /\ asked \in 0 .. MaxRequests /\ replies \in Seq(Replies)
        /\ dest \in [1 .. MaxRequests -> {"absent", "partial", "file", "tree"}]
        /\ chunks \in Seq({"nar", "junk"}) /\ sent \in 0 .. Chunks
    BY DEF ProtocolInv, ProtocolTypes
  <2>3. wire \in Seq({"nar", "junk", "nar-end"} \cup Replies)
    BY DEF ProtocolInv, ProtocolTypes, Frames
  <2>4. dpc \in {"idle", "narinfo", "p2p", "http", "verify", "deliver", "stream", "keep",
                 "unwritten", "flush", "gone"}
    BY DEF ProtocolInv, ProtocolTypes, Preparing, Resting
  <2> QED BY <2>1, <2>2, <2>3, <2>4 DEF FetchTypes, TypeOK
<1> QED BY <1>1, <1>2, <1>3, ProtocolInit, ProtocolStep, PTL DEF Spec
=============================================================================
