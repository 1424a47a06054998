-------------------------- MODULE SubstituteService --------------------------
(***************************************************************************)
(* What guix-daemon relies on when it runs a substituter                   *)
(* (docs/architecture.md, "Substitute protocol"): requests are answered    *)
(* one by one, each by one terminal reply on fd 4; "success" is said when  *)
(* the destination holds the NAR whose hash the narinfo states, and no     *)
(* other reply then; the process ends in order only with every request     *)
(* answered.  The NAR is a file with its bytes or the tree it unpacks to:  *)
(* the documentation asks for either, and a substituter keeps to one.      *)
(***************************************************************************)
EXTENDS Naturals, Sequences

CONSTANT MaxRequests  \* bound: requests of guix-daemon to one process

VARIABLES
  form,     \* what this substituter writes: "file" or "tree"
  asked,    \* requests so far
  replies,  \* terminal replies on fd 4
  dest,     \* the destination of each request
  status    \* "running", "done" or "failed": the substituter process

vars == <<form, asked, replies, dest, status>>

Replies == {"success", "not-found", "hash-mismatch"}
Contents == {"absent", "partial", form}

Init ==
  /\ form \in {"file", "tree"}
  /\ asked = 0
  /\ replies = << >>
  /\ dest = [r \in 1 .. MaxRequests |-> "absent"]
  /\ status = "running"

Unanswered == status = "running" /\ Len(replies) < asked

Ask ==
  /\ status = "running" /\ Len(replies) = asked /\ asked < MaxRequests
  /\ asked' = asked + 1
  /\ UNCHANGED <<form, replies, dest, status>>

\* The destination is touched while its request is unanswered, and left alone once
\* it holds the NAR.
Write(c) ==
  /\ Unanswered /\ dest[asked] # form
  /\ dest' = [dest EXCEPT ![asked] = c]
  /\ UNCHANGED <<form, asked, replies, status>>

Answer(r) ==
  /\ Unanswered
  /\ (r = "success") <=> (dest[asked] = form)
  /\ replies' = Append(replies, r)
  /\ UNCHANGED <<form, asked, dest, status>>

\* A write that fails may leave part of the NAR behind.
Fail(c) ==
  /\ status = "running"
  /\ status' = "failed"
  /\ dest' = dest \/ (Unanswered /\ c # form /\ dest' = [dest EXCEPT ![asked] = c])
  /\ UNCHANGED <<form, asked, replies>>

End ==
  /\ status = "running" /\ Len(replies) = asked
  /\ status' = "done"
  /\ UNCHANGED <<form, asked, replies, dest>>

Next ==
  \/ Ask
  \/ \E c \in Contents : Write(c) \/ Fail(c)
  \/ \E r \in Replies : Answer(r)
  \/ End

Spec == Init /\ [][Next]_vars
=============================================================================
