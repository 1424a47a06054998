---------------------------- MODULE QueryService -----------------------------
(***************************************************************************)
(* What guix-daemon relies on when it runs a substituter with --query      *)
(* (docs/architecture.md, "Query protocol"): it sends one command at a     *)
(* time, and as long as the process runs the next thing it can read is the *)
(* answer to that command.  While what the answers rest on is sound, each  *)
(* names some of the paths asked about, each once.                         *)
(***************************************************************************)
EXTENDS Naturals, Sequences, Functions

CONSTANTS
  Queries,      \* lists of paths that guix-daemon asks about
  MaxCommands   \* bound: commands to one process

VARIABLES
  asked,    \* commands so far: have or info, and the paths
  answers,  \* the paths that each answer names
  running,  \* whether the process runs
  sound     \* whether nothing has spoilt the replies yet

vars == <<asked, answers, running, sound>>

Command == [kind : {"have", "info"}, paths : Queries]

Init == asked = << >> /\ answers = << >> /\ running = TRUE /\ sound = TRUE

\* What a process has written can be read after its end.
Unanswered == Len(answers) < Len(asked)

Ask(c) ==
  /\ running /\ Len(answers) = Len(asked) /\ Len(asked) < MaxCommands
  /\ asked' = Append(asked, c)
  /\ UNCHANGED <<answers, running, sound>>

\* The paths an answer may name, in any order.
Answers(c) ==
  {s \in UNION {[1 .. n -> Range(c.paths)] : n \in 0 .. Len(c.paths)} : IsInjective(s)}

Answer ==
  /\ Unanswered
  /\ Len(answers') = Len(answers) + 1 /\ SubSeq(answers', 1, Len(answers)) = answers
  /\ sound => answers'[Len(answers')] \in Answers(asked[Len(asked)])
  /\ UNCHANGED <<asked, running, sound>>

End ==
  /\ running
  /\ running' = FALSE
  /\ UNCHANGED <<asked, answers, sound>>

Spoil ==
  /\ sound' = FALSE
  /\ UNCHANGED <<asked, answers, running>>

Next == (\E c \in Command : Ask(c)) \/ Answer \/ End \/ Spoil

Spec == Init /\ [][Next]_vars
=============================================================================
