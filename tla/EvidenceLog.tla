----------------------------- MODULE EvidenceLog -----------------------------
(***************************************************************************)
(* What the evidence store promises its callers, without threads, queue,   *)
(* leader or transactions: one append-only log of jobs.  A job enters the  *)
(* log at most once and only while its caller still waits; a caller told   *)
(* "stored" can rely on the log, one told "rejected" or "refused" knows    *)
(* that the job is not there and never will be, and every other answer     *)
(* promises nothing.  Answers are final, whatever the process does next.   *)
(***************************************************************************)
EXTENDS Sequences, Functions

CONSTANT Jobs

VARIABLES
  log,    \* jobs whose rows every later reader of the database sees
  answer  \* answer[j]: what the caller of job j knows

logVars == <<log, answer>>

Init == log = <<>> /\ answer = [j \in Jobs |-> "unsent"]

Call(j) ==
  /\ answer[j] = "unsent"
  /\ answer' = [answer EXCEPT ![j] = "pending"] /\ UNCHANGED log

(* A group of jobs becomes durable at once.                                *)
Append1(group) ==
  /\ Range(group) \subseteq {j \in Jobs : answer[j] \in {"pending", "interrupted", "failed"}} \ Range(log)
  /\ IsInjective(group)
  /\ log' = log \o group /\ UNCHANGED answer

Answer(j) ==
  /\ answer[j] = "pending"
  /\ \/ j \in Range(log) /\ answer' = [answer EXCEPT ![j] = "stored"]
     \/ j \notin Range(log) /\ \E a \in {"rejected", "refused"} : answer' = [answer EXCEPT ![j] = a]
     \/ \E a \in {"failed", "interrupted"} : answer' = [answer EXCEPT ![j] = a]
  /\ UNCHANGED log

(* The process dies with calls outstanding.                                *)
Lose ==
  /\ answer' = [j \in Jobs |-> IF answer[j] = "pending" THEN "lost" ELSE answer[j]]
  /\ UNCHANGED log

Next ==
  \/ \E j \in Jobs : Call(j) \/ Answer(j)
  \/ Append1(SubSeq(log', Len(log) + 1, Len(log')))
  \/ Lose

Spec == Init /\ [][Next]_logVars
=============================================================================
