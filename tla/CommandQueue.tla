---------------------------- MODULE CommandQueue ----------------------------
(***************************************************************************)
(* What the panel's queue of node commands promises, without the requests, *)
(* the agent and sing-box between the two ends.  A command is run at least *)
(* once before it has a result, and more often only when something failed; *)
(* its result is one a run of its kind can have, and it is only replaced   *)
(* by that of another run.                                                 *)
(***************************************************************************)
EXTENDS Integers

CONSTANT Commands

VARIABLES
  kind,    \* what each command asks for
  status,  \* none before it is issued, pending, or its result
  ran,     \* times it was run
  failures \* crashes, lost requests and failed writes so far

queueVars == <<kind, status, ran, failures>>

Kinds == {"restart", "apply", "ping", "unknown"}

\* A ping never fails, and a command nobody knows always does.
OutcomesOf(k) ==
  CASE k = "ping" -> {"done"} [] k = "unknown" -> {"failed"} [] OTHER -> {"done", "failed"}

QueueInit ==
  /\ kind \in [Commands -> Kinds]
  /\ status = [c \in Commands |-> "none"]
  /\ ran = [c \in Commands |-> 0]
  /\ failures = 0

Enqueue(c, k) ==
  /\ status[c] = "none"
  /\ kind' = [kind EXCEPT ![c] = k]
  /\ status' = [status EXCEPT ![c] = "pending"]
  /\ UNCHANGED <<ran, failures>>

\* Once, and once more for every failure.
RunOnce(c) ==
  /\ status[c] # "none" /\ ran[c] <= failures
  /\ ran' = [ran EXCEPT ![c] = @ + 1]
  /\ UNCHANGED <<kind, status, failures>>

MayFail == failures' \in {failures, failures + 1}

\* Results of several commands arrive; some may have been lost on the way.
Resolve(S, new) ==
  /\ \A c \in S :
       /\ new[c] \in OutcomesOf(kind[c])
       /\ \/ status[c] = "pending" /\ ran[c] >= 1
          \/ status[c] = new[c]
          \/ status[c] \in {"done", "failed"} /\ ran[c] >= 2
  /\ status' = [c \in Commands |-> IF c \in S THEN new[c] ELSE status[c]]
  /\ MayFail
  /\ UNCHANGED <<kind, ran>>

QueueNext ==
  \/ \E c \in Commands, k \in Kinds : Enqueue(c, k)
  \/ \E c \in Commands : RunOnce(c)
  \/ \E S \in SUBSET Commands : \E new \in [S -> {"done", "failed"}] : Resolve(S, new)

QueueSpec == QueueInit /\ [][QueueNext]_queueVars
=============================================================================
