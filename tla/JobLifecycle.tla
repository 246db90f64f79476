---------------------------- MODULE JobLifecycle ----------------------------
(***************************************************************************)
(* What the coding-agent service promises a workflow node that submits a   *)
(* job and waits for it (Service.SubmitAndWait): the job waits, it starts  *)
(* at most once, its runtime is launched at most once, and it reaches one  *)
(* outcome that never changes.  Workers, leases, locks, heartbeats and     *)
(* retries are invisible here; CodingAgentJobs implements this module.     *)
(***************************************************************************)
EXTENDS Integers

CONSTANT Jobs

VARIABLES phase,       \* what the waiting node can observe of each job
          executions   \* how often the job's runtime was launched

vars == <<phase, executions>>

Outcomes == {"succeeded", "failed", "cancelled", "timed_out"}
Phases   == {"absent", "waiting", "started"} \cup Outcomes

TypeOK == /\ phase \in [Jobs -> Phases]
          /\ executions \in [Jobs -> Nat]

Init == /\ phase = [j \in Jobs |-> "absent"]
        /\ executions = [j \in Jobs |-> 0]

-----------------------------------------------------------------------------

Submit(j) ==
  /\ phase[j] = "absent"
  /\ phase' = [phase EXCEPT ![j] = "waiting"]
  /\ UNCHANGED executions

(* Jobs that never start are cancelled, several at once when their owner   *)
(* disconnects or leaves, or fail.                                         *)
Abandon(S, outcome) ==
  /\ outcome \in {"failed", "cancelled"}
  /\ \A j \in S : phase[j] = "waiting"
  /\ phase' = [j \in Jobs |-> IF j \in S THEN outcome ELSE phase[j]]
  /\ UNCHANGED executions

Start(j) ==
  /\ phase[j] = "waiting"
  /\ phase' = [phase EXCEPT ![j] = "started"]
  /\ UNCHANGED executions

(* The single launch of the runtime.  A worker that was suspended after it *)
(* started the job may launch after the job was given up as interrupted.   *)
Execute(j) ==
  /\ phase[j] \in {"started", "failed"}
  /\ executions[j] = 0
  /\ executions' = [executions EXCEPT ![j] = 1]
  /\ UNCHANGED phase

Finish(j, outcome) ==
  /\ phase[j] = "started"
  /\ outcome \in Outcomes
  /\ outcome = "succeeded" => executions[j] = 1
  /\ phase' = [phase EXCEPT ![j] = outcome]
  /\ UNCHANGED executions

Next ==
  \/ \E j \in Jobs : Submit(j) \/ Start(j) \/ Execute(j)
  \/ \E j \in Jobs, outcome \in Outcomes : Finish(j, outcome)
  \/ \E S \in SUBSET Jobs, outcome \in Outcomes : Abandon(S, outcome)

Spec == Init /\ [][Next]_vars
=============================================================================
