---------------------------- MODULE HostedAgents ----------------------------
(***************************************************************************)
(* Hosted (Slack) agents: the queue of deliveries and its workers, the      *)
(* approvals a mention asks for and the action an approval runs             *)
(* (handlers/slack_agent_host.go), and the owner's side of a deployment     *)
(* (handlers/agent_deployments.go, handlers/members.go).                    *)
(*                                                                         *)
(* A thread stands for its channel's deployment and that deployment's       *)
(* owner.  All approvals ask for the same operation with the same           *)
(* fingerprint, so each is equivalent to every other.  The workers of the   *)
(* process are alike: stage says how far the one has come that has a        *)
(* delivery.  It holds the two locks of an approval's execution from the    *)
(* check of the claim to the record of the outcome.  The lock of its thread *)
(* is left out: the queue hands out one delivery of a thread at a time.     *)
(***************************************************************************)
EXTENDS Naturals, FiniteSets

CONSTANTS Threads,
          Deliveries,    \* their numbers, in the order they are queued
          Mentions,      \* those that are mentions; each names the approval it may
                         \* ask for.  The others are presses of a button.
          ThreadOf,      \* mention -> its thread
          WorkerCount,   \* hostedAgentWorkerCount
          MaxAttempts,   \* after so many failed attempts a delivery has failed
          MaxFaults      \* crashes, lost writes and results, changes by the owner

ASSUME HostedConstants ==
    /\ Deliveries \subseteq Nat \ {0} /\ Mentions \subseteq Deliveries
    /\ ThreadOf \in [Mentions -> Threads]
    /\ WorkerCount \in Nat \ {0} /\ MaxAttempts \in Nat \ {0} /\ MaxFaults \in Nat

VARIABLES delivery,    \* number -> [status, kind, target, replied, attempts]
          approval,    \* mention -> [status, posted]
          deployment,  \* thread -> "active", "paused" or "revoked"
          stage,       \* delivery -> where its worker is, "idle" if it has none
          memory,      \* approvals whose result the process remembers
          redis,       \* approvals whose result Redis remembers
          performed,   \* approval -> how often its external action was begun
          faults       \* faults so far

hostedVars == <<delivery, approval, deployment, stage, memory, redis, performed, faults>>
agentVars == <<approval, deployment, memory, redis, performed>>
outsideVars == <<deployment, memory, redis, performed>>

NoDelivery == [status |-> "none", kind |-> "none", target |-> 0, replied |-> FALSE,
               attempts |-> 0]
\* Expired, rejected, failed and reconciled approvals are alike to every reader.
Closed == "closed"
NoApproval == [status |-> "none", posted |-> FALSE]
AtRest == [d \in Deliveries |-> "idle"]

At(d, pc) == stage[d] = pc
StepTo(d, pc) == stage' = [stage EXCEPT ![d] = pc]
SetApproval(a, status) == approval' = [approval EXCEPT ![a].status = status]
ThreadAt(d) == ThreadOf[delivery[d].target]
Mine(d) == deployment[ThreadAt(d)]
Fault == faults < MaxFaults /\ faults' = faults + 1

Executing == {"claim", "act", "acted", "record"}
AuthorityFree(t) == \A d \in Deliveries : stage[d] \in Executing => ThreadAt(d) # t
ExecutionFree == \A d \in Deliveries : stage[d] \notin Executing
EquivalentUnresolved(a) ==
    \E b \in Mentions \ {a} : approval[b].status \in {"executing", "outcome_unknown"}

-----------------------------------------------------------------------------
(* The queue.                                                              *)

Queue(d, kind, a) ==
    /\ delivery[d].status = "none"
    /\ \A c \in Deliveries : c < d => delivery[c].status # "none"
    /\ delivery' = [delivery EXCEPT ![d].status = "pending", ![d].kind = kind, ![d].target = a]
    /\ UNCHANGED <<agentVars, stage, faults>>

\* A mention is queued if its channel is the target of an active deployment.
ReceiveMention(d) ==
    /\ d \in Mentions /\ deployment[ThreadOf[d]] = "active"
    /\ Queue(d, "mention", d)

\* The requester presses a button of an approval message.
Presses == {"approve", "reject", "reconcile"}
ReceiveInteraction(d) ==
    /\ d \notin Mentions
    /\ \E a \in Mentions, k \in Presses : approval[a].posted /\ Queue(d, k, a)

Waiting == {"pending", "processing"}
SomeWaiting == \E d \in Deliveries : delivery[d].status \in Waiting
FirstOfThread(d) ==
    \A c \in Deliveries :
        c < d /\ delivery[c].status \in Waiting => ThreadAt(c) # ThreadAt(d)
BugStaleClaim(d) == FALSE
\* A claim is stale after thirty minutes; a worker stops processing after twelve.
StaleClaim(d) == delivery[d].status = "processing" /\ At(d, "idle")

ClaimDelivery(d) ==
    /\ Cardinality({c \in Deliveries : ~At(c, "idle")}) < WorkerCount
    /\ delivery[d].status = "pending" \/ StaleClaim(d)
    /\ FirstOfThread(d)
    /\ delivery' = [delivery EXCEPT ![d].status = "processing", ![d].attempts = @ + 1]
    /\ StepTo(d, "start")
    /\ UNCHANGED <<agentVars, faults>>

\* The delivery as its worker leaves it; replied says that an answer is stored.  The
\* last write asks nothing of the row, and its failure is only logged.  No reader
\* tells a completed delivery from a failed one: both have ended.
Leave(d, error, replied) ==
    LET again == error /\ delivery[d].attempts < MaxAttempts
        row == [delivery[d] EXCEPT !.replied = replied]
    IN  /\ \/ /\ delivery' = [delivery EXCEPT ![d] =
                    IF again THEN [row EXCEPT !.status = "pending"]
                    ELSE [NoDelivery EXCEPT !.status = "ended"]]
              /\ UNCHANGED faults
           \/ Fault /\ delivery' = [delivery EXCEPT ![d] = row]
        /\ StepTo(d, "idle")
Finish(d, error) == Leave(d, error, delivery[d].replied)
\* The session and Slack are told last; either may fail, and a retry tells again.
Answer(d) == \E e \in BOOLEAN : Finish(d, e)
Going(d, pc) == StepTo(d, pc) /\ UNCHANGED <<delivery, faults>>

\* The process dies with its locks and its memory; the rows stay as they are.
CrashHost ==
    /\ stage # AtRest /\ Fault
    /\ stage' = AtRest /\ memory' = {}
    /\ UNCHANGED <<delivery, approval, deployment, redis, performed>>

-----------------------------------------------------------------------------
(* A mention.                                                              *)

\* What an earlier attempt left is taken up; otherwise the agent's turn comes.
ProcessMention(d) ==
    LET own == approval[d].status
        replied == delivery[d].replied
    IN  /\ At(d, "start") /\ delivery[d].kind = "mention"
        /\ IF Mine(d) # "active" \/ (~replied /\ own \notin {"none", "pending"})
           THEN Finish(d, FALSE)
           ELSE \/ replied /\ Answer(d)
                \/ ~replied /\ Going(d, IF own = "pending" THEN "post_approval" ELSE "turn")
        /\ UNCHANGED agentVars

\* The turn runs under the owner's authority lock.  It answers with a text, which
\* is stored before it is posted, or it has created an approval, unless an
\* equivalent one is unresolved.
AgentTurn(d) ==
    /\ At(d, "turn") /\ AuthorityFree(ThreadAt(d))
    /\ \/ (\E e \in BOOLEAN : Leave(d, e, TRUE)) /\ UNCHANGED approval
       \/ /\ Mine(d) = "active" /\ ~EquivalentUnresolved(d)
          /\ SetApproval(d, "pending") /\ Going(d, "post_approval")
       \/ Finish(d, TRUE) /\ UNCHANGED approval
    /\ UNCHANGED outsideVars

\* Slack shows the approval, and may fail to say so; or nothing arrives.
PostApproval(d) ==
    /\ At(d, "post_approval")
    /\ \/ approval' = [approval EXCEPT ![d].posted = TRUE] /\ Answer(d)
       \/ Finish(d, TRUE) /\ UNCHANGED approval
    /\ UNCHANGED outsideVars

-----------------------------------------------------------------------------
(* A press of a button, by the state its approval is in.                    *)

Press(d, kinds, statuses) == /\ At(d, "start") /\ delivery[d].kind \in kinds
                             /\ approval[delivery[d].target].status \in statuses
Decisions == {"approve", "reject"}

ReconcileOutcome(d) ==
    /\ Press(d, {"reconcile"}, {"outcome_unknown"})
    /\ SetApproval(delivery[d].target, Closed) /\ Answer(d)
    /\ UNCHANGED outsideVars

\* A verdict on anything else, or a press whose approval is resolved, is answered.
ReportStatus(d) ==
    /\ \/ Press(d, {"reconcile"}, {"pending", "executing", "executed", Closed})
       \/ Press(d, Decisions, {"executed", "outcome_unknown", Closed})
    /\ Answer(d)
    /\ UNCHANGED agentVars

\* A copy that Redis fails to delete is never read again.
Forget(a) == memory' = memory \ {a} /\ redis' = redis \ {a}
\* BugKnown never asks Redis.
BugKnown(a) == a \in memory
Known(a) == a \in memory \cup redis

\* The worker that claimed it stopped: its result is looked up before it is given
\* up.  While Redis does not answer, or when the write of either outcome fails, the
\* approval stays as it is and the result is still remembered.
RecoverExecuting(d) ==
    LET a == delivery[d].target IN
    /\ Press(d, Decisions, {"executing"})
    /\ \/ Finish(d, TRUE) /\ UNCHANGED <<approval, memory, redis>>
       \/ Known(a) /\ SetApproval(a, "executed") /\ Forget(a) /\ Answer(d)
       \/ /\ ~Known(a) /\ SetApproval(a, "outcome_unknown") /\ Answer(d)
          /\ UNCHANGED <<memory, redis>>
    /\ UNCHANGED <<deployment, performed>>

\* Rejected, expired (fifteen minutes after it was asked for), of a deployment that
\* is not active, or to be executed.
DecidePending(d) ==
    /\ Press(d, Decisions, {"pending"})
    /\ \/ SetApproval(delivery[d].target, Closed) /\ Answer(d)
       \/ /\ delivery[d].kind = "approve" /\ Mine(d) = "active"
          /\ Going(d, "approve") /\ UNCHANGED approval
    /\ UNCHANGED outsideVars

-----------------------------------------------------------------------------
(* The approved action.                                                    *)

\* Both advisory locks are taken; then the connected account, the deployment, its
\* owner, the equivalent approvals and the status are checked.  A credit check or a
\* database error leaves the approval pending.
CheckClaim(d) ==
    LET a == delivery[d].target
        pending == approval[a].status = "pending"
    IN  /\ At(d, "approve") /\ ExecutionFree /\ AuthorityFree(ThreadAt(d))
        /\ \/ pending /\ SetApproval(a, Closed) /\ Answer(d)
           \/ /\ pending /\ Mine(d) = "active" /\ ~EquivalentUnresolved(a)
              /\ Going(d, "claim") /\ UNCHANGED approval
           \/ Answer(d) /\ UNCHANGED approval
        /\ UNCHANGED outsideVars

\* BugClaimApproval leaves the row as it is until the outcome is recorded.
BugClaimApproval(d) == At(d, "claim") /\ Going(d, "act") /\ UNCHANGED agentVars
\* The claim commits before the action begins.
ClaimApproval(d) ==
    /\ At(d, "claim")
    /\ SetApproval(delivery[d].target, "executing") /\ Going(d, "act")
    /\ UNCHANGED outsideVars

PerformAction(d) ==
    /\ At(d, "act")
    /\ performed' = [performed EXCEPT ![delivery[d].target] = @ + 1]
    /\ Going(d, "acted")
    /\ UNCHANGED <<approval, deployment, memory, redis>>

\* An error does not show that nothing happened; a result is remembered first.
ActionReturns(d) ==
    LET a == delivery[d].target IN
    /\ At(d, "acted")
    /\ \/ SetApproval(a, "outcome_unknown") /\ Answer(d) /\ UNCHANGED <<memory, redis>>
       \/ /\ memory' = memory \cup {a} /\ redis' \in {redis, redis \cup {a}}
          /\ Going(d, "record") /\ UNCHANGED approval
       \/ Finish(d, TRUE) /\ UNCHANGED <<approval, memory, redis>>
    /\ UNCHANGED <<deployment, performed>>

RecordExecution(d) ==
    LET a == delivery[d].target IN
    /\ At(d, "record")
    /\ \/ SetApproval(a, "executed") /\ Forget(a) /\ Answer(d)
       \/ Finish(d, TRUE) /\ UNCHANGED <<approval, memory, redis>>
    /\ UNCHANGED <<deployment, performed>>

\* A result in Redis lives for a day.
ResultExpires(a) ==
    /\ a \in redis /\ Fault
    /\ redis' = redis \ {a}
    /\ UNCHANGED <<delivery, approval, deployment, stage, memory, performed>>

-----------------------------------------------------------------------------
(* The owner's side.                                                       *)

ExpirePending(t) == approval' = [a \in Mentions |->
    IF ThreadOf[a] = t /\ approval[a].status = "pending"
    THEN [approval[a] EXCEPT !.status = Closed] ELSE approval[a]]

\* BugLockAuthority changes a deployment without the lock.
BugLockAuthority(t) == deployment[t] # "revoked"
\* Every change of a deployment waits for the lock of its owner's authority.
LockAuthority(t) == AuthorityFree(t) /\ deployment[t] # "revoked"

ChangeDeployment(t, status) ==
    /\ LockAuthority(t)
    /\ deployment' = [deployment EXCEPT ![t] = status]
    /\ UNCHANGED <<delivery, stage, memory, redis, performed>>

PauseDeployment(t) ==
    /\ deployment[t] = "active" /\ ChangeDeployment(t, "paused") /\ Fault
    /\ UNCHANGED approval
ResumeDeployment(t) ==
    /\ deployment[t] = "paused" /\ ChangeDeployment(t, "active")
    /\ UNCHANGED <<approval, faults>>
DeleteDeployment(t) == ChangeDeployment(t, "revoked") /\ Fault /\ ExpirePending(t)
RemoveDeployer(t) == ChangeDeployment(t, "revoked") /\ Fault /\ UNCHANGED approval
EditDeployment(t) == ChangeDeployment(t, deployment[t]) /\ Fault /\ ExpirePending(t)

-----------------------------------------------------------------------------
InitHosted ==
    /\ delivery = [d \in Deliveries |-> NoDelivery]
    /\ approval = [a \in Mentions |-> NoApproval]
    /\ deployment = [t \in Threads |-> "active"]
    /\ stage = AtRest
    /\ memory = {} /\ redis = {}
    /\ performed = [a \in Mentions |-> 0]
    /\ faults = 0

\* What the workers and their queue do by themselves.
WorkerSteps(d) ==
    \/ ProcessMention(d) \/ AgentTurn(d) \/ PostApproval(d)
    \/ ReconcileOutcome(d) \/ ReportStatus(d) \/ RecoverExecuting(d) \/ DecidePending(d)
    \/ CheckClaim(d) \/ ClaimApproval(d) \/ PerformAction(d) \/ ActionReturns(d)
    \/ RecordExecution(d)

HostWorks ==
    \E d \in Deliveries : /\ delivery[d].status \in Waiting
                          /\ \/ At(d, "idle") /\ ClaimDelivery(d)
                             \/ ~At(d, "idle") /\ WorkerSteps(d)

NextHosted ==
    \/ \E d \in Deliveries : ReceiveMention(d) \/ ReceiveInteraction(d)
    \/ HostWorks
    \/ CrashHost
    \/ \E a \in Mentions : ResultExpires(a)
    \/ \E t \in Threads : \/ PauseDeployment(t) \/ ResumeDeployment(t)
                          \/ DeleteDeployment(t) \/ RemoveDeployer(t) \/ EditDeployment(t)

HostedSpec == InitHosted /\ [][NextHosted]_hostedVars

\* The state is well formed (slack_agent_host.go, models/hosted_agent.go).
HostedTypeOK ==
    /\ delivery \in [Deliveries -> [status : {"none", "ended"} \cup Waiting,
                      kind : {"none", "mention"} \cup Presses, target : Mentions \cup {0},
                      replied : BOOLEAN, attempts : 0..(MaxAttempts + MaxFaults)]]
    /\ approval \in [Mentions -> [posted : BOOLEAN, status : {"none", "pending", "executing",
                                  "executed", "outcome_unknown", Closed}]]
    /\ deployment \in [Threads -> {"active", "paused", "revoked"}]
    /\ stage \in [Deliveries -> {"idle", "start", "turn", "post_approval", "approve"}
                                   \cup Executing]
    /\ memory \subseteq Mentions /\ redis \subseteq Mentions
    /\ performed \in [Mentions -> Nat] /\ faults \in 0..MaxFaults

-----------------------------------------------------------------------------
\* An approved action is performed at most once, however often its delivery is
\* retried, and never while an equivalent one runs or may have happened; and a
\* delivery is processed alone in its thread, after the earlier ones have ended,
\* those that wait for another attempt included (slack_agent_host.go:411, :1403,
\* :1756, :1872).
ActsOnceAndAlone ==
    /\ \A a \in Mentions : performed[a] <= 1
    /\ \A d \in Deliveries : ~At(d, "idle") => FirstOfThread(d)
    /\ \A a, b \in Mentions : {approval[a].status, approval[b].status} \subseteq
                                   {"executing", "outcome_unknown"} => a = b

\* While an action is under way its deployment is active and its owner a member:
\* revoking either waits for the action (slack_agent_host.go:553, :1749).
AuthorityCoversAction ==
    \A d \in Deliveries : stage[d] \in {"act", "acted", "record"} => Mine(d) = "active"

\* An outcome that can still be looked up is not given up as unknown
\* (slack_agent_host.go:2000).
KnownOutcomeKept ==
    [][\A a \in Mentions : approval'[a].status = "outcome_unknown" =>
          approval[a].status = "outcome_unknown" \/ a \notin memory \cup redis]_hostedVars
=============================================================================
