--------------------------- MODULE CodingAgentJobs ---------------------------
(***************************************************************************)
(* Durable coding-agent jobs: src/internal/codingagent.  Workers of every  *)
(* replica claim rows of the job table, lease the job's sandbox            *)
(* environment, take the owner's authority lock, prepare a checkout, mark  *)
(* the job running, launch Codex in the sandbox and settle the outcome.    *)
(* Users cancel, disconnect and are removed meanwhile; workers stall and   *)
(* crash; the reconciler cleans up after them.                             *)
(*                                                                         *)
(* One database transaction is one step.  A worker is a goroutine running  *)
(* processJob; pc says which call it makes next, so every await between    *)
(* two transactions is a point where anybody else may act.                 *)
(***************************************************************************)
EXTENDS Integers, FiniteSets

CONSTANTS
  Jobs, Workers, Envs, Users,  \* an element of Envs is a workspace key
  EnvOf, UserOf,               \* each job's workspace and owner
  Ephemeral,                   \* workspaces of ephemeral jobs
  Granted,                     \* jobs submitted with workflow-tool grants
  MaxAttempts,                 \* max_attempts of each job, 3 in Store.Submit
  UserCapacity,                \* active jobs a user may have, 5 in Store.Submit
  MaxFaults,                   \* bound on worker crashes
  NoJob, NoWorker              \* the empty current_job_id and claimed_by

(* workspaceKey hashes the owner into the key, and the job too when the    *)
(* workspace is ephemeral.                                                 *)
ASSUME JobsAssumption ==
  /\ EnvOf \in [Jobs -> Envs]
  /\ UserOf \in [Jobs -> Users]
  /\ \A i, j \in Jobs : EnvOf[i] = EnvOf[j] => UserOf[i] = UserOf[j]
  /\ Ephemeral \subseteq Envs
  /\ \A i, j \in Jobs : EnvOf[i] = EnvOf[j] /\ EnvOf[i] \in Ephemeral => i = j
  /\ Granted \subseteq Jobs

ASSUME BoundsAssumption ==
  /\ MaxAttempts \in [Jobs -> Nat \ {0}]
  /\ UserCapacity \in Nat
  /\ MaxFaults \in Nat

ASSUME NullAssumption == NoJob \notin Jobs /\ NoWorker \notin Workers

VARIABLES
  (* coding_agent_jobs *)
  status, claimedBy, attempts,
  cancel,      \* cancel_requested_at: unset, before or after started_at
  token,       \* tool_token_hash is set
  started,     \* started_at and provider_execution_id are set
  recorded,    \* environment_id and session_id are set
  beat,        \* age of heartbeat_at against StaleAfter and RecoveryGrace
  (* coding_agent_environments *)
  envStatus, holder, sandboxId,
  (* credentials, memberships and the advisory lock per owner *)
  credential, member, authority,
  (* the sandbox: completion markers and live Codex processes *)
  marker, live,
  recovering,  \* a reconciler has recovered the job and not yet tidied up
  (* local state of processJob *)
  pc, task, exit, outcome, leave,
  (* history and bounds *)
  runs, faults

jobVars    == <<status, claimedBy, attempts, cancel, token, started, recorded, beat>>
envVars    == <<envStatus, holder, sandboxId>>
userVars   == <<credential, member, authority>>
boxVars    == <<marker, live, runs, recovering>>
localVars  == <<exit, outcome, leave>>
workerVars == <<pc, task, exit, outcome, leave>>
vars == <<jobVars, envVars, userVars, boxVars, workerVars, faults>>

Active   == {"pending", "claimed", "running"}
Terminal == {"succeeded", "failed", "cancelled", "timed_out"}
Statuses == {"absent"} \cup Active \cup Terminal

(* "uncertain" is status error with the text of ErrSandboxExecutionUncertain. *)
EnvStatuses == {"absent", "provisioning", "busy", "ready", "error",
                "uncertain", "deleting", "archived"}

(* The calls of processJob, in order; "release" to "return" are its exits. *)
Prologue == {"lease", "create", "open", "lock"}
Locked   == {"prepare", "mark"}
Driving  == {"check", "mint", "launch", "run", "refresh", "finalize", "cleanup"}
Exiting  == {"release", "delete", "settle", "return"}
Stages   == {"idle"} \cup Prologue \cup Locked \cup Driving \cup Exiting

Exits    == {"none", "busy", "retry", "failed", "cancelled", "timed_out", "drop"}
Results  == {"none", "success", "error", "uncertain"}

Init ==
  /\ status    = [j \in Jobs |-> "absent"]
  /\ claimedBy = [j \in Jobs |-> NoWorker]
  /\ attempts  = [j \in Jobs |-> 0]
  /\ cancel    = [j \in Jobs |-> "no"]
  /\ token     = [j \in Jobs |-> FALSE]
  /\ started   = [j \in Jobs |-> FALSE]
  /\ recorded  = [j \in Jobs |-> FALSE]
  /\ beat      = [j \in Jobs |-> "unset"]
  /\ envStatus = [e \in Envs |-> "absent"]
  /\ holder    = [e \in Envs |-> NoJob]
  /\ sandboxId = [e \in Envs |-> FALSE]
  /\ credential = [u \in Users |-> "connected"]
  /\ member    = [u \in Users |-> TRUE]
  /\ authority = [u \in Users |-> NoWorker]
  /\ marker    = [j \in Jobs |-> FALSE]
  /\ live      = [j \in Jobs |-> FALSE]
  /\ runs      = [j \in Jobs |-> 0]
  /\ recovering = [j \in Jobs |-> FALSE]
  /\ pc        = [w \in Workers |-> "idle"]
  /\ task      = [w \in Workers |-> NoJob]
  /\ exit      = [w \in Workers |-> "none"]
  /\ outcome   = [w \in Workers |-> "none"]
  /\ leave     = [w \in Workers |-> "ready"]
  /\ faults    = 0

-----------------------------------------------------------------------------
(* State formulae.  A definition Bug... is a plausible mistake in the one   *)
(* that follows it; no action uses it, it shows that a property can fail.  *)

OwnerOf(j) == UserOf[j]
JobsOf(u)  == {j \in Jobs : UserOf[j] = u}
ActiveOf(u) == {j \in JobsOf(u) : status[j] \in Active}

BugLockFree(u) == TRUE

LockFree(u) == authority[u] = NoWorker

(* validTransition: what Store.transition lets a claim holder do. *)
ValidTransition(from, to) ==
  \/ from = "pending" /\ to \in {"claimed", "cancelled"}
  \/ from = "claimed" /\ to \in {"running", "failed", "cancelled", "timed_out"}
  \/ from = "running" /\ to \in Terminal

CanTransition(w, j, to) == claimedBy[j] = w /\ ValidTransition(status[j], to)

CanRequeue(w, j) == claimedBy[j] = w /\ status[j] = "claimed" /\ ~started[j]

BugClaimable(j) == status[j] = "pending"

Claimable(j) == status[j] = "pending" /\ attempts[j] < MaxAttempts[j]

LeaseBusy(e, j) == holder[e] \notin {NoJob, j}

(* An archived row keeps its key; an uncertain one must be reset by hand.  *)
LeaseRefused(e) == envStatus[e] \in {"deleting", "archived", "uncertain"}

(* finalizeRuntimeSuccess: the claim guard of its transaction. *)
BugCanFinalize(w, j) == status[j] # "succeeded"

CanFinalize(w, j) == claimedBy[j] = w /\ status[j] = "running"

(* Rows the reconciler picks: a claim older than StaleAfter, a run older    *)
(* than RecoveryGrace, a run whose completion marker can be downloaded.    *)
BugStaleClaim(j) == status[j] = "claimed" /\ beat[j] = "unset"

StaleClaim(j) == status[j] = "claimed" /\ beat[j] # "fresh" /\ ~started[j]

BugInterrupted(j) == status[j] = "running" /\ beat[j] = "unset"

Interrupted(j) == status[j] = "running" /\ beat[j] = "lost"

BugRecoverable(j) ==
  status[j] = "running" /\ started[j] /\ recorded[j] /\ beat[j] # "fresh"

Recoverable(j) ==
  status[j] = "running" /\ started[j] /\ recorded[j] /\ beat[j] # "fresh" /\ marker[j]

(* A tool call of the sandbox is served (authenticateToolCall). *)
Authorized(j) ==
  /\ token[j] /\ status[j] = "running" /\ cancel[j] = "no"
  /\ beat[j] = "fresh" /\ member[UserOf[j]]

(* A cancellation keeps the time of the first request. *)
Requested(j) ==
  IF cancel[j] # "no" THEN cancel[j]
  ELSE IF started[j] THEN "late" ELSE "early"

(* The provider deletes a sandbox: its processes die, its files are lost. *)
DeleteSandbox(e) ==
  /\ live'   = [j \in Jobs |-> live[j] /\ EnvOf[j] # e]
  /\ marker' = [j \in Jobs |-> marker[j] /\ EnvOf[j] # e]

Goto(w, stage) == pc' = [pc EXCEPT ![w] = stage]

(* processJob leaves: report x once the environment, if leased, is let go  *)
(* with the status s.                                                      *)
Release(w, x, s) ==
  /\ Goto(w, "release")
  /\ exit'  = [exit EXCEPT ![w] = x]
  /\ leave' = [leave EXCEPT ![w] = s]

Reset(w) ==
  /\ Goto(w, "idle")
  /\ task'    = [task EXCEPT ![w] = NoJob]
  /\ exit'    = [exit EXCEPT ![w] = "none"]
  /\ outcome' = [outcome EXCEPT ![w] = "none"]
  /\ leave'   = [leave EXCEPT ![w] = "ready"]

Unlock(w) ==
  authority' = [u \in Users |-> IF authority[u] = w THEN NoWorker ELSE authority[u]]

-----------------------------------------------------------------------------
(* Users: submit, cancel, connect, disconnect, leave the organization.     *)

Submit(j) ==
  LET u == UserOf[j] IN
  /\ status[j] = "absent"
  /\ credential[u] = "connected"
  /\ Cardinality(ActiveOf(u)) < UserCapacity
  /\ status' = [status EXCEPT ![j] = "pending"]
  /\ UNCHANGED <<claimedBy, attempts, cancel, token, started, recorded, beat,
                 envVars, userVars, boxVars, workerVars, faults>>

CancelPending(j) ==
  /\ status[j] = "pending"
  /\ status' = [status EXCEPT ![j] = "cancelled"]
  /\ cancel' = [cancel EXCEPT ![j] = Requested(j)]
  /\ token'  = [token EXCEPT ![j] = FALSE]
  /\ UNCHANGED <<claimedBy, attempts, started, recorded, beat,
                 envVars, userVars, boxVars, workerVars, faults>>

(* The worker sees the request at its next heartbeat, or at once when it   *)
(* runs in the replica that served the request.                            *)
CancelClaimed(j) ==
  /\ status[j] \in {"claimed", "running"}
  /\ cancel[j] = "no"
  /\ cancel' = [cancel EXCEPT ![j] = Requested(j)]
  /\ token'  = [token EXCEPT ![j] = FALSE]
  /\ UNCHANGED <<status, claimedBy, attempts, started, recorded, beat,
                 envVars, userVars, boxVars, workerVars, faults>>

(* completeCodexConnection, at the end of a device login. *)
Connect(u) ==
  /\ LockFree(u) /\ member[u] /\ credential[u] = "revoked"
  /\ credential' = [credential EXCEPT ![u] = "connected"]
  /\ UNCHANGED <<jobVars, envVars, member, authority, boxVars, workerVars, faults>>

BugRevokeJobsOf(u) ==
  /\ status' = [j \in Jobs |->
       IF UserOf[j] = u /\ status[j] = "pending" THEN "cancelled" ELSE status[j]]
  /\ UNCHANGED <<claimedBy, attempts, cancel, token, started, recorded, beat>>

(* Pending jobs of u end; claimed and running ones are asked to stop.  A   *)
(* pending job has no token yet (RemoveMember does not clear it there).    *)
RevokeJobsOf(u) ==
  /\ status' = [j \in Jobs |->
       IF UserOf[j] = u /\ status[j] = "pending" THEN "cancelled" ELSE status[j]]
  /\ cancel' = [j \in Jobs |->
       IF j \in ActiveOf(u) THEN Requested(j) ELSE cancel[j]]
  /\ token'  = [j \in Jobs |-> token[j] /\ j \notin ActiveOf(u)]
  /\ UNCHANGED <<claimedBy, attempts, started, recorded, beat>>

BugDisconnect(u) ==
  /\ credential' = [credential EXCEPT ![u] = "revoked"]
  /\ RevokeJobsOf(u)
  /\ UNCHANGED <<envVars, member, authority, boxVars, workerVars, faults>>

Disconnect(u) ==
  /\ LockFree(u)
  /\ credential' = [credential EXCEPT ![u] = "revoked"]
  /\ RevokeJobsOf(u)
  /\ UNCHANGED <<envVars, member, authority, boxVars, workerVars, faults>>

RemoveMember(u) ==
  /\ LockFree(u) /\ member[u]
  /\ member' = [member EXCEPT ![u] = FALSE]
  /\ credential' = [credential EXCEPT ![u] = "revoked"]
  /\ RevokeJobsOf(u)
  /\ UNCHANGED <<envVars, authority, boxVars, workerVars, faults>>

-----------------------------------------------------------------------------
(* A worker before the job is marked running.                              *)

ClaimNext(w, j) ==
  /\ pc[w] = "idle" /\ Claimable(j)
  /\ status'    = [status EXCEPT ![j] = "claimed"]
  /\ claimedBy' = [claimedBy EXCEPT ![j] = w]
  /\ attempts'  = [attempts EXCEPT ![j] = @ + 1]
  /\ beat'      = [beat EXCEPT ![j] = "fresh"]
  /\ task'      = [task EXCEPT ![w] = j]
  /\ Goto(w, "lease")
  /\ UNCHANGED <<cancel, token, started, recorded, envVars, userVars, boxVars,
                 localVars, faults>>

(* verifyMember fails before anything is leased. *)
NotMember(w) ==
  /\ pc[w] = "lease" /\ ~member[OwnerOf(task[w])]
  /\ Goto(w, "settle")
  /\ exit' = [exit EXCEPT ![w] = "failed"]
  /\ UNCHANGED <<jobVars, envVars, userVars, boxVars, task, outcome, leave, faults>>

LeaseDenied(w) ==
  LET j == task[w] IN
  /\ pc[w] = "lease"
  /\ LeaseBusy(EnvOf[j], j) \/ LeaseRefused(EnvOf[j])
  /\ Goto(w, "settle")
  /\ exit' = [exit EXCEPT ![w] = IF LeaseBusy(EnvOf[j], j) THEN "busy" ELSE "retry"]
  /\ UNCHANGED <<jobVars, envVars, userVars, boxVars, task, outcome, leave, faults>>

AcquireLease(w) ==
  LET j == task[w]
      e == EnvOf[j] IN
  /\ pc[w] = "lease" /\ member[OwnerOf(j)]
  /\ ~LeaseBusy(e, j) /\ ~LeaseRefused(e)
  /\ holder'    = [holder EXCEPT ![e] = j]
  /\ envStatus' = [envStatus EXCEPT ![e] = IF sandboxId[e] THEN "busy" ELSE "provisioning"]
  /\ Goto(w, IF sandboxId[e] THEN "open" ELSE "create")
  /\ UNCHANGED <<jobVars, sandboxId, userVars, boxVars, task, exit, outcome, leave, faults>>

(* A new sandbox is recorded under the lease. *)
CreateSandbox(w) ==
  LET j == task[w]
      e == EnvOf[j] IN
  /\ pc[w] = "create"
  /\ envStatus' = [envStatus EXCEPT ![e] = IF holder[e] = j THEN "busy" ELSE @]
  /\ sandboxId' = [sandboxId EXCEPT ![e] = @ \/ holder[e] = j]
  /\ Goto(w, "lock")
  /\ UNCHANGED <<jobVars, holder, userVars, boxVars, task, localVars, faults>>

(* A recorded one is started, and its row set busy by id alone. *)
OpenSandbox(w) ==
  /\ pc[w] = "open"
  /\ envStatus' = [envStatus EXCEPT ![EnvOf[task[w]]] = "busy"]
  /\ Goto(w, "lock")
  /\ UNCHANGED <<jobVars, holder, sandboxId, userVars, boxVars, task, localVars, faults>>

(* markEnvironmentError; a new sandbox with a bad toolchain is deleted. *)
ProvisionFails(w) ==
  LET j == task[w]
      e == EnvOf[j] IN
  /\ pc[w] \in {"create", "open"}
  /\ envStatus' = [envStatus EXCEPT ![e] = IF holder[e] = j THEN "error" ELSE @]
  /\ holder'    = [holder EXCEPT ![e] = IF @ = j THEN NoJob ELSE @]
  /\ \/ UNCHANGED <<live, marker>>
     \/ pc[w] = "create" /\ DeleteSandbox(e)
  /\ Goto(w, "settle")
  /\ exit' = [exit EXCEPT ![w] = "retry"]
  /\ UNCHANGED <<jobVars, sandboxId, userVars, runs, recovering, task, outcome, leave, faults>>

LockFails(w) ==
  /\ pc[w] = "lock"
  /\ Release(w, "retry", "error")
  /\ UNCHANGED <<jobVars, envVars, userVars, boxVars, task, outcome, faults>>

(* The lock is granted and membership is verified again beneath it. *)
TakeAuthority(w) ==
  LET u == OwnerOf(task[w]) IN
  /\ pc[w] = "lock" /\ LockFree(u)
  /\ authority' = [authority EXCEPT ![u] = w]
  /\ \/ member[u] /\ Goto(w, "prepare") /\ UNCHANGED <<exit, leave>>
     \/ ~member[u] /\ Release(w, "failed", "error")
  /\ UNCHANGED <<jobVars, envVars, credential, member, boxVars, task, outcome, faults>>

(* prepareRepository, loadCredential, ensureSession, and the job row is    *)
(* updated by id alone; only the last of them touches shared rows.         *)
Prepare(w) ==
  LET j == task[w] IN
  /\ pc[w] = "prepare" /\ credential[OwnerOf(j)] = "connected"
  /\ recorded' = [recorded EXCEPT ![j] = TRUE]
  /\ Goto(w, "mark")
  /\ UNCHANGED <<status, claimedBy, attempts, cancel, token, started, beat,
                 envVars, userVars, boxVars, task, localVars, faults>>

(* A failed checkout is retried, a missing credential or session is final. *)
PrepareFails(w) ==
  /\ pc[w] = "prepare"
  /\ \E x \in {"retry", "failed"} : Release(w, x, "error")
  /\ UNCHANGED <<jobVars, envVars, userVars, boxVars, task, outcome, faults>>

-----------------------------------------------------------------------------
(* A worker from MarkRunning to the end of the runtime.                    *)

MarkRunning(w) ==
  LET j == task[w] IN
  /\ pc[w] = "mark" /\ CanTransition(w, j, "running")
  /\ status'  = [status EXCEPT ![j] = "running"]
  /\ started' = [started EXCEPT ![j] = TRUE]
  /\ beat'    = [beat EXCEPT ![j] = "fresh"]
  /\ Goto(w, "check")
  /\ UNCHANGED <<claimedBy, attempts, cancel, token, recorded,
                 envVars, userVars, boxVars, task, localVars, faults>>

MarkRunningFails(w) ==
  /\ pc[w] = "mark"
  /\ Release(w, "drop", "error")
  /\ UNCHANGED <<jobVars, envVars, userVars, boxVars, task, outcome, faults>>

BugFirstHeartbeat(w) ==
  LET j == task[w] IN
  /\ pc[w] = "check"
  /\ claimedBy[j] = w /\ status[j] \notin Terminal
  /\ beat' = [beat EXCEPT ![j] = "fresh"]
  /\ Goto(w, "mint") /\ UNCHANGED <<exit, leave>>
  /\ UNCHANGED <<status, claimedBy, attempts, cancel, token, started, recorded,
                 envVars, userVars, boxVars, task, outcome, faults>>

(* The first heartbeat, before the runtime: a request seen here is the     *)
(* last one that prevents the launch.                                      *)
FirstHeartbeat(w) ==
  LET j == task[w] IN
  /\ pc[w] = "check"
  /\ claimedBy[j] = w /\ status[j] \notin Terminal
  /\ beat' = [beat EXCEPT ![j] = "fresh"]
  /\ \/ cancel[j] = "no" /\ Goto(w, "mint") /\ UNCHANGED <<exit, leave>>
     \/ cancel[j] # "no" /\ Release(w, "cancelled", "ready")
  /\ UNCHANGED <<status, claimedBy, attempts, cancel, token, started, recorded,
                 envVars, userVars, boxVars, task, outcome, faults>>

FirstHeartbeatFails(w) ==
  /\ pc[w] = "check"
  /\ Release(w, "drop", "ready")
  /\ UNCHANGED <<jobVars, envVars, userVars, boxVars, task, outcome, faults>>

(* The digest is stored by job id alone. *)
MintToolToken(w) ==
  LET j == task[w] IN
  /\ pc[w] = "mint"
  /\ token' = [token EXCEPT ![j] = @ \/ j \in Granted]
  /\ Goto(w, "launch")
  /\ UNCHANGED <<status, claimedBy, attempts, cancel, started, recorded, beat,
                 envVars, userVars, boxVars, task, localVars, faults>>

MintFails(w) ==
  /\ pc[w] = "mint" /\ task[w] \in Granted
  /\ Release(w, "failed", "ready")
  /\ UNCHANGED <<jobVars, envVars, userVars, boxVars, task, outcome, faults>>

(* Runtime.Run: verify the toolchain, upload the inputs, start Codex. *)
Launch(w) ==
  LET j == task[w] IN
  /\ pc[w] = "launch"
  /\ live' = [live EXCEPT ![j] = TRUE]
  /\ runs' = [runs EXCEPT ![j] = @ + 1]
  /\ Goto(w, "run")
  /\ UNCHANGED <<jobVars, envVars, userVars, marker, recovering, task, localVars, faults>>

EndRun(w, result) ==
  /\ outcome' = [outcome EXCEPT ![w] = result]
  /\ Goto(w, "refresh")
  /\ UNCHANGED <<jobVars, envVars, userVars, runs, recovering, task, exit, leave, faults>>

LaunchFails(w) ==
  /\ pc[w] = "launch"
  /\ EndRun(w, "error")
  /\ UNCHANGED <<marker, live>>

(* Codex exits with a result and its completion marker is uploaded. *)
RunCompletes(w) ==
  LET j == task[w] IN
  /\ pc[w] = "run" /\ live[j]
  /\ live'   = [live EXCEPT ![j] = FALSE]
  /\ marker' = [marker EXCEPT ![j] = TRUE]
  /\ EndRun(w, "success")

(* The run is cut short or fails.  Only a cancelled context whose session  *)
(* and sandbox cannot be stopped is reported as uncertain; a status poll   *)
(* that fails leaves the process alive when its session cannot be deleted. *)
RunFails(w) ==
  LET j == task[w] IN
  /\ pc[w] = "run"
  /\ \/ live' = [live EXCEPT ![j] = FALSE] /\ EndRun(w, "error")
     \/ live[j] /\ UNCHANGED live /\ EndRun(w, "error")
     \/ live[j] /\ UNCHANGED live /\ EndRun(w, "uncertain")
  /\ UNCHANGED marker

(* The heartbeat goroutine, from after the first heartbeat to the end of   *)
(* the run; on a lost claim it only cancels the run.                       *)
Heartbeat(w) ==
  LET j == task[w] IN
  /\ pc[w] \in {"mint", "launch", "run"}
  /\ claimedBy[j] = w /\ status[j] \notin Terminal
  /\ beat[j] # "fresh"
  /\ beat' = [beat EXCEPT ![j] = "fresh"]
  /\ UNCHANGED <<status, claimedBy, attempts, cancel, token, started, recorded,
                 envVars, userVars, boxVars, workerVars, faults>>

(* How a failed run is reported: cancellation comes before the deadline.   *)
FailureStatuses(j) ==
  IF cancel[j] # "no" THEN {"cancelled"} ELSE {"failed", "timed_out"}

(* persistCredentialRefresh saves the whole credential row, then processJob *)
(* branches on the result.                                                 *)
Refresh(w) ==
  LET j == task[w] IN
  /\ pc[w] = "refresh"
  /\ credential' \in {credential, [credential EXCEPT ![OwnerOf(j)] = "connected"]}
  /\ \/ outcome[w] = "success" /\ Goto(w, "finalize") /\ UNCHANGED <<exit, leave>>
     \/ /\ outcome[w] # "success"
        /\ \E x \in FailureStatuses(j) :
             Release(w, x, IF outcome[w] = "uncertain" THEN "uncertain" ELSE "ready")
  /\ UNCHANGED <<jobVars, envVars, member, authority, boxVars, task, outcome, faults>>

-----------------------------------------------------------------------------
(* The success path and the exits of a worker.                             *)

(* One transaction: the outcome, the session and the environment lease.    *)
CommitSuccess(w, j) ==
  LET e == EnvOf[j] IN
  /\ CanFinalize(w, j)
  /\ status'    = [status EXCEPT ![j] = "succeeded"]
  /\ token'     = [token EXCEPT ![j] = FALSE]
  /\ beat'      = [beat EXCEPT ![j] = "fresh"]
  /\ envStatus' = [envStatus EXCEPT ![e] = IF holder[e] # j THEN @ ELSE IF e \in Ephemeral THEN "deleting" ELSE "ready"]
  /\ holder'    = [holder EXCEPT ![e] = IF @ = j THEN NoJob ELSE @]
  /\ UNCHANGED <<claimedBy, attempts, cancel, started, recorded>>

Finalize(w) ==
  /\ pc[w] = "finalize"
  /\ CommitSuccess(w, task[w])
  /\ Goto(w, "cleanup")
  /\ UNCHANGED <<sandboxId, userVars, boxVars, task, localVars, faults>>

(* Three failed attempts: the claim and the lease are kept on purpose, the *)
(* marker waits for the reconciler.  Finding the job already recovered     *)
(* counts as success.                                                      *)
FinalizeFails(w) ==
  /\ pc[w] = "finalize"
  /\ Goto(w, IF status[task[w]] = "succeeded" THEN "cleanup" ELSE "return")
  /\ UNCHANGED <<jobVars, envVars, userVars, boxVars, task, localVars, faults>>

(* The row of a finished ephemeral workspace, once its sandbox is deleted  *)
(* or could not be; only when nobody leased it since.                      *)
Archive(e, deleted) ==
  /\ envStatus' = [envStatus EXCEPT ![e] =
       IF holder[e] # NoJob THEN @ ELSE IF deleted THEN "archived" ELSE "error"]
  /\ sandboxId' = [sandboxId EXCEPT ![e] = @ /\ ~(deleted /\ holder[e] = NoJob)]

(* removeRecoveryMarker and finishSuccessfulEnvironmentLifecycle. *)
TidyUp(j) ==
  LET e == EnvOf[j]
      RemoveMarker == marker' = [marker EXCEPT ![j] = FALSE] /\ UNCHANGED live IN
  \/ e \notin Ephemeral /\ RemoveMarker /\ UNCHANGED <<envStatus, sandboxId>>
  \/ e \in Ephemeral /\ DeleteSandbox(e) /\ Archive(e, TRUE)
  \/ e \in Ephemeral /\ RemoveMarker /\ Archive(e, FALSE)

Cleanup(w) ==
  /\ pc[w] = "cleanup"
  /\ TidyUp(task[w])
  /\ Goto(w, "return")
  /\ UNCHANGED <<jobVars, holder, userVars, runs, recovering, task, localVars, faults>>

(* releaseEnvironment; an ephemeral workspace is marked first. *)
ReleaseEnvironment(w) ==
  LET j == task[w]
      e == EnvOf[j] IN
  /\ pc[w] = "release"
  /\ \/ /\ e \notin Ephemeral
        /\ envStatus' = [envStatus EXCEPT ![e] = IF holder[e] = j THEN leave[w] ELSE @]
        /\ holder'    = [holder EXCEPT ![e] = IF @ = j THEN NoJob ELSE @]
        /\ Goto(w, "settle")
     \/ /\ e \in Ephemeral
        /\ envStatus' = [envStatus EXCEPT ![e] = IF holder[e] = j THEN "deleting" ELSE @]
        /\ Goto(w, "delete")
        /\ UNCHANGED holder
  /\ UNCHANGED <<jobVars, sandboxId, userVars, boxVars, task, localVars, faults>>

(* The sandbox is deleted whether or not the lease is still held; the row  *)
(* is updated only under the lease.                                        *)
DeleteEphemeral(w) ==
  LET j == task[w]
      e == EnvOf[j] IN
  /\ pc[w] = "delete"
  /\ \E deleted \in BOOLEAN :
       /\ IF deleted THEN DeleteSandbox(e) ELSE UNCHANGED <<live, marker>>
       /\ envStatus' = [envStatus EXCEPT ![e] =
            IF holder[e] # j THEN @ ELSE IF deleted THEN "archived" ELSE "error"]
       /\ sandboxId' = [sandboxId EXCEPT ![e] = @ /\ ~(deleted /\ holder[e] = j)]
  /\ holder' = [holder EXCEPT ![e] = IF @ = j THEN NoJob ELSE @]
  /\ Goto(w, "settle")
  /\ UNCHANGED <<jobVars, userVars, runs, recovering, task, localVars, faults>>

(* Store.Requeue and Store.RequeueBusy. *)
Exhausted(w) == exit[w] = "retry" /\ attempts[task[w]] >= MaxAttempts[task[w]]

Requeue(w) ==
  LET j == task[w] IN
  /\ pc[w] = "settle" /\ exit[w] \in {"busy", "retry"} /\ CanRequeue(w, j)
  /\ status'    = [status EXCEPT ![j] = IF Exhausted(w) THEN "failed" ELSE "pending"]
  /\ claimedBy' = [claimedBy EXCEPT ![j] = NoWorker]
  /\ attempts'  = [attempts EXCEPT ![j] = IF exit[w] = "busy" /\ @ > 0 THEN @ - 1 ELSE @]
  /\ beat'      = [beat EXCEPT ![j] = IF Exhausted(w) THEN @ ELSE "unset"]
  /\ Goto(w, "return")
  /\ UNCHANGED <<cancel, token, started, recorded,
                 envVars, userVars, boxVars, task, localVars, faults>>

(* Store.Fail. *)
Fail(w) ==
  LET j == task[w] IN
  /\ pc[w] = "settle" /\ exit[w] \in {"failed", "cancelled", "timed_out"}
  /\ CanTransition(w, j, exit[w])
  /\ status' = [status EXCEPT ![j] = exit[w]]
  /\ token'  = [token EXCEPT ![j] = FALSE]
  /\ beat'   = [beat EXCEPT ![j] = "fresh"]
  /\ Goto(w, "return")
  /\ UNCHANGED <<claimedBy, attempts, cancel, started, recorded,
                 envVars, userVars, boxVars, task, localVars, faults>>

(* The claim is gone, or there is nothing to report. *)
SettleNothing(w) ==
  LET j == task[w] IN
  /\ pc[w] = "settle"
  /\ CASE exit[w] \in {"busy", "retry"} -> ~CanRequeue(w, j)
       [] exit[w] = "drop"              -> TRUE
       [] OTHER                         -> ~CanTransition(w, j, exit[w])
  /\ Goto(w, "return")
  /\ UNCHANGED <<jobVars, envVars, userVars, boxVars, task, localVars, faults>>

(* The deferred calls: revokeToolToken, if the run had a token, and the    *)
(* release of the authority lock.                                          *)
Return(w) ==
  LET j == task[w] IN
  /\ pc[w] = "return"
  /\ token' = [token EXCEPT ![j] = @ /\ ~(outcome[w] # "none" /\ j \in Granted)]
  /\ Unlock(w)
  /\ Reset(w)
  /\ UNCHANGED <<status, claimedBy, attempts, cancel, started, recorded, beat,
                 envVars, credential, member, boxVars, faults>>

-----------------------------------------------------------------------------
(* Time, failures and the reconciler.                                      *)

(* The clock passes StaleAfter, then RecoveryGrace. *)
HeartbeatAges(j) ==
  /\ \/ status[j] \in {"claimed", "running"} /\ beat[j] = "fresh"
        /\ beat' = [beat EXCEPT ![j] = "stale"]
     \/ status[j] = "running" /\ beat[j] = "stale"
        /\ beat' = [beat EXCEPT ![j] = "lost"]
  /\ UNCHANGED <<status, claimedBy, attempts, cancel, token, started, recorded,
                 envVars, userVars, boxVars, workerVars, faults>>

(* recoverCompletedJobs: finalize from the completion marker, in the name  *)
(* of the worker that held the claim, then tidy up.                        *)
RecoverCompleted(j) ==
  /\ Recoverable(j)
  /\ CommitSuccess(claimedBy[j], j)
  /\ recovering' = [recovering EXCEPT ![j] = TRUE]
  /\ UNCHANGED <<sandboxId, userVars, marker, live, runs, workerVars, faults>>

CleanupRecovered(j) ==
  /\ recovering[j]
  /\ TidyUp(j)
  /\ recovering' = [recovering EXCEPT ![j] = FALSE]
  /\ UNCHANGED <<jobVars, holder, userVars, runs, workerVars, faults>>

(* The replica whose reconciler recovered j dies before it tidied up. *)
RecoveryDies(j) ==
  /\ recovering[j] /\ faults < MaxFaults
  /\ faults' = faults + 1
  /\ recovering' = [recovering EXCEPT ![j] = FALSE]
  /\ UNCHANGED <<jobVars, envVars, userVars, marker, live, runs, workerVars>>

(* Store.ReconcileStale. *)
ReconcileClaimed(j) ==
  /\ StaleClaim(j)
  /\ status'    = [status EXCEPT ![j] = "pending"]
  /\ claimedBy' = [claimedBy EXCEPT ![j] = NoWorker]
  /\ beat'      = [beat EXCEPT ![j] = "unset"]
  /\ UNCHANGED <<attempts, cancel, token, started, recorded,
                 envVars, userVars, boxVars, workerVars, faults>>

BugReconcileRunning(j) ==
  /\ Interrupted(j)
  /\ status'    = [status EXCEPT ![j] = "pending"]
  /\ claimedBy' = [claimedBy EXCEPT ![j] = NoWorker]
  /\ beat'      = [beat EXCEPT ![j] = "unset"]
  /\ UNCHANGED <<attempts, cancel, token, started, recorded,
                 envVars, userVars, boxVars, workerVars, faults>>

ReconcileRunning(j) ==
  LET e == EnvOf[j] IN
  /\ Interrupted(j)
  /\ status'    = [status EXCEPT ![j] = "failed"]
  /\ claimedBy' = [claimedBy EXCEPT ![j] = NoWorker]
  /\ token'     = [token EXCEPT ![j] = FALSE]
  /\ envStatus' = [envStatus EXCEPT ![e] = IF recorded[j] /\ holder[e] = j THEN "error" ELSE @]
  /\ holder'    = [holder EXCEPT ![e] = IF recorded[j] /\ @ = j THEN NoJob ELSE @]
  /\ UNCHANGED <<attempts, cancel, started, recorded, beat,
                 sandboxId, userVars, boxVars, workerVars, faults>>

(* A replica dies: its goroutines vanish and its lock session is closed,   *)
(* but the sandbox goes on.                                                *)
Crash(w) ==
  /\ pc[w] # "idle" /\ faults < MaxFaults
  /\ faults' = faults + 1
  /\ Unlock(w)
  /\ Reset(w)
  /\ UNCHANGED <<jobVars, envVars, credential, member, boxVars>>

(* A Codex process nobody waits for ends by itself. *)
OrphanExits(j) ==
  /\ live[j] /\ \A w \in Workers : ~(task[w] = j /\ pc[w] = "run")
  /\ live' = [live EXCEPT ![j] = FALSE]
  /\ UNCHANGED <<jobVars, envVars, userVars, marker, runs, recovering, workerVars, faults>>

-----------------------------------------------------------------------------

UserStep ==
  \/ \E j \in Jobs : Submit(j) \/ CancelPending(j) \/ CancelClaimed(j)
  \/ \E u \in Users : Connect(u) \/ Disconnect(u) \/ RemoveMember(u)

(* Everything processJob does by itself once it has a job. *)
WorkerStep(w) ==
  \/ NotMember(w) \/ LeaseDenied(w) \/ AcquireLease(w)
  \/ CreateSandbox(w) \/ OpenSandbox(w) \/ ProvisionFails(w)
  \/ LockFails(w) \/ TakeAuthority(w)
  \/ Prepare(w) \/ PrepareFails(w)
  \/ MarkRunning(w) \/ MarkRunningFails(w)
  \/ FirstHeartbeat(w) \/ FirstHeartbeatFails(w)
  \/ MintToolToken(w) \/ MintFails(w)
  \/ Launch(w) \/ LaunchFails(w) \/ RunCompletes(w) \/ RunFails(w)
  \/ Refresh(w) \/ Finalize(w) \/ FinalizeFails(w) \/ Cleanup(w)
  \/ ReleaseEnvironment(w) \/ DeleteEphemeral(w)
  \/ Requeue(w) \/ Fail(w) \/ SettleNothing(w) \/ Return(w)

Reconcile(j) ==
  \/ RecoverCompleted(j) \/ CleanupRecovered(j)
  \/ ReconcileClaimed(j) \/ ReconcileRunning(j)

Next ==
  \/ UserStep
  \/ \E w \in Workers : WorkerStep(w) \/ Heartbeat(w) \/ Crash(w)
  \/ \E w \in Workers, j \in Jobs : ClaimNext(w, j)
  \/ \E j \in Jobs : HeartbeatAges(j) \/ Reconcile(j) \/ RecoveryDies(j) \/ OrphanExits(j)

Spec == Init /\ [][Next]_vars

Attended(j) == \E w \in Workers : task[w] = j /\ pc[w] \in {"mint", "launch", "run"}

(* Goroutines are scheduled, a bounded run ends (MaxDurationSeconds), the   *)
(* reconciler's ticker fires, and the clock moves while nobody beats.       *)
Fairness ==
  /\ \A w \in Workers : WF_vars(WorkerStep(w))
  /\ \A j \in Jobs : WF_vars(Reconcile(j)) /\ WF_vars(HeartbeatAges(j) /\ ~Attended(j))

FairSpec == Spec /\ Fairness

-----------------------------------------------------------------------------
(* Properties.                                                             *)

(* Every variable has its type. *)
TypeOK ==
  /\ status \in [Jobs -> Statuses]
  /\ claimedBy \in [Jobs -> Workers \cup {NoWorker}]
  /\ attempts \in [Jobs -> Nat] /\ \A j \in Jobs : attempts[j] <= MaxAttempts[j]
  /\ cancel \in [Jobs -> {"no", "early", "late"}]
  /\ token \in [Jobs -> BOOLEAN]
  /\ started \in [Jobs -> BOOLEAN]
  /\ recorded \in [Jobs -> BOOLEAN]
  /\ beat \in [Jobs -> {"unset", "fresh", "stale", "lost"}]
  /\ envStatus \in [Envs -> EnvStatuses]
  /\ holder \in [Envs -> Jobs \cup {NoJob}]
  /\ sandboxId \in [Envs -> BOOLEAN]
  /\ credential \in [Users -> {"connected", "revoked"}]
  /\ member \in [Users -> BOOLEAN]
  /\ authority \in [Users -> Workers \cup {NoWorker}]
  /\ marker \in [Jobs -> BOOLEAN]
  /\ live \in [Jobs -> BOOLEAN]
  /\ recovering \in [Jobs -> BOOLEAN]
  /\ pc \in [Workers -> Stages]
  /\ task \in [Workers -> Jobs \cup {NoJob}]
  /\ \A w \in Workers : pc[w] # "idle" => task[w] \in Jobs
  /\ exit \in [Workers -> Exits]
  /\ outcome \in [Workers -> Results]
  /\ leave \in [Workers -> {"ready", "error", "uncertain"}]
  /\ runs \in [Jobs -> Nat]
  /\ faults \in 0..MaxFaults

(* A job's runtime is launched at most once, whatever stalls, crashes and  *)
(* requeues happen and however many workers believe they hold the job      *)
(* (coding-agents.md: never replayed after runtime execution begins).      *)
AtMostOnceExecution == \A j \in Jobs : runs[j] <= 1

(* No two workers wait for a runtime in the same workspace, even after a   *)
(* stalled worker lost its lease: the authority lock keeps them apart.     *)
OneRuntimePerWorkspace ==
  \A v, w \in Workers :
    pc[v] = "run" /\ pc[w] = "run" /\ EnvOf[task[v]] = EnvOf[task[w]] => v = w

(* From the credential check to the durable outcome the owner stays a      *)
(* member with a connected credential: revocation commits before the task  *)
(* starts or after it finishes, and no late refresh undoes it              *)
(* (acquireAuthorityLock's comment).                                       *)
AuthorityBoundary ==
  \A w \in Workers : pc[w] \in {"mark"} \cup Driving =>
    member[OwnerOf(task[w])] /\ credential[OwnerOf(task[w])] = "connected"

(* Workflow tools are never served to a sandbox on the authority of a user *)
(* whose credential is revoked, also when the worker crashed and left the  *)
(* process and its token behind (authenticateToolCall).                    *)
NoToolsAfterRevocation ==
  \A j \in Jobs : Authorized(j) => credential[UserOf[j]] = "connected"

(* A job asked to stop before MarkRunning committed never launches its     *)
(* runtime, across requeues and second claims (processJob's first check).  *)
EarlyCancelNeverRuns == \A j \in Jobs : cancel[j] = "early" => runs[j] = 0

(* A job reported successful ran once and its process is over, also when   *)
(* the reconciler finalized it from the marker (finalizeRuntimeSuccess).   *)
SuccessIsBacked ==
  \A j \in Jobs : status[j] = "succeeded" => runs[j] = 1 /\ ~live[j]

(* What SubmitAndWait observes of a job. *)
PhaseOf(j) == IF status[j] \in {"pending", "claimed"} THEN "waiting"
              ELSE IF status[j] = "running" THEN "started" ELSE status[j]

Lifecycle == INSTANCE JobLifecycle
  WITH phase <- [j \in Jobs |-> PhaseOf(j)], executions <- runs

(* The service implements the life cycle it promises a waiting node. *)
ImplementsLifecycle == Lifecycle!Spec

(* A started job reaches an outcome: by its worker, from its marker, or as *)
(* interrupted (ReconcileStale).                                           *)
StartedFinishes ==
  \A j \in Jobs : status[j] = "running" ~> status[j] \in Terminal

(* A claim does not last: the job starts, ends or goes back to the queue.  *)
ClaimResolves ==
  \A j \in Jobs : status[j] = "claimed" ~> status[j] # "claimed"

-----------------------------------------------------------------------------
(* Statements of the repository that its code does not keep.               *)

(* "Unstarted claims are safe to requeue" (ReconcileStale): a job put back *)
(* in the queue can be claimed again.                                      *)
QueuedIsClaimable ==
  \A j \in Jobs : status[j] = "pending" => attempts[j] < MaxAttempts[j]

(* "Job status ... and the environment lease finalize in one transaction"  *)
(* (coding-agents.md): no finished job keeps a workspace leased once no    *)
(* worker is left to release it.                                           *)
NoLeakedLease ==
  \A j \in Jobs :
    status[j] \in Terminal /\ (\A w \in Workers : task[w] # j)
      => holder[EnvOf[j]] # j

(* "must be reset because its previous process may still be running"       *)
(* (acquireEnvironment): no runtime is started beside a live process of an *)
(* earlier job in the same workspace.                                      *)
NoRuntimeBesideOrphan ==
  \A i, j \in Jobs : live[i] /\ live[j] /\ EnvOf[i] = EnvOf[j] => i = j
=============================================================================
