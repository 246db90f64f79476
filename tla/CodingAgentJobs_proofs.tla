----------------------- MODULE CodingAgentJobs_proofs -----------------------
(***************************************************************************)
(* Proofs about CodingAgentJobs for every number of jobs, workers,         *)
(* workspaces, users, retries and crashes.                                 *)
(*                                                                         *)
(* None of the invariants that matter is inductive.  IInv adds what the    *)
(* argument turns on: started_at is set exactly once, by the one worker    *)
(* that then drives the job (StartInv), the authority lock is held by      *)
(* every worker between prepareRepository and its exit (LockInv), and a    *)
(* completion marker or a successful result exists only for a job whose    *)
(* single process is over (ResultInv).                                     *)
(***************************************************************************)
EXTENDS CodingAgentJobs, TLAPS

(* Stages in which the authority lock is certainly held. *)
Guarded == Locked \cup Driving

(* Not yet launched, although marked running. *)
Unlaunched == {"check", "mint", "launch"}

StartInv ==
  /\ \A j \in Jobs : status[j] \in {"absent", "pending", "claimed"} => ~started[j]
  /\ \A j \in Jobs : ~started[j] => runs[j] = 0 /\ ~token[j]
  /\ \A w \in Workers : pc[w] \in Driving => started[task[w]]
  /\ \A w \in Workers : pc[w] \in Unlaunched => runs[task[w]] = 0
  /\ \A v, w \in Workers :
       pc[v] \in Driving /\ pc[w] \in Driving /\ task[v] = task[w] => v = w

CancelInv ==
  /\ EarlyCancelNeverRuns
  /\ \A w \in Workers : pc[w] \in {"mint", "launch"} => cancel[task[w]] # "early"

LockInv ==
  \A w \in Workers : pc[w] \in Guarded =>
    /\ authority[UserOf[task[w]]] = w
    /\ member[UserOf[task[w]]]
    /\ pc[w] # "prepare" => credential[UserOf[task[w]]] = "connected"

ToolInv ==
  \A j \in Jobs :
    token[j] /\ status[j] = "running" /\ cancel[j] = "no" /\ member[UserOf[j]]
      => credential[UserOf[j]] = "connected"

ResultInv ==
  /\ \A j \in Jobs : live[j] => runs[j] = 1
  /\ \A j \in Jobs : marker[j] => runs[j] = 1 /\ ~live[j]
  /\ SuccessIsBacked
  /\ \A w \in Workers :
       pc[w] = "finalize" \/ (pc[w] = "refresh" /\ outcome[w] = "success")
         => runs[task[w]] = 1 /\ ~live[task[w]]

(* The claim stays with the worker that drives a running job; only the     *)
(* reconciler can end a job that is not yet launched.                      *)
ClaimInv ==
  /\ \A w \in Workers :
       pc[w] \in Driving /\ status[task[w]] = "running" => claimedBy[task[w]] = w
  /\ \A w \in Workers :
       pc[w] \in Unlaunched => status[task[w]] \in {"running", "failed"}
  /\ \A w \in Workers :
       pc[w] \in {"release", "delete", "settle"} /\ exit[w] = "timed_out"
         => started[task[w]]

IInv == /\ TypeOK /\ AtMostOnceExecution /\ StartInv /\ CancelInv
        /\ LockInv /\ ToolInv /\ ResultInv /\ ClaimInv

USE DEF vars, jobVars, envVars, userVars, boxVars, workerVars, localVars

-----------------------------------------------------------------------------
(* The boolean updates of shared rows keep their types. *)
LEMMA DeleteSandboxType ==
  ASSUME NEW e, DeleteSandbox(e)
  PROVE  live' \in [Jobs -> BOOLEAN] /\ marker' \in [Jobs -> BOOLEAN]
  BY Zenon DEF DeleteSandbox

LEMMA ArchiveType ==
  ASSUME NEW e, NEW deleted, Archive(e, deleted),
         envStatus \in [Envs -> EnvStatuses], sandboxId \in [Envs -> BOOLEAN]
  PROVE  envStatus' \in [Envs -> EnvStatuses] /\ sandboxId' \in [Envs -> BOOLEAN]
<1>1. envStatus' \in [Envs -> EnvStatuses]
  BY DEF Archive, EnvStatuses
<1>2. sandboxId' \in [Envs -> BOOLEAN]
  BY Zenon DEF Archive
<1>3. QED
  BY <1>1, <1>2

LEMMA TidyUpType ==
  ASSUME TypeOK, NEW j \in Jobs, TidyUp(j)
  PROVE  /\ envStatus' \in [Envs -> EnvStatuses] /\ sandboxId' \in [Envs -> BOOLEAN]
         /\ live' \in [Jobs -> BOOLEAN] /\ marker' \in [Jobs -> BOOLEAN]
<1>1. CASE EnvOf[j] \notin Ephemeral
  BY <1>1 DEF TidyUp, TypeOK
<1>2. CASE DeleteSandbox(EnvOf[j]) /\ Archive(EnvOf[j], TRUE)
  BY <1>2, DeleteSandboxType, ArchiveType DEF TypeOK
<1>3. CASE /\ marker' = [marker EXCEPT ![j] = FALSE] /\ UNCHANGED live
           /\ Archive(EnvOf[j], FALSE)
  BY <1>3, ArchiveType DEF TypeOK
<1>4. QED
  BY <1>1, <1>2, <1>3 DEF TidyUp

LEMMA ReleaseType ==
  ASSUME TypeOK, NEW w \in Workers, ReleaseEnvironment(w)
  PROVE  /\ envStatus' \in [Envs -> EnvStatuses]
         /\ holder' \in [Envs -> Jobs \cup {NoJob}]
         /\ pc' \in [Workers -> Stages]
<1> DEFINE e == EnvOf[task[w]]
<1>1. CASE e \notin Ephemeral
  <2>1. envStatus' = [envStatus EXCEPT ![e] = IF holder[e] = task[w] THEN leave[w] ELSE @]
    BY <1>1 DEF ReleaseEnvironment
  <2>2. leave[w] \in EnvStatuses
    BY DEF TypeOK, EnvStatuses
  <2>3. envStatus' \in [Envs -> EnvStatuses]
    BY <2>1, <2>2 DEF TypeOK
  <2>4. /\ holder' = [holder EXCEPT ![e] = IF @ = task[w] THEN NoJob ELSE @]
        /\ Goto(w, "settle")
    BY <1>1 DEF ReleaseEnvironment
  <2>5. QED
    BY <2>3, <2>4 DEF TypeOK, Goto, Stages, Exiting
<1>2. CASE e \in Ephemeral
  <2>1. envStatus' = [envStatus EXCEPT ![e] = IF holder[e] = task[w] THEN "deleting" ELSE @]
    BY <1>2 DEF ReleaseEnvironment
  <2>2. envStatus' \in [Envs -> EnvStatuses]
    BY <2>1 DEF TypeOK, EnvStatuses
  <2>3. UNCHANGED holder /\ Goto(w, "delete")
    BY <1>2 DEF ReleaseEnvironment
  <2>4. QED
    BY <2>2, <2>3 DEF TypeOK, Goto, Stages, Exiting
<1>3. QED
  BY <1>1, <1>2

LEMMA DeleteEphemeralType ==
  ASSUME TypeOK, NEW w \in Workers, DeleteEphemeral(w)
  PROVE  /\ envStatus' \in [Envs -> EnvStatuses] /\ sandboxId' \in [Envs -> BOOLEAN]
         /\ live' \in [Jobs -> BOOLEAN] /\ marker' \in [Jobs -> BOOLEAN]
<1> DEFINE j == task[w]
           e == EnvOf[j]
<1>1. PICK deleted \in BOOLEAN :
        /\ IF deleted THEN DeleteSandbox(e) ELSE UNCHANGED <<live, marker>>
        /\ envStatus' = [envStatus EXCEPT ![e] =
             IF holder[e] # j THEN @ ELSE IF deleted THEN "archived" ELSE "error"]
        /\ sandboxId' = [sandboxId EXCEPT ![e] = @ /\ ~(deleted /\ holder[e] = j)]
  BY DEF DeleteEphemeral
<1>2. live' \in [Jobs -> BOOLEAN] /\ marker' \in [Jobs -> BOOLEAN]
  <2>1. CASE deleted
    BY <1>1, <2>1, DeleteSandboxType
  <2>2. CASE ~deleted
    BY <1>1, <2>2 DEF TypeOK
  <2>3. QED
    BY <2>1, <2>2
<1>3. sandboxId \in [Envs -> BOOLEAN]
  BY DEF TypeOK
<1>4. sandboxId' \in [Envs -> BOOLEAN]
  BY Zenon, <1>1, <1>3
<1>5. envStatus' \in [Envs -> EnvStatuses]
  BY <1>1 DEF TypeOK, EnvStatuses
<1>6. QED
  BY <1>2, <1>4, <1>5

(* Every step keeps the types. *)
LEMMA StepType ==
  ASSUME TypeOK, [Next]_vars
  PROVE  TypeOK'
<1> USE JobsAssumption, BoundsAssumption, NullAssumption DEF TypeOK, Statuses, Active, Terminal, EnvStatuses, Stages, Prologue, Locked, Driving, Exiting, Exits, Results
<1>1. ASSUME NEW j \in Jobs, Submit(j) PROVE TypeOK'
  BY <1>1 DEF Submit, ActiveOf, JobsOf
<1>2. ASSUME NEW j \in Jobs, CancelPending(j) PROVE TypeOK'
  BY <1>2 DEF CancelPending, Requested
<1>3. ASSUME NEW j \in Jobs, CancelClaimed(j) PROVE TypeOK'
  BY <1>3 DEF CancelClaimed, Requested
<1>4. ASSUME NEW u \in Users, Connect(u) PROVE TypeOK'
  BY <1>4 DEF Connect, LockFree
<1>5. ASSUME NEW u \in Users, Disconnect(u) PROVE TypeOK'
  BY <1>5 DEF Disconnect, LockFree, RevokeJobsOf, ActiveOf, JobsOf, Requested
<1>6. ASSUME NEW u \in Users, RemoveMember(u) PROVE TypeOK'
  BY <1>6 DEF RemoveMember, LockFree, RevokeJobsOf, ActiveOf, JobsOf, Requested
<1>7. ASSUME NEW w \in Workers, NEW j \in Jobs, ClaimNext(w, j) PROVE TypeOK'
  BY <1>7 DEF ClaimNext, Claimable, Goto
<1>8. ASSUME NEW w \in Workers, NotMember(w) PROVE TypeOK'
  BY <1>8 DEF NotMember, Goto, OwnerOf
<1>9. ASSUME NEW w \in Workers, LeaseDenied(w) PROVE TypeOK'
  BY <1>9 DEF LeaseDenied, Goto, LeaseBusy, LeaseRefused
<1>10. ASSUME NEW w \in Workers, AcquireLease(w) PROVE TypeOK'
  BY <1>10 DEF AcquireLease, Goto, OwnerOf, LeaseBusy, LeaseRefused
<1>11. ASSUME NEW w \in Workers, CreateSandbox(w) PROVE TypeOK'
  BY <1>11 DEF CreateSandbox, Goto
<1>12. ASSUME NEW w \in Workers, OpenSandbox(w) PROVE TypeOK'
  BY <1>12 DEF OpenSandbox, Goto
<1>13. ASSUME NEW w \in Workers, ProvisionFails(w) PROVE TypeOK'
  <2>1. CASE UNCHANGED <<live, marker>>
    BY <1>13, <2>1 DEF ProvisionFails, Goto, DeleteSandbox
  <2>2. CASE DeleteSandbox(EnvOf[task[w]])
    BY <1>13, <2>2 DEF ProvisionFails, Goto, DeleteSandbox
  <2> QED BY <1>13, <2>1, <2>2 DEF ProvisionFails, Goto, DeleteSandbox
<1>14. ASSUME NEW w \in Workers, LockFails(w) PROVE TypeOK'
  BY <1>14 DEF LockFails, Release, Goto
<1>15. ASSUME NEW w \in Workers, TakeAuthority(w) PROVE TypeOK'
  <2>1. CASE member[UserOf[task[w]]] /\ Goto(w, "prepare") /\ UNCHANGED <<exit, leave>>
    BY <1>15, <2>1 DEF TakeAuthority, Release, Goto, LockFree, OwnerOf
  <2>2. CASE ~member[UserOf[task[w]]] /\ Release(w, "failed", "error")
    BY <1>15, <2>2 DEF TakeAuthority, Release, Goto, LockFree, OwnerOf
  <2> QED BY <1>15, <2>1, <2>2 DEF TakeAuthority, Release, Goto, LockFree, OwnerOf
<1>16. ASSUME NEW w \in Workers, Prepare(w) PROVE TypeOK'
  BY <1>16 DEF Prepare, Goto, OwnerOf
<1>17. ASSUME NEW w \in Workers, PrepareFails(w) PROVE TypeOK'
  BY <1>17 DEF PrepareFails, Release, Goto
<1>18. ASSUME NEW w \in Workers, MarkRunning(w) PROVE TypeOK'
  BY <1>18 DEF MarkRunning, Goto, CanTransition, ValidTransition
<1>19. ASSUME NEW w \in Workers, MarkRunningFails(w) PROVE TypeOK'
  BY <1>19 DEF MarkRunningFails, Release, Goto
<1>20. ASSUME NEW w \in Workers, FirstHeartbeat(w) PROVE TypeOK'
  <2>1. CASE cancel[task[w]] = "no" /\ Goto(w, "mint") /\ UNCHANGED <<exit, leave>>
    BY <1>20, <2>1 DEF FirstHeartbeat, Release, Goto
  <2>2. CASE cancel[task[w]] # "no" /\ Release(w, "cancelled", "ready")
    BY <1>20, <2>2 DEF FirstHeartbeat, Release, Goto
  <2> QED BY <1>20, <2>1, <2>2 DEF FirstHeartbeat, Release, Goto
<1>21. ASSUME NEW w \in Workers, FirstHeartbeatFails(w) PROVE TypeOK'
  BY <1>21 DEF FirstHeartbeatFails, Release, Goto
<1>22. ASSUME NEW w \in Workers, MintToolToken(w) PROVE TypeOK'
  BY <1>22 DEF MintToolToken, Goto
<1>23. ASSUME NEW w \in Workers, MintFails(w) PROVE TypeOK'
  BY <1>23 DEF MintFails, Release, Goto
<1>24. ASSUME NEW w \in Workers, Launch(w) PROVE TypeOK'
  BY <1>24 DEF Launch, Goto
<1>25. ASSUME NEW w \in Workers, LaunchFails(w) PROVE TypeOK'
  BY <1>25 DEF LaunchFails, EndRun, Goto
<1>26. ASSUME NEW w \in Workers, RunCompletes(w) PROVE TypeOK'
  BY <1>26 DEF RunCompletes, EndRun, Goto
<1>27. ASSUME NEW w \in Workers, RunFails(w) PROVE TypeOK'
  <2>1. CASE live' = [live EXCEPT ![task[w]] = FALSE] /\ EndRun(w, "error")
    BY <1>27, <2>1 DEF RunFails, EndRun, Goto
  <2>2. CASE live[task[w]] /\ UNCHANGED live /\ EndRun(w, "error")
    BY <1>27, <2>2 DEF RunFails, EndRun, Goto
  <2>3. CASE live[task[w]] /\ UNCHANGED live /\ EndRun(w, "uncertain")
    BY <1>27, <2>3 DEF RunFails, EndRun, Goto
  <2> QED BY <1>27, <2>1, <2>2, <2>3 DEF RunFails, EndRun, Goto
<1>28. ASSUME NEW w \in Workers, Refresh(w) PROVE TypeOK'
  <2>1. credential' \in [Users -> {"connected", "revoked"}]
    BY <1>28 DEF Refresh, OwnerOf
  <2>2. /\ pc' \in [Workers -> Stages] /\ exit' \in [Workers -> Exits]
        /\ leave' \in [Workers -> {"ready", "error", "uncertain"}]
    <3>1. CASE outcome[w] = "success"
      <4>1. pc' = [pc EXCEPT ![w] = "finalize"] /\ exit' = exit /\ leave' = leave
        BY <1>28, <3>1 DEF Refresh, Goto
      <4>2. QED
        BY <4>1
    <3>2. CASE outcome[w] # "success"
      <4>1. PICK x \in FailureStatuses(task[w]) :
              Release(w, x, IF outcome[w] = "uncertain" THEN "uncertain" ELSE "ready")
        BY <1>28, <3>2 DEF Refresh
      <4>2. x \in {"cancelled", "failed", "timed_out"}
        BY DEF FailureStatuses
      <4>3. QED
        BY <4>1, <4>2 DEF Release, Goto
    <3>3. QED
      BY <3>1, <3>2
  <2>3. /\ UNCHANGED <<jobVars, envVars, member, authority, boxVars, task, outcome, faults>>
        /\ pc[w] # "idle" /\ \A v \in Workers : pc'[v] # "idle" => pc[v] # "idle"
    BY <1>28 DEF Refresh, Release, Goto
  <2>4. QED
    BY <2>1, <2>2, <2>3
<1>29. ASSUME NEW w \in Workers, Finalize(w) PROVE TypeOK'
  BY <1>29 DEF Finalize, CommitSuccess, CanFinalize, Goto
<1>30. ASSUME NEW w \in Workers, FinalizeFails(w) PROVE TypeOK'
  BY <1>30 DEF FinalizeFails, Goto
<1>31. ASSUME NEW w \in Workers, Cleanup(w) PROVE TypeOK'
  <2>1. task[w] \in Jobs /\ TidyUp(task[w])
    BY <1>31 DEF Cleanup
  <2>2. QED
    BY <1>31, <2>1, TidyUpType DEF Cleanup, Goto
<1>32. ASSUME NEW w \in Workers, ReleaseEnvironment(w) PROVE TypeOK'
  <2>1. UNCHANGED <<jobVars, sandboxId, userVars, boxVars, task, localVars, faults>>
    BY <1>32 DEF ReleaseEnvironment
  <2>2. \A v \in Workers : pc'[v] # "idle" => task[v] \in Jobs
    BY <1>32 DEF ReleaseEnvironment, Goto
  <2>3. QED
    BY <1>32, <2>1, <2>2, ReleaseType
<1>33. ASSUME NEW w \in Workers, DeleteEphemeral(w) PROVE TypeOK'
  <2>1. /\ holder' = [holder EXCEPT ![EnvOf[task[w]]] = IF @ = task[w] THEN NoJob ELSE @]
        /\ pc' = [pc EXCEPT ![w] = "settle"]
        /\ UNCHANGED <<jobVars, userVars, runs, recovering, task, localVars, faults>>
    BY <1>33 DEF DeleteEphemeral, Goto
  <2>2. holder' \in [Envs -> Jobs \cup {NoJob}] /\ pc' \in [Workers -> Stages]
    BY <2>1
  <2>3. \A v \in Workers : pc'[v] # "idle" => task[v] \in Jobs
    BY <1>33, <2>1 DEF DeleteEphemeral
  <2>4. QED
    BY <1>33, <2>1, <2>2, <2>3, DeleteEphemeralType
<1>34. ASSUME NEW w \in Workers, Requeue(w) PROVE TypeOK'
  BY <1>34 DEF Requeue, CanRequeue, Exhausted, Goto
<1>35. ASSUME NEW w \in Workers, Fail(w) PROVE TypeOK'
  BY <1>35 DEF Fail, CanTransition, ValidTransition, Goto
<1>36. ASSUME NEW w \in Workers, SettleNothing(w) PROVE TypeOK'
  BY <1>36 DEF SettleNothing, Goto
<1>37. ASSUME NEW w \in Workers, Return(w) PROVE TypeOK'
  BY <1>37 DEF Return, Unlock, Reset, Goto
<1>38. ASSUME NEW w \in Workers, Heartbeat(w) PROVE TypeOK'
  BY <1>38 DEF Heartbeat, Goto
<1>39. ASSUME NEW j \in Jobs, HeartbeatAges(j) PROVE TypeOK'
  BY <1>39 DEF HeartbeatAges
<1>40. ASSUME NEW j \in Jobs, RecoverCompleted(j) PROVE TypeOK'
  BY <1>40 DEF RecoverCompleted, Recoverable, CommitSuccess, CanFinalize
<1>41. ASSUME NEW j \in Jobs, CleanupRecovered(j) PROVE TypeOK'
  <2>1. TidyUp(j)
    BY <1>41 DEF CleanupRecovered
  <2>2. QED
    BY <1>41, <2>1, TidyUpType DEF CleanupRecovered
<1>42. ASSUME NEW j \in Jobs, ReconcileClaimed(j) PROVE TypeOK'
  BY <1>42 DEF ReconcileClaimed, StaleClaim
<1>43. ASSUME NEW j \in Jobs, ReconcileRunning(j) PROVE TypeOK'
  BY <1>43 DEF ReconcileRunning, Interrupted
<1>44. ASSUME NEW j \in Jobs, RecoveryDies(j) PROVE TypeOK'
  BY <1>44 DEF RecoveryDies
<1>45. ASSUME NEW j \in Jobs, OrphanExits(j) PROVE TypeOK'
  BY <1>45 DEF OrphanExits
<1>46. ASSUME NEW w \in Workers, Crash(w) PROVE TypeOK'
  BY <1>46 DEF Crash, Unlock, Reset, Goto
<1>47. CASE UNCHANGED vars
  BY <1>47
<1>48. QED
  BY <1>1, <1>2, <1>3, <1>4, <1>5, <1>6, <1>7, <1>8, <1>9, <1>10, <1>11,
     <1>12, <1>13, <1>14, <1>15, <1>16, <1>17, <1>18, <1>19, <1>20, <1>21,
     <1>22, <1>23, <1>24, <1>25, <1>26, <1>27, <1>28, <1>29, <1>30, <1>31,
     <1>32, <1>33, <1>34, <1>35, <1>36, <1>37, <1>38, <1>39, <1>40, <1>41,
     <1>42, <1>43, <1>44, <1>45, <1>46, <1>47 DEF Next, UserStep,
     WorkerStep, Reconcile

(* A job is started once, by the one worker that then drives it. *)
LEMMA StepStart ==
  ASSUME TypeOK, StartInv, [Next]_vars
  PROVE  StartInv'
<1> USE JobsAssumption, BoundsAssumption, NullAssumption DEF TypeOK, StartInv, Unlaunched, Statuses, Active, Terminal, EnvStatuses, Stages, Prologue, Locked, Driving, Exiting, Exits, Results
<1>1. ASSUME NEW j \in Jobs, Submit(j) PROVE StartInv'
  BY <1>1 DEF Submit, ActiveOf, JobsOf
<1>2. ASSUME NEW j \in Jobs, CancelPending(j) PROVE StartInv'
  BY <1>2 DEF CancelPending, Requested
<1>3. ASSUME NEW j \in Jobs, CancelClaimed(j) PROVE StartInv'
  BY <1>3 DEF CancelClaimed, Requested
<1>4. ASSUME NEW u \in Users, Connect(u) PROVE StartInv'
  BY <1>4 DEF Connect, LockFree
<1>5. ASSUME NEW u \in Users, Disconnect(u) PROVE StartInv'
  BY <1>5 DEF Disconnect, LockFree, RevokeJobsOf, ActiveOf, JobsOf, Requested
<1>6. ASSUME NEW u \in Users, RemoveMember(u) PROVE StartInv'
  BY <1>6 DEF RemoveMember, LockFree, RevokeJobsOf, ActiveOf, JobsOf, Requested
<1>7. ASSUME NEW w \in Workers, NEW j \in Jobs, ClaimNext(w, j) PROVE StartInv'
  BY <1>7 DEF ClaimNext, Claimable, Goto
<1>8. ASSUME NEW w \in Workers, NotMember(w) PROVE StartInv'
  BY <1>8 DEF NotMember, Goto, OwnerOf
<1>9. ASSUME NEW w \in Workers, LeaseDenied(w) PROVE StartInv'
  BY <1>9 DEF LeaseDenied, Goto, LeaseBusy, LeaseRefused
<1>10. ASSUME NEW w \in Workers, AcquireLease(w) PROVE StartInv'
  BY <1>10 DEF AcquireLease, Goto, OwnerOf, LeaseBusy, LeaseRefused
<1>11. ASSUME NEW w \in Workers, CreateSandbox(w) PROVE StartInv'
  BY <1>11 DEF CreateSandbox, Goto
<1>12. ASSUME NEW w \in Workers, OpenSandbox(w) PROVE StartInv'
  BY <1>12 DEF OpenSandbox, Goto
<1>13. ASSUME NEW w \in Workers, ProvisionFails(w) PROVE StartInv'
  BY <1>13 DEF ProvisionFails, Goto, DeleteSandbox
<1>14. ASSUME NEW w \in Workers, LockFails(w) PROVE StartInv'
  BY <1>14 DEF LockFails, Release, Goto
<1>15. ASSUME NEW w \in Workers, TakeAuthority(w) PROVE StartInv'
  <2>1. CASE member[UserOf[task[w]]] /\ Goto(w, "prepare") /\ UNCHANGED <<exit, leave>>
    BY <1>15, <2>1 DEF TakeAuthority, Release, Goto, LockFree, OwnerOf
  <2>2. CASE ~member[UserOf[task[w]]] /\ Release(w, "failed", "error")
    BY <1>15, <2>2 DEF TakeAuthority, Release, Goto, LockFree, OwnerOf
  <2> QED BY <1>15, <2>1, <2>2 DEF TakeAuthority, Release, Goto, LockFree, OwnerOf
<1>16. ASSUME NEW w \in Workers, Prepare(w) PROVE StartInv'
  BY <1>16 DEF Prepare, Goto, OwnerOf
<1>17. ASSUME NEW w \in Workers, PrepareFails(w) PROVE StartInv'
  BY <1>17 DEF PrepareFails, Release, Goto
<1>18. ASSUME NEW w \in Workers, MarkRunning(w) PROVE StartInv'
  <2>1. /\ task[w] \in Jobs /\ status[task[w]] = "claimed"
        /\ ~started[task[w]] /\ runs[task[w]] = 0
    BY <1>18 DEF MarkRunning, CanTransition, ValidTransition, StartInv
  <2>2. /\ status' = [status EXCEPT ![task[w]] = "running"]
        /\ started' = [started EXCEPT ![task[w]] = TRUE]
        /\ pc' = [pc EXCEPT ![w] = "check"]
        /\ task' = task /\ runs' = runs /\ token' = token
    BY <1>18 DEF MarkRunning, Goto
  <2>3. /\ \A j \in Jobs : status'[j] \in {"absent", "pending", "claimed"} => ~started'[j]
        /\ \A j \in Jobs : ~started'[j] => runs'[j] = 0 /\ ~token'[j]
    BY <2>1, <2>2
  <2>4. \A v \in Workers : pc[v] \in Driving => task[v] # task[w]
    BY <2>1
  <2>5. \A v \in Workers : pc'[v] \in Driving => started'[task'[v]]
    BY <2>1, <2>2
  <2>6. \A v \in Workers : pc'[v] \in Unlaunched => runs'[task'[v]] = 0
    BY <2>1, <2>2
  <2>7. \A u, v \in Workers :
          pc'[u] \in Driving /\ pc'[v] \in Driving /\ task'[u] = task'[v] => u = v
    BY <2>2, <2>4
  <2>8. QED
    BY <2>3, <2>5, <2>6, <2>7
<1>19. ASSUME NEW w \in Workers, MarkRunningFails(w) PROVE StartInv'
  BY <1>19 DEF MarkRunningFails, Release, Goto
<1>20. ASSUME NEW w \in Workers, FirstHeartbeat(w) PROVE StartInv'
  <2>1. UNCHANGED <<status, started, runs, token, task>>
    BY <1>20 DEF FirstHeartbeat
  <2>2. pc[w] = "check" /\ \E s \in {"mint", "release"} : pc' = [pc EXCEPT ![w] = s]
    BY <1>20 DEF FirstHeartbeat, Release, Goto
  <2>3. \A v \in Workers : /\ pc'[v] \in Driving => pc[v] \in Driving
                           /\ pc'[v] \in Unlaunched => pc[v] \in Unlaunched
    BY <2>2
  <2>4. QED
    BY <2>1, <2>3 DEF StartInv
<1>21. ASSUME NEW w \in Workers, FirstHeartbeatFails(w) PROVE StartInv'
  BY <1>21 DEF FirstHeartbeatFails, Release, Goto
<1>22. ASSUME NEW w \in Workers, MintToolToken(w) PROVE StartInv'
  BY <1>22 DEF MintToolToken, Goto
<1>23. ASSUME NEW w \in Workers, MintFails(w) PROVE StartInv'
  BY <1>23 DEF MintFails, Release, Goto
<1>24. ASSUME NEW w \in Workers, Launch(w) PROVE StartInv'
  BY <1>24 DEF Launch, Goto
<1>25. ASSUME NEW w \in Workers, LaunchFails(w) PROVE StartInv'
  BY <1>25 DEF LaunchFails, EndRun, Goto
<1>26. ASSUME NEW w \in Workers, RunCompletes(w) PROVE StartInv'
  BY <1>26 DEF RunCompletes, EndRun, Goto
<1>27. ASSUME NEW w \in Workers, RunFails(w) PROVE StartInv'
  BY <1>27 DEF RunFails, EndRun, Goto
<1>28. ASSUME NEW w \in Workers, Refresh(w) PROVE StartInv'
  <2>1. CASE outcome[w] = "success"
    BY <1>28, <2>1 DEF Refresh, Release, Goto, OwnerOf, FailureStatuses
  <2>2. CASE outcome[w] # "success"
    <3>1. PICK x \in FailureStatuses(task[w]) :
            Release(w, x, IF outcome[w] = "uncertain" THEN "uncertain" ELSE "ready")
      BY <1>28, <2>2 DEF Refresh
    <3>2. x \in {"cancelled", "failed", "timed_out"}
      BY DEF FailureStatuses
    <3>3. QED
      BY <1>28, <2>2, <3>1, <3>2 DEF Refresh, Release, Goto, OwnerOf
  <2>3. QED
    BY <2>1, <2>2
<1>29. ASSUME NEW w \in Workers, Finalize(w) PROVE StartInv'
  BY <1>29 DEF Finalize, CommitSuccess, CanFinalize, Goto
<1>30. ASSUME NEW w \in Workers, FinalizeFails(w) PROVE StartInv'
  BY <1>30 DEF FinalizeFails, Goto
<1>31. ASSUME NEW w \in Workers, Cleanup(w) PROVE StartInv'
  BY <1>31 DEF Cleanup, TidyUp, DeleteSandbox, Archive, Goto
<1>32. ASSUME NEW w \in Workers, ReleaseEnvironment(w) PROVE StartInv'
  <2>1. CASE EnvOf[task[w]] \notin Ephemeral
    BY <1>32, <2>1 DEF ReleaseEnvironment, Goto
  <2>2. CASE EnvOf[task[w]] \in Ephemeral
    BY <1>32, <2>2 DEF ReleaseEnvironment, Goto
  <2> QED BY <1>32, <2>1, <2>2 DEF ReleaseEnvironment, Goto
<1>33. ASSUME NEW w \in Workers, DeleteEphemeral(w) PROVE StartInv'
  BY <1>33 DEF DeleteEphemeral, DeleteSandbox, Goto
<1>34. ASSUME NEW w \in Workers, Requeue(w) PROVE StartInv'
  BY <1>34 DEF Requeue, CanRequeue, Exhausted, Goto
<1>35. ASSUME NEW w \in Workers, Fail(w) PROVE StartInv'
  BY <1>35 DEF Fail, CanTransition, ValidTransition, Goto
<1>36. ASSUME NEW w \in Workers, SettleNothing(w) PROVE StartInv'
  BY <1>36 DEF SettleNothing, Goto
<1>37. ASSUME NEW w \in Workers, Return(w) PROVE StartInv'
  BY <1>37 DEF Return, Unlock, Reset, Goto
<1>38. ASSUME NEW w \in Workers, Heartbeat(w) PROVE StartInv'
  BY <1>38 DEF Heartbeat, Goto
<1>39. ASSUME NEW j \in Jobs, HeartbeatAges(j) PROVE StartInv'
  BY <1>39 DEF HeartbeatAges
<1>40. ASSUME NEW j \in Jobs, RecoverCompleted(j) PROVE StartInv'
  BY <1>40 DEF RecoverCompleted, Recoverable, CommitSuccess, CanFinalize
<1>41. ASSUME NEW j \in Jobs, CleanupRecovered(j) PROVE StartInv'
  BY <1>41 DEF CleanupRecovered, TidyUp, DeleteSandbox, Archive
<1>42. ASSUME NEW j \in Jobs, ReconcileClaimed(j) PROVE StartInv'
  BY <1>42 DEF ReconcileClaimed, StaleClaim
<1>43. ASSUME NEW j \in Jobs, ReconcileRunning(j) PROVE StartInv'
  BY <1>43 DEF ReconcileRunning, Interrupted
<1>44. ASSUME NEW j \in Jobs, RecoveryDies(j) PROVE StartInv'
  BY <1>44 DEF RecoveryDies
<1>45. ASSUME NEW j \in Jobs, OrphanExits(j) PROVE StartInv'
  BY <1>45 DEF OrphanExits
<1>46. ASSUME NEW w \in Workers, Crash(w) PROVE StartInv'
  BY <1>46 DEF Crash, Unlock, Reset, Goto
<1>47. CASE UNCHANGED vars
  BY <1>47
<1>48. QED
  BY <1>1, <1>2, <1>3, <1>4, <1>5, <1>6, <1>7, <1>8, <1>9, <1>10, <1>11,
     <1>12, <1>13, <1>14, <1>15, <1>16, <1>17, <1>18, <1>19, <1>20, <1>21,
     <1>22, <1>23, <1>24, <1>25, <1>26, <1>27, <1>28, <1>29, <1>30, <1>31,
     <1>32, <1>33, <1>34, <1>35, <1>36, <1>37, <1>38, <1>39, <1>40, <1>41,
     <1>42, <1>43, <1>44, <1>45, <1>46, <1>47 DEF Next, UserStep,
     WorkerStep, Reconcile

(* Only Launch counts an execution, and only of a job not yet executed. *)
LEMMA StepExecution ==
  ASSUME TypeOK, StartInv, AtMostOnceExecution, [Next]_vars
  PROVE  AtMostOnceExecution'
<1> USE JobsAssumption, BoundsAssumption, NullAssumption DEF TypeOK, StartInv, Unlaunched, AtMostOnceExecution, Statuses, Active, Terminal, EnvStatuses, Stages, Prologue, Locked, Driving, Exiting, Exits, Results
<1>1. ASSUME NEW j \in Jobs, Submit(j) PROVE AtMostOnceExecution'
  BY <1>1 DEF Submit, ActiveOf, JobsOf
<1>2. ASSUME NEW j \in Jobs, CancelPending(j) PROVE AtMostOnceExecution'
  BY <1>2 DEF CancelPending, Requested
<1>3. ASSUME NEW j \in Jobs, CancelClaimed(j) PROVE AtMostOnceExecution'
  BY <1>3 DEF CancelClaimed, Requested
<1>4. ASSUME NEW u \in Users, Connect(u) PROVE AtMostOnceExecution'
  BY <1>4 DEF Connect, LockFree
<1>5. ASSUME NEW u \in Users, Disconnect(u) PROVE AtMostOnceExecution'
  BY <1>5 DEF Disconnect, LockFree, RevokeJobsOf, ActiveOf, JobsOf, Requested
<1>6. ASSUME NEW u \in Users, RemoveMember(u) PROVE AtMostOnceExecution'
  BY <1>6 DEF RemoveMember, LockFree, RevokeJobsOf, ActiveOf, JobsOf, Requested
<1>7. ASSUME NEW w \in Workers, NEW j \in Jobs, ClaimNext(w, j) PROVE AtMostOnceExecution'
  BY <1>7 DEF ClaimNext, Claimable, Goto
<1>8. ASSUME NEW w \in Workers, NotMember(w) PROVE AtMostOnceExecution'
  BY <1>8 DEF NotMember, Goto, OwnerOf
<1>9. ASSUME NEW w \in Workers, LeaseDenied(w) PROVE AtMostOnceExecution'
  BY <1>9 DEF LeaseDenied, Goto, LeaseBusy, LeaseRefused
<1>10. ASSUME NEW w \in Workers, AcquireLease(w) PROVE AtMostOnceExecution'
  BY <1>10 DEF AcquireLease, Goto, OwnerOf, LeaseBusy, LeaseRefused
<1>11. ASSUME NEW w \in Workers, CreateSandbox(w) PROVE AtMostOnceExecution'
  BY <1>11 DEF CreateSandbox, Goto
<1>12. ASSUME NEW w \in Workers, OpenSandbox(w) PROVE AtMostOnceExecution'
  BY <1>12 DEF OpenSandbox, Goto
<1>13. ASSUME NEW w \in Workers, ProvisionFails(w) PROVE AtMostOnceExecution'
  BY <1>13 DEF ProvisionFails, Goto, DeleteSandbox
<1>14. ASSUME NEW w \in Workers, LockFails(w) PROVE AtMostOnceExecution'
  BY <1>14 DEF LockFails, Release, Goto
<1>15. ASSUME NEW w \in Workers, TakeAuthority(w) PROVE AtMostOnceExecution'
  BY <1>15 DEF TakeAuthority, Release, Goto, LockFree, OwnerOf
<1>16. ASSUME NEW w \in Workers, Prepare(w) PROVE AtMostOnceExecution'
  BY <1>16 DEF Prepare, Goto, OwnerOf
<1>17. ASSUME NEW w \in Workers, PrepareFails(w) PROVE AtMostOnceExecution'
  BY <1>17 DEF PrepareFails, Release, Goto
<1>18. ASSUME NEW w \in Workers, MarkRunning(w) PROVE AtMostOnceExecution'
  BY <1>18 DEF MarkRunning, Goto, CanTransition, ValidTransition
<1>19. ASSUME NEW w \in Workers, MarkRunningFails(w) PROVE AtMostOnceExecution'
  BY <1>19 DEF MarkRunningFails, Release, Goto
<1>20. ASSUME NEW w \in Workers, FirstHeartbeat(w) PROVE AtMostOnceExecution'
  BY <1>20 DEF FirstHeartbeat, Release, Goto
<1>21. ASSUME NEW w \in Workers, FirstHeartbeatFails(w) PROVE AtMostOnceExecution'
  BY <1>21 DEF FirstHeartbeatFails, Release, Goto
<1>22. ASSUME NEW w \in Workers, MintToolToken(w) PROVE AtMostOnceExecution'
  BY <1>22 DEF MintToolToken, Goto
<1>23. ASSUME NEW w \in Workers, MintFails(w) PROVE AtMostOnceExecution'
  BY <1>23 DEF MintFails, Release, Goto
<1>24. ASSUME NEW w \in Workers, Launch(w) PROVE AtMostOnceExecution'
  BY <1>24 DEF Launch, Goto
<1>25. ASSUME NEW w \in Workers, LaunchFails(w) PROVE AtMostOnceExecution'
  BY <1>25 DEF LaunchFails, EndRun, Goto
<1>26. ASSUME NEW w \in Workers, RunCompletes(w) PROVE AtMostOnceExecution'
  BY <1>26 DEF RunCompletes, EndRun, Goto
<1>27. ASSUME NEW w \in Workers, RunFails(w) PROVE AtMostOnceExecution'
  BY <1>27 DEF RunFails, EndRun, Goto
<1>28. ASSUME NEW w \in Workers, Refresh(w) PROVE AtMostOnceExecution'
  BY <1>28 DEF Refresh, Release, Goto, OwnerOf, FailureStatuses
<1>29. ASSUME NEW w \in Workers, Finalize(w) PROVE AtMostOnceExecution'
  BY <1>29 DEF Finalize, CommitSuccess, CanFinalize, Goto
<1>30. ASSUME NEW w \in Workers, FinalizeFails(w) PROVE AtMostOnceExecution'
  BY <1>30 DEF FinalizeFails, Goto
<1>31. ASSUME NEW w \in Workers, Cleanup(w) PROVE AtMostOnceExecution'
  BY <1>31 DEF Cleanup, TidyUp, DeleteSandbox, Archive, Goto
<1>32. ASSUME NEW w \in Workers, ReleaseEnvironment(w) PROVE AtMostOnceExecution'
  BY <1>32 DEF ReleaseEnvironment, Goto
<1>33. ASSUME NEW w \in Workers, DeleteEphemeral(w) PROVE AtMostOnceExecution'
  BY <1>33 DEF DeleteEphemeral, DeleteSandbox, Goto
<1>34. ASSUME NEW w \in Workers, Requeue(w) PROVE AtMostOnceExecution'
  BY <1>34 DEF Requeue, CanRequeue, Exhausted, Goto
<1>35. ASSUME NEW w \in Workers, Fail(w) PROVE AtMostOnceExecution'
  BY <1>35 DEF Fail, CanTransition, ValidTransition, Goto
<1>36. ASSUME NEW w \in Workers, SettleNothing(w) PROVE AtMostOnceExecution'
  BY <1>36 DEF SettleNothing, Goto
<1>37. ASSUME NEW w \in Workers, Return(w) PROVE AtMostOnceExecution'
  BY <1>37 DEF Return, Unlock, Reset, Goto
<1>38. ASSUME NEW w \in Workers, Heartbeat(w) PROVE AtMostOnceExecution'
  BY <1>38 DEF Heartbeat, Goto
<1>39. ASSUME NEW j \in Jobs, HeartbeatAges(j) PROVE AtMostOnceExecution'
  BY <1>39 DEF HeartbeatAges
<1>40. ASSUME NEW j \in Jobs, RecoverCompleted(j) PROVE AtMostOnceExecution'
  BY <1>40 DEF RecoverCompleted, Recoverable, CommitSuccess, CanFinalize
<1>41. ASSUME NEW j \in Jobs, CleanupRecovered(j) PROVE AtMostOnceExecution'
  BY <1>41 DEF CleanupRecovered, TidyUp, DeleteSandbox, Archive
<1>42. ASSUME NEW j \in Jobs, ReconcileClaimed(j) PROVE AtMostOnceExecution'
  BY <1>42 DEF ReconcileClaimed, StaleClaim
<1>43. ASSUME NEW j \in Jobs, ReconcileRunning(j) PROVE AtMostOnceExecution'
  BY <1>43 DEF ReconcileRunning, Interrupted
<1>44. ASSUME NEW j \in Jobs, RecoveryDies(j) PROVE AtMostOnceExecution'
  BY <1>44 DEF RecoveryDies
<1>45. ASSUME NEW j \in Jobs, OrphanExits(j) PROVE AtMostOnceExecution'
  BY <1>45 DEF OrphanExits
<1>46. ASSUME NEW w \in Workers, Crash(w) PROVE AtMostOnceExecution'
  BY <1>46 DEF Crash, Unlock, Reset, Goto
<1>47. CASE UNCHANGED vars
  BY <1>47
<1>48. QED
  BY <1>1, <1>2, <1>3, <1>4, <1>5, <1>6, <1>7, <1>8, <1>9, <1>10, <1>11,
     <1>12, <1>13, <1>14, <1>15, <1>16, <1>17, <1>18, <1>19, <1>20, <1>21,
     <1>22, <1>23, <1>24, <1>25, <1>26, <1>27, <1>28, <1>29, <1>30, <1>31,
     <1>32, <1>33, <1>34, <1>35, <1>36, <1>37, <1>38, <1>39, <1>40, <1>41,
     <1>42, <1>43, <1>44, <1>45, <1>46, <1>47 DEF Next, UserStep,
     WorkerStep, Reconcile

(* The first heartbeat stops every job cancelled before its start. *)
LEMMA StepCancel ==
  ASSUME TypeOK, StartInv, CancelInv, [Next]_vars
  PROVE  CancelInv'
<1> USE JobsAssumption, BoundsAssumption, NullAssumption DEF TypeOK, StartInv, Unlaunched, CancelInv, EarlyCancelNeverRuns, Statuses, Active, Terminal, EnvStatuses, Stages, Prologue, Locked, Driving, Exiting, Exits, Results
<1>1. ASSUME NEW j \in Jobs, Submit(j) PROVE CancelInv'
  BY <1>1 DEF Submit, ActiveOf, JobsOf
<1>2. ASSUME NEW j \in Jobs, CancelPending(j) PROVE CancelInv'
  BY <1>2 DEF CancelPending, Requested
<1>3. ASSUME NEW j \in Jobs, CancelClaimed(j) PROVE CancelInv'
  BY <1>3 DEF CancelClaimed, Requested
<1>4. ASSUME NEW u \in Users, Connect(u) PROVE CancelInv'
  BY <1>4 DEF Connect, LockFree
<1>5. ASSUME NEW u \in Users, Disconnect(u) PROVE CancelInv'
  BY <1>5 DEF Disconnect, LockFree, RevokeJobsOf, ActiveOf, JobsOf, Requested
<1>6. ASSUME NEW u \in Users, RemoveMember(u) PROVE CancelInv'
  BY <1>6 DEF RemoveMember, LockFree, RevokeJobsOf, ActiveOf, JobsOf, Requested
<1>7. ASSUME NEW w \in Workers, NEW j \in Jobs, ClaimNext(w, j) PROVE CancelInv'
  BY <1>7 DEF ClaimNext, Claimable, Goto
<1>8. ASSUME NEW w \in Workers, NotMember(w) PROVE CancelInv'
  BY <1>8 DEF NotMember, Goto, OwnerOf
<1>9. ASSUME NEW w \in Workers, LeaseDenied(w) PROVE CancelInv'
  BY <1>9 DEF LeaseDenied, Goto, LeaseBusy, LeaseRefused
<1>10. ASSUME NEW w \in Workers, AcquireLease(w) PROVE CancelInv'
  BY <1>10 DEF AcquireLease, Goto, OwnerOf, LeaseBusy, LeaseRefused
<1>11. ASSUME NEW w \in Workers, CreateSandbox(w) PROVE CancelInv'
  BY <1>11 DEF CreateSandbox, Goto
<1>12. ASSUME NEW w \in Workers, OpenSandbox(w) PROVE CancelInv'
  BY <1>12 DEF OpenSandbox, Goto
<1>13. ASSUME NEW w \in Workers, ProvisionFails(w) PROVE CancelInv'
  BY <1>13 DEF ProvisionFails, Goto, DeleteSandbox
<1>14. ASSUME NEW w \in Workers, LockFails(w) PROVE CancelInv'
  BY <1>14 DEF LockFails, Release, Goto
<1>15. ASSUME NEW w \in Workers, TakeAuthority(w) PROVE CancelInv'
  BY <1>15 DEF TakeAuthority, Release, Goto, LockFree, OwnerOf
<1>16. ASSUME NEW w \in Workers, Prepare(w) PROVE CancelInv'
  BY <1>16 DEF Prepare, Goto, OwnerOf
<1>17. ASSUME NEW w \in Workers, PrepareFails(w) PROVE CancelInv'
  BY <1>17 DEF PrepareFails, Release, Goto
<1>18. ASSUME NEW w \in Workers, MarkRunning(w) PROVE CancelInv'
  BY <1>18 DEF MarkRunning, Goto, CanTransition, ValidTransition
<1>19. ASSUME NEW w \in Workers, MarkRunningFails(w) PROVE CancelInv'
  BY <1>19 DEF MarkRunningFails, Release, Goto
<1>20. ASSUME NEW w \in Workers, FirstHeartbeat(w) PROVE CancelInv'
  BY <1>20 DEF FirstHeartbeat, Release, Goto
<1>21. ASSUME NEW w \in Workers, FirstHeartbeatFails(w) PROVE CancelInv'
  BY <1>21 DEF FirstHeartbeatFails, Release, Goto
<1>22. ASSUME NEW w \in Workers, MintToolToken(w) PROVE CancelInv'
  BY <1>22 DEF MintToolToken, Goto
<1>23. ASSUME NEW w \in Workers, MintFails(w) PROVE CancelInv'
  BY <1>23 DEF MintFails, Release, Goto
<1>24. ASSUME NEW w \in Workers, Launch(w) PROVE CancelInv'
  BY <1>24 DEF Launch, Goto
<1>25. ASSUME NEW w \in Workers, LaunchFails(w) PROVE CancelInv'
  BY <1>25 DEF LaunchFails, EndRun, Goto
<1>26. ASSUME NEW w \in Workers, RunCompletes(w) PROVE CancelInv'
  BY <1>26 DEF RunCompletes, EndRun, Goto
<1>27. ASSUME NEW w \in Workers, RunFails(w) PROVE CancelInv'
  BY <1>27 DEF RunFails, EndRun, Goto
<1>28. ASSUME NEW w \in Workers, Refresh(w) PROVE CancelInv'
  BY <1>28 DEF Refresh, Release, Goto, OwnerOf, FailureStatuses
<1>29. ASSUME NEW w \in Workers, Finalize(w) PROVE CancelInv'
  BY <1>29 DEF Finalize, CommitSuccess, CanFinalize, Goto
<1>30. ASSUME NEW w \in Workers, FinalizeFails(w) PROVE CancelInv'
  BY <1>30 DEF FinalizeFails, Goto
<1>31. ASSUME NEW w \in Workers, Cleanup(w) PROVE CancelInv'
  BY <1>31 DEF Cleanup, TidyUp, DeleteSandbox, Archive, Goto
<1>32. ASSUME NEW w \in Workers, ReleaseEnvironment(w) PROVE CancelInv'
  BY <1>32 DEF ReleaseEnvironment, Goto
<1>33. ASSUME NEW w \in Workers, DeleteEphemeral(w) PROVE CancelInv'
  BY <1>33 DEF DeleteEphemeral, DeleteSandbox, Goto
<1>34. ASSUME NEW w \in Workers, Requeue(w) PROVE CancelInv'
  BY <1>34 DEF Requeue, CanRequeue, Exhausted, Goto
<1>35. ASSUME NEW w \in Workers, Fail(w) PROVE CancelInv'
  BY <1>35 DEF Fail, CanTransition, ValidTransition, Goto
<1>36. ASSUME NEW w \in Workers, SettleNothing(w) PROVE CancelInv'
  BY <1>36 DEF SettleNothing, Goto
<1>37. ASSUME NEW w \in Workers, Return(w) PROVE CancelInv'
  BY <1>37 DEF Return, Unlock, Reset, Goto
<1>38. ASSUME NEW w \in Workers, Heartbeat(w) PROVE CancelInv'
  BY <1>38 DEF Heartbeat, Goto
<1>39. ASSUME NEW j \in Jobs, HeartbeatAges(j) PROVE CancelInv'
  BY <1>39 DEF HeartbeatAges
<1>40. ASSUME NEW j \in Jobs, RecoverCompleted(j) PROVE CancelInv'
  BY <1>40 DEF RecoverCompleted, Recoverable, CommitSuccess, CanFinalize
<1>41. ASSUME NEW j \in Jobs, CleanupRecovered(j) PROVE CancelInv'
  BY <1>41 DEF CleanupRecovered, TidyUp, DeleteSandbox, Archive
<1>42. ASSUME NEW j \in Jobs, ReconcileClaimed(j) PROVE CancelInv'
  BY <1>42 DEF ReconcileClaimed, StaleClaim
<1>43. ASSUME NEW j \in Jobs, ReconcileRunning(j) PROVE CancelInv'
  BY <1>43 DEF ReconcileRunning, Interrupted
<1>44. ASSUME NEW j \in Jobs, RecoveryDies(j) PROVE CancelInv'
  BY <1>44 DEF RecoveryDies
<1>45. ASSUME NEW j \in Jobs, OrphanExits(j) PROVE CancelInv'
  BY <1>45 DEF OrphanExits
<1>46. ASSUME NEW w \in Workers, Crash(w) PROVE CancelInv'
  BY <1>46 DEF Crash, Unlock, Reset, Goto
<1>47. CASE UNCHANGED vars
  BY <1>47
<1>48. QED
  BY <1>1, <1>2, <1>3, <1>4, <1>5, <1>6, <1>7, <1>8, <1>9, <1>10, <1>11,
     <1>12, <1>13, <1>14, <1>15, <1>16, <1>17, <1>18, <1>19, <1>20, <1>21,
     <1>22, <1>23, <1>24, <1>25, <1>26, <1>27, <1>28, <1>29, <1>30, <1>31,
     <1>32, <1>33, <1>34, <1>35, <1>36, <1>37, <1>38, <1>39, <1>40, <1>41,
     <1>42, <1>43, <1>44, <1>45, <1>46, <1>47 DEF Next, UserStep,
     WorkerStep, Reconcile

(* The owner cannot be revoked while a worker holds the authority lock. *)
LEMMA StepLock ==
  ASSUME TypeOK, LockInv, [Next]_vars
  PROVE  LockInv'
<1> USE JobsAssumption, BoundsAssumption, NullAssumption DEF TypeOK, LockInv, Guarded, Statuses, Active, Terminal, EnvStatuses, Stages, Prologue, Locked, Driving, Exiting, Exits, Results
<1>1. ASSUME NEW j \in Jobs, Submit(j) PROVE LockInv'
  BY <1>1 DEF Submit, ActiveOf, JobsOf
<1>2. ASSUME NEW j \in Jobs, CancelPending(j) PROVE LockInv'
  BY <1>2 DEF CancelPending, Requested
<1>3. ASSUME NEW j \in Jobs, CancelClaimed(j) PROVE LockInv'
  BY <1>3 DEF CancelClaimed, Requested
<1>4. ASSUME NEW u \in Users, Connect(u) PROVE LockInv'
  BY <1>4 DEF Connect, LockFree
<1>5. ASSUME NEW u \in Users, Disconnect(u) PROVE LockInv'
  BY <1>5 DEF Disconnect, LockFree, RevokeJobsOf, ActiveOf, JobsOf, Requested
<1>6. ASSUME NEW u \in Users, RemoveMember(u) PROVE LockInv'
  BY <1>6 DEF RemoveMember, LockFree, RevokeJobsOf, ActiveOf, JobsOf, Requested
<1>7. ASSUME NEW w \in Workers, NEW j \in Jobs, ClaimNext(w, j) PROVE LockInv'
  BY <1>7 DEF ClaimNext, Claimable, Goto
<1>8. ASSUME NEW w \in Workers, NotMember(w) PROVE LockInv'
  BY <1>8 DEF NotMember, Goto, OwnerOf
<1>9. ASSUME NEW w \in Workers, LeaseDenied(w) PROVE LockInv'
  BY <1>9 DEF LeaseDenied, Goto, LeaseBusy, LeaseRefused
<1>10. ASSUME NEW w \in Workers, AcquireLease(w) PROVE LockInv'
  BY <1>10 DEF AcquireLease, Goto, OwnerOf, LeaseBusy, LeaseRefused
<1>11. ASSUME NEW w \in Workers, CreateSandbox(w) PROVE LockInv'
  BY <1>11 DEF CreateSandbox, Goto
<1>12. ASSUME NEW w \in Workers, OpenSandbox(w) PROVE LockInv'
  BY <1>12 DEF OpenSandbox, Goto
<1>13. ASSUME NEW w \in Workers, ProvisionFails(w) PROVE LockInv'
  BY <1>13 DEF ProvisionFails, Goto, DeleteSandbox
<1>14. ASSUME NEW w \in Workers, LockFails(w) PROVE LockInv'
  BY <1>14 DEF LockFails, Release, Goto
<1>15. ASSUME NEW w \in Workers, TakeAuthority(w) PROVE LockInv'
  BY <1>15 DEF TakeAuthority, Release, Goto, LockFree, OwnerOf
<1>16. ASSUME NEW w \in Workers, Prepare(w) PROVE LockInv'
  BY <1>16 DEF Prepare, Goto, OwnerOf
<1>17. ASSUME NEW w \in Workers, PrepareFails(w) PROVE LockInv'
  BY <1>17 DEF PrepareFails, Release, Goto
<1>18. ASSUME NEW w \in Workers, MarkRunning(w) PROVE LockInv'
  BY <1>18 DEF MarkRunning, Goto, CanTransition, ValidTransition
<1>19. ASSUME NEW w \in Workers, MarkRunningFails(w) PROVE LockInv'
  BY <1>19 DEF MarkRunningFails, Release, Goto
<1>20. ASSUME NEW w \in Workers, FirstHeartbeat(w) PROVE LockInv'
  BY <1>20 DEF FirstHeartbeat, Release, Goto
<1>21. ASSUME NEW w \in Workers, FirstHeartbeatFails(w) PROVE LockInv'
  BY <1>21 DEF FirstHeartbeatFails, Release, Goto
<1>22. ASSUME NEW w \in Workers, MintToolToken(w) PROVE LockInv'
  BY <1>22 DEF MintToolToken, Goto
<1>23. ASSUME NEW w \in Workers, MintFails(w) PROVE LockInv'
  BY <1>23 DEF MintFails, Release, Goto
<1>24. ASSUME NEW w \in Workers, Launch(w) PROVE LockInv'
  BY <1>24 DEF Launch, Goto
<1>25. ASSUME NEW w \in Workers, LaunchFails(w) PROVE LockInv'
  BY <1>25 DEF LaunchFails, EndRun, Goto
<1>26. ASSUME NEW w \in Workers, RunCompletes(w) PROVE LockInv'
  BY <1>26 DEF RunCompletes, EndRun, Goto
<1>27. ASSUME NEW w \in Workers, RunFails(w) PROVE LockInv'
  BY <1>27 DEF RunFails, EndRun, Goto
<1>28. ASSUME NEW w \in Workers, Refresh(w) PROVE LockInv'
  BY <1>28 DEF Refresh, Release, Goto, OwnerOf, FailureStatuses
<1>29. ASSUME NEW w \in Workers, Finalize(w) PROVE LockInv'
  BY <1>29 DEF Finalize, CommitSuccess, CanFinalize, Goto
<1>30. ASSUME NEW w \in Workers, FinalizeFails(w) PROVE LockInv'
  BY <1>30 DEF FinalizeFails, Goto
<1>31. ASSUME NEW w \in Workers, Cleanup(w) PROVE LockInv'
  BY <1>31 DEF Cleanup, TidyUp, DeleteSandbox, Archive, Goto
<1>32. ASSUME NEW w \in Workers, ReleaseEnvironment(w) PROVE LockInv'
  BY <1>32 DEF ReleaseEnvironment, Goto
<1>33. ASSUME NEW w \in Workers, DeleteEphemeral(w) PROVE LockInv'
  BY <1>33 DEF DeleteEphemeral, DeleteSandbox, Goto
<1>34. ASSUME NEW w \in Workers, Requeue(w) PROVE LockInv'
  BY <1>34 DEF Requeue, CanRequeue, Exhausted, Goto
<1>35. ASSUME NEW w \in Workers, Fail(w) PROVE LockInv'
  BY <1>35 DEF Fail, CanTransition, ValidTransition, Goto
<1>36. ASSUME NEW w \in Workers, SettleNothing(w) PROVE LockInv'
  BY <1>36 DEF SettleNothing, Goto
<1>37. ASSUME NEW w \in Workers, Return(w) PROVE LockInv'
  BY <1>37 DEF Return, Unlock, Reset, Goto
<1>38. ASSUME NEW w \in Workers, Heartbeat(w) PROVE LockInv'
  BY <1>38 DEF Heartbeat, Goto
<1>39. ASSUME NEW j \in Jobs, HeartbeatAges(j) PROVE LockInv'
  BY <1>39 DEF HeartbeatAges
<1>40. ASSUME NEW j \in Jobs, RecoverCompleted(j) PROVE LockInv'
  BY <1>40 DEF RecoverCompleted, Recoverable, CommitSuccess, CanFinalize
<1>41. ASSUME NEW j \in Jobs, CleanupRecovered(j) PROVE LockInv'
  BY <1>41 DEF CleanupRecovered, TidyUp, DeleteSandbox, Archive
<1>42. ASSUME NEW j \in Jobs, ReconcileClaimed(j) PROVE LockInv'
  BY <1>42 DEF ReconcileClaimed, StaleClaim
<1>43. ASSUME NEW j \in Jobs, ReconcileRunning(j) PROVE LockInv'
  BY <1>43 DEF ReconcileRunning, Interrupted
<1>44. ASSUME NEW j \in Jobs, RecoveryDies(j) PROVE LockInv'
  BY <1>44 DEF RecoveryDies
<1>45. ASSUME NEW j \in Jobs, OrphanExits(j) PROVE LockInv'
  BY <1>45 DEF OrphanExits
<1>46. ASSUME NEW w \in Workers, Crash(w) PROVE LockInv'
  BY <1>46 DEF Crash, Unlock, Reset, Goto
<1>47. CASE UNCHANGED vars
  BY <1>47
<1>48. QED
  BY <1>1, <1>2, <1>3, <1>4, <1>5, <1>6, <1>7, <1>8, <1>9, <1>10, <1>11,
     <1>12, <1>13, <1>14, <1>15, <1>16, <1>17, <1>18, <1>19, <1>20, <1>21,
     <1>22, <1>23, <1>24, <1>25, <1>26, <1>27, <1>28, <1>29, <1>30, <1>31,
     <1>32, <1>33, <1>34, <1>35, <1>36, <1>37, <1>38, <1>39, <1>40, <1>41,
     <1>42, <1>43, <1>44, <1>45, <1>46, <1>47 DEF Next, UserStep,
     WorkerStep, Reconcile

(* Revocation also stops the tools of jobs whose worker is gone. *)
LEMMA StepTool ==
  ASSUME TypeOK, StartInv, LockInv, ToolInv, [Next]_vars
  PROVE  ToolInv'
<1> USE JobsAssumption, BoundsAssumption, NullAssumption DEF TypeOK, ToolInv, StartInv, LockInv, Guarded, Statuses, Active, Terminal, EnvStatuses, Stages, Prologue, Locked, Driving, Exiting, Exits, Results
<1>1. ASSUME NEW j \in Jobs, Submit(j) PROVE ToolInv'
  BY <1>1 DEF Submit, ActiveOf, JobsOf
<1>2. ASSUME NEW j \in Jobs, CancelPending(j) PROVE ToolInv'
  BY <1>2 DEF CancelPending, Requested
<1>3. ASSUME NEW j \in Jobs, CancelClaimed(j) PROVE ToolInv'
  BY <1>3 DEF CancelClaimed, Requested
<1>4. ASSUME NEW u \in Users, Connect(u) PROVE ToolInv'
  BY <1>4 DEF Connect, LockFree
<1>5. ASSUME NEW u \in Users, Disconnect(u) PROVE ToolInv'
  BY <1>5 DEF Disconnect, LockFree, RevokeJobsOf, ActiveOf, JobsOf, Requested
<1>6. ASSUME NEW u \in Users, RemoveMember(u) PROVE ToolInv'
  BY <1>6 DEF RemoveMember, LockFree, RevokeJobsOf, ActiveOf, JobsOf, Requested
<1>7. ASSUME NEW w \in Workers, NEW j \in Jobs, ClaimNext(w, j) PROVE ToolInv'
  BY <1>7 DEF ClaimNext, Claimable, Goto
<1>8. ASSUME NEW w \in Workers, NotMember(w) PROVE ToolInv'
  BY <1>8 DEF NotMember, Goto, OwnerOf
<1>9. ASSUME NEW w \in Workers, LeaseDenied(w) PROVE ToolInv'
  BY <1>9 DEF LeaseDenied, Goto, LeaseBusy, LeaseRefused
<1>10. ASSUME NEW w \in Workers, AcquireLease(w) PROVE ToolInv'
  BY <1>10 DEF AcquireLease, Goto, OwnerOf, LeaseBusy, LeaseRefused
<1>11. ASSUME NEW w \in Workers, CreateSandbox(w) PROVE ToolInv'
  BY <1>11 DEF CreateSandbox, Goto
<1>12. ASSUME NEW w \in Workers, OpenSandbox(w) PROVE ToolInv'
  BY <1>12 DEF OpenSandbox, Goto
<1>13. ASSUME NEW w \in Workers, ProvisionFails(w) PROVE ToolInv'
  BY <1>13 DEF ProvisionFails, Goto, DeleteSandbox
<1>14. ASSUME NEW w \in Workers, LockFails(w) PROVE ToolInv'
  BY <1>14 DEF LockFails, Release, Goto
<1>15. ASSUME NEW w \in Workers, TakeAuthority(w) PROVE ToolInv'
  BY <1>15 DEF TakeAuthority, Release, Goto, LockFree, OwnerOf
<1>16. ASSUME NEW w \in Workers, Prepare(w) PROVE ToolInv'
  BY <1>16 DEF Prepare, Goto, OwnerOf
<1>17. ASSUME NEW w \in Workers, PrepareFails(w) PROVE ToolInv'
  BY <1>17 DEF PrepareFails, Release, Goto
<1>18. ASSUME NEW w \in Workers, MarkRunning(w) PROVE ToolInv'
  BY <1>18 DEF MarkRunning, Goto, CanTransition, ValidTransition
<1>19. ASSUME NEW w \in Workers, MarkRunningFails(w) PROVE ToolInv'
  BY <1>19 DEF MarkRunningFails, Release, Goto
<1>20. ASSUME NEW w \in Workers, FirstHeartbeat(w) PROVE ToolInv'
  BY <1>20 DEF FirstHeartbeat, Release, Goto
<1>21. ASSUME NEW w \in Workers, FirstHeartbeatFails(w) PROVE ToolInv'
  BY <1>21 DEF FirstHeartbeatFails, Release, Goto
<1>22. ASSUME NEW w \in Workers, MintToolToken(w) PROVE ToolInv'
  BY <1>22 DEF MintToolToken, Goto
<1>23. ASSUME NEW w \in Workers, MintFails(w) PROVE ToolInv'
  BY <1>23 DEF MintFails, Release, Goto
<1>24. ASSUME NEW w \in Workers, Launch(w) PROVE ToolInv'
  BY <1>24 DEF Launch, Goto
<1>25. ASSUME NEW w \in Workers, LaunchFails(w) PROVE ToolInv'
  BY <1>25 DEF LaunchFails, EndRun, Goto
<1>26. ASSUME NEW w \in Workers, RunCompletes(w) PROVE ToolInv'
  BY <1>26 DEF RunCompletes, EndRun, Goto
<1>27. ASSUME NEW w \in Workers, RunFails(w) PROVE ToolInv'
  BY <1>27 DEF RunFails, EndRun, Goto
<1>28. ASSUME NEW w \in Workers, Refresh(w) PROVE ToolInv'
  BY <1>28 DEF Refresh, Release, Goto, OwnerOf, FailureStatuses
<1>29. ASSUME NEW w \in Workers, Finalize(w) PROVE ToolInv'
  BY <1>29 DEF Finalize, CommitSuccess, CanFinalize, Goto
<1>30. ASSUME NEW w \in Workers, FinalizeFails(w) PROVE ToolInv'
  BY <1>30 DEF FinalizeFails, Goto
<1>31. ASSUME NEW w \in Workers, Cleanup(w) PROVE ToolInv'
  BY <1>31 DEF Cleanup, TidyUp, DeleteSandbox, Archive, Goto
<1>32. ASSUME NEW w \in Workers, ReleaseEnvironment(w) PROVE ToolInv'
  BY <1>32 DEF ReleaseEnvironment, Goto
<1>33. ASSUME NEW w \in Workers, DeleteEphemeral(w) PROVE ToolInv'
  BY <1>33 DEF DeleteEphemeral, DeleteSandbox, Goto
<1>34. ASSUME NEW w \in Workers, Requeue(w) PROVE ToolInv'
  BY <1>34 DEF Requeue, CanRequeue, Exhausted, Goto
<1>35. ASSUME NEW w \in Workers, Fail(w) PROVE ToolInv'
  BY <1>35 DEF Fail, CanTransition, ValidTransition, Goto
<1>36. ASSUME NEW w \in Workers, SettleNothing(w) PROVE ToolInv'
  BY <1>36 DEF SettleNothing, Goto
<1>37. ASSUME NEW w \in Workers, Return(w) PROVE ToolInv'
  BY <1>37 DEF Return, Unlock, Reset, Goto
<1>38. ASSUME NEW w \in Workers, Heartbeat(w) PROVE ToolInv'
  BY <1>38 DEF Heartbeat, Goto
<1>39. ASSUME NEW j \in Jobs, HeartbeatAges(j) PROVE ToolInv'
  BY <1>39 DEF HeartbeatAges
<1>40. ASSUME NEW j \in Jobs, RecoverCompleted(j) PROVE ToolInv'
  BY <1>40 DEF RecoverCompleted, Recoverable, CommitSuccess, CanFinalize
<1>41. ASSUME NEW j \in Jobs, CleanupRecovered(j) PROVE ToolInv'
  BY <1>41 DEF CleanupRecovered, TidyUp, DeleteSandbox, Archive
<1>42. ASSUME NEW j \in Jobs, ReconcileClaimed(j) PROVE ToolInv'
  BY <1>42 DEF ReconcileClaimed, StaleClaim
<1>43. ASSUME NEW j \in Jobs, ReconcileRunning(j) PROVE ToolInv'
  BY <1>43 DEF ReconcileRunning, Interrupted
<1>44. ASSUME NEW j \in Jobs, RecoveryDies(j) PROVE ToolInv'
  BY <1>44 DEF RecoveryDies
<1>45. ASSUME NEW j \in Jobs, OrphanExits(j) PROVE ToolInv'
  BY <1>45 DEF OrphanExits
<1>46. ASSUME NEW w \in Workers, Crash(w) PROVE ToolInv'
  BY <1>46 DEF Crash, Unlock, Reset, Goto
<1>47. CASE UNCHANGED vars
  BY <1>47
<1>48. QED
  BY <1>1, <1>2, <1>3, <1>4, <1>5, <1>6, <1>7, <1>8, <1>9, <1>10, <1>11,
     <1>12, <1>13, <1>14, <1>15, <1>16, <1>17, <1>18, <1>19, <1>20, <1>21,
     <1>22, <1>23, <1>24, <1>25, <1>26, <1>27, <1>28, <1>29, <1>30, <1>31,
     <1>32, <1>33, <1>34, <1>35, <1>36, <1>37, <1>38, <1>39, <1>40, <1>41,
     <1>42, <1>43, <1>44, <1>45, <1>46, <1>47 DEF Next, UserStep,
     WorkerStep, Reconcile

(* Markers and successes belong to jobs whose one process is over. *)
LEMMA StepResult ==
  ASSUME TypeOK, StartInv, ResultInv, [Next]_vars
  PROVE  ResultInv'
<1> USE JobsAssumption, BoundsAssumption, NullAssumption DEF TypeOK, ResultInv, StartInv, Unlaunched, SuccessIsBacked, Statuses, Active, Terminal, EnvStatuses, Stages, Prologue, Locked, Driving, Exiting, Exits, Results
<1>1. ASSUME NEW j \in Jobs, Submit(j) PROVE ResultInv'
  BY <1>1 DEF Submit, ActiveOf, JobsOf
<1>2. ASSUME NEW j \in Jobs, CancelPending(j) PROVE ResultInv'
  BY <1>2 DEF CancelPending, Requested
<1>3. ASSUME NEW j \in Jobs, CancelClaimed(j) PROVE ResultInv'
  BY <1>3 DEF CancelClaimed, Requested
<1>4. ASSUME NEW u \in Users, Connect(u) PROVE ResultInv'
  BY <1>4 DEF Connect, LockFree
<1>5. ASSUME NEW u \in Users, Disconnect(u) PROVE ResultInv'
  BY <1>5 DEF Disconnect, LockFree, RevokeJobsOf, ActiveOf, JobsOf, Requested
<1>6. ASSUME NEW u \in Users, RemoveMember(u) PROVE ResultInv'
  BY <1>6 DEF RemoveMember, LockFree, RevokeJobsOf, ActiveOf, JobsOf, Requested
<1>7. ASSUME NEW w \in Workers, NEW j \in Jobs, ClaimNext(w, j) PROVE ResultInv'
  BY <1>7 DEF ClaimNext, Claimable, Goto
<1>8. ASSUME NEW w \in Workers, NotMember(w) PROVE ResultInv'
  BY <1>8 DEF NotMember, Goto, OwnerOf
<1>9. ASSUME NEW w \in Workers, LeaseDenied(w) PROVE ResultInv'
  BY <1>9 DEF LeaseDenied, Goto, LeaseBusy, LeaseRefused
<1>10. ASSUME NEW w \in Workers, AcquireLease(w) PROVE ResultInv'
  BY <1>10 DEF AcquireLease, Goto, OwnerOf, LeaseBusy, LeaseRefused
<1>11. ASSUME NEW w \in Workers, CreateSandbox(w) PROVE ResultInv'
  BY <1>11 DEF CreateSandbox, Goto
<1>12. ASSUME NEW w \in Workers, OpenSandbox(w) PROVE ResultInv'
  BY <1>12 DEF OpenSandbox, Goto
<1>13. ASSUME NEW w \in Workers, ProvisionFails(w) PROVE ResultInv'
  BY <1>13 DEF ProvisionFails, Goto, DeleteSandbox
<1>14. ASSUME NEW w \in Workers, LockFails(w) PROVE ResultInv'
  BY <1>14 DEF LockFails, Release, Goto
<1>15. ASSUME NEW w \in Workers, TakeAuthority(w) PROVE ResultInv'
  BY <1>15 DEF TakeAuthority, Release, Goto, LockFree, OwnerOf
<1>16. ASSUME NEW w \in Workers, Prepare(w) PROVE ResultInv'
  BY <1>16 DEF Prepare, Goto, OwnerOf
<1>17. ASSUME NEW w \in Workers, PrepareFails(w) PROVE ResultInv'
  BY <1>17 DEF PrepareFails, Release, Goto
<1>18. ASSUME NEW w \in Workers, MarkRunning(w) PROVE ResultInv'
  BY <1>18 DEF MarkRunning, Goto, CanTransition, ValidTransition
<1>19. ASSUME NEW w \in Workers, MarkRunningFails(w) PROVE ResultInv'
  BY <1>19 DEF MarkRunningFails, Release, Goto
<1>20. ASSUME NEW w \in Workers, FirstHeartbeat(w) PROVE ResultInv'
  BY <1>20 DEF FirstHeartbeat, Release, Goto
<1>21. ASSUME NEW w \in Workers, FirstHeartbeatFails(w) PROVE ResultInv'
  BY <1>21 DEF FirstHeartbeatFails, Release, Goto
<1>22. ASSUME NEW w \in Workers, MintToolToken(w) PROVE ResultInv'
  BY <1>22 DEF MintToolToken, Goto
<1>23. ASSUME NEW w \in Workers, MintFails(w) PROVE ResultInv'
  BY <1>23 DEF MintFails, Release, Goto
<1>24. ASSUME NEW w \in Workers, Launch(w) PROVE ResultInv'
  BY <1>24 DEF Launch, Goto
<1>25. ASSUME NEW w \in Workers, LaunchFails(w) PROVE ResultInv'
  BY <1>25 DEF LaunchFails, EndRun, Goto
<1>26. ASSUME NEW w \in Workers, RunCompletes(w) PROVE ResultInv'
  BY <1>26 DEF RunCompletes, EndRun, Goto
<1>27. ASSUME NEW w \in Workers, RunFails(w) PROVE ResultInv'
  <2>1. CASE live' = [live EXCEPT ![task[w]] = FALSE] /\ EndRun(w, "error")
    BY <1>27, <2>1 DEF RunFails, EndRun, Goto
  <2>2. CASE live[task[w]] /\ UNCHANGED live /\ EndRun(w, "error")
    BY <1>27, <2>2 DEF RunFails, EndRun, Goto
  <2>3. CASE live[task[w]] /\ UNCHANGED live /\ EndRun(w, "uncertain")
    BY <1>27, <2>3 DEF RunFails, EndRun, Goto
  <2> QED BY <1>27, <2>1, <2>2, <2>3 DEF RunFails, EndRun, Goto
<1>28. ASSUME NEW w \in Workers, Refresh(w) PROVE ResultInv'
  BY <1>28 DEF Refresh, Release, Goto, OwnerOf, FailureStatuses
<1>29. ASSUME NEW w \in Workers, Finalize(w) PROVE ResultInv'
  BY <1>29 DEF Finalize, CommitSuccess, CanFinalize, Goto
<1>30. ASSUME NEW w \in Workers, FinalizeFails(w) PROVE ResultInv'
  BY <1>30 DEF FinalizeFails, Goto
<1>31. ASSUME NEW w \in Workers, Cleanup(w) PROVE ResultInv'
  BY <1>31 DEF Cleanup, TidyUp, DeleteSandbox, Archive, Goto
<1>32. ASSUME NEW w \in Workers, ReleaseEnvironment(w) PROVE ResultInv'
  BY <1>32 DEF ReleaseEnvironment, Goto
<1>33. ASSUME NEW w \in Workers, DeleteEphemeral(w) PROVE ResultInv'
  BY <1>33 DEF DeleteEphemeral, DeleteSandbox, Goto
<1>34. ASSUME NEW w \in Workers, Requeue(w) PROVE ResultInv'
  BY <1>34 DEF Requeue, CanRequeue, Exhausted, Goto
<1>35. ASSUME NEW w \in Workers, Fail(w) PROVE ResultInv'
  BY <1>35 DEF Fail, CanTransition, ValidTransition, Goto
<1>36. ASSUME NEW w \in Workers, SettleNothing(w) PROVE ResultInv'
  BY <1>36 DEF SettleNothing, Goto
<1>37. ASSUME NEW w \in Workers, Return(w) PROVE ResultInv'
  BY <1>37 DEF Return, Unlock, Reset, Goto
<1>38. ASSUME NEW w \in Workers, Heartbeat(w) PROVE ResultInv'
  BY <1>38 DEF Heartbeat, Goto
<1>39. ASSUME NEW j \in Jobs, HeartbeatAges(j) PROVE ResultInv'
  BY <1>39 DEF HeartbeatAges
<1>40. ASSUME NEW j \in Jobs, RecoverCompleted(j) PROVE ResultInv'
  BY <1>40 DEF RecoverCompleted, Recoverable, CommitSuccess, CanFinalize
<1>41. ASSUME NEW j \in Jobs, CleanupRecovered(j) PROVE ResultInv'
  <2>1. CASE EnvOf[j] \notin Ephemeral
    BY SMTT(40), <1>41, <2>1 DEF CleanupRecovered, TidyUp, DeleteSandbox, Archive
  <2>2. CASE EnvOf[j] \in Ephemeral /\ DeleteSandbox(EnvOf[j])
    BY SMTT(40), <1>41, <2>2 DEF CleanupRecovered, TidyUp, DeleteSandbox, Archive
  <2>3. CASE EnvOf[j] \in Ephemeral /\ marker' = [marker EXCEPT ![j] = FALSE] /\ UNCHANGED live
    BY SMTT(40), <1>41, <2>3 DEF CleanupRecovered, TidyUp, DeleteSandbox, Archive
  <2> QED BY SMTT(40), <1>41, <2>1, <2>2, <2>3 DEF CleanupRecovered, TidyUp, DeleteSandbox, Archive
<1>42. ASSUME NEW j \in Jobs, ReconcileClaimed(j) PROVE ResultInv'
  BY <1>42 DEF ReconcileClaimed, StaleClaim
<1>43. ASSUME NEW j \in Jobs, ReconcileRunning(j) PROVE ResultInv'
  BY <1>43 DEF ReconcileRunning, Interrupted
<1>44. ASSUME NEW j \in Jobs, RecoveryDies(j) PROVE ResultInv'
  BY <1>44 DEF RecoveryDies
<1>45. ASSUME NEW j \in Jobs, OrphanExits(j) PROVE ResultInv'
  BY <1>45 DEF OrphanExits
<1>46. ASSUME NEW w \in Workers, Crash(w) PROVE ResultInv'
  BY <1>46 DEF Crash, Unlock, Reset, Goto
<1>47. CASE UNCHANGED vars
  BY <1>47
<1>48. QED
  BY <1>1, <1>2, <1>3, <1>4, <1>5, <1>6, <1>7, <1>8, <1>9, <1>10, <1>11,
     <1>12, <1>13, <1>14, <1>15, <1>16, <1>17, <1>18, <1>19, <1>20, <1>21,
     <1>22, <1>23, <1>24, <1>25, <1>26, <1>27, <1>28, <1>29, <1>30, <1>31,
     <1>32, <1>33, <1>34, <1>35, <1>36, <1>37, <1>38, <1>39, <1>40, <1>41,
     <1>42, <1>43, <1>44, <1>45, <1>46, <1>47 DEF Next, UserStep,
     WorkerStep, Reconcile

(* Nobody but its worker or the reconciler ends a running job. *)
LEMMA StepClaim ==
  ASSUME TypeOK, StartInv, ResultInv, ClaimInv, [Next]_vars
  PROVE  ClaimInv'
<1> USE JobsAssumption, BoundsAssumption, NullAssumption DEF TypeOK, ClaimInv, StartInv, ResultInv, SuccessIsBacked, Unlaunched, Statuses, Active, Terminal, EnvStatuses, Stages, Prologue, Locked, Driving, Exiting, Exits, Results
<1>1. ASSUME NEW j \in Jobs, Submit(j) PROVE ClaimInv'
  BY <1>1 DEF Submit, ActiveOf, JobsOf
<1>2. ASSUME NEW j \in Jobs, CancelPending(j) PROVE ClaimInv'
  BY <1>2 DEF CancelPending, Requested
<1>3. ASSUME NEW j \in Jobs, CancelClaimed(j) PROVE ClaimInv'
  BY <1>3 DEF CancelClaimed, Requested
<1>4. ASSUME NEW u \in Users, Connect(u) PROVE ClaimInv'
  BY <1>4 DEF Connect, LockFree
<1>5. ASSUME NEW u \in Users, Disconnect(u) PROVE ClaimInv'
  BY <1>5 DEF Disconnect, LockFree, RevokeJobsOf, ActiveOf, JobsOf, Requested
<1>6. ASSUME NEW u \in Users, RemoveMember(u) PROVE ClaimInv'
  BY <1>6 DEF RemoveMember, LockFree, RevokeJobsOf, ActiveOf, JobsOf, Requested
<1>7. ASSUME NEW w \in Workers, NEW j \in Jobs, ClaimNext(w, j) PROVE ClaimInv'
  BY <1>7 DEF ClaimNext, Claimable, Goto
<1>8. ASSUME NEW w \in Workers, NotMember(w) PROVE ClaimInv'
  BY <1>8 DEF NotMember, Goto, OwnerOf
<1>9. ASSUME NEW w \in Workers, LeaseDenied(w) PROVE ClaimInv'
  BY <1>9 DEF LeaseDenied, Goto, LeaseBusy, LeaseRefused
<1>10. ASSUME NEW w \in Workers, AcquireLease(w) PROVE ClaimInv'
  BY <1>10 DEF AcquireLease, Goto, OwnerOf, LeaseBusy, LeaseRefused
<1>11. ASSUME NEW w \in Workers, CreateSandbox(w) PROVE ClaimInv'
  BY <1>11 DEF CreateSandbox, Goto
<1>12. ASSUME NEW w \in Workers, OpenSandbox(w) PROVE ClaimInv'
  BY <1>12 DEF OpenSandbox, Goto
<1>13. ASSUME NEW w \in Workers, ProvisionFails(w) PROVE ClaimInv'
  BY <1>13 DEF ProvisionFails, Goto, DeleteSandbox
<1>14. ASSUME NEW w \in Workers, LockFails(w) PROVE ClaimInv'
  BY <1>14 DEF LockFails, Release, Goto
<1>15. ASSUME NEW w \in Workers, TakeAuthority(w) PROVE ClaimInv'
  BY <1>15 DEF TakeAuthority, Release, Goto, LockFree, OwnerOf
<1>16. ASSUME NEW w \in Workers, Prepare(w) PROVE ClaimInv'
  BY <1>16 DEF Prepare, Goto, OwnerOf
<1>17. ASSUME NEW w \in Workers, PrepareFails(w) PROVE ClaimInv'
  BY <1>17 DEF PrepareFails, Release, Goto
<1>18. ASSUME NEW w \in Workers, MarkRunning(w) PROVE ClaimInv'
  BY <1>18 DEF MarkRunning, Goto, CanTransition, ValidTransition
<1>19. ASSUME NEW w \in Workers, MarkRunningFails(w) PROVE ClaimInv'
  BY <1>19 DEF MarkRunningFails, Release, Goto
<1>20. ASSUME NEW w \in Workers, FirstHeartbeat(w) PROVE ClaimInv'
  BY <1>20 DEF FirstHeartbeat, Release, Goto
<1>21. ASSUME NEW w \in Workers, FirstHeartbeatFails(w) PROVE ClaimInv'
  BY <1>21 DEF FirstHeartbeatFails, Release, Goto
<1>22. ASSUME NEW w \in Workers, MintToolToken(w) PROVE ClaimInv'
  BY <1>22 DEF MintToolToken, Goto
<1>23. ASSUME NEW w \in Workers, MintFails(w) PROVE ClaimInv'
  BY <1>23 DEF MintFails, Release, Goto
<1>24. ASSUME NEW w \in Workers, Launch(w) PROVE ClaimInv'
  BY <1>24 DEF Launch, Goto
<1>25. ASSUME NEW w \in Workers, LaunchFails(w) PROVE ClaimInv'
  BY <1>25 DEF LaunchFails, EndRun, Goto
<1>26. ASSUME NEW w \in Workers, RunCompletes(w) PROVE ClaimInv'
  BY <1>26 DEF RunCompletes, EndRun, Goto
<1>27. ASSUME NEW w \in Workers, RunFails(w) PROVE ClaimInv'
  BY <1>27 DEF RunFails, EndRun, Goto
<1>28. ASSUME NEW w \in Workers, Refresh(w) PROVE ClaimInv'
  BY <1>28 DEF Refresh, Release, Goto, OwnerOf, FailureStatuses
<1>29. ASSUME NEW w \in Workers, Finalize(w) PROVE ClaimInv'
  BY <1>29 DEF Finalize, CommitSuccess, CanFinalize, Goto
<1>30. ASSUME NEW w \in Workers, FinalizeFails(w) PROVE ClaimInv'
  BY <1>30 DEF FinalizeFails, Goto
<1>31. ASSUME NEW w \in Workers, Cleanup(w) PROVE ClaimInv'
  BY <1>31 DEF Cleanup, TidyUp, DeleteSandbox, Archive, Goto
<1>32. ASSUME NEW w \in Workers, ReleaseEnvironment(w) PROVE ClaimInv'
  BY <1>32 DEF ReleaseEnvironment, Goto
<1>33. ASSUME NEW w \in Workers, DeleteEphemeral(w) PROVE ClaimInv'
  BY <1>33 DEF DeleteEphemeral, DeleteSandbox, Goto
<1>34. ASSUME NEW w \in Workers, Requeue(w) PROVE ClaimInv'
  BY <1>34 DEF Requeue, CanRequeue, Exhausted, Goto
<1>35. ASSUME NEW w \in Workers, Fail(w) PROVE ClaimInv'
  BY <1>35 DEF Fail, CanTransition, ValidTransition, Goto
<1>36. ASSUME NEW w \in Workers, SettleNothing(w) PROVE ClaimInv'
  BY <1>36 DEF SettleNothing, Goto
<1>37. ASSUME NEW w \in Workers, Return(w) PROVE ClaimInv'
  BY <1>37 DEF Return, Unlock, Reset, Goto
<1>38. ASSUME NEW w \in Workers, Heartbeat(w) PROVE ClaimInv'
  BY <1>38 DEF Heartbeat, Goto
<1>39. ASSUME NEW j \in Jobs, HeartbeatAges(j) PROVE ClaimInv'
  BY <1>39 DEF HeartbeatAges
<1>40. ASSUME NEW j \in Jobs, RecoverCompleted(j) PROVE ClaimInv'
  BY <1>40 DEF RecoverCompleted, Recoverable, CommitSuccess, CanFinalize
<1>41. ASSUME NEW j \in Jobs, CleanupRecovered(j) PROVE ClaimInv'
  BY <1>41 DEF CleanupRecovered, TidyUp, DeleteSandbox, Archive
<1>42. ASSUME NEW j \in Jobs, ReconcileClaimed(j) PROVE ClaimInv'
  BY <1>42 DEF ReconcileClaimed, StaleClaim
<1>43. ASSUME NEW j \in Jobs, ReconcileRunning(j) PROVE ClaimInv'
  BY <1>43 DEF ReconcileRunning, Interrupted
<1>44. ASSUME NEW j \in Jobs, RecoveryDies(j) PROVE ClaimInv'
  BY <1>44 DEF RecoveryDies
<1>45. ASSUME NEW j \in Jobs, OrphanExits(j) PROVE ClaimInv'
  BY <1>45 DEF OrphanExits
<1>46. ASSUME NEW w \in Workers, Crash(w) PROVE ClaimInv'
  BY <1>46 DEF Crash, Unlock, Reset, Goto
<1>47. CASE UNCHANGED vars
  BY <1>47
<1>48. QED
  BY <1>1, <1>2, <1>3, <1>4, <1>5, <1>6, <1>7, <1>8, <1>9, <1>10, <1>11,
     <1>12, <1>13, <1>14, <1>15, <1>16, <1>17, <1>18, <1>19, <1>20, <1>21,
     <1>22, <1>23, <1>24, <1>25, <1>26, <1>27, <1>28, <1>29, <1>30, <1>31,
     <1>32, <1>33, <1>34, <1>35, <1>36, <1>37, <1>38, <1>39, <1>40, <1>41,
     <1>42, <1>43, <1>44, <1>45, <1>46, <1>47 DEF Next, UserStep,
     WorkerStep, Reconcile

-----------------------------------------------------------------------------
(* The initial states satisfy the invariant. *)
LEMMA InitInv == Init => IInv
<1>1. SUFFICES ASSUME Init PROVE IInv
  OBVIOUS
<1> USE <1>1, JobsAssumption, BoundsAssumption, NullAssumption DEF Init
<1>2. TypeOK
  BY DEF TypeOK, Statuses, Active, Terminal, EnvStatuses, Stages, Exits, Results
<1>3. AtMostOnceExecution /\ StartInv /\ CancelInv
  BY DEF AtMostOnceExecution, StartInv, CancelInv, EarlyCancelNeverRuns,
         Driving, Unlaunched
<1>4. LockInv /\ ToolInv /\ ResultInv /\ ClaimInv
  BY DEF LockInv, ToolInv, ResultInv, ClaimInv, SuccessIsBacked,
         Guarded, Locked, Driving, Unlaunched
<1>5. QED
  BY <1>2, <1>3, <1>4 DEF IInv

(* Every step keeps the invariant: the lemmas above together. *)
LEMMA StepInv == IInv /\ [Next]_vars => IInv'
<1>1. SUFFICES ASSUME IInv, [Next]_vars PROVE IInv'
  OBVIOUS
<1>2. TypeOK /\ AtMostOnceExecution /\ StartInv /\ CancelInv
  BY <1>1 DEF IInv
<1>3. LockInv /\ ToolInv /\ ResultInv /\ ClaimInv
  BY <1>1 DEF IInv
<1>4. TypeOK' /\ StartInv' /\ AtMostOnceExecution' /\ CancelInv'
  BY <1>1, <1>2, StepType, StepStart, StepExecution, StepCancel
<1>5. LockInv' /\ ToolInv' /\ ResultInv' /\ ClaimInv'
  BY <1>1, <1>2, <1>3, StepLock, StepTool, StepResult, StepClaim
<1>6. QED
  BY <1>4, <1>5 DEF IInv

(* The inductive invariant holds in every reachable state of the service, *)
(* for any number of replicas, workspaces, jobs and owners.               *)
THEOREM Invariance == Spec => []IInv
<1>1. Init => IInv
  BY InitInv
<1>2. IInv /\ [Next]_vars => IInv'
  BY StepInv
<1>3. QED
  BY <1>1, <1>2, PTL DEF Spec

(* Every variable of the service keeps its type; in particular ClaimNext  *)
(* never counts more attempts than a job was submitted with.              *)
THEOREM TypeCorrect == Spec => []TypeOK
<1>1. IInv => TypeOK
  BY DEF IInv
<1>2. QED
  BY <1>1, Invariance, PTL

(* A job's runtime is launched at most once, however often the job is     *)
(* claimed and requeued (Store.requeue, ReconcileStale).                  *)
THEOREM AtMostOnce == Spec => []AtMostOnceExecution
<1>1. IInv => AtMostOnceExecution
  BY DEF IInv
<1>2. QED
  BY <1>1, Invariance, PTL

(* Two workers never run Codex in one workspace: whoever runs holds the   *)
(* authority lock of the workspace's one owner (workspaceKey).            *)
THEOREM WorkspaceExclusion == Spec => []OneRuntimePerWorkspace
<1>1. IInv => OneRuntimePerWorkspace
  <2>1. SUFFICES ASSUME IInv,
                        NEW v \in Workers, NEW w \in Workers,
                        pc[v] = "run", pc[w] = "run",
                        EnvOf[task[v]] = EnvOf[task[w]]
                 PROVE  v = w
    BY DEF OneRuntimePerWorkspace
  <2>2. task[v] \in Jobs /\ task[w] \in Jobs
    BY <2>1 DEF IInv, TypeOK
  <2>3. UserOf[task[v]] = UserOf[task[w]]
    BY <2>1, <2>2, JobsAssumption
  <2>4. authority[UserOf[task[v]]] = v /\ authority[UserOf[task[w]]] = w
    BY <2>1 DEF IInv, LockInv, Guarded, Driving
  <2>5. QED
    BY <2>3, <2>4
<1>2. QED
  BY <1>1, Invariance, PTL

(* From the credential check to the durable outcome no job runs on the    *)
(* authority of a former member or a revoked credential (authority.go).   *)
THEOREM AuthorityKept == Spec => []AuthorityBoundary
<1>1. IInv => AuthorityBoundary
  BY DEF IInv, LockInv, AuthorityBoundary, Guarded, Locked, Driving, OwnerOf
<1>2. QED
  BY <1>1, Invariance, PTL

(* A sandbox is never served a workflow tool for a user whose credential  *)
(* is revoked, whether or not its worker is alive (authenticateToolCall). *)
THEOREM ToolsRevoked == Spec => []NoToolsAfterRevocation
<1>1. IInv => NoToolsAfterRevocation
  BY DEF IInv, ToolInv, NoToolsAfterRevocation, Authorized
<1>2. QED
  BY <1>1, Invariance, PTL

(* A job cancelled before MarkRunning never launches its runtime.         *)
THEOREM EarlyCancel == Spec => []EarlyCancelNeverRuns
<1>1. IInv => EarlyCancelNeverRuns
  BY DEF IInv, CancelInv
<1>2. QED
  BY <1>1, Invariance, PTL

(* A successful job ran exactly once and left no process behind, whoever  *)
(* wrote the outcome: its worker or the recovery from the marker.         *)
THEOREM SuccessBacked == Spec => []SuccessIsBacked
<1>1. IInv => SuccessIsBacked
  BY DEF IInv, ResultInv
<1>2. QED
  BY <1>1, Invariance, PTL

-----------------------------------------------------------------------------
(* Refinement: every step of the service is a step of JobLifecycle or      *)
(* leaves what a waiting node observes unchanged.                          *)

(* A step that leaves the job's status and launches alone is a stutter. *)
LEMMA Stutter ==
  ASSUME UNCHANGED <<status, runs>>
  PROVE  UNCHANGED Lifecycle!vars
BY DEF Lifecycle!vars, PhaseOf

(* Changing one job's status changes that job's phase only. *)
LEMMA OnePhase ==
  ASSUME TypeOK, NEW j \in Jobs, NEW s, status' = [status EXCEPT ![j] = s]
  PROVE  [i \in Jobs |-> PhaseOf(i)]' = [[i \in Jobs |-> PhaseOf(i)] EXCEPT ![j] = PhaseOf(j)']
BY DEF TypeOK, PhaseOf

(* A pending or claimed job that fails or is cancelled was abandoned. *)
LEMMA AbandonOne ==
  ASSUME TypeOK, NEW j \in Jobs, NEW s \in {"failed", "cancelled"},
         status[j] \in {"pending", "claimed"},
         status' = [status EXCEPT ![j] = s], runs' = runs
  PROVE  Lifecycle!Next
<1>1. [i \in Jobs |-> PhaseOf(i)]' =
        [i \in Jobs |-> IF i \in {j} THEN s ELSE [k \in Jobs |-> PhaseOf(k)][i]]
  BY DEF TypeOK, PhaseOf
<1>2. \A i \in {j} : [k \in Jobs |-> PhaseOf(k)][i] = "waiting"
  BY DEF PhaseOf
<1>3. Lifecycle!Abandon({j}, s)
  BY <1>1, <1>2 DEF Lifecycle!Abandon
<1>4. s \in Lifecycle!Outcomes /\ {j} \in SUBSET Jobs
  BY DEF Lifecycle!Outcomes
<1>5. QED
  BY <1>3, <1>4 DEF Lifecycle!Next

(* A running job that reaches an outcome is finished. *)
LEMMA FinishOne ==
  ASSUME TypeOK, NEW j \in Jobs, NEW s \in Terminal, status[j] = "running",
         s = "succeeded" => runs[j] = 1,
         status' = [status EXCEPT ![j] = s], runs' = runs
  PROVE  Lifecycle!Next
<1>1. [i \in Jobs |-> PhaseOf(i)]' = [[i \in Jobs |-> PhaseOf(i)] EXCEPT ![j] = s]
  BY OnePhase DEF TypeOK, PhaseOf, Terminal
<1>2. [i \in Jobs |-> PhaseOf(i)][j] = "started"
  BY DEF PhaseOf
<1>3. Lifecycle!Finish(j, s) /\ s \in Lifecycle!Outcomes
  BY <1>1, <1>2 DEF Lifecycle!Finish, Lifecycle!Outcomes, Terminal
<1>4. QED
  BY <1>3 DEF Lifecycle!Next

(* Disconnect and RemoveMember abandon all pending jobs of a user. *)
LEMMA AbandonMany ==
  ASSUME TypeOK, NEW u \in Users, RevokeJobsOf(u), runs' = runs
  PROVE  Lifecycle!Next
<1> DEFINE S == {j \in Jobs : UserOf[j] = u /\ status[j] = "pending"}
<1>1. [i \in Jobs |-> PhaseOf(i)]' =
        [i \in Jobs |-> IF i \in S THEN "cancelled" ELSE [k \in Jobs |-> PhaseOf(k)][i]]
  BY DEF RevokeJobsOf, PhaseOf
<1>2. \A i \in S : [k \in Jobs |-> PhaseOf(k)][i] = "waiting"
  BY DEF PhaseOf
<1>3. Lifecycle!Abandon(S, "cancelled")
  BY <1>1, <1>2 DEF Lifecycle!Abandon
<1>4. "cancelled" \in Lifecycle!Outcomes /\ S \in SUBSET Jobs
  BY DEF Lifecycle!Outcomes
<1>5. QED
  BY <1>3, <1>4 DEF Lifecycle!Next

(* Each step of the service maps to a step of JobLifecycle or a stutter. *)
LEMMA StepRefines ==
  IInv /\ [Next]_vars => [Lifecycle!Next]_(Lifecycle!vars)
<1> DEFINE Mapped == Lifecycle!Next \/ UNCHANGED Lifecycle!vars
<1>1. SUFFICES ASSUME TypeOK, StartInv, ResultInv, ClaimInv, [Next]_vars
               PROVE  Mapped
  BY DEF IInv
<1>2. ASSUME NEW j \in Jobs, Submit(j) PROVE Mapped
  <2>1. status' = [status EXCEPT ![j] = "pending"] /\ status[j] = "absent" /\ runs' = runs
    BY <1>2 DEF Submit
  <2>2. [i \in Jobs |-> PhaseOf(i)]' = [[i \in Jobs |-> PhaseOf(i)] EXCEPT ![j] = "waiting"]
    BY <1>1, <2>1, OnePhase DEF PhaseOf, TypeOK
  <2>3. [i \in Jobs |-> PhaseOf(i)][j] = "absent"
    BY <2>1 DEF PhaseOf
  <2>4. Lifecycle!Submit(j)
    BY <2>1, <2>2, <2>3 DEF Lifecycle!Submit
  <2>5. QED
    BY <2>4 DEF Lifecycle!Next
<1>3. ASSUME NEW j \in Jobs, CancelPending(j) PROVE Mapped
  BY <1>1, <1>3, AbandonOne DEF CancelPending
<1>4. ASSUME NEW j \in Jobs, CancelClaimed(j) PROVE Mapped
  BY <1>4, Stutter DEF CancelClaimed
<1>5. ASSUME NEW u \in Users, Connect(u) PROVE Mapped
  BY <1>5, Stutter DEF Connect
<1>6. ASSUME NEW u \in Users, Disconnect(u) PROVE Mapped
  BY <1>1, <1>6, AbandonMany DEF Disconnect
<1>7. ASSUME NEW u \in Users, RemoveMember(u) PROVE Mapped
  BY <1>1, <1>7, AbandonMany DEF RemoveMember
<1>8. ASSUME NEW w \in Workers, NEW j \in Jobs, ClaimNext(w, j) PROVE Mapped
  <2>1. \A i \in Jobs : PhaseOf(i)' = PhaseOf(i)
    BY <1>1, <1>8 DEF ClaimNext, Claimable, PhaseOf, TypeOK
  <2>2. QED
    BY <1>8, <2>1 DEF ClaimNext, Lifecycle!vars
<1>9. ASSUME NEW w \in Workers, NotMember(w) PROVE Mapped
  BY <1>9, Stutter DEF NotMember
<1>10. ASSUME NEW w \in Workers, LeaseDenied(w) PROVE Mapped
  BY <1>10, Stutter DEF LeaseDenied
<1>11. ASSUME NEW w \in Workers, AcquireLease(w) PROVE Mapped
  BY <1>11, Stutter DEF AcquireLease
<1>12. ASSUME NEW w \in Workers, CreateSandbox(w) PROVE Mapped
  BY <1>12, Stutter DEF CreateSandbox
<1>13. ASSUME NEW w \in Workers, OpenSandbox(w) PROVE Mapped
  BY <1>13, Stutter DEF OpenSandbox
<1>14. ASSUME NEW w \in Workers, ProvisionFails(w) PROVE Mapped
  BY <1>14, Stutter DEF ProvisionFails
<1>15. ASSUME NEW w \in Workers, LockFails(w) PROVE Mapped
  BY <1>15, Stutter DEF LockFails
<1>16. ASSUME NEW w \in Workers, TakeAuthority(w) PROVE Mapped
  BY <1>16, Stutter DEF TakeAuthority
<1>17. ASSUME NEW w \in Workers, Prepare(w) PROVE Mapped
  BY <1>17, Stutter DEF Prepare
<1>18. ASSUME NEW w \in Workers, PrepareFails(w) PROVE Mapped
  BY <1>18, Stutter DEF PrepareFails
<1>19. ASSUME NEW w \in Workers, MarkRunning(w) PROVE Mapped
  <2>1. task[w] \in Jobs
    BY <1>1, <1>19 DEF MarkRunning, TypeOK
  <2>2. /\ status' = [status EXCEPT ![task[w]] = "running"]
        /\ runs' = runs
        /\ status[task[w]] = "claimed"
    BY <1>1, <1>19, <2>1 DEF MarkRunning, CanTransition, ValidTransition, Terminal, TypeOK
  <2>3. [i \in Jobs |-> PhaseOf(i)]' = [[i \in Jobs |-> PhaseOf(i)] EXCEPT ![task[w]] = "started"]
    BY <1>1, <2>1, <2>2, OnePhase DEF PhaseOf, TypeOK
  <2>4. [i \in Jobs |-> PhaseOf(i)][task[w]] = "waiting"
    BY <2>1, <2>2 DEF PhaseOf
  <2>5. Lifecycle!Start(task[w])
    BY <2>2, <2>3, <2>4 DEF Lifecycle!Start
  <2>6. QED
    BY <2>1, <2>5 DEF Lifecycle!Next
<1>20. ASSUME NEW w \in Workers, MarkRunningFails(w) PROVE Mapped
  BY <1>20, Stutter DEF MarkRunningFails
<1>21. ASSUME NEW w \in Workers, FirstHeartbeat(w) PROVE Mapped
  BY <1>21, Stutter DEF FirstHeartbeat
<1>22. ASSUME NEW w \in Workers, FirstHeartbeatFails(w) PROVE Mapped
  BY <1>22, Stutter DEF FirstHeartbeatFails
<1>23. ASSUME NEW w \in Workers, MintToolToken(w) PROVE Mapped
  BY <1>23, Stutter DEF MintToolToken
<1>24. ASSUME NEW w \in Workers, MintFails(w) PROVE Mapped
  BY <1>24, Stutter DEF MintFails
<1>25. ASSUME NEW w \in Workers, Launch(w) PROVE Mapped
  <2>1. task[w] \in Jobs
    BY <1>1, <1>25 DEF Launch, TypeOK
  <2>2. runs[task[w]] = 0 /\ status[task[w]] \in {"running", "failed"}
    BY <1>1, <1>25 DEF Launch, StartInv, ClaimInv, Unlaunched
  <2>3. runs' = [runs EXCEPT ![task[w]] = 1] /\ status' = status
    BY <1>1, <1>25, <2>1, <2>2 DEF Launch, TypeOK
  <2>4. [i \in Jobs |-> PhaseOf(i)]' = [i \in Jobs |-> PhaseOf(i)]
    BY <2>3 DEF PhaseOf
  <2>5. [i \in Jobs |-> PhaseOf(i)][task[w]] \in {"started", "failed"}
    BY <2>1, <2>2 DEF PhaseOf
  <2>6. Lifecycle!Execute(task[w])
    BY <2>2, <2>3, <2>4, <2>5 DEF Lifecycle!Execute
  <2>7. QED
    BY <2>1, <2>6 DEF Lifecycle!Next
<1>26. ASSUME NEW w \in Workers, LaunchFails(w) PROVE Mapped
  BY <1>26, Stutter DEF LaunchFails, EndRun
<1>27. ASSUME NEW w \in Workers, RunCompletes(w) PROVE Mapped
  BY <1>27, Stutter DEF RunCompletes, EndRun
<1>28. ASSUME NEW w \in Workers, RunFails(w) PROVE Mapped
  BY <1>28, Stutter DEF RunFails, EndRun
<1>29. ASSUME NEW w \in Workers, Refresh(w) PROVE Mapped
  BY <1>29, Stutter DEF Refresh
<1>30. ASSUME NEW w \in Workers, Finalize(w) PROVE Mapped
  <2>1. task[w] \in Jobs
    BY <1>1, <1>30 DEF Finalize, TypeOK
  <2>2. /\ status[task[w]] = "running" /\ runs' = runs
        /\ status' = [status EXCEPT ![task[w]] = "succeeded"]
    BY <1>30 DEF Finalize, CommitSuccess, CanFinalize
  <2>3. runs[task[w]] = 1
    BY <1>1, <1>30 DEF Finalize, ResultInv
  <2>4. QED
    BY <1>1, <2>1, <2>2, <2>3, FinishOne DEF Terminal
<1>31. ASSUME NEW w \in Workers, FinalizeFails(w) PROVE Mapped
  BY <1>31, Stutter DEF FinalizeFails
<1>32. ASSUME NEW w \in Workers, Cleanup(w) PROVE Mapped
  BY <1>32, Stutter DEF Cleanup
<1>33. ASSUME NEW w \in Workers, ReleaseEnvironment(w) PROVE Mapped
  BY <1>33, Stutter DEF ReleaseEnvironment
<1>34. ASSUME NEW w \in Workers, DeleteEphemeral(w) PROVE Mapped
  BY <1>34, Stutter DEF DeleteEphemeral
<1>35. ASSUME NEW w \in Workers, Requeue(w) PROVE Mapped
  <2>1. task[w] \in Jobs
    BY <1>1, <1>35 DEF Requeue, TypeOK
  <2>2. status[task[w]] = "claimed" /\ runs' = runs
    BY <1>35 DEF Requeue, CanRequeue
  <2>3. CASE Exhausted(w)
    <3>1. status' = [status EXCEPT ![task[w]] = "failed"]
      BY <1>35, <2>3 DEF Requeue
    <3>2. QED
      BY <1>1, <2>1, <2>2, <3>1, AbandonOne
  <2>4. CASE ~Exhausted(w)
    <3>1. status' = [status EXCEPT ![task[w]] = "pending"]
      BY <1>35, <2>4 DEF Requeue
    <3>2. \A i \in Jobs : PhaseOf(i)' = PhaseOf(i)
      BY <1>1, <2>1, <2>2, <3>1 DEF PhaseOf, TypeOK
    <3>3. QED
      BY <2>2, <3>2 DEF Lifecycle!vars
  <2>5. QED
    BY <2>3, <2>4
<1>36. ASSUME NEW w \in Workers, Fail(w) PROVE Mapped
  <2>1. task[w] \in Jobs
    BY <1>1, <1>36 DEF Fail, TypeOK
  <2>2. /\ status' = [status EXCEPT ![task[w]] = exit[w]] /\ runs' = runs
        /\ exit[w] \in {"failed", "cancelled", "timed_out"}
    BY <1>36 DEF Fail
  <2>3. status[task[w]] \in {"pending", "claimed", "running"}
    BY <1>1, <1>36, <2>1, <2>2 DEF Fail, CanTransition, ValidTransition, ClaimInv
  <2>4. CASE status[task[w]] = "running"
    BY <1>1, <2>1, <2>2, <2>4, FinishOne DEF Terminal
  <2>5. CASE status[task[w]] \in {"pending", "claimed"}
    <3>1. exit[w] # "timed_out"
      BY <1>1, <1>36, <2>1, <2>5 DEF Fail, StartInv, ClaimInv
    <3>2. QED
      BY <1>1, <2>1, <2>2, <2>5, <3>1, AbandonOne
  <2>6. QED
    BY <2>3, <2>4, <2>5
<1>37. ASSUME NEW w \in Workers, SettleNothing(w) PROVE Mapped
  BY <1>37, Stutter DEF SettleNothing
<1>38. ASSUME NEW w \in Workers, Return(w) PROVE Mapped
  BY <1>38, Stutter DEF Return
<1>39. ASSUME NEW w \in Workers, Heartbeat(w) PROVE Mapped
  BY <1>39, Stutter DEF Heartbeat
<1>40. ASSUME NEW j \in Jobs, HeartbeatAges(j) PROVE Mapped
  BY <1>40, Stutter DEF HeartbeatAges
<1>41. ASSUME NEW j \in Jobs, RecoverCompleted(j) PROVE Mapped
  <2>1. /\ status[j] = "running" /\ runs' = runs
        /\ status' = [status EXCEPT ![j] = "succeeded"]
    BY <1>41 DEF RecoverCompleted, CommitSuccess, CanFinalize
  <2>2. runs[j] = 1
    BY <1>1, <1>41 DEF RecoverCompleted, Recoverable, ResultInv
  <2>3. QED
    BY <1>1, <2>1, <2>2, FinishOne DEF Terminal
<1>42. ASSUME NEW j \in Jobs, CleanupRecovered(j) PROVE Mapped
  BY <1>42, Stutter DEF CleanupRecovered
<1>43. ASSUME NEW j \in Jobs, ReconcileClaimed(j) PROVE Mapped
  <2>1. \A i \in Jobs : PhaseOf(i)' = PhaseOf(i)
    BY <1>1, <1>43 DEF ReconcileClaimed, StaleClaim, PhaseOf, TypeOK
  <2>2. QED
    BY <1>43, <2>1 DEF ReconcileClaimed, Lifecycle!vars
<1>44. ASSUME NEW j \in Jobs, ReconcileRunning(j) PROVE Mapped
  <2>1. /\ status[j] = "running" /\ runs' = runs
        /\ status' = [status EXCEPT ![j] = "failed"]
    BY <1>44 DEF ReconcileRunning, Interrupted
  <2>2. QED
    BY <1>1, <2>1, FinishOne DEF Terminal
<1>45. ASSUME NEW j \in Jobs, RecoveryDies(j) PROVE Mapped
  BY <1>45, Stutter DEF RecoveryDies
<1>46. ASSUME NEW j \in Jobs, OrphanExits(j) PROVE Mapped
  BY <1>46, Stutter DEF OrphanExits
<1>47. ASSUME NEW w \in Workers, Crash(w) PROVE Mapped
  BY <1>47, Stutter DEF Crash
<1>48. CASE UNCHANGED vars
  BY <1>48, Stutter
<1>49. QED
  BY <1>1, <1>2, <1>3, <1>4, <1>5, <1>6, <1>7, <1>8, <1>9, <1>10, <1>11,
     <1>12, <1>13, <1>14, <1>15, <1>16, <1>17, <1>18, <1>19, <1>20, <1>21,
     <1>22, <1>23, <1>24, <1>25, <1>26, <1>27, <1>28, <1>29, <1>30, <1>31,
     <1>32, <1>33, <1>34, <1>35, <1>36, <1>37, <1>38, <1>39, <1>40, <1>41,
     <1>42, <1>43, <1>44, <1>45, <1>46, <1>47, <1>48 DEF Next, UserStep,
     WorkerStep, Reconcile

(* The coding-agent service implements the life cycle it promises to a    *)
(* waiting workflow node: one start, one launch, one final outcome.       *)
THEOREM Refinement == Spec => ImplementsLifecycle
<1>1. Init => Lifecycle!Init
  BY DEF Init, Lifecycle!Init, PhaseOf
<1>2. IInv /\ [Next]_vars => [Lifecycle!Next]_(Lifecycle!vars)
  BY StepRefines
<1>3. QED
  BY <1>1, <1>2, Invariance, PTL DEF Spec, ImplementsLifecycle, Lifecycle!Spec
=============================================================================
