# Verification of the Fernary server

TLA+ models of the server in `src/` (a Go monolith: Gin, PostgreSQL through
gorm, Redis), TLC configurations that model-check them, and TLAPS proofs.
`PROJECT.json` maps every modelled definition to the lines it stands for.

    tlc -workers 2 -config jobs_shared.cfg MCCodingAgentJobs
    tlc -workers 2 -config platform.cfg MCPlatform
    tlapm CodingAgentJobs_proofs.tla

## 1. The system

| Part | State | Operations | Talks to |
|---|---|---|---|
| Coding-agent jobs (`internal/codingagent`) | tables of jobs, environments, sessions, credentials; an advisory lock per owner; sandboxes at Daytona | submit, claim, process, heartbeat, cancel, disconnect, recover, reconcile, reset | executor (submits and waits), MCP handlers, members |
| Workflow tool calls (`handlers/coding_agent_mcp.go`, `coding_agent_tool_calls.go`) | table of tool calls | prepare, approve, reject, execute, reconcile | jobs, executor, ledger |
| Credit ledger (`internal/billing/credits`, `billing.go`) | append-only ledger, cached balance row, holds | charge, reserve, release, grant, sweep | runs, telemetry hooks, Stripe events |
| Subscriptions and seats (`billing/stripe.go`, `tenancy`) | organization row, members, invitations | webhooks, seat changes, invite, accept, remove | ledger, jobs |
| Executor (`internal/executor`) | in memory: outputs, skipped nodes, approval channels | run a graph, loops, branches, approval gates | hub, integrations, jobs |
| Event hub (`internal/hub`) | in memory: subscribers and event buffers | publish, subscribe, clear | executor, SSE handlers |
| Triggers (`handlers/hooks.go`, `triggers_sweep.go`, `schedule.go`) | deliveries, cursors, schedules | receive, poll, fire | executor, ledger |
| Hosted agents (`handlers/slack_agent_host.go`, `agent_*.go`) | deliveries, conversations, approvals | receive, claim, answer, approve | executor, Slack |
| Data stores (`database/datastore_ops.go`, `executor/datastore.go`) | key-value, text and record rows of a workflow | set, increment, append, edit, clear, delete the store | executor nodes, the Data panel, hub |
| Integrations, LLM routing, auth, email, telemetry | none that is shared | HTTP calls | everything |

What is hard in it:

* several replicas run the workers, the reconciler, the sweeper and the
  scheduler, with no leader; PostgreSQL row locks, an advisory lock and
  conditional updates are all that orders them;
* a job outlives its worker: the process in the sandbox goes on after a crash,
  and what happened must be recovered from a marker file without running twice;
* user requests (cancel, disconnect, removal) act on a job at any await;
* provider calls fail, time out or succeed without telling;
* webhooks are delivered twice and concurrently, and may call the hook of a
  trigger that is being saved or deleted;
* a run lives in the memory of one process, while its viewers and reviewers come
  and go and may only find what has been stored;
* overlapping runs of one workflow write the same data stores.

`PROJECT.json` lists these hazards at the lines where they bite.

What makes each part correct: a job's runtime starts at most once, its outcome
is final and backed by what happened, nobody works on revoked authority, a
workspace has one user at a time and every started job ends; the balance is the
sum of the ledger, the reservation the sum of the open holds, nobody is
admitted on credits another run holds, a delivery grants once and every hold
comes back; a tool call that writes runs at most once and only when approved;
an approval gate takes one decision per attempt; a subscriber sees the end of a
run; a delivery is handled once and in the order of its thread; an organization
never has more members than seats; an increment or an append to a data store is
not lost.

## 2. Modules

| Module | Role |
|---|---|
| `JobLifecycle` | abstract: what a node that submits a job and waits may observe |
| `CodingAgentJobs` | the coding-agent service, one action per call of `processJob`, request and reconciler transaction |
| `ToolCalls` | the workflow tools of one job: requests, approvals, executions, reconciliation |
| `CodexAuth` | the sign-in attempts of one member |
| `AtomicLedger` | abstract: charges, reservations, releases and grants at one instant each |
| `CreditLedger` | the ledger's transactions, statement by statement between row locks |
| `Seats` | invitations, members and billed quantities of one organization |
| `WorkflowGraph` | one run of a graph: order, branches, loops, approval gates, events |
| `RunSession` | one run among its goroutine, hub, row, viewers and reviewers |
| `HostedAgents` | the delivery queue of hosted agents, approvals and their execution |
| `Triggers` | the trigger of one node: saves, hooks, deliveries, lifecycle events |
| `AtomicStore` | abstract: a data store of which every operation takes effect at one instant |
| `DataStores` | a durable data store, its transactions, deletion and live view |
| `MCCodingAgentJobs`, `MCCreditLedger` | small instances of the modules they name |
| `MCRuns` | `WorkflowGraph` and `RunSession` on small instances |
| `MCPlatform` | `ToolCalls`, `CodexAuth`, `Seats`, `HostedAgents`, `Triggers` and `DataStores` on small instances |
| `CodingAgentJobs_proofs`, `CreditLedger_proofs`, `RunSession_proofs`, `WorkflowGraph_proofs` | the inductive invariants of the module they name and the theorems they give |
| `Admission_proofs` | the same for `ToolCalls`, `CodexAuth` and `Seats` |
| `MCPlatform_proofs` | the same for `HostedAgents`, `Triggers` and `DataStores`, and the composition |
| `MCRuns_proofs` | what the engine and the session are proved to do, carried over to the pair |
| `InductionLemmas` | induction and sums in a form the provers can use |

`JobLifecycle`, `AtomicLedger` and `AtomicStore` are implemented by
`CodingAgentJobs`, `CreditLedger` and `DataStores`: each of those ends with the
refinement mapping and a property `Implements...`.

The parts under `MCRuns` and `MCPlatform` meet only in a few rows: one part
writes that a job ended, that a member was removed or that a seat order was
posted, and another finds it so. Such a change is an action of every part that
sees it: ending and cancelling a job are actions of `CodingAgentJobs` and of
`ToolCalls`, removing a member is one of `CodingAgentJobs`, `ToolCalls`,
`CodexAuth`, `Seats` and `HostedAgents`. Beyond that the modules share no
variable, and interleaving them would only multiply states. So a variable `part`
chooses the one that moves in a behaviour, and the others keep their initial
state.

A definition `Bug...` is a plausible mistake in the definition that follows it.
No action uses it; substituting it shows that the property it is listed with in
`PROJECT.json` can fail.

### 2.1 CodingAgentJobs

*State.* One variable per column that decides something: `status`,
`claimedBy`, `attempts`, `cancel` (`cancel_requested_at`, and whether it came
before `started_at`), `token` (`tool_token_hash`), `started`, `recorded`
(`environment_id`), `beat` (the age of `heartbeat_at`: fresh, past `StaleAfter`,
past `RecoveryGrace`); `envStatus`, `holder` (`current_job_id`), `sandboxId`;
`credential`, `member`, and `authority`, the holder of the owner's advisory
lock. `marker` and `live` are the sandbox's: the completion marker and a Codex
process. `pc`, `task`, `exit`, `outcome`, `leave` are a worker's local
variables in `processJob`; `runs` counts launches (history).

*Steps.* One database transaction, or one provider call, is one step; between
two of them any other worker, request or reconciler may act. `WorkerStep` is
`processJob`, from `NotMember` (`verifyMember`) through the lease
(`acquireEnvironment`), the authority lock, `Prepare`, `MarkRunning`,
`FirstHeartbeat`, `MintToolToken`, `Launch` and `EndRun` to `Finalize`,
`Cleanup` or the deferred `ReleaseEnvironment`, and the settlement (`Requeue`,
`Fail`, `Return`). Every failure the code handles is a disjunct of its own.
`UserStep` holds the requests: `Submit`, `CancelPending`, `CancelClaimed`,
`Connect`, `Disconnect`, `RemoveMember`. `Reconcile` holds `RecoverCompleted`,
`CleanupRecovered`, `ReconcileClaimed` and `ReconcileRunning`. `HeartbeatAges`
is the clock. The environment of the program: `Crash` of a worker (its
advisory lock goes with its session, its process stays), `RecoveryDies`
between the finalizing transaction and its tidying up, and `OrphanExits`.

*Bounds.* `MaxFaults` bounds crashes; `MaxAttempts` is the code's
`max_attempts` and `UserCapacity` its capacity per user (3 and 5 in
`Store.Submit`), small here. Counters are otherwise bounded by them.

*Not modelled:* `ResetEnvironment`; reprovisioning when the provider has
deleted a sandbox; database errors the code ignores (a failed "record coding
agent environment" keeps its lease); the capacity of a whole organization;
policy and repository errors before the lease (they settle as failures the model
has anyway); losing the session that holds the advisory lock while the process
lives; events and artifacts, which only ever go along with a modelled
transaction. `Return` merges the revocation of the token with the unlock, both
deferred calls of the same exit. `Heartbeat` may also refresh a job whose
cancellation was requested.

### 2.2 CreditLedger

*State.* One organization's rows: `balance`, `reserved`, `delta` (each call
inserts at most one ledger row), `holdStatus`, `spent`, and `overdue`, the holds
whose `expires_at` has passed. `balanceLock` and `holdLock` are PostgreSQL's row
locks, `seen` the balance row as a transaction read it under its lock,
`granted` the sum `GrantPeriodTo` read before it had the lock, `todo` and
`current` the sweeper's list and position.

*Steps.* A call is one transaction. Writes become visible at its commit, so
what a transaction does under its locks is one step; a step of its own is every
statement that another transaction can come before: `LockBalance`, the hold
lock `ReleaseBegin` takes first, the sum `SumPeriod`, the scan `SweepScan`.
Commits write the values computed from `seen`, as the code does, so an update
can be lost if the lock is. `Found` and `Waiting` say what `SELECT ... FOR
UPDATE` of an active hold does: it returns the row, finds none, or waits for the
transaction that holds it. `DeadlockVictim` is PostgreSQL ending a cycle by
aborting either party; `ProcessDies` ends a transaction, or a call before it
begins, with its process. `Expire` is the clock.

`HoldOf` says which hold a charge settles against; a charge can be made on a
hold from the moment it exists, also after its release, because
`ContextForRunContinuation` gives a tool call the hold of a run that may finish
meanwhile. `Amount` is the cost, size or target of a call, positive because the
code returns at once otherwise.

*Not modelled:* `Grant`, which only tests call; the creation of a missing
balance row inside `lockBalance`; the limit of 500 holds per sweep; usage
reports and `Reconcile`, which only read. `GrantedInPeriod` covers one period.

### 2.3 ToolCalls

*State.* The job (`running` or `ended`, cancellation requested, heartbeat
recent), whether its owner is still a member, the rows of
`coding_agent_tool_calls`, the requests, and `toolLock`, the request whose
transaction holds the job row. `acted` counts how often the external action of a
row was begun (history).

*Steps.* A request authenticates without a lock, then takes the job row for each
of its transactions: `Prepare` finds the call of the same request id, or an
unresolved one of the same operation and arguments, or inserts a row;
`WaitForApproval` polls; `Claim` moves the row to `executing`; `Begin` to
`Record` is the transaction that performs the action, one step before and one
after it, because the process, the connection (`LoseTransaction`) or the request
(`KillRequest`) may die in between. `Fallback` writes what could not be recorded:
`unknown` for a write, `failed` for a read. `Resolve` and `Reconcile` are the
owner's decisions. Job end, cancellation and removal call `CancelOpenCalls`,
which leaves a call that is executing as `unknown`.

*Left out:* what a tool computes, the policy that admits it, and the charge.
The transaction of an action keeps the job row locked for up to five minutes, so
the worker's own heartbeat waits for it; the model only knows a heartbeat that
is recent or not.

### 2.4 CodexAuth

*State.* The rows of attempts (with `active_key`, claim, cancellation, the age of
the heartbeat and the expiry), the goroutine of each (`login`), the credential
with the attempt it came from, the membership.

*Steps.* `StartConnection` and `CreateAttempt` are the request, which may find
an active attempt, close an expired one or lose against the unique key. The
goroutine loads its attempt, creates a sandbox, shows a code, waits, and
completes under the authority lock (`CompleteConnection`) or finishes with a
verdict (`FinishAuthAttempt`, a write nobody checks, so it may be lost). Its
context ends by cancellation or deadline. The reconciler closes stale attempts.
`CrashLogin` ends a goroutine anywhere.

*Left out:* sandbox ids; the provider deletes a sandbox by itself after 15
minutes. Attempts are alike, so `WorkEnds` follows one of them.

### 2.5 Seats

*State.* Roles, the one invitation an address has, the organization row's lock,
requests in progress, the stored seat count and every quantity that was billed.
`overtaken` records the people whose invitation expired while they accepted it
(history).

*Steps.* READ COMMITTED: a statement sees what has committed. `InviteMember` is
`AskInvite` (paid seats and membership are read before the transaction),
`LockOrg`, `CountMembers`, `GrantInvite` (the pending invitations are counted
and the row inserted) and the mail, which revokes the invitation if it fails.
`AcceptInvite` locks the invitation and then joins, which waits for a locked
organization: the two may deadlock, and PostgreSQL aborts one
(`AbortDeadlock`). Removal checks the last owner and deletes in a second
statement. `OrderSeats` and `ApplySubscription` are Stripe's side; events arrive
in any order.

### 2.6 WorkflowGraph

*State.* The graph of the run with the tools of coding agents removed, its
topological order and the orders of loop bodies, the sets that `RunWorkflow`
keeps (`enabled`, `executed`, `rejected`, `loopHandled`), `outputs`, the
iteration and the gate in progress, and the emitted events with the counters of
the event ceiling. An output is the number of the execution that wrote it: two
outputs are equal exactly when the same execution produced them.

*Steps.* Execution is one goroutine, so a node that needs no person is one step.
A gate is left open between steps and ends by approval, rejection, timeout or a
retry that re-runs its source (`GateRetry`, `Publish`). Loops run every node
reachable from them once per item. `TopoSort` (`Degree`, `Relax`, `Visit`,
`Acyclic`), `RunnableNodes` (graphselect.go) and the event ceiling (`Emit`) are
the algorithms of the code, written as folds; `Among` is a `range` with an `if`
in it. `OneGraphRuns`, `ParentsFirst` and `OneEnding` state what they are for
without using them.

*Assumption.* `GraphsWellFormed`: a canvas holds each node once, its edges join
nodes it holds, and `NoNode` is none of them. The editor keeps a canvas so; the
backend loads it without validating it. TLC evaluates the assumption for the
graphs it checks.

*Left out:* what a node computes, credentials, charges, and the tool loop of an
agent node. No caller of `RunWorkflow` passes a context that anything cancels,
so its cancellation branches are not modelled.

### 2.7 RunSession

*State.* The goroutine (`engine`), the row `workflow_runs`, the hub's buffer and
channels, viewers, the registered approval channel with what each attempt's
channel holds, reviewers. The graph is reduced to a gate whose source may be
re-run, and an end.

*Steps.* `Admit` to `Persist` and `ClearBuffer` are `executeRun` and the end of
`Run`; `EmitNext` is one emitted event, `HubPublish` the non-blocking send.
A viewer is `StreamRun`: the row, `Subscribe` (snapshot and channel under one
lock), `Recheck`, then events and the ticker. `Refuse` is the credit check: the
editor is told at once (`workflow.go`), a trigger leaves a row (`fire.go`).

A reviewer first reads the gate and decides (`Decide`). The request that follows
names the run and the node, not the attempt that was read, so it may arrive when
the gate has moved on: `ResolveApproval` takes whatever channel is registered by
then (`Lookup`), sends the decision (`Send`) and deletes by key (`Unregister`),
and other goroutines can come between the three. `shown` is the attempt read,
`attempt` the one found. `Crash` ends everything but the row.

### 2.8 HostedAgents

*State.* Deliveries, approvals, deployments, the stage of the worker that has a
delivery, and the two places that remember the result of an action: the process
(`memory`) and Redis. `performed` counts actions (history).

*Steps.* `ClaimDelivery` takes the first delivery of a thread, or reclaims one
that is `processing` without a worker. A mention takes the model's turn and may
post an approval; a press decides one: `CheckClaim`, `ClaimApproval`,
`PerformAction`, `ActionReturns`, `RecordExecution` are `executeApproval`, with
the locks it holds; `RecoverExecuting` is a later press that finds the approval
executing. `CrashHost` ends all workers and the memory. The owner pauses,
resumes, edits and deletes a deployment, or is removed.

*Simplified:* one process; a channel keeps its deployment; a press by somebody
else only gets a text and is left out; expired, rejected, failed and reconciled
approvals are all `closed`, as no reader tells them apart; a claim is stale only
when its worker is gone (the code says 30 minutes, and gives a worker 12). The
lock of a thread is left out, because the queue hands out one delivery of a
thread at a time. Losing the session that holds a lock is not modelled.

### 2.9 Triggers

*State.* The row of one node's trigger, the hooks at the provider and the row
each one's address names, requests and deliveries in progress, the
rows of `webhook_deliveries`. `provider` is one of the three kinds of adapter.

*Steps.* A save reads the row, registers a hook, writes the row, and then retires
the old hook or, if the write failed, the new one (`RetireHook`). A deletion
reads, unregisters and deletes. A delivery is routed, claimed, counted against
the hourly cap and admitted; it may die after each. `LoseAccess` and
`RegainAccess` are the lifecycle events of an app.

*Simplified:* saves that change nothing, deliveries that are filtered, of another
resource or of an unpublished workflow; of `last_error` only the values that can
be undone; all deliveries are of one hour; the connection's row.

### 2.10 DataStores

*State.* The row of one key, or the records of a collection; the content is the
sequence of the operations it is made of. `rowLock` is the row lock, `shown`
what an open canvas shows.

*Steps.* `GetStore` checks once that the store exists. `KVIncrement` and
`TextAppend` are `LockRow` (`SELECT ... FOR UPDATE`) and then `UpdateRow`, or
`InsertRow` if there was no row: the second of two first increments fails on the
unique index. Records are single statements, and their number is read after the
commit. `Publish` tells the canvas. `DeleteDataStore` loads, deletes entries and
deletes the store, with operations in between.

*Simplified:* a key-value or text store is one row, as operations on two keys
never meet; both deletes of `DeleteDataStore` are one step, as one of them
matches nothing; fields of a record are not told apart; a statement that waited
reads the row once the lock is free (PostgreSQL would find none if it was
deleted and inserted again meanwhile).

## 3. What TLC checks

| Run | Instance | Distinct states | Result |
|---|---|---|---|
| `jobs_shared` | 2 jobs, 1 reusable workspace, 2 workers, 1 owner, 1 crash, one claim each | 1.04 million (symmetric workers) | holds |
| `jobs_retry` | 1 job, ephemeral workspace, 2 workers, 2 claims, 1 crash, fairness | 157 000 | holds |
| `ledger_calls` | 2 runs, 2 charges of one run that overshoot its hold, 1 release, 2 deliveries of one event, 1 sweeper, 1 crash, fairness | 128 000 | holds |
| `runs` | every graph of 3 nodes and the named larger ones; a run with 1 viewer, 2 reviewers, 1 crash; fairness | 477 000 | holds |
| `platform` | two of everything that races, fairness for sign-ins and the delivery queue | 470 000 | holds |
| `jobs_stranded` | 1 job, 2 claims, 1 crash | | `QueuedIsClaimable` violated |
| `jobs_leak` | as above | | `NoLeakedLease` violated |
| `jobs_orphan` | 2 jobs, 1 workspace, 1 crash | | `NoRuntimeBesideOrphan` violated |
| `ledger_period` | 2 events of one period | | `PeriodBounded` violated |
| `ledger_deadlock` | a charge and a release of one hold | | `SpendRecorded` violated |
| `runs_declined` | as `runs` | | `ApprovalSelectsEdge` violated |
| `runs_stranded` | as `runs` | | `WaitingIsResolvable` violated |

*What the passing runs show.* `jobs_shared`: exclusion in a workspace,
authority, early cancellation, revoked tools, backed results. `jobs_retry`: a
runtime is launched at most once, the service implements `JobLifecycle`, claims
and started jobs resolve. `ledger_calls`: the cached sums agree with the rows,
the transactions act as if atomic, every hold is reclaimed.

`runs`, of the engine: one connected graph of the canvas runs (`OneGraphRuns`),
along the edges decided (`PathTaken`), parents first except behind cycles, in the
main loop and in each iteration of a loop (`ParentsFirst`), every node of a
completed run outside the bodies of the loops that started is reported started
or skipped (`EveryNodeAccounted`), the log has one end under any ceiling (`OneEnding`) and
an approved output is the one its successor reads (`ApprovedIsRead`). Of its
surroundings: a closed stream has shown everything (`ClosedViewIsComplete`), a run
is recorded (`RunIsRecorded`) and streams end (`StreamsEnd`). A gate acts once on
a decision and on one per attempt, and on a later revision than its reviewer read
only if other reviewers sent each one in between back (`ActsOnWhatWasShown`).

`platform`: a write asked for by a sandbox runs at most once and only when
approved (`WritesRunOnce`), and one that was begun is never recorded as not done
(`BegunIsNotDenied`); a connected credential is backed (`CredentialIsEarned`);
seats are not oversold (`SeatsNotOversold`); an approved action of a hosted agent
runs once, not beside an equivalent one, and a thread's deliveries are processed
one by one in order (`ActsOnceAndAlone`), under a live
deployment (`AuthorityCoversAction`), and its known outcome is not given up
(`KnownOutcomeKept`); a trigger names a hook that exists (`HookMatchesRow`), an
event starts one run and the hourly cap holds (`DispatchIsBounded`); data stores
lose no operation (`ImplementsAtomicStore`); sign-in attempts close and the
delivery queue drains (`WorkEnds`).

*Why these bounds.* Every conflict in the job service is between at most two
workers, or a worker and a request or the reconciler, over one workspace, owner
or job. Two jobs in one workspace give every conflict over lease, lock and
sandbox; one job with two claims gives every conflict over a job: a stalled
first worker beside a second one needs no more. One crash is enough for each
recovery path to start, and a second worker then meets what it left. In the
ledger two charges are what an overshoot takes, two runs what a double
admission takes, two deliveries what a double grant takes.

`runs` takes every set of edges between three nodes without self-loops, cycles
included, under every assignment of the four kinds of node, and larger graphs
for what needs more: a gate with both outcomes and a source, a gate in a loop,
two gates on one source, a diamond behind a branch, a loop fed from outside,
several graphs on a canvas, tests of one node with and without cached outputs, or
of a node that is not on the canvas.
`MaxItems` 2 gives an empty, a single and a repeated iteration;
`MaxApprovalRetries` 1 a retry that is granted and one that is refused;
`MaxRunEvents` 18 lets the long runs hit the ceiling and the others not;
`HubCapacity` 2 lets a channel overflow; two reviewers are what a lost or late
decision takes, or one that acts on a revision its reviewer has not read.

`platform` has two tool calls of two tools (a read and a write) and two request
ids for two requests, so that a retry may repeat its id or not; two attempts;
one owner and two people, two invitations and one acceptance over 1 to 3 seats;
four deliveries of which two are mentions, in two threads with two workers; two
saves, a deletion and two deliveries of two events with a cap of one run; two
operations on a store. `MaxFaults`, `MaxLapses` and `MaxRuns` are 1,
`MaxAttempts` 2. The proofs remove all these bounds, and those of the graphs and
of the session, for the safety properties.

*Violated statements.* Each shows a statement of the repository that its code
does not keep; `PROJECT.json` quotes the statement and the line.
`QueuedIsClaimable`: the reconciler requeues an unstarted claim without looking
at the attempts left. `NoLeakedLease`: it also leaves the workspace leased in
the name of the job, and cancelling the pending job then ends it with nobody to
release the lease. `NoRuntimeBesideOrphan`: the guard against a surviving
process only knows one of the ways a process survives. `PeriodBounded`: the sum
of a period is read before the lock. `SpendRecorded`: `Record` and `Release`
take their two locks in opposite orders, and the victim may be the charge.
`ApprovalSelectsEdge`: a loop body runs all of its nodes, so behind a gate in it
the declined edge is taken as well. `WaitingIsResolvable`: `ResolveApproval`
deletes the channel by key after it has sent, and may delete the channel of the
next attempt, which then can only time out.

*Fairness.* `jobs_retry`: weak fairness of each worker's next step (goroutines
are scheduled and each call of `processJob` has a timeout; a bounded run ends
because of `MaxDurationSeconds`), of the reconciler for each job (its ticker),
and of the ageing of a heartbeat nobody refreshes. No fairness for users,
crashes, claims or the exit of orphans. `ledger_calls`: weak fairness of a
transaction that has begun, of the sweeper's timer, of the clock and of
deadlock detection; strong fairness of a `Release` that waits for the balance,
because PostgreSQL queues the waiters of a row lock. No fairness for a call to
begin: `HoldsReclaimed` does not rest on a run releasing its hold. `runs`: weak
fairness of the run's goroutine, of the gate's timer, of each viewer's handler
and of its ticker; nobody is obliged to decide, to stay, or to crash.
`platform`: weak fairness of a sign-in attempt's goroutine, monitor, clocks and
reconciler (`AuthProgress`) and of the workers of the queue (`HostWorks`); none
for the member, the people who press, the owner or faults. The faults of
`platform` are bounded by `MaxFaults`, without which no queue would drain.

`CHECK_DEADLOCK FALSE` is set because a finite set of jobs, calls, requests or
deliveries ends: the state in which all have ended has no successor.

## 4. What is proved

All theorems hold for every value of the constants that satisfies the named
assumptions: any number of jobs, workers, workspaces, users, retries, crashes,
and of calls, attempts, people, deliveries, saves and operations, and any finite
graph, event ceiling, number of viewers and of reviewers. Every invariant, action
property and refinement that a passing run checks is also a theorem.

`CodingAgentJobs_proofs` shows `Spec => []IInv` and from it every safety
property of the two job runs, and `Spec => Lifecycle!Spec`, the refinement.
None of the properties is inductive alone. `IInv` adds:

* `StartInv`: `started_at` is set by the one worker that then drives the job; a
  job that has not started has neither run nor token, and no two workers drive
  one job. `MarkRunning` commits only from `claimed` and only for its claimant,
  and nothing takes a job back from `running`, so a second claimant never gets
  past it. `AtMostOnceExecution` rests on this, not on leases or heartbeats,
  which a stalled worker can lose.
* `LockInv`: from the credential check to its exit a worker holds the owner's
  lock, and owner and credential stand. `WorkspaceExclusion` follows: a
  workspace belongs to one owner, so two runtimes in it would need one lock
  twice.
* `ToolInv`, `CancelInv`, `ResultInv`: a token needs a running job and a
  connected credential; an early cancellation stops the driver before it
  launches; a marker or a successful result exists only after the single
  process ended.
* `ClaimInv`: the claim stays with the driver of a running job, and only the
  reconciler ends a job that is not launched yet. The refinement needs it: a
  launch is then a step of `Execute`, and a settlement maps to `Finish`.

One lemma per part of `IInv` shows that a step keeps it, with a step per action
and the actions that cannot matter grouped. `Refinement` maps `phase` to the
status a waiting node sees and `executions` to `runs`; every action maps to a
step of `JobLifecycle` or to a stutter.

`CreditLedger_proofs` shows `Spec => []LInv` and from it `TypeOK`,
`TargetGrantedOnce`, `AdmissionCovered` and the refinement,
`Spec => ImplementsAtomicLedger`, for any number of calls and sweepers. The heart
is `SeenInv`: from its `SELECT ... FOR UPDATE` to its end, what the holder of the
balance lock read is what the row says, because nobody else writes the row. A
commit that writes from what it read is then an atomic operation on the row of
that instant. `PosInv` adds that a charge and a hold are written once and that
a grant which goes on has a shortfall, `ReleaseInv` that the hold a `Release`
locked stays active until it ends. One lemma, `EndStep`, carries every commit
and abort: ending a transaction keeps the invariant if it wrote the row only
under its lock and a hold only if it is its own or nobody else's.

`BalanceDerivable` and `ReservedBacked` are about sums over all rows and all
active holds. Both rest on the refinement: a step of the atomic ledger changes
one summand (`SumChange`) or moves none, and `Unspent` adds that a hold not
yet written has spent nothing, so that what becomes active is its whole amount.

`InductionLemmas` holds what these and the graph proofs need. The library states
induction for a predicate, which none of the provers used instantiates. For a
*set* of numbers or of subsets it is first order and follows from the
well-foundedness of `<` and of strict inclusion (`LeastNumber`,
`NatSetInduction`, `SubsetInduction`). `RecursionExists` shows that the function
a fold chooses exists, and the `Sum` lemmas how a sum follows one row.

`Admission_proofs`, on `ToolCalls`, shows `ToolSpec => []ToolInv`. `RequestsKnow`
says what a request at each point may rely on about its row (an acting request
holds the job row and its row says `executing`, or was made `unknown` by the end
of the job). `OneOwner`: at most one request has claimed a row, which makes an
action happen once. `OneUnresolved` and `StoppedIsDecided` are about all rows:
two of one tool are never both undecided, and a stopped job has closed its calls.
From it: `WritesRunOnce` and `BegunIsNotDenied`.

On `CodexAuth` it shows `AuthSpec => []AuthInv`: one attempt is active, an open
one is claimed, and the attempt behind a connected credential is recorded as
connected. `CompleteConnection` changes row and credential together, under the
claim of an open row, and the member's authority lock keeps removal away from
it; `CredentialIsEarned` follows.

On `Seats` it shows `SeatSpec => []SeatInv`. `CountInv`: while an invitation
that has counted holds the organization, nobody joins, so its count stays an
upper bound. `OvertakenInv`: an invitation somebody is accepting is pending or
overtaken. `Fits`, the property with those acceptances counted in, is then
inductive. `HasMax` says that the largest quantity ever billed exists: a step
adds at most one. The assumption `SeatNumbers` says that the subscription begins
with a seat for every owner.

`WorkflowGraph_proofs` first proves what the algorithms of the engine compute, on
every canvas that satisfies `GraphsWellFormed`:

* `TopoSorted`: the order holds each node once; a parent comes before its child
  unless the child is unsorted, and an unsorted node has an unsorted parent. The
  invariant of Kahn's loop (`Sorting`) says that a node's counter is the number
  of its edges from nodes not yet taken from the queue. `BehindSomeCycle` then
  shows that only nodes on or behind a cycle remain unsorted: a finite set in
  which every node has a parent holds one that reaches itself.
* `Reaching`: `ReachableFrom` is the least set that holds the successors and is
  closed under the edges. Each round of the closure adds a node or has ended,
  and there are as many rounds as nodes.
* `RunnableIsComponent`: the nodes chosen are the component of the entry, or one
  that no other outgrows.
* `EmitOpen`, `EmitEnding`, `EmitSkip`: an ending is never cut by the ceiling, and
  nothing but skips and the notice of the ceiling follows it.

On these rest four inductive invariants. `GraphInv` (`GraphFixed`, `Typed`,
`Placed`, `Logged`) says where a run stands: the order never changes, a gate or
an iteration in progress is that of the next node, and the log has been ended
exactly when the run has. It gives `GraphTypeOK` and `OneEnding`. `MainInv` adds
`InOrder` (whoever ran stands before the cursor, in order) and `Led` (whoever is
enabled is a root, or was led to by a node that ran and decided so): `PathTaken`
follows. `BodyInOrder` says the same of an iteration: the nodes it ran are the
first of the body's order. With the sort of the graph and of the body
(`BodySorted`) the two give `ParentsFirst`. `RecordInv` adds `OneComponent` and
`Accounted` (who executed has started or is in the body of a loop that started;
a started node executed, runs still, was sent back by a retry, or is
in the body of the loop in progress): `OneGraphRuns` and `EveryNodeAccounted`. For it each action has
a lemma that lists the events it adds (`...Tells`). `ReviewInv` adds `Reviews`:
after the approval nobody wrote the output the gate showed, and a loop's copies
agree. It gives `ApprovedIsRead`, whose exceptions (`Excused`) are those of the
property: loops, cycles, and a second gate on the same parent.

`RunSession_proofs` shows `[]SInv` for any number of viewers and reviewers and
any channel size. `EngineInv`: at most one terminal event, counting those about
to be emitted. `StoreInv`: buffer and row hold the history while each is the one
to hold it. `ViewInv`: what a viewer was sent, followed by what waits in its
channel, is the history, unless the hub dropped an event for it or it came after
the buffer was cleared, when the row has the events. `ChannelInv`: an
attempt's channel holds at most one decision, which was sent to that attempt and
not acted on. `AnswerInv`: one decision was acted on per attempt, none yet for the
attempt a gate waits on, and every attempt before that ended by the retry of a
decision acted on. From it: `SessionTypeOK`, `ClosedViewIsComplete` and
`ActsOnWhatWasShown`.

`MCRuns_proofs` shows that every behaviour of the pair is one of the engine and
one of the session without its fairness (the session owes progress only when it
is its turn): `PairRunsBoth`, and from it `RunsTypeOK`.

`MCPlatform_proofs`, on `HostedAgents`, shows `HostedSpec => []HostInv`. `QueueInv`
says that whoever has a worker is the first of its thread, so that a thread has
one worker, and counts the attempts. `Relies(d)` lists per stage what a worker may
rely on about the approval it works on. `OneExecutes`, `OncePerformed` and `Alone`
say that one delivery at a time executes, that an action was begun at most once
and only if its approval left `pending`, and that equivalent approvals are not
unresolved together. From it: `ActsOnceAndAlone`, `AuthorityCoversAction` and
the action property `KnownOutcomeKept`.

On `Triggers` it shows `TriggerSpec => []TriggerInv`. `HookInv`: the row, and
whoever read it, names the hook of a save that has written it, and such a save
will remove no hook but the one it replaced. `ClaimInv`: a recorded delivery
holds the one claim of its event and row. `CapInv`: the deliveries past the cap
inject into the claims that were counted. From it: `HookMatchesRow` and
`DispatchIsBounded`.

On `DataStores` it shows `StoresSpec => []StoreInv` and
`StoresSpec => ImplementsAtomicStore`. `LockedReads`: whoever holds the row lock
has read what the row says, because every other write waits or finds no row. So
`UpdateRow` appends to the content of its instant and maps to `Add`; every other
step maps to an atomic operation, a refusal, a canvas update, or a stutter.

`PlatformRunsComponents` shows that every step of `MCPlatform` is a step of one of
its six components or leaves it alone, so that what is proved of each holds of the
whole; `PlatformTypeOK` follows.

*Only model-checked.* The liveness properties `StartedFinishes`, `ClaimResolves`,
`HoldsReclaimed`, `RunIsRecorded`, `StreamsEnd` and `WorkEnds`: the prover has
neither fairness nor `ENABLED`.

## 5. Not modelled

*Of the modelled parts:* `ResetEnvironment` (the safety properties of
`CodingAgentJobs` do not depend on the workspace rows it writes, so they are not
affected); schedules with their calendar arithmetic, plain webhooks, and the
polling and renewal sweeps (no adapter polls or expires); checkout, portal and
plans; the creation and moving of agent deployments, and the chat session of a
turn; creating, renaming and re-schemaing data stores, and queries on them;
member allocations (`billing/allocation.go`). The activity streams of
organizations and workflows.

*Parts left out:* the executor's node implementations and the adapters of about
fifty services, which are request formatting and HTTP calls without state of
their own and about a third of the code; the generation, routing and builder
prompts; OAuth connections; workflow editing and versions; schema migration;
sessions, rate limits, encryption, email and telemetry. They are the reason why
the share of mapped lines is low: what is mapped is the code that decides
something.

### Observations

Reading the code for the models showed the following. No run checks it: where a
property above could be touched by it, the model contains the behaviour.

*Executor and runs.* A node that fails is also reported as skipped. The body of
a loop without items neither runs nor is reported skipped; a node of a loop body
that is also fed from outside may run before that parent; "enable nodes
downstream of the loop body" never finds a node, because the body is closed
under edges. A retry inside a loop writes the outer outputs. Two gates that show
the same source can revise it under each other. The final write of a run is not
checked and the buffer is cleared all the same; a crash leaves the row
`running` for ever. The requests of reviewers name no attempt
(`runs.go:269-325`), so of two reviewers who read the same output one may approve
a revision that he has not seen, after the other's retry was carried out. A
decision that is sent just as the gate's timer fires may be answered with success
and never be applied (`executor.go:1154`).

*Tool calls.* The action's transaction holds the job row, so the heartbeat of
the worker waits for it and the reconciler may take the job for stale. A retry of
a call that the owner reconciled as done is answered with an empty text.

*Codex authentication.* A login that finishes after `DisconnectCredential`
connects the credential again. When the hourly limit refuses a new attempt, the
rollback also undoes the expiry of the old one.

*Seats.* Two owners removed at once may both pass the check of the last owner
(`invite.go:278`). `InviteMember` uses the paid seats read before its
transaction (`invite.go:143`). An invitation may expire while it is accepted, and
a person who has just joined may be invited again. Invitation and acceptance can
deadlock. The check of `SetSeats` (`members.go:538`) can be overtaken by an
invitation, its idempotency key has no time (`stripe.go:769`), and a decrease is
posted at once although the comment at `stripe.go:723` promises the period's end.
A late subscription event overwrites a newer one (`stripe.go:512`), and
`invoice.paid` grants for the seats stored at that moment (`stripe.go:617`).

*Hosted agents.* Attempts are only counted against the limit when a delivery
finishes, so one that ends its process each time is reclaimed without limit. The
finishing write is unconditional (`slack_agent_host.go:437`).

*Triggers and schedules.* A restored installation enables a trigger again that
had been disabled for another reason, against the comment at `hooks.go:190-191`;
conversely, a dispatch in between overwrites `last_error` and a suspended
trigger is then never restored. A crash between claim and admission
loses the event: the claim keeps a redelivery from running it, and would keep the
second reading of a window from it that the comment at `triggers_sweep.go:82-85`
counts on. `Save` inserts a row again that was deleted meanwhile; a failed
unregistration leaves a hook behind. A schedule's `Updates` is not checked, so
one that fails fires every minute, and it may overwrite a schedule the user has
just set. A monthly schedule of day 31 normalises into the next month.
`SetSchedule` does not check `day_of_week`, and for a value outside 0 to 6 the
weekly loop of `calcNextRunAt` does not end.

*Data stores.* Values are published after the commit, in any order and over a
channel that drops when full, so an open canvas may keep an old value. A write
between the two deletions of `DeleteDataStore` leaves rows of a store that is
gone, and its errors are ignored. The second of two first increments fails
instead of trying again. An increment of something that is not a number begins at
zero.

*Ledger.* The allocation of a member is checked and then spent, without a lock.

*Jobs.* In `ResetEnvironment` a failed deletion writes `error` with another text,
and so lifts the guard of an uncertain execution; a crash between its
transactions leaves `deleting` for ever; two resets, or a job whose workspace is
not recorded yet, may have the sandbox deleted under a running job.

*Workflows.* `ScheduledTrigger` and `WebhookTrigger` have a unique index on the
workflow but are deleted softly: after `DeleteWebhook`, `GetWebhook` cannot create
one again, against the comment at `webhook.go:62`, and after `DeleteSchedule` the
unchecked `Create` of `upsertSchedule` (`schedule.go:277`) fails while the request
succeeds. `Update` (`workflow.go:307-319`) saves the whole row it loaded, over a
concurrent publication, description or restored version. Version numbers are a
count plus one and may repeat.

*Connections and builder.* OAuth states live in one process; a token is refreshed
without a lock, although some providers rotate refresh tokens; a crash between
the exchange and the write loses the grant. A proposal of the builder that is
accepted after its timeout creates the store although the model was told it was
not; `RunAgentTurn` saves the session it loaded, and the last writer wins.
