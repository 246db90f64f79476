------------------------------ MODULE ToolCalls ------------------------------
(***************************************************************************)
(* The workflow tools of one coding-agent job: the MCP requests of its     *)
(* sandbox (handlers/coding_agent_mcp.go), the owner's approvals and        *)
(* reconciliations (handlers/coding_agent_tool_calls.go) and the ways the  *)
(* job stops under them (codingagent/store.go, handlers/members.go).        *)
(*                                                                         *)
(* A transaction that locks the job row is one step, except the one that    *)
(* performs the external action: it keeps the lock meanwhile (toolLock),    *)
(* and loses it with its database connection or its process.               *)
(***************************************************************************)
EXTENDS Naturals, FiniteSets

CONSTANTS Requests,      \* MCP requests of the sandbox, retries included
          Calls,         \* rows of coding_agent_tool_calls; the limit of a job
          Tools,         \* what may be asked for: one operation and its arguments
          ReadTools,     \* those whose operation only reads
          Keys,          \* JSON-RPC ids: a retry repeats the id, or takes a new one
          NoCall         \* no row, or no holder of the job row

ASSUME ToolKinds == ReadTools \subseteq Tools /\ NoCall \notin Requests

VARIABLES toolJob,    \* [status: "running" or "ended", cancel, fresh: BOOLEAN]
          toolMember, \* the owner is still a member
          toolCall,   \* row -> [status, tool, key, approved]; status "none": no row
          request,    \* request -> [pc, tool, key, call]
          toolLock,   \* the request whose transaction holds the job row, or NoCall
          acted       \* row -> how often its external action was begun

toolVars == <<toolJob, toolMember, toolCall, request, toolLock, acted>>

Unresolved == {"pending", "approved", "executing", "unknown"}
ToolJobActive == toolJob.status = "running" /\ ~toolJob.cancel
JobRowFree == toolLock = NoCall
Rows == {k \in Calls : toolCall[k].status # "none"}

RequestAt(r, pc) == request[r].pc = pc
Answered == [pc |-> "done", tool |-> NoCall, key |-> NoCall, call |-> NoCall]
Reply(r) == request' = [request EXCEPT ![r] = Answered]
SetCall(k, status) == toolCall' = [toolCall EXCEPT ![k].status = status]

-----------------------------------------------------------------------------
(* A request of the sandbox.                                               *)

\* authenticateToolCall, before any lock: an active, recently seen job and a member.
\* Requests are alike, so it does not matter which one comes next.
Authenticate(r) ==
    /\ RequestAt(r, "new") /\ r = CHOOSE x \in Requests : RequestAt(x, "new")
    /\ \E t \in Tools, id \in Keys :
          request' = [request EXCEPT ![r] =
              IF ToolJobActive /\ toolJob.fresh /\ toolMember
              THEN [pc |-> "prepare", tool |-> t, key |-> id, call |-> NoCall] ELSE Answered]
    /\ UNCHANGED <<toolJob, toolMember, toolCall, toolLock, acted>>

\* How a request goes on once it knows its row k, of this status.
With(req, k, status) ==
    CASE status = "pending"  -> [req EXCEPT !.pc = "wait", !.call = k]
      [] status = "approved" -> [req EXCEPT !.pc = "claim", !.call = k]
      [] OTHER               -> Answered

\* BugSameCall forgets the calls whose outcome is unknown.
BugSameCall(t) == {k \in Rows : toolCall[k].tool = t /\ toolCall[k].status \in
                                   Unresolved \ {"unknown"}}
\* An unresolved call of the same operation and arguments is the same call.
SameCall(t) == {k \in Rows : toolCall[k].tool = t /\ toolCall[k].status \in Unresolved}
SameRequest(r) == {k \in Rows : /\ toolCall[k].tool = request[r].tool
                                /\ toolCall[k].key = request[r].key}

Prepare(r) ==
    /\ RequestAt(r, "prepare") /\ JobRowFree
    /\ LET t == request[r].tool
           known == IF SameRequest(r) # {} THEN SameRequest(r) ELSE SameCall(t)
           status == IF t \in ReadTools THEN "approved" ELSE "pending"
       IN  IF ~ToolJobActive \/ (known = {} /\ Rows = Calls)
           THEN Reply(r) /\ UNCHANGED toolCall
           ELSE IF known # {}
           THEN /\ \E k \in known :
                      request' = [request EXCEPT ![r] = With(request[r], k, toolCall[k].status)]
                /\ UNCHANGED toolCall
           ELSE LET k == CHOOSE x \in Calls \ Rows : TRUE
                IN  /\ toolCall' = [toolCall EXCEPT ![k] =
                          [status |-> status, tool |-> t, key |-> request[r].key,
                           approved |-> FALSE]]
                    /\ request' = [request EXCEPT ![r] = With(request[r], k, status)]
    /\ UNCHANGED <<toolJob, toolMember, toolLock, acted>>

\* The row is polled until it is resolved, ten minutes pass or the client leaves.
WaitForApproval(r) ==
    /\ RequestAt(r, "wait")
    /\ \/ LET k == request[r].call IN
          /\ toolCall[k].status # "pending"
          /\ request' = [request EXCEPT ![r] = With(request[r], k, toolCall[k].status)]
       \/ Reply(r)
    /\ UNCHANGED <<toolJob, toolMember, toolCall, toolLock, acted>>

\* The claim is committed before the external action; billing may refuse it.
Claim(r) ==
    /\ RequestAt(r, "claim") /\ JobRowFree
    /\ \/ /\ ToolJobActive /\ toolCall[request[r].call].status = "approved"
          /\ SetCall(request[r].call, "executing")
          /\ request' = [request EXCEPT ![r].pc = "begin"]
       \/ Reply(r) /\ UNCHANGED toolCall
    /\ UNCHANGED <<toolJob, toolMember, toolLock, acted>>

\* The second transaction looks again, and then acts while it holds the job row.
Begin(r) ==
    LET k == request[r].call IN
    /\ RequestAt(r, "begin") /\ JobRowFree
    /\ IF ToolJobActive /\ toolJob.fresh /\ toolMember /\ toolCall[k].status = "executing"
       THEN /\ toolLock' = r
            /\ acted' = [acted EXCEPT ![k] = @ + 1]
            /\ request' = [request EXCEPT ![r].pc = "acting"]
       ELSE /\ request' = [request EXCEPT ![r].pc = "not_begun"]
            /\ UNCHANGED <<toolLock, acted>>
    /\ UNCHANGED <<toolJob, toolMember, toolCall>>

\* The action returned and its outcome commits with the transaction.
Outcome(tool) == {"succeeded", IF tool \in ReadTools THEN "failed" ELSE "unknown"}
Record(r) ==
    /\ RequestAt(r, "acting") /\ toolLock = r
    /\ \E o \in Outcome(toolCall[request[r].call].tool) : SetCall(request[r].call, o)
    /\ Reply(r)
    /\ toolLock' = NoCall
    /\ UNCHANGED <<toolJob, toolMember, acted>>

\* The transaction cannot commit: its context ended or its connection is gone.
LoseTransaction(r) ==
    /\ RequestAt(r, "acting") /\ toolLock = r
    /\ toolLock' = NoCall
    /\ request' = [request EXCEPT ![r].pc = "begun"]
    /\ UNCHANGED <<toolJob, toolMember, toolCall, acted>>

\* BugFallback takes any lost transaction for one that did not act.
BugFallback(r) == "failed"
Fallback(r) == IF RequestAt(r, "begun") /\ request[r].tool \notin ReadTools
               THEN "unknown" ELSE "failed"
\* The row is closed without the lock, only if it still says executing; an error
\* of this write is ignored.
Close(r) ==
    /\ request[r].pc \in {"begun", "not_begun"}
    /\ \/ toolCall[request[r].call].status = "executing" /\ SetCall(request[r].call, Fallback(r))
       \/ UNCHANGED toolCall
    /\ Reply(r)
    /\ UNCHANGED <<toolJob, toolMember, toolLock, acted>>

-----------------------------------------------------------------------------
(* The owner.                                                              *)

\* The resolving handlers lock the job row and then the call.
Resolve(k) ==
    /\ JobRowFree /\ toolCall[k].status = "pending" /\ ToolJobActive
    /\ \/ toolCall' = [toolCall EXCEPT ![k].status = "approved", ![k].approved = TRUE]
       \/ SetCall(k, "rejected")
    /\ UNCHANGED <<toolJob, toolMember, request, toolLock, acted>>

\* The owner looked at the target system and says what happened there.
Reconcile(k) ==
    /\ JobRowFree /\ toolCall[k].status = "unknown"
    /\ \E s \in {"reconciled_done", "reconciled_undone"} : SetCall(k, s)
    /\ UNCHANGED <<toolJob, toolMember, request, toolLock, acted>>

-----------------------------------------------------------------------------
(* The job stops.                                                          *)

CancelOpenCalls ==
    toolCall' = [k \in Calls |->
        CASE toolCall[k].status \in {"pending", "approved"} ->
                 [toolCall[k] EXCEPT !.status = "cancelled"]
          [] toolCall[k].status = "executing" -> [toolCall[k] EXCEPT !.status = "unknown"]
          [] OTHER -> toolCall[k]]

\* A cancellation, or a disconnected credential.
CancelToolJob ==
    /\ JobRowFree /\ ToolJobActive
    /\ toolJob' = [toolJob EXCEPT !.cancel = TRUE]
    /\ CancelOpenCalls
    /\ UNCHANGED <<toolMember, request, toolLock, acted>>
\* The worker finishes the job, or the reconciler gives it up.
EndToolJob ==
    /\ JobRowFree /\ toolJob.status = "running"
    /\ toolJob' = [toolJob EXCEPT !.status = "ended"]
    /\ CancelOpenCalls
    /\ UNCHANGED <<toolMember, request, toolLock, acted>>
RemoveToolOwner ==
    /\ JobRowFree /\ toolMember
    /\ toolMember' = FALSE
    /\ toolJob' = [toolJob EXCEPT !.cancel = @ \/ toolJob.status = "running"]
    /\ CancelOpenCalls
    /\ UNCHANGED <<request, toolLock, acted>>
\* The worker's heartbeat stays away for two minutes, or comes again; it writes
\* the row that an action in progress holds.
Heartbeats ==
    /\ toolJob.status = "running"
    /\ toolJob.fresh \/ JobRowFree
    /\ toolJob' = [toolJob EXCEPT !.fresh = ~@]
    /\ UNCHANGED <<toolMember, toolCall, request, toolLock, acted>>

\* The process that serves a request dies: its transaction is rolled back.
KillRequest(r) ==
    /\ request[r].pc \notin {"new", "done"}
    /\ Reply(r)
    /\ toolLock' = IF toolLock = r THEN NoCall ELSE toolLock
    /\ UNCHANGED <<toolJob, toolMember, toolCall, acted>>

-----------------------------------------------------------------------------
InitTools ==
    /\ toolJob = [status |-> "running", cancel |-> FALSE, fresh |-> TRUE]
    /\ toolMember = TRUE
    /\ toolCall = [k \in Calls |-> [status |-> "none", tool |-> NoCall, key |-> NoCall,
                                    approved |-> FALSE]]
    /\ request = [r \in Requests |-> [pc |-> "new", tool |-> NoCall, key |-> NoCall,
                                        call |-> NoCall]]
    /\ toolLock = NoCall
    /\ acted = [k \in Calls |-> 0]

RequestSteps(r) ==
    \/ Authenticate(r) \/ Prepare(r) \/ WaitForApproval(r) \/ Claim(r)
    \/ Begin(r) \/ Record(r) \/ LoseTransaction(r) \/ Close(r) \/ KillRequest(r)
NextTools ==
    \/ \E r \in Requests : RequestSteps(r)
    \/ \E k \in Calls : Resolve(k) \/ Reconcile(k)
    \/ CancelToolJob \/ EndToolJob \/ RemoveToolOwner \/ Heartbeats

ToolSpec == InitTools /\ [][NextTools]_toolVars

-----------------------------------------------------------------------------
(* Properties.                                                             *)

ToolsTypeOK ==
    /\ toolJob \in [status : {"running", "ended"}, cancel : BOOLEAN, fresh : BOOLEAN]
    /\ toolMember \in BOOLEAN
    /\ \A k \in Calls :
          /\ toolCall[k].status \in Unresolved \cup
                {"none", "rejected", "cancelled", "succeeded", "failed",
                 "reconciled_done", "reconciled_undone"}
          /\ toolCall[k].approved \in BOOLEAN
          /\ acted[k] \in Nat
    /\ \A r \in Requests : request[r].pc \in {"new", "prepare", "wait", "claim", "begin",
                                             "acting", "begun", "not_begun", "done"}
    /\ toolLock \in Requests \cup {NoCall}

\* A write that the sandbox asks for reaches the outside world at most once per
\* approval of the owner, and is not asked again, under any request id, while an
\* earlier one of the same operation and arguments may have happened
\* (prepareCodingAgentToolCall, executeCodingAgentToolCall).
WritesRunOnce ==
    /\ \A k \in Calls : /\ acted[k] <= 1
                        /\ acted[k] = 1 /\ toolCall[k].tool \notin ReadTools
                              => toolCall[k].approved
    /\ \A j, k \in Rows : j # k /\ toolCall[j].tool = toolCall[k].tool
                            => \/ toolCall[j].status \notin Unresolved
                               \/ toolCall[k].status \notin Unresolved

\* A write that was begun is never recorded as not done, whatever ended the
\* request, the job or the process; only the owner may say so.  And a stopped job
\* leaves no call open: it is decided, cancelled before it began, or unknown.
BegunIsNotDenied ==
    /\ \A k \in Calls : acted[k] > 0 /\ toolCall[k].tool \notin ReadTools =>
          toolCall[k].status \in {"executing", "succeeded", "unknown",
                                  "reconciled_done", "reconciled_undone"}
    /\ ~ToolJobActive => \A k \in Rows :
          toolCall[k].status \notin {"pending", "approved", "executing"}
=============================================================================
