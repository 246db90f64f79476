-------------------------- MODULE Admission_proofs --------------------------
(***************************************************************************)
(* What people and agents are admitted to: proofs about the tool calls of  *)
(* a coding agent (ToolCalls), its sign-in (CodexAuth) and the seats of an *)
(* organization (Seats).  The three share no state and follow each other   *)
(* here; a name that two of them would use carries its component.          *)
(***************************************************************************)
EXTENDS ToolCalls, CodexAuth, Seats, Integers, FiniteSetTheorems, TLAPS

-----------------------------------------------------------------------------
(***************************************************************************)
(* Tool calls, for any number of requests, calls and tools: a write runs   *)
(* at most once per approval, and one that was begun is never recorded as  *)
(* not done.                                                               *)
(***************************************************************************)
Statuses == Unresolved \cup {"none", "rejected", "cancelled", "succeeded", "failed",
                             "reconciled_done", "reconciled_undone"}
CallType == [status : Statuses, tool : Tools \cup {NoCall}, key : Keys \cup {NoCall},
             approved : BOOLEAN]
HasCall == {"wait", "claim", "begin", "acting", "begun", "not_begun"}
Owning == {"begin", "acting", "begun", "not_begun"}
ReqType == [pc : HasCall \cup {"new", "prepare", "done"}, tool : Tools \cup {NoCall},
            key : Keys \cup {NoCall}, call : Calls \cup {NoCall}]
Undecided == {"none", "pending", "approved"}
MayHaveHappened == {"executing", "succeeded", "unknown", "reconciled_done", "reconciled_undone"}

ToolsTyped == /\ toolJob \in [status : {"running", "ended"}, cancel : BOOLEAN, fresh : BOOLEAN]
         /\ toolMember \in BOOLEAN
         /\ toolCall \in [Calls -> CallType]
         /\ request \in [Requests -> ReqType]
         /\ toolLock \in Requests \cup {NoCall}
         /\ acted \in [Calls -> Nat]

\* What a request knows of its row: from the claim on the row has left the states
\* in which it may be claimed, until the request begins it has not acted, and
\* while it acts it holds the job row, so that the row still says executing.
Knows(q) ==
    q.pc \in HasCall => /\ q.call \in Calls /\ toolCall[q.call].tool = q.tool
                        /\ toolCall[q.call].status # "none"
                        /\ q.pc \in Owning => toolCall[q.call].status \notin Undecided
                        /\ q.pc \in {"begin", "not_begun"} => acted[q.call] = 0
RequestsKnow ==
    \A r \in Requests :
        /\ Knows(request[r])
        /\ RequestAt(r, "acting") => /\ toolLock = r
                                     /\ toolCall[request[r].call].status = "executing"
\* A row is claimed by one request.
OneOwner == \A r, q \in Requests :
    request[r].pc \in Owning /\ request[q].pc \in Owning /\ request[r].call = request[q].call
        => r = q
OnceEach == \A k \in Calls :
    /\ acted[k] <= 1
    /\ acted[k] > 0 => toolCall[k].status \notin Undecided
Approvals == \A k \in Calls : toolCall[k].tool \notin ReadTools =>
    /\ toolCall[k].status \in {"approved", "executing"} => toolCall[k].approved
    /\ acted[k] > 0 => toolCall[k].approved /\ toolCall[k].status \in MayHaveHappened
OneUnresolved == \A j, k \in Calls :
    toolCall[j].tool = toolCall[k].tool /\ {toolCall[j].status, toolCall[k].status} \subseteq Unresolved
        => j = k
StoppedIsDecided == ~ToolJobActive =>
    \A k \in Calls : toolCall[k].status \notin {"pending", "approved", "executing"}

RowsOK == OnceEach /\ Approvals /\ OneUnresolved /\ StoppedIsDecided
ToolInv == ToolsTyped /\ RequestsKnow /\ OneOwner /\ RowsOK

-----------------------------------------------------------------------------
(* Lemmas.                                                                 *)

\* Before the first request, the invariant holds.
LEMMA ToolInit == InitTools => ToolInv
  <1> SUFFICES ASSUME InitTools PROVE ToolInv
    OBVIOUS
  <1>1. \A k \in Calls : toolCall[k].status = "none" /\ acted[k] = 0
    BY DEF InitTools
  <1>2. \A r \in Requests : request[r].pc = "new"
    BY DEF InitTools
  <1>3. ToolsTyped
    BY DEF InitTools, ToolsTyped, CallType, ReqType, Statuses
  <1>4. RequestsKnow /\ OneOwner
    BY <1>2 DEF RequestsKnow, OneOwner, Knows, HasCall, Owning, RequestAt
  <1>5. RowsOK
    <2>1. OnceEach /\ Approvals
      BY <1>1 DEF OnceEach, Approvals
    <2>2. OneUnresolved
      BY <1>1 DEF OneUnresolved, Unresolved
    <2>3. StoppedIsDecided
      BY <1>1 DEF StoppedIsDecided
    <2> QED
      BY <2>1, <2>2, <2>3 DEF RowsOK
  <1> QED
    BY <1>3, <1>4, <1>5 DEF ToolInv

\* A request moves without claiming, acting or touching a row.
LEMMA RequestStep ==
  ASSUME ToolInv, NEW r \in Requests, NEW q \in ReqType,
         request' = [request EXCEPT ![r] = q],
         UNCHANGED <<toolJob, toolMember, toolCall, acted>>,
         toolLock' \in Requests \cup {NoCall},
         toolLock' = toolLock \/ toolLock = r,
         Knows(q), q.pc # "acting",
         q.pc \in Owning => request[r].pc \in Owning /\ q.call = request[r].call
  PROVE  ToolInv'
  <1>1. /\ request' \in [Requests -> ReqType] /\ request'[r] = q
        /\ \A x \in Requests \ {r} : request'[x] = request[x]
    BY DEF ToolInv, ToolsTyped
  <1>2. ToolsTyped'
    BY <1>1 DEF ToolInv, ToolsTyped
  <1>3. RequestsKnow'
    BY <1>1 DEF ToolInv, RequestsKnow, Knows, RequestAt
  <1>4. OneOwner'
    BY <1>1 DEF ToolInv, OneOwner
  <1>5. RowsOK'
    BY DEF ToolInv, RowsOK, OnceEach, Approvals, OneUnresolved, StoppedIsDecided, ToolJobActive
  <1> QED
    BY <1>2, <1>3, <1>4, <1>5 DEF ToolInv

\* An answered request knows nothing.
LEMMA GivesAnswer == Answered \in ReqType /\ Answered.pc = "done" /\ Knows(Answered)
  BY DEF Answered, ReqType, Knows, HasCall

\* A request that is answered, with or without the lock.
LEMMA ReplyStep ==
  ASSUME ToolInv, NEW r \in Requests, Reply(r),
         UNCHANGED <<toolJob, toolMember, toolCall, acted>>,
         toolLock' = toolLock \/ (toolLock = r /\ toolLock' = NoCall)
  PROVE  ToolInv'
  BY RequestStep, GivesAnswer DEF Reply, ToolInv, ToolsTyped, Owning

\* How a request goes on keeps what it knows.
LEMMA WithKnows ==
  ASSUME ToolInv, NEW r \in Requests, NEW k \in Calls, toolCall[k].status # "none",
         toolCall[k].tool = request[r].tool
  PROVE  LET q == With(request[r], k, toolCall[k].status) IN
         q \in ReqType /\ Knows(q) /\ q.pc \notin Owning
  <1>1. request[r] \in ReqType
    BY DEF ToolInv, ToolsTyped
  <1>2. ASSUME NEW pc \in {"wait", "claim"}
        PROVE  LET q == [request[r] EXCEPT !.pc = pc, !.call = k] IN
               q \in ReqType /\ Knows(q) /\ q.pc \notin Owning
    BY <1>1, <1>2 DEF ReqType, Knows, HasCall, Owning
  <1>3. Answered.pc \notin Owning
    BY DEF Answered, Owning
  <1>4. CASE toolCall[k].status = "pending"
    BY <1>2, <1>4 DEF With
  <1>5. CASE toolCall[k].status = "approved"
    BY <1>2, <1>5 DEF With
  <1>6. CASE toolCall[k].status \notin {"pending", "approved"}
    BY <1>3, <1>6, GivesAnswer DEF With
  <1> QED
    BY <1>4, <1>5, <1>6

\* While the job row is free, nobody acts.
LEMMA NobodyActs ==
  ASSUME ToolInv, JobRowFree PROVE \A r \in Requests : request[r].pc # "acting"
  BY ToolKinds DEF ToolInv, RequestsKnow, RequestAt, JobRowFree

\* A row that is there moves on; resolved rows stay resolved, and nothing goes back
\* to where it could be claimed.
LEMMA CallStep ==
  ASSUME ToolInv, NEW k \in Calls, NEW row \in CallType,
         toolCall' = [toolCall EXCEPT ![k] = row],
         UNCHANGED <<toolJob, acted>>,
         row.tool = toolCall[k].tool, row.status # "none",
         row.status \in Unresolved => toolCall[k].status \in Unresolved,
         row.status \in Undecided => toolCall[k].status \in Undecided,
         row.tool \notin ReadTools /\ row.status \in {"approved", "executing"} => row.approved,
         row.tool \notin ReadTools /\ acted[k] > 0
             => row.approved /\ row.status \in MayHaveHappened,
         ~ToolJobActive => row.status \notin {"pending", "approved", "executing"}
  PROVE  /\ toolCall' \in [Calls -> CallType] /\ RowsOK'
         /\ \A q \in ReqType : Knows(q) => Knows(q)'
  <1>1. /\ toolCall' \in [Calls -> CallType] /\ toolCall'[k] = row
        /\ \A j \in Calls \ {k} : toolCall'[j] = toolCall[j]
    BY DEF ToolInv, ToolsTyped
  <1>2. OnceEach'
    BY <1>1 DEF ToolInv, RowsOK, OnceEach
  <1>3. Approvals'
    BY <1>1 DEF ToolInv, RowsOK, Approvals
  <1>4. OneUnresolved'
    BY <1>1 DEF ToolInv, RowsOK, OneUnresolved
  <1>5. StoppedIsDecided'
    BY <1>1 DEF ToolInv, RowsOK, StoppedIsDecided, ToolJobActive
  <1>6. \A q \in ReqType : Knows(q) => Knows(q)'
    BY <1>1 DEF Knows
  <1> QED
    BY <1>1, <1>2, <1>3, <1>4, <1>5, <1>6 DEF RowsOK

\* The requests after a step of one of them that changed rows, too.
LEMMA RequestsAfter ==
  ASSUME ToolInv, NEW r \in Requests, NEW q \in ReqType,
         request' = [request EXCEPT ![r] = q],
         \A p \in ReqType : Knows(p) => Knows(p)',
         Knows(q)', q.pc # "acting",
         \A x \in Requests \ {r} : request[x].pc # "acting",
         q.pc \in Owning => \A x \in Requests \ {r} :
             request[x].pc \in Owning => request[x].call # q.call
  PROVE  request' \in [Requests -> ReqType] /\ RequestsKnow' /\ OneOwner'
  <1>1. /\ request' \in [Requests -> ReqType] /\ request'[r] = q
        /\ \A x \in Requests \ {r} : request'[x] = request[x] /\ request[x] \in ReqType
    BY DEF ToolInv, ToolsTyped
  <1>2. RequestsKnow'
    BY <1>1 DEF ToolInv, RequestsKnow, Knows, RequestAt
  <1>3. OneOwner'
    BY <1>1 DEF ToolInv, OneOwner
  <1> QED
    BY <1>1, <1>2, <1>3

-----------------------------------------------------------------------------
(* The steps of a request.                                                 *)

\* A request that was let in knows no row yet.
LEMMA AuthenticateStep ==
  ASSUME ToolInv, NEW r \in Requests, Authenticate(r) PROVE ToolInv'
  <1>1. PICK t \in Tools, id \in Keys :
          request' = [request EXCEPT ![r] =
              IF ToolJobActive /\ toolJob.fresh /\ toolMember
              THEN [pc |-> "prepare", tool |-> t, key |-> id, call |-> NoCall] ELSE Answered]
    BY DEF Authenticate
  <1> DEFINE q == [pc |-> "prepare", tool |-> t, key |-> id, call |-> NoCall]
  <1>2. q \in ReqType /\ q.pc = "prepare" /\ Knows(q)
    BY DEF ReqType, Knows, HasCall
  <1>3. CASE request' = [request EXCEPT ![r] = q]
    BY <1>2, <1>3, RequestStep DEF Authenticate, ToolInv, ToolsTyped, Owning
  <1>4. CASE Reply(r)
    BY <1>4, ReplyStep DEF Authenticate
  <1> QED
    BY <1>1, <1>3, <1>4 DEF Reply

\* A request finds its row or makes one; a new row is the only open one of its kind.
LEMMA PrepareStep ==
  ASSUME ToolInv, NEW r \in Requests, Prepare(r) PROVE ToolInv'
  <1> DEFINE t == request[r].tool
             known == IF SameRequest(r) # {} THEN SameRequest(r) ELSE SameCall(t)
             status == IF t \in ReadTools THEN "approved" ELSE "pending"
  <1>0. JobRowFree /\ UNCHANGED <<toolJob, toolMember, toolLock, acted>>
    BY DEF Prepare
  <1>1. CASE Reply(r) /\ UNCHANGED toolCall
    BY <1>0, <1>1, ReplyStep
  <1>2. ASSUME NEW k \in known, UNCHANGED toolCall,
               request' = [request EXCEPT ![r] = With(request[r], k, toolCall[k].status)]
        PROVE  ToolInv'
    <2>1. k \in Calls /\ toolCall[k].status # "none" /\ toolCall[k].tool = request[r].tool
      BY <1>2 DEF SameRequest, SameCall, Rows
    <2>2. SUFFICES ASSUME NEW q, q = With(request[r], k, toolCall[k].status) PROVE ToolInv'
      OBVIOUS
    <2>3. q \in ReqType /\ Knows(q) /\ q.pc \notin Owning
      BY <2>1, <2>2, WithKnows
    <2> QED
      BY <1>0, <1>2, <2>2, <2>3, RequestStep DEF ToolInv, ToolsTyped, Owning
  <1>3. ASSUME known = {}, Rows # Calls, ToolJobActive,
               NEW k \in Calls, k \notin Rows,
               toolCall' = [toolCall EXCEPT ![k] = [status |-> status, tool |-> t,
                                key |-> request[r].key, approved |-> FALSE]],
               request' = [request EXCEPT ![r] = With(request[r], k, status)]
        PROVE  ToolInv'
    <2> DEFINE row == [status |-> status, tool |-> t, key |-> request[r].key, approved |-> FALSE]
    <2>1. request[r] \in ReqType /\ toolCall[k].status = "none" /\ acted[k] = 0
      BY <1>3 DEF ToolInv, ToolsTyped, RowsOK, OnceEach, Rows, Undecided
    <2>2. row \in CallType /\ row.status \in {"pending", "approved"} /\ row.tool = t
          /\ (row.status = "approved" => t \in ReadTools)
      BY <2>1 DEF CallType, ReqType, Statuses, Unresolved
    <2>3. /\ toolCall' \in [Calls -> CallType] /\ toolCall'[k] = row
          /\ \A j \in Calls \ {k} : toolCall'[j] = toolCall[j]
      BY <1>3, <2>2 DEF ToolInv, ToolsTyped
    <2>4. \A j \in Calls : toolCall[j].tool = t => toolCall[j].status \notin Unresolved
      BY <1>3 DEF SameCall, Rows, Unresolved
    <2> HIDE DEF row
    <2>5. OnceEach' /\ Approvals'
      BY <1>0, <2>1, <2>2, <2>3 DEF ToolInv, ToolsTyped, RowsOK, OnceEach, Approvals
    <2>6. OneUnresolved'
      BY <2>2, <2>3, <2>4 DEF ToolInv, RowsOK, OneUnresolved
    <2>7. StoppedIsDecided'
      BY <1>0, <1>3 DEF StoppedIsDecided, ToolJobActive
    <2>8. SUFFICES ASSUME NEW q, q = With(request[r], k, status) PROVE ToolInv'
      OBVIOUS
    <2>9. q \in ReqType /\ q.call = k /\ q.pc \in {"wait", "claim"} /\ q.tool = t
      <3>1. ASSUME NEW pc \in {"wait", "claim"}
            PROVE  LET p == [request[r] EXCEPT !.pc = pc, !.call = k] IN
                   p \in ReqType /\ p.call = k /\ p.pc = pc /\ p.tool = t
        BY <2>1 DEF ReqType, HasCall
      <3>2. CASE status = "pending"
        BY <2>8, <3>1, <3>2 DEF With
      <3>3. CASE status = "approved"
        BY <2>8, <3>1, <3>3 DEF With
      <3> QED
        BY <3>2, <3>3
    <2>10. Knows(q)'
      BY <2>2, <2>3, <2>9 DEF Knows, Owning
    <2>11. \A p \in ReqType : Knows(p) => Knows(p)'
      BY <1>0, <2>1, <2>3 DEF Knows
    <2>12. \A x \in Requests : request[x].pc # "acting"
      BY <1>0, NobodyActs
    <2>13. request' = [request EXCEPT ![r] = q] /\ q.pc \notin Owning /\ q.pc # "acting"
      BY <1>3, <2>8, <2>9 DEF Owning
    <2>14. request' \in [Requests -> ReqType] /\ RequestsKnow' /\ OneOwner'
      BY <2>9, <2>10, <2>11, <2>12, <2>13, RequestsAfter
    <2> QED
      BY <1>0, <2>3, <2>5, <2>6, <2>7, <2>14 DEF ToolInv, ToolsTyped, RowsOK
  <1>4. (CHOOSE x \in Calls \ Rows : TRUE) \in Calls \ Rows \/ Calls \ Rows = {}
    OBVIOUS
  <1>5. Rows \subseteq Calls
    BY DEF Rows
  <1> QED
    BY <1>1, <1>2, <1>3, <1>4, <1>5 DEF Prepare

\* The row is polled.
LEMMA WaitStep ==
  ASSUME ToolInv, NEW r \in Requests, WaitForApproval(r) PROVE ToolInv'
  <1>1. CASE Reply(r)
    BY <1>1, ReplyStep DEF WaitForApproval
  <1> DEFINE k == request[r].call
  <1>2. CASE request' = [request EXCEPT ![r] = With(request[r], k, toolCall[k].status)]
    <2>1. k \in Calls /\ toolCall[k].status # "none" /\ toolCall[k].tool = request[r].tool
      BY DEF WaitForApproval, RequestAt, ToolInv, RequestsKnow, Knows, HasCall
    <2>2. SUFFICES ASSUME NEW q, q = With(request[r], k, toolCall[k].status) PROVE ToolInv'
      OBVIOUS
    <2>3. q \in ReqType /\ Knows(q) /\ q.pc \notin Owning
      BY <2>1, <2>2, WithKnows
    <2> QED
      BY <1>2, <2>2, <2>3, RequestStep DEF WaitForApproval, ToolInv, ToolsTyped, Owning
  <1> QED
    BY <1>1, <1>2 DEF WaitForApproval

\* The row leaves the states in which another request could claim it.
LEMMA CallClaimStep ==
  ASSUME ToolInv, NEW r \in Requests, Claim(r) PROVE ToolInv'
  <1> DEFINE k == request[r].call
             row == [toolCall[k] EXCEPT !.status = "executing"]
  <1>0. JobRowFree /\ UNCHANGED <<toolJob, toolMember, toolLock, acted>>
    BY DEF Claim
  <1>1. CASE Reply(r) /\ UNCHANGED toolCall
    BY <1>0, <1>1, ReplyStep
  <1>2. CASE /\ ToolJobActive /\ toolCall[k].status = "approved"
             /\ SetCall(k, "executing")
             /\ request' = [request EXCEPT ![r].pc = "begin"]
    <2>1. /\ request[r] \in ReqType /\ k \in Calls /\ toolCall[k] \in CallType
          /\ toolCall[k].tool = request[r].tool
      BY DEF Claim, RequestAt, ToolInv, ToolsTyped, RequestsKnow, Knows, HasCall
    <2>2. /\ row \in CallType /\ row.status = "executing" /\ row.tool = toolCall[k].tool
          /\ row.approved = toolCall[k].approved
      BY <2>1 DEF CallType, Statuses, Unresolved
    <2>3. toolCall' = [toolCall EXCEPT ![k] = row]
      BY <1>2 DEF SetCall
    <2>4. acted[k] = 0 /\ (row.tool \notin ReadTools => row.approved)
      BY <1>2, <2>1, <2>2 DEF ToolInv, ToolsTyped, RowsOK, OnceEach, Approvals, Undecided
    <2> HIDE DEF row
    <2>5. /\ toolCall' \in [Calls -> CallType] /\ RowsOK'
          /\ \A q \in ReqType : Knows(q) => Knows(q)'
      <3>1. /\ row.status # "none" /\ toolCall[k].status \in Unresolved
            /\ row.status \notin Undecided /\ ~(acted[k] > 0) /\ ToolJobActive
        BY <1>2, <2>2, <2>4 DEF Unresolved, Undecided
      <3> HIDE DEF k
      <3> QED
        BY <1>0, <2>1, <2>2, <2>3, <2>4, <3>1, CallStep
    <2>6. SUFFICES ASSUME NEW q, q = [request[r] EXCEPT !.pc = "begin"] PROVE ToolInv'
      OBVIOUS
    <2>7. q \in ReqType /\ q.call = k /\ q.pc = "begin" /\ q.tool = request[r].tool
      BY <2>1, <2>6 DEF ReqType, HasCall
    <2>8. toolCall'[k] = row
      BY <2>1, <2>3 DEF ToolInv, ToolsTyped
    <2>9. Knows(q)'
      BY <1>0, <2>1, <2>2, <2>4, <2>7, <2>8 DEF Knows, Undecided
    <2>10. request' = [request EXCEPT ![r] = q] /\ q.pc # "acting"
      BY <1>2, <2>6, <2>7
    <2>11. \A x \in Requests : request[x].pc # "acting"
      BY <1>0, NobodyActs
    <2>12. \A x \in Requests : request[x].pc \in Owning => request[x].call # k
      BY <1>2, <2>1 DEF ToolInv, ToolsTyped, RequestsKnow, Knows, HasCall, Owning, Undecided
    <2>13. request' \in [Requests -> ReqType] /\ RequestsKnow' /\ OneOwner'
      BY <2>5, <2>7, <2>9, <2>10, <2>11, <2>12, RequestsAfter
    <2> QED
      BY <1>0, <2>5, <2>13 DEF ToolInv, ToolsTyped
  <1> QED
    BY <1>1, <1>2 DEF Claim

\* The only step that acts: the row says executing, so its write was approved, and
\* its owner has not acted.
LEMMA BeginStep ==
  ASSUME ToolInv, NEW r \in Requests, Begin(r) PROVE ToolInv'
  <1> DEFINE k == request[r].call
  <1>1. /\ request[r] \in ReqType /\ k \in Calls /\ toolCall[k].tool = request[r].tool
        /\ toolCall[k].status \notin Undecided /\ acted[k] = 0 /\ request[r].pc \in Owning
    BY DEF Begin, RequestAt, ToolInv, ToolsTyped, RequestsKnow, Knows, HasCall, Owning
  <1>2. JobRowFree /\ UNCHANGED <<toolJob, toolMember, toolCall>>
    BY DEF Begin
  <1>3. CASE UNCHANGED <<toolLock, acted>> /\ request' = [request EXCEPT ![r].pc = "not_begun"]
    <2>1. SUFFICES ASSUME NEW q, q = [request[r] EXCEPT !.pc = "not_begun"] PROVE ToolInv'
      OBVIOUS
    <2>2. q \in ReqType /\ q.call = k /\ q.pc = "not_begun" /\ q.tool = request[r].tool
      BY <1>1, <2>1 DEF ReqType, HasCall
    <2>3. Knows(q)
      BY <1>1, <2>2 DEF Knows, Undecided
    <2> QED
      BY <1>1, <1>2, <1>3, <2>1, <2>2, <2>3, RequestStep DEF ToolInv, ToolsTyped
  <1>4. CASE /\ toolCall[k].status = "executing"
             /\ toolLock' = r /\ acted' = [acted EXCEPT ![k] = @ + 1]
             /\ request' = [request EXCEPT ![r].pc = "acting"]
    <2>1. SUFFICES ASSUME NEW q, q = [request[r] EXCEPT !.pc = "acting"] PROVE ToolInv'
      OBVIOUS
    <2>2. q \in ReqType /\ q.call = k /\ q.pc = "acting" /\ q.tool = request[r].tool
      BY <1>1, <2>1 DEF ReqType, HasCall
    <2>3. /\ request' \in [Requests -> ReqType] /\ request'[r] = q
          /\ \A x \in Requests \ {r} : request'[x] = request[x]
      BY <1>4, <2>1, <2>2 DEF ToolInv, ToolsTyped
    <2>4. /\ acted' \in [Calls -> Nat] /\ acted'[k] = 1
          /\ \A j \in Calls \ {k} : acted'[j] = acted[j]
      BY <1>1, <1>4 DEF ToolInv, ToolsTyped
    <2>5. \A x \in Requests \ {r} : /\ request[x].pc # "acting"
                                    /\ request[x].pc \in Owning => request[x].call # k
      BY <1>1, <1>2, NobodyActs DEF ToolInv, OneOwner
    <2>6. RequestsKnow'
      <3>1. ASSUME NEW x \in Requests \ {r} PROVE Knows(request[x])' /\ request'[x].pc # "acting"
        <4>1. Knows(request[x]) /\ request'[x] = request[x]
          BY <2>3 DEF ToolInv, RequestsKnow
        <4>2. request[x].pc \in {"begin", "not_begun"} => request[x].call # k
          BY <2>5 DEF Owning
        <4>3. Knows(request[x])'
          BY <1>2, <2>4, <4>1, <4>2 DEF Knows
        <4>4. request'[x].pc # "acting"
          BY <2>5, <4>1
        <4> QED
          BY <4>3, <4>4 DEF Knows
      <3>2. Knows(request[r])' /\ toolLock' = r /\ toolCall'[request'[r].call].status = "executing"
        BY <1>1, <1>2, <1>4, <2>2, <2>3 DEF Knows, Undecided
      <3> QED
        BY <3>1, <3>2 DEF RequestsKnow, RequestAt
    <2>7. OneOwner'
      <3>1. \A x \in Requests : /\ request'[x].call = request[x].call
                                /\ request'[x].pc \in Owning => request[x].pc \in Owning
        BY <1>1, <2>2, <2>3
      <3> QED
        BY <3>1 DEF ToolInv, OneOwner
    <2>8. OnceEach'
      BY <1>1, <1>2, <2>4 DEF ToolInv, RowsOK, OnceEach
    <2>9. Approvals'
      BY <1>2, <1>4, <2>4 DEF ToolInv, RowsOK, Approvals, MayHaveHappened
    <2>10. OneUnresolved' /\ StoppedIsDecided'
      BY <1>2 DEF ToolInv, RowsOK, OneUnresolved, StoppedIsDecided, ToolJobActive
    <2> QED
      BY <1>2, <1>4, <2>3, <2>4, <2>6, <2>7, <2>8, <2>9, <2>10 DEF ToolInv, ToolsTyped, RowsOK
  <1> QED
    BY <1>2, <1>3, <1>4 DEF Begin

\* The request that closes a row is answered.
LEMMA ClosingStep ==
  ASSUME ToolInv, NEW r \in Requests, request[r].pc \in Owning, Reply(r),
         NEW s \in {"succeeded", "failed", "unknown"},
         SetCall(request[r].call, s), UNCHANGED <<toolJob, toolMember, acted>>,
         toolLock' = toolLock \/ (toolLock = r /\ toolLock' = NoCall),
         \A x \in Requests \ {r} : request[x].pc = "acting" => toolLock' = toolLock,
         toolCall[request[r].call].status = "executing",
         s = "failed" => request[r].tool \in ReadTools \/ acted[request[r].call] = 0
  PROVE  ToolInv'
  <1> DEFINE k == request[r].call
             row == [toolCall[k] EXCEPT !.status = s]
  <1>1. k \in Calls /\ toolCall[k] \in CallType /\ toolCall[k].tool = request[r].tool
    BY DEF ToolInv, ToolsTyped, RequestsKnow, Knows, HasCall, Owning
  <1>2. /\ row \in CallType /\ row.status = s /\ row.tool = toolCall[k].tool
        /\ row.approved = toolCall[k].approved
    BY <1>1 DEF CallType, Statuses, Unresolved
  <1>3. toolCall' = [toolCall EXCEPT ![k] = row]
    BY DEF SetCall
  <1>4. row.tool \notin ReadTools /\ acted[k] > 0 => row.approved /\ row.status \in MayHaveHappened
    BY <1>1, <1>2 DEF ToolInv, RowsOK, Approvals, MayHaveHappened
  <1> HIDE DEF row
  <1>5. /\ toolCall' \in [Calls -> CallType] /\ RowsOK'
        /\ \A q \in ReqType : Knows(q) => Knows(q)'
    BY <1>1, <1>2, <1>3, <1>4, CallStep DEF Unresolved, Undecided
  <1>6. /\ request' \in [Requests -> ReqType] /\ request'[r] = Answered
        /\ \A x \in Requests \ {r} : request'[x] = request[x] /\ request[x] \in ReqType
    BY GivesAnswer DEF Reply, ToolInv, ToolsTyped
  <1>7. \A x \in Requests \ {r} : request[x].pc = "acting" => request[x].call # k
    BY DEF ToolInv, OneOwner, Owning
  <1>8. RequestsKnow'
    <2>1. ASSUME NEW x \in Requests \ {r}
          PROVE  Knows(request[x])' /\ (RequestAt(x, "acting") => /\ toolLock = x
                     /\ toolCall[request[x].call].status = "executing")'
      <3>1. Knows(request[x])'
        BY <1>5, <1>6 DEF ToolInv, RequestsKnow, Knows
      <3>2. request[x].pc = "acting" =>
              /\ toolLock' = x /\ request[x].call \in Calls
              /\ toolCall'[request[x].call].status = "executing"
        BY <1>1, <1>3, <1>6, <1>7 DEF ToolInv, ToolsTyped, RequestsKnow, RequestAt, Knows, HasCall
      <3> QED
        BY <1>6, <3>1, <3>2 DEF RequestAt
    <2>2. Knows(request[r])' /\ request'[r].pc # "acting"
      BY <1>6 DEF Answered, Knows, HasCall
    <2> QED
      BY <2>1, <2>2 DEF RequestsKnow, RequestAt
  <1>9. OneOwner'
    BY <1>6, GivesAnswer DEF ToolInv, OneOwner, Owning
  <1> QED
    BY <1>5, <1>6, <1>8, <1>9 DEF ToolInv, ToolsTyped

\* The outcome is recorded by the holder of the job row.
LEMMA CallRecordStep ==
  ASSUME ToolInv, NEW r \in Requests, Record(r) PROVE ToolInv'
  <1>1. /\ request[r].pc = "acting" /\ toolLock = r
        /\ toolCall[request[r].call].status = "executing"
        /\ toolCall[request[r].call].tool = request[r].tool
    BY DEF Record, RequestAt, ToolInv, RequestsKnow, Knows, HasCall
  <1>2. PICK s \in Outcome(request[r].tool) : SetCall(request[r].call, s)
    BY <1>1 DEF Record
  <1>3. s \in {"succeeded", "failed", "unknown"} /\ (s = "failed" => request[r].tool \in ReadTools)
    BY <1>2 DEF Outcome
  <1>4. \A x \in Requests \ {r} : request[x].pc # "acting"
    BY <1>1 DEF ToolInv, RequestsKnow, RequestAt
  <1> QED
    BY <1>1, <1>2, <1>3, <1>4, ClosingStep DEF Record, Owning

\* A lost transaction leaves the row as it was.
LEMMA LoseStep ==
  ASSUME ToolInv, NEW r \in Requests, LoseTransaction(r) PROVE ToolInv'
  <1>1. SUFFICES ASSUME NEW q, q = [request[r] EXCEPT !.pc = "begun"] PROVE ToolInv'
    OBVIOUS
  <1>2. request[r] \in ReqType /\ Knows(request[r]) /\ request[r].pc = "acting"
    BY DEF LoseTransaction, RequestAt, ToolInv, ToolsTyped, RequestsKnow
  <1>3. /\ q \in ReqType /\ q.pc = "begun" /\ q.call = request[r].call
        /\ q.tool = request[r].tool
    BY <1>1, <1>2 DEF ReqType, HasCall
  <1>4. Knows(q)
    BY <1>2, <1>3 DEF Knows, HasCall, Owning
  <1> QED
    BY <1>1, <1>2, <1>3, <1>4, RequestStep DEF LoseTransaction, ToolInv, ToolsTyped, Owning

\* What closes a row without the lock denies nothing that was begun.
LEMMA CloseStep ==
  ASSUME ToolInv, NEW r \in Requests, Close(r) PROVE ToolInv'
  <1>1. CASE UNCHANGED toolCall
    BY <1>1, ReplyStep DEF Close
  <1>2. CASE /\ toolCall[request[r].call].status = "executing"
             /\ SetCall(request[r].call, Fallback(r))
    <2>1. Fallback(r) \in {"succeeded", "failed", "unknown"}
      BY DEF Fallback
    <2>2. Fallback(r) = "failed" => request[r].tool \in ReadTools \/ acted[request[r].call] = 0
      BY DEF Close, Fallback, RequestAt, ToolInv, RequestsKnow, Knows, HasCall
    <2> QED
      BY <1>2, <2>1, <2>2, ClosingStep DEF Close, Owning
  <1> QED
    BY <1>1, <1>2 DEF Close

\* A request that dies gives the job row back.
LEMMA KillStep ==
  ASSUME ToolInv, NEW r \in Requests, KillRequest(r) PROVE ToolInv'
  BY ReplyStep DEF KillRequest

-----------------------------------------------------------------------------
(* The owner, and the end of the job.                                      *)

\* While nobody acts, rows may change under requests that still know them.
LEMMA RequestsStay ==
  ASSUME ToolInv, JobRowFree, UNCHANGED <<request, toolLock>>,
         \A q \in ReqType : Knows(q) => Knows(q)'
  PROVE  RequestsKnow' /\ OneOwner'
  <1>1. \A r \in Requests : request[r] \in ReqType /\ request[r].pc # "acting"
    BY NobodyActs DEF ToolInv, ToolsTyped
  <1>2. RequestsKnow'
    BY <1>1 DEF ToolInv, RequestsKnow, Knows, RequestAt
  <1>3. OneOwner'
    BY DEF ToolInv, OneOwner
  <1> QED
    BY <1>2, <1>3

\* The owner decides one row.
LEMMA CallOwnerStep ==
  ASSUME ToolInv, NEW k \in Calls, Resolve(k) \/ Reconcile(k) PROVE ToolInv'
  <1>0. /\ JobRowFree /\ UNCHANGED <<toolJob, toolMember, request, toolLock, acted>>
        /\ toolCall[k] \in CallType
    BY DEF Resolve, Reconcile, ToolInv, ToolsTyped
  <1>1. ASSUME NEW row \in CallType, toolCall' = [toolCall EXCEPT ![k] = row],
               row.tool = toolCall[k].tool, toolCall[k].status \in Unresolved,
               \/ /\ toolCall[k].status = "pending" /\ ToolJobActive
                  /\ (row.status = "approved" /\ row.approved) \/ row.status = "rejected"
               \/ /\ toolCall[k].status = "unknown" /\ row.approved = toolCall[k].approved
                  /\ row.status \in {"reconciled_done", "reconciled_undone"}
        PROVE  ToolInv'
    <2>1. /\ row.status # "none"
          /\ row.status \in Undecided => toolCall[k].status \in Undecided
          /\ row.status \in {"approved", "executing"} => row.approved
          /\ ~ToolJobActive => row.status \notin {"pending", "approved", "executing"}
      BY <1>1 DEF Undecided
    <2>2. row.tool \notin ReadTools /\ acted[k] > 0
            => row.approved /\ row.status \in MayHaveHappened
      BY <1>1 DEF ToolInv, RowsOK, OnceEach, Approvals, Undecided, MayHaveHappened
    <2>3. /\ toolCall' \in [Calls -> CallType] /\ RowsOK'
          /\ \A q \in ReqType : Knows(q) => Knows(q)'
      BY <1>0, <1>1, <2>1, <2>2, CallStep
    <2> QED
      BY <1>0, <2>3, RequestsStay DEF ToolInv, ToolsTyped
  <1>2. CASE Resolve(k)
    <2> DEFINE yes == [toolCall[k] EXCEPT !.status = "approved", !.approved = TRUE]
               no == [toolCall[k] EXCEPT !.status = "rejected"]
    <2>1. /\ yes \in CallType /\ yes.status = "approved" /\ yes.approved
          /\ yes.tool = toolCall[k].tool
      BY <1>0 DEF CallType, Statuses, Unresolved
    <2>2. no \in CallType /\ no.status = "rejected" /\ no.tool = toolCall[k].tool
      BY <1>0 DEF CallType, Statuses, Unresolved
    <2>3. /\ toolCall[k].status = "pending" /\ ToolJobActive
          /\ toolCall' = [toolCall EXCEPT ![k] = yes] \/ toolCall' = [toolCall EXCEPT ![k] = no]
      BY <1>2 DEF Resolve, SetCall
    <2> HIDE DEF yes, no
    <2> QED
      BY <1>1, <2>1, <2>2, <2>3 DEF Unresolved
  <1>3. CASE Reconcile(k)
    <2>1. PICK s \in {"reconciled_done", "reconciled_undone"} :
             toolCall' = [toolCall EXCEPT ![k].status = s]
      BY <1>3 DEF Reconcile, SetCall
    <2> DEFINE row == [toolCall[k] EXCEPT !.status = s]
    <2>2. /\ row \in CallType /\ row.status = s /\ row.tool = toolCall[k].tool
          /\ row.approved = toolCall[k].approved
      BY <1>0 DEF CallType, Statuses, Unresolved
    <2>3. toolCall[k].status = "unknown" /\ toolCall' = [toolCall EXCEPT ![k] = row]
      BY <1>3, <2>1 DEF Reconcile
    <2> HIDE DEF row
    <2> QED
      BY <1>1, <2>2, <2>3 DEF Unresolved
  <1> QED
    BY <1>2, <1>3

\* Whatever stops the job decides every row that was open.
LEMMA StopStep ==
  ASSUME ToolInv, JobRowFree, CancelOpenCalls,
         UNCHANGED <<request, toolLock, acted>>,
         toolJob' \in [status : {"running", "ended"}, cancel : BOOLEAN, fresh : BOOLEAN],
         toolMember' \in BOOLEAN
  PROVE  ToolInv'
  <1>1. ASSUME NEW k \in Calls
        PROVE  /\ toolCall'[k] \in CallType /\ toolCall'[k].tool = toolCall[k].tool
               /\ toolCall'[k].approved = toolCall[k].approved
               /\ \/ /\ toolCall[k].status \in {"pending", "approved"}
                     /\ toolCall'[k].status = "cancelled"
                  \/ toolCall[k].status = "executing" /\ toolCall'[k].status = "unknown"
                  \/ /\ toolCall[k].status \notin {"pending", "approved", "executing"}
                     /\ toolCall'[k].status = toolCall[k].status
    <2>1. toolCall[k] \in CallType
      BY DEF ToolInv, ToolsTyped
    <2>2. CASE toolCall[k].status \in {"pending", "approved"}
      <3>1. toolCall'[k] = [toolCall[k] EXCEPT !.status = "cancelled"]
        BY <2>2 DEF CancelOpenCalls
      <3> QED
        BY <2>1, <2>2, <3>1 DEF CallType, Statuses, Unresolved
    <2>3. CASE toolCall[k].status = "executing"
      <3>1. toolCall'[k] = [toolCall[k] EXCEPT !.status = "unknown"]
        BY <2>3 DEF CancelOpenCalls
      <3> QED
        BY <2>1, <2>3, <3>1 DEF CallType, Statuses, Unresolved
    <2>4. CASE toolCall[k].status \notin {"pending", "approved", "executing"}
      <3>1. toolCall'[k] = toolCall[k]
        BY <2>4 DEF CancelOpenCalls
      <3> QED
        BY <2>1, <2>4, <3>1
    <2> QED
      BY <2>2, <2>3, <2>4
  <1>2. toolCall' \in [Calls -> CallType]
    BY <1>1 DEF CancelOpenCalls
  <1>3. OnceEach'
    BY <1>1 DEF ToolInv, RowsOK, OnceEach, Undecided
  <1>4. Approvals'
    BY <1>1 DEF ToolInv, RowsOK, OnceEach, Approvals, Undecided, MayHaveHappened
  <1>5. OneUnresolved'
    <2>1. \A k \in Calls : toolCall'[k].status \in Unresolved => toolCall[k].status \in Unresolved
      BY <1>1 DEF Unresolved
    <2> QED
      BY <1>1, <2>1 DEF ToolInv, RowsOK, OneUnresolved
  <1>6. StoppedIsDecided'
    BY <1>1 DEF StoppedIsDecided
  <1>7. \A q \in ReqType : Knows(q) => Knows(q)'
    BY <1>1 DEF Knows, Undecided
  <1> QED
    BY <1>2, <1>3, <1>4, <1>5, <1>6, <1>7, RequestsStay DEF ToolInv, ToolsTyped, RowsOK

\* Every step keeps the invariant.
LEMMA ToolStep == ToolInv /\ [NextTools]_toolVars => ToolInv'
  <1> SUFFICES ASSUME ToolInv, [NextTools]_toolVars PROVE ToolInv'
    OBVIOUS
  <1>1. ASSUME toolJob' \in [status : {"running", "ended"}, cancel : BOOLEAN, fresh : BOOLEAN],
               toolJob'.status = toolJob.status, toolJob'.cancel = toolJob.cancel,
               UNCHANGED <<toolMember, toolCall, request, toolLock, acted>>
        PROVE  ToolInv'
    BY <1>1 DEF ToolInv, ToolsTyped, RequestsKnow, RequestAt, Knows, OneOwner, RowsOK, OnceEach,
                Approvals, OneUnresolved, StoppedIsDecided, ToolJobActive
  <1>2. CASE UNCHANGED toolVars
    BY <1>1, <1>2 DEF toolVars, ToolInv, ToolsTyped
  <1>3. ASSUME NEW r \in Requests, RequestSteps(r) PROVE ToolInv'
    BY <1>3, AuthenticateStep, PrepareStep, WaitStep, CallClaimStep, BeginStep, CallRecordStep,
       LoseStep, CloseStep, KillStep DEF RequestSteps
  <1>4. ASSUME NEW k \in Calls, Resolve(k) \/ Reconcile(k) PROVE ToolInv'
    BY <1>4, CallOwnerStep
  <1>5. CASE CancelToolJob
    BY <1>5, StopStep DEF CancelToolJob, ToolInv, ToolsTyped
  <1>6. CASE EndToolJob
    BY <1>6, StopStep DEF EndToolJob, ToolInv, ToolsTyped
  <1>7. CASE RemoveToolOwner
    BY <1>7, StopStep DEF RemoveToolOwner, ToolInv, ToolsTyped
  <1>8. CASE Heartbeats
    BY <1>1, <1>8 DEF Heartbeats, ToolInv, ToolsTyped
  <1> QED
    BY <1>2, <1>3, <1>4, <1>5, <1>6, <1>7, <1>8 DEF NextTools

-----------------------------------------------------------------------------
(* Theorems.                                                               *)

\* The variables keep their types.
THEOREM ToolsTypeCorrect == ToolSpec => []ToolsTypeOK
  <1>1. ToolInv => ToolsTypeOK
    BY DEF ToolInv, ToolsTyped, ToolsTypeOK, CallType, ReqType, Statuses, HasCall
  <1> QED
    BY <1>1, ToolInit, ToolStep, PTL DEF ToolSpec

\* A write reaches the outside world at most once per approval, and is not asked
\* again while an earlier one of the same kind may have happened
\* (executeCodingAgentToolCall, prepareCodingAgentToolCall).
THEOREM WritesOnce == ToolSpec => []WritesRunOnce
  <1>1. ToolInv => WritesRunOnce
    BY DEF ToolInv, ToolsTyped, RowsOK, OnceEach, Approvals, OneUnresolved, WritesRunOnce, Rows
  <1> QED
    BY <1>1, ToolInit, ToolStep, PTL DEF ToolSpec

\* A write that was begun is never recorded as not done, and a stopped job leaves
\* no call open (executeCodingAgentToolCall, cancelOpenToolCalls).
THEOREM BegunNotDenied == ToolSpec => []BegunIsNotDenied
  <1>1. ToolInv => BegunIsNotDenied
    BY DEF ToolInv, ToolsTyped, RowsOK, Approvals, StoppedIsDecided, BegunIsNotDenied, Rows,
           MayHaveHappened
  <1> QED
    BY <1>1, ToolInit, ToolStep, PTL DEF ToolSpec

-----------------------------------------------------------------------------
(***************************************************************************)
(* Codex authentication, for any number of attempts: a connected           *)
(* credential was earned by a member and an attempt nobody cancelled.      *)
(***************************************************************************)
AttemptType == [status : OpenStatus \cup {"none", "connected", "cancelled", "failed", "expired"},
            active : BOOLEAN, claimed : BOOLEAN, cancel : BOOLEAN, expired : BOOLEAN,
            fresh : BOOLEAN]
LoginType == [pc : {"none", "load", "create", "login", "complete", "finish", "cleanup", "done"},
              ctx : {"none", "live", "cancelled", "deadline"},
              verdict : {"none", "cancelled", "failed", "expired"}]

AuthTyped == /\ attempt \in [Attempts -> AttemptType] /\ login \in [Attempts -> LoginType]
         /\ authCred \in [status : {"none", "connected", "revoked"},
                          from : Attempts \cup {NoAttempt}]
         /\ authMember \in BOOLEAN /\ starting \in BOOLEAN

\* Only open attempts are active, and at most one is; whoever may complete an open
\* attempt still holds its claim, so the row and the credential change together.
OneActive ==
    /\ \A x \in Attempts : attempt[x].active => Open(x)
    /\ \A x, y \in Attempts : attempt[x].active /\ attempt[y].active => x = y
OpenIsClaimed == \A x \in Attempts : Open(x) => attempt[x].claimed

AuthInv == AuthTyped /\ OneActive /\ OpenIsClaimed /\ CredentialIsEarned

-----------------------------------------------------------------------------
(* Lemmas.                                                                 *)

\* Before anybody asked, the invariant holds.
LEMMA AuthInit == InitAuth => AuthInv
  <1> SUFFICES ASSUME InitAuth PROVE AuthInv
    OBVIOUS
  <1>1. NoRow \in AttemptType /\ NoRow.status = "none" /\ ~NoRow.active
    BY DEF NoRow, AttemptType, OpenStatus
  <1>2. NoLogin \in LoginType
    BY DEF NoLogin, LoginType
  <1>3. \A x \in Attempts : attempt[x] = NoRow
    BY DEF InitAuth
  <1>4. AuthTyped /\ authCred.status = "none"
    BY <1>1, <1>2 DEF InitAuth, AuthTyped
  <1>5. OneActive /\ OpenIsClaimed
    BY <1>1, <1>3 DEF OneActive, OpenIsClaimed, Open, OpenStatus
  <1> QED
    BY <1>4, <1>5 DEF AuthInv, CredentialIsEarned

\* The steps that write one row at most keep the invariant if the row stays as
\* it is, keeps its status among the open ones, or is closed while it was open.
LEMMA RowStep ==
  ASSUME AuthInv, NEW x \in Attempts, NEW row \in AttemptType,
         attempt' = [attempt EXCEPT ![x] = row],
         login' \in [Attempts -> LoginType], starting' \in BOOLEAN,
         UNCHANGED <<authCred, authMember>>,
         \/ row = attempt[x]
         \/ Open(x) /\ row.status \in OpenStatus /\ row.claimed
                    /\ (row.active => attempt[x].active)
         \/ Open(x) /\ row.status \notin OpenStatus /\ ~row.active
  PROVE  AuthInv'
  <1>1. /\ attempt' \in [Attempts -> AttemptType] /\ attempt'[x] = row
        /\ \A y \in Attempts \ {x} : attempt'[y] = attempt[y]
    BY DEF AuthInv, AuthTyped
  <1>2. AuthTyped'
    BY <1>1 DEF AuthInv, AuthTyped
  <1>3. OneActive' /\ OpenIsClaimed'
    BY <1>1 DEF AuthInv, OneActive, OpenIsClaimed, Open
  <1>4. CredentialIsEarned'
    BY <1>1 DEF AuthInv, CredentialIsEarned, Open, OpenStatus
  <1> QED
    BY <1>2, <1>3, <1>4 DEF AuthInv

\* What closes a row, and what leaves it open.
LEMMA AttemptRows ==
  ASSUME AuthInv, NEW x \in Attempts
  PROVE  /\ attempt[x] \in AttemptType
         /\ \A status \in {"connected", "cancelled", "failed", "expired", "none"} :
               /\ Ended(attempt[x], status) \in AttemptType
               /\ Ended(attempt[x], status).status = status
               /\ ~Ended(attempt[x], status).active
               /\ Ended(attempt[x], status).cancel = attempt[x].cancel
         /\ Cancelled(attempt[x]) \in AttemptType
         /\ Cancelled(attempt[x]).status = "cancelled" /\ ~Cancelled(attempt[x]).active
  BY DEF AuthInv, AuthTyped, AttemptType, Ended, Cancelled

\* A step of the goroutine that writes no row.
LEMMA LoginStep ==
  ASSUME AuthInv, login' \in [Attempts -> LoginType], starting' \in BOOLEAN,
         UNCHANGED <<attempt, authCred, authMember>>
  PROVE  AuthInv'
  BY DEF AuthInv, AuthTyped, OneActive, OpenIsClaimed, CredentialIsEarned, Open, LoginType

\* Where the goroutine goes.
LEMMA LoginGoes ==
  ASSUME AuthInv, NEW x \in Attempts
  PROVE  /\ \A pc \in {"create", "login", "complete", "cleanup"} :
               GoTo(x, pc) => login' \in [Attempts -> LoginType]
         /\ \A v \in {"cancelled", "failed", "expired"} :
               FinishAs(x, v) => login' \in [Attempts -> LoginType]
         /\ OverFor(x) => login' \in [Attempts -> LoginType]
  <1>1. login \in [Attempts -> LoginType] /\ login[x] \in LoginType
    BY DEF AuthInv, AuthTyped
  <1>2. ASSUME NEW pc \in {"create", "login", "complete", "cleanup"}, GoTo(x, pc)
        PROVE  login' \in [Attempts -> LoginType]
    <2>1. [login[x] EXCEPT !.pc = pc] \in LoginType
      BY <1>1 DEF LoginType
    <2> QED
      BY <1>1, <1>2, <2>1 DEF GoTo
  <1>3. ASSUME NEW v \in {"cancelled", "failed", "expired"}, FinishAs(x, v)
        PROVE  login' \in [Attempts -> LoginType]
    <2>1. [login[x] EXCEPT !.pc = "finish", !.verdict = v] \in LoginType
      BY <1>1 DEF LoginType
    <2> QED
      BY <1>1, <1>3, <2>1 DEF FinishAs
  <1>4. [NoLogin EXCEPT !.pc = "done"] \in LoginType
    BY DEF NoLogin, LoginType
  <1>5. OverFor(x) => login' \in [Attempts -> LoginType]
    BY <1>1, <1>4 DEF OverFor
  <1> QED
    BY <1>2, <1>3, <1>5

\* A new attempt closes an expired one; the credential's own is closed already.
LEMMA CreateStep ==
  ASSUME AuthInv, CreateAttempt PROVE AuthInv'
  <1>1. CASE UNCHANGED <<attempt, login>>
    BY <1>1, LoginStep DEF CreateAttempt, AuthInv, AuthTyped
  <1>2. ASSUME NEW x \in Attempts, attempt[x].status = "none",
               attempt' = [y \in Attempts |->
                    IF y = x THEN [NoRow EXCEPT !.status = "provisioning",
                                                !.active = TRUE, !.claimed = TRUE]
                    ELSE IF attempt[y].active THEN Ended(attempt[y], "expired")
                    ELSE attempt[y]],
               login' = [login EXCEPT ![x].pc = "load", ![x].ctx = "live"]
        PROVE  AuthInv'
    <2> DEFINE new == [NoRow EXCEPT !.status = "provisioning", !.active = TRUE, !.claimed = TRUE]
    <2>1. /\ new \in AttemptType /\ new.status = "provisioning" /\ new.active /\ new.claimed
      BY DEF NoRow, AttemptType, OpenStatus
    <2>2. attempt'[x] = new
      BY <1>2
    <2>3. ASSUME NEW y \in Attempts, y # x
          PROVE  /\ attempt'[y] \in AttemptType /\ ~attempt'[y].active
                 /\ \/ attempt'[y] = attempt[y]
                    \/ attempt[y].active /\ attempt'[y].status = "expired"
      BY <1>2, <2>3, AttemptRows DEF AuthInv, AuthTyped, AttemptType
    <2> HIDE DEF new
    <2>4. attempt' \in [Attempts -> AttemptType]
      BY <1>2, <2>1, <2>2, <2>3
    <2>5. login' \in [Attempts -> LoginType]
      BY <1>2 DEF AuthInv, AuthTyped, LoginType
    <2>6. AuthTyped'
      BY <2>4, <2>5 DEF CreateAttempt, AuthInv, AuthTyped
    <2>7. OneActive' /\ OpenIsClaimed'
      BY <2>1, <2>2, <2>3 DEF AuthInv, OneActive, OpenIsClaimed, Open, OpenStatus
    <2>8. CredentialIsEarned'
      BY <1>2, <2>3 DEF CreateAttempt, AuthInv, OneActive, CredentialIsEarned, Open, OpenStatus
    <2> QED
      BY <2>6, <2>7, <2>8 DEF AuthInv
  <1> QED
    BY <1>1, <1>2 DEF CreateAttempt

\* Removal revokes the credential and cancels what is open.
LEMMA RemovalStep ==
  ASSUME AuthInv, RemoveFromOrganization PROVE AuthInv'
  <1>1. ASSUME NEW y \in Attempts
        PROVE  /\ attempt'[y] \in AttemptType
               /\ \/ attempt'[y] = attempt[y]
                  \/ attempt'[y].status = "cancelled" /\ ~attempt'[y].active
    BY AttemptRows DEF RemoveFromOrganization, AuthInv, AuthTyped
  <1>2. attempt' \in [Attempts -> AttemptType]
    BY <1>1 DEF RemoveFromOrganization
  <1>3. AuthTyped' /\ authCred'.status # "connected"
    BY <1>2 DEF RemoveFromOrganization, AuthInv, AuthTyped, CredentialIsEarned
  <1>4. OneActive' /\ OpenIsClaimed'
    BY <1>1 DEF AuthInv, OneActive, OpenIsClaimed, Open, OpenStatus
  <1> QED
    BY <1>3, <1>4 DEF AuthInv, CredentialIsEarned

\* completeCodexConnection: the credential and its attempt change together.
LEMMA CompleteStep ==
  ASSUME AuthInv, NEW x \in Attempts, CompleteConnection(x) PROVE AuthInv'
  <1>1. CASE UNCHANGED <<attempt, authCred>>
    BY <1>1, LoginGoes, LoginStep DEF CompleteConnection, AuthInv, AuthTyped
  <1>2. CASE /\ MayComplete(x)
             /\ authCred' = [status |-> "connected", from |-> x]
             /\ attempt' = [attempt EXCEPT ![x] =
                   IF attempt[x].claimed /\ Open(x) THEN Ended(attempt[x], "connected")
                   ELSE attempt[x]]
    <2>1. attempt[x].claimed /\ Open(x) /\ authMember /\ ~attempt[x].cancel
      BY <1>2 DEF MayComplete, AuthInv, OpenIsClaimed
    <2>2. /\ attempt' \in [Attempts -> AttemptType]
          /\ attempt'[x].status = "connected" /\ ~attempt'[x].active /\ ~attempt'[x].cancel
          /\ \A y \in Attempts \ {x} : attempt'[y] = attempt[y]
      BY <1>2, <2>1, AttemptRows DEF AuthInv, AuthTyped
    <2>3. login' \in [Attempts -> LoginType]
      BY LoginGoes DEF CompleteConnection
    <2>4. AuthTyped'
      BY <1>2, <2>2, <2>3 DEF CompleteConnection, AuthInv, AuthTyped
    <2>5. OneActive' /\ OpenIsClaimed'
      BY <2>2 DEF AuthInv, OneActive, OpenIsClaimed, Open, OpenStatus
    <2>6. CredentialIsEarned'
      BY <1>2, <2>1, <2>2 DEF CompleteConnection, CredentialIsEarned
    <2> QED
      BY <2>4, <2>5, <2>6 DEF AuthInv
  <1> QED
    BY <1>1, <1>2 DEF CompleteConnection

\* Every step keeps the invariant.
LEMMA AuthStep == AuthInv /\ [NextAuth]_authVars => AuthInv'
  <1> SUFFICES ASSUME AuthInv, [NextAuth]_authVars PROVE AuthInv'
    OBVIOUS
  <1>1. CASE UNCHANGED authVars
    BY <1>1, LoginStep DEF authVars, AuthInv, AuthTyped
  <1>2. CASE StartConnection
    BY <1>2, LoginStep DEF StartConnection, AuthInv, AuthTyped
  <1>3. CASE CreateAttempt
    BY <1>3, CreateStep
  <1>4. CASE DisconnectCredential
    BY <1>4 DEF DisconnectCredential, AuthInv, AuthTyped, OneActive, OpenIsClaimed,
                CredentialIsEarned, Open
  <1>5. CASE RemoveFromOrganization
    BY <1>5, RemovalStep
  <1>6. ASSUME NEW x \in Attempts, LoginSteps(x) PROVE AuthInv'
    <2>1. CASE LoadAttempt(x)
      BY <2>1, LoginGoes, LoginStep DEF LoadAttempt, AuthInv, AuthTyped
    <2>2. CASE CreateAuthSandbox(x)
      BY <2>2, LoginGoes, LoginStep DEF CreateAuthSandbox, AuthInv, AuthTyped
    <2>3. CASE LoginSucceeds(x)
      BY <2>3, LoginGoes, LoginStep DEF LoginSucceeds, AuthInv, AuthTyped
    <2>4. CASE LoginFails(x)
      BY <2>4, LoginGoes, LoginStep DEF LoginFails, AuthInv, AuthTyped
    <2>5. CASE CompleteConnection(x)
      BY <2>5, CompleteStep
    <2>6. CASE FinishAuthAttempt(x)
      <3>1. login' \in [Attempts -> LoginType] /\ starting' \in BOOLEAN
        BY <2>6 DEF FinishAuthAttempt, AuthInv, AuthTyped, LoginType
      <3>2. CASE UNCHANGED attempt
        BY <2>6, <3>1, <3>2, LoginStep DEF FinishAuthAttempt
      <3>3. CASE attempt' = [attempt EXCEPT ![x] =
                    IF attempt[x].claimed /\ Open(x) THEN Ended(attempt[x], login[x].verdict)
                    ELSE attempt[x]]
        <4>1. login[x].verdict \in {"cancelled", "failed", "expired", "none"}
          BY DEF AuthInv, AuthTyped, LoginType
        <4> DEFINE row == IF attempt[x].claimed /\ Open(x)
                          THEN Ended(attempt[x], login[x].verdict) ELSE attempt[x]
        <4>2. row \in AttemptType
          BY <4>1, AttemptRows
        <4>3. \/ row = attempt[x]
              \/ Open(x) /\ row.status \notin OpenStatus /\ ~row.active
          BY <4>1, AttemptRows DEF OpenStatus
        <4>4. attempt' = [attempt EXCEPT ![x] = row]
          BY <3>3
        <4> HIDE DEF row
        <4> QED
          BY <2>6, <3>1, <4>2, <4>3, <4>4, RowStep DEF FinishAuthAttempt
      <3> QED
        BY <2>6, <3>2, <3>3 DEF FinishAuthAttempt
    <2>7. CASE CleanUp(x)
      BY <2>7, LoginGoes, LoginStep DEF CleanUp, AuthInv, AuthTyped
    <2> QED
      BY <1>6, <2>1, <2>2, <2>3, <2>4, <2>5, <2>6, <2>7 DEF LoginSteps
  <1>7. ASSUME NEW x \in Attempts, AuthClock(x) \/ ShowCode(x) \/ HeartbeatAges(x)
        PROVE  AuthInv'
    <2>1. attempt[x] \in AttemptType /\ login' \in [Attempts -> LoginType] /\ starting' \in BOOLEAN
      BY <1>7 DEF AuthClock, ShowCode, HeartbeatAges, AttemptExpires, ContextExpires,
                  MonitorAuthCancellation, AuthInv, AuthTyped, LoginType
    <2>2. CASE UNCHANGED attempt
      BY <1>7, <2>1, <2>2, LoginStep DEF AuthClock, ShowCode, HeartbeatAges, AttemptExpires,
                  ContextExpires, MonitorAuthCancellation
    <2>3. ASSUME NEW row \in AttemptType, attempt' = [attempt EXCEPT ![x] = row], Open(x),
                 row.status \in OpenStatus, row.claimed = attempt[x].claimed,
                 row.active = attempt[x].active
          PROVE  AuthInv'
      <3>1. UNCHANGED <<authCred, authMember>>
        BY <1>7 DEF AuthClock, ShowCode, HeartbeatAges, AttemptExpires,
                    ContextExpires, MonitorAuthCancellation
      <3>2. row.claimed
        BY <2>3 DEF AuthInv, OpenIsClaimed
      <3> QED
        BY <2>1, <2>3, <3>1, <3>2, RowStep
    <2>4. CASE AttemptExpires(x)
      <3> DEFINE row == [attempt[x] EXCEPT !.expired = TRUE]
      <3>1. /\ row \in AttemptType /\ row.status = attempt[x].status
            /\ row.claimed = attempt[x].claimed /\ row.active = attempt[x].active
        BY <2>1 DEF AttemptType
      <3>2. attempt' = [attempt EXCEPT ![x] = row] /\ Open(x)
        BY <2>4 DEF AttemptExpires
      <3> HIDE DEF row
      <3> QED
        BY <2>3, <3>1, <3>2 DEF Open
    <2>5. CASE ContextExpires(x)
      BY <2>2, <2>5 DEF ContextExpires
    <2>6. CASE MonitorAuthCancellation(x)
      BY <2>1, <2>2, <2>3, <2>6 DEF MonitorAuthCancellation, AttemptType, Open
    <2>7. CASE ShowCode(x)
      BY <2>1, <2>3, <2>7 DEF ShowCode, AttemptType, OpenStatus
    <2>8. CASE HeartbeatAges(x)
      <3> DEFINE row == [attempt[x] EXCEPT !.fresh = FALSE]
      <3>1. /\ row \in AttemptType /\ row.status = attempt[x].status
            /\ row.claimed = attempt[x].claimed /\ row.active = attempt[x].active
        BY <2>1 DEF AttemptType
      <3>2. attempt' = [attempt EXCEPT ![x] = row] /\ Open(x)
        BY <2>8 DEF HeartbeatAges
      <3> HIDE DEF row
      <3> QED
        BY <2>3, <3>1, <3>2 DEF Open
    <2> QED
      BY <1>7, <2>4, <2>5, <2>6, <2>7, <2>8 DEF AuthClock
  <1>8. ASSUME NEW x \in Attempts, CancelAuthAttempt(x) PROVE AuthInv'
    <2>1. login' \in [Attempts -> LoginType]
      BY <1>8 DEF CancelAuthAttempt, AuthInv, AuthTyped, LoginType
    <2>2. Cancelled(attempt[x]).status \notin OpenStatus
      BY AttemptRows DEF OpenStatus
    <2> QED
      BY <1>8, <2>1, <2>2, AttemptRows, RowStep DEF CancelAuthAttempt, AuthInv, AuthTyped
  <1>9. ASSUME NEW x \in Attempts, ReconcileAuthAttempt(x) PROVE AuthInv'
    <2> DEFINE status == IF attempt[x].cancel THEN "cancelled"
                         ELSE IF attempt[x].expired THEN "expired" ELSE "failed"
    <2>1. status \in {"cancelled", "expired", "failed"} /\ status \notin OpenStatus
      BY DEF OpenStatus
    <2>2. attempt' = [attempt EXCEPT ![x] = Ended(attempt[x], status)] /\ Open(x)
      BY <1>9 DEF ReconcileAuthAttempt, StaleAttempt
    <2> HIDE DEF status
    <2>3. Ended(attempt[x], status) \in AttemptType /\ Ended(attempt[x], status).status \notin OpenStatus
          /\ ~Ended(attempt[x], status).active
      BY <2>1, AttemptRows
    <2> QED
      BY <1>9, <2>2, <2>3, RowStep DEF ReconcileAuthAttempt, AuthInv, AuthTyped
  <1>10. ASSUME NEW x \in Attempts, CrashLogin(x) PROVE AuthInv'
    BY <1>10, LoginGoes, LoginStep DEF CrashLogin, AuthInv, AuthTyped
  <1> QED
    BY <1>1, <1>2, <1>3, <1>4, <1>5, <1>6, <1>7, <1>8, <1>9, <1>10 DEF NextAuth

-----------------------------------------------------------------------------
(* Theorems.                                                               *)

\* A connected credential belongs to a member and to an attempt that is recorded
\* as connected and that nobody cancelled (completeCodexConnection).
THEOREM CredentialEarned == AuthSpec => []CredentialIsEarned
  <1>1. AuthInv => CredentialIsEarned
    BY DEF AuthInv
  <1> QED
    BY <1>1, AuthInit, AuthStep, PTL DEF AuthSpec

\* The rows are well formed: of a member's attempts at most one is active.
THEOREM AuthTypeCorrect == AuthSpec => []AuthTypeOK
  <1>1. AuthInv => AuthTypeOK
    BY DEF AuthInv, AuthTypeOK, AuthTyped, OneActive, AttemptType, LoginType, ActiveAttempts
  <1> QED
    BY <1>1, AuthInit, AuthStep, PTL DEF AuthSpec

-----------------------------------------------------------------------------
(***************************************************************************)
(* Seats, for any number of people, invitations and seat orders: an        *)
(* organization never takes more seats than were ever billed.              *)
(***************************************************************************)
Pcs == {"new", "asked", "locked", "counted", "email", "done"}
InviteType == [pc : Pcs, who : People \cup {NoOne}, paid : Nat, members : Nat]
AcceptType == [pc : {"new", "joining", "done"}, who : People \cup {NoOne}]

SeatsTyped ==
    /\ orgRole \in [People -> {"none", "member", "owner"}]
    /\ invitation \in [People -> {"none", "pending", "expired", "revoked", "accepted"}]
    /\ inviting \in [Invites -> InviteType] /\ accepting \in [Accepts -> AcceptType]
    /\ removing \in [People -> BOOLEAN]
    /\ billed \subseteq Quantities /\ seats \in billed
    /\ overtaken \subseteq People

\* The organization is locked by the one request that counts, and an invitation by
\* the one acceptance that joins.
LockInv ==
    /\ orgLock \in Invites \cup {NoOne}
    /\ \A i \in Invites : inviting[i].pc \in {"locked", "counted"} <=> orgLock = i
    /\ \A i \in Invites : inviting[i].pc \in {"asked", "locked", "counted", "email"}
                              => inviting[i].who \in People /\ inviting[i].paid \in billed
    /\ \A q \in Accepts : accepting[q].pc = "joining" => accepting[q].who \in People
    /\ \A q, r \in Accepts : accepting[q].pc = "joining" /\ accepting[r].pc = "joining"
                                 /\ accepting[q].who = accepting[r].who => q = r

\* What an open Invite has counted only shrinks; an acceptance that lost its
\* invitation to the clock was counted as overtaken; and a seat somebody is about
\* to take counts as taken.
Taken == {p \in People : RowTaken(p)}
Reserved == Pending \cup Taken
CountInv == \A i \in Invites : inviting[i].pc = "counted" => Cardinality(Members) <= inviting[i].members
OvertakenInv == Taken \subseteq Pending \cup overtaken
HasMax == \E m \in billed : \A n \in billed : m >= n
Fits == Cardinality(Members) + Cardinality(Reserved) <= Max(billed) + Cardinality(overtaken)

SeatInv == SeatsTyped /\ LockInv /\ CountInv /\ OvertakenInv /\ HasMax /\ Fits

-----------------------------------------------------------------------------
(* Lemmas: counting.                                                       *)

\* SeatSets of people can be counted.
LEMMA Counted ==
  ASSUME NEW S \in SUBSET People
  PROVE  IsFiniteSet(S) /\ Cardinality(S) \in Nat
  BY SeatNumbers, FS_Subset, FS_CardinalityType

\* A larger set counts more.
LEMMA Grows ==
  ASSUME NEW S \in SUBSET People, NEW T \in SUBSET People, S \subseteq T
  PROVE  Cardinality(S) <= Cardinality(T)
  BY Counted, FS_Subset

\* One more person, or one less.
LEMMA OneMore ==
  ASSUME NEW S \in SUBSET People, NEW p \in People
  PROVE  /\ Cardinality(S \cup {p}) <= Cardinality(S) + 1
         /\ p \in S => Cardinality(S \ {p}) = Cardinality(S) - 1
  <1>1. IsFiniteSet(S) /\ Cardinality(S) \in Nat
    BY Counted
  <1> QED
    BY <1>1, FS_AddElement, FS_RemoveElement

\* The most that two sets count together.
LEMMA Together ==
  ASSUME NEW S \in SUBSET People, NEW T \in SUBSET People
  PROVE  Cardinality(S \cup T) <= Cardinality(S) + Cardinality(T)
  <1>1. /\ IsFiniteSet(S) /\ Cardinality(S) \in Nat /\ IsFiniteSet(T) /\ Cardinality(T) \in Nat
        /\ Cardinality(S \cap T) \in Nat
    BY Counted
  <1>2. Cardinality(S \cup T) = Cardinality(S) + Cardinality(T) - Cardinality(S \cap T)
    BY <1>1, FS_Union
  <1> QED
    BY <1>1, <1>2

\* The largest quantity is one of them.
LEMMA Largest ==
  ASSUME NEW B, B \subseteq Quantities, \E m \in B : \A n \in B : m >= n
  PROVE  Max(B) \in B /\ Max(B) \in Nat /\ \A n \in B : n <= Max(B)
  <1>1. Max(B) \in B /\ \A n \in B : Max(B) >= n
    BY DEF Max
  <1> QED
    BY <1>1, SeatNumbers

\* Everybody counted is one of the people.
LEMMA SeatSets ==
  /\ Members \subseteq People /\ Pending \subseteq People /\ Taken \subseteq People
  /\ Reserved \subseteq People
  /\ Members' \subseteq People /\ Pending' \subseteq People /\ Taken' \subseteq People
  /\ Reserved' \subseteq People
  BY DEF Members, Pending, Taken, Reserved

\* Before anybody is invited the owners fit.
LEMMA SeatInit == InitSeats => SeatInv
  <1> SUFFICES ASSUME InitSeats PROVE SeatInv
    OBVIOUS
  <1>1. [Idle EXCEPT !.pc = "new"] \in InviteType /\ [Idle EXCEPT !.pc = "new"].pc = "new"
    BY DEF Idle, InviteType, Pcs
  <1>2. SeatsTyped
    BY <1>1, SeatNumbers DEF InitSeats, SeatsTyped, AcceptType
  <1>3. \A i \in Invites : inviting[i].pc = "new"
    BY <1>1 DEF InitSeats
  <1>4. LockInv /\ CountInv
    BY <1>3, SeatNumbers DEF InitSeats, LockInv, CountInv
  <1>5. Pending = {} /\ Taken = {} /\ Members = Owners
    BY SeatNumbers DEF InitSeats, Pending, Taken, RowTaken, Members
  <1>6. OvertakenInv
    BY <1>5 DEF OvertakenInv
  <1>7. HasMax
    BY SeatNumbers DEF InitSeats, HasMax
  <1>8. Max(billed) = FirstSeats
    BY <1>7, SeatNumbers, Largest DEF InitSeats, HasMax
  <1>9. Cardinality(Owners) \in Nat /\ FirstSeats \in Nat
    BY Counted, SeatNumbers
  <1>10. Cardinality(Reserved) = 0 /\ Cardinality(overtaken) = 0
    BY <1>5, FS_EmptySet DEF Reserved, InitSeats
  <1>11. Fits
    BY <1>5, <1>8, <1>9, <1>10, SeatNumbers DEF Fits
  <1> QED
    BY <1>2, <1>4, <1>6, <1>7, <1>11 DEF SeatInv

-----------------------------------------------------------------------------
(* Lemmas: types and locks.                                                *)

\* What the requests to invite write.
LEMMA InviteRows ==
  ASSUME SeatsTyped, NEW i \in Invites
  PROVE  /\ inviting[i] \in InviteType
         /\ Idle \in InviteType /\ Idle.pc = "done"
         /\ \A pc \in Pcs : /\ [inviting[i] EXCEPT !.pc = pc] \in InviteType
                            /\ [inviting[i] EXCEPT !.pc = pc].pc = pc
                            /\ [inviting[i] EXCEPT !.pc = pc].who = inviting[i].who
                            /\ [inviting[i] EXCEPT !.pc = pc].paid = inviting[i].paid
         /\ \A n \in Nat :
              LET row == [inviting[i] EXCEPT !.pc = "counted", !.members = n] IN
              /\ row \in InviteType /\ row.pc = "counted" /\ row.members = n
              /\ row.who = inviting[i].who /\ row.paid = inviting[i].paid
  <1>1. inviting[i] \in InviteType
    BY DEF SeatsTyped
  <1>2. Idle \in InviteType /\ Idle.pc = "done"
    BY DEF Idle, InviteType, Pcs
  <1>3. ASSUME NEW pc \in Pcs
        PROVE  /\ [inviting[i] EXCEPT !.pc = pc] \in InviteType
               /\ [inviting[i] EXCEPT !.pc = pc].pc = pc
               /\ [inviting[i] EXCEPT !.pc = pc].who = inviting[i].who
               /\ [inviting[i] EXCEPT !.pc = pc].paid = inviting[i].paid
    BY <1>1 DEF InviteType
  <1>4. ASSUME NEW n \in Nat
        PROVE  LET row == [inviting[i] EXCEPT !.pc = "counted", !.members = n] IN
               /\ row \in InviteType /\ row.pc = "counted" /\ row.members = n
               /\ row.who = inviting[i].who /\ row.paid = inviting[i].paid
    BY <1>1 DEF InviteType, Pcs
  <1> QED
    BY <1>1, <1>2, <1>3, <1>4

\* A step that changes one request to invite, and the lock of the organization
\* with it.
LEMMA OneInvites ==
  ASSUME SeatInv, NEW i \in Invites, NEW row \in InviteType,
         inviting' = [inviting EXCEPT ![i] = row],
         billed \subseteq billed', orgLock' \in Invites \cup {NoOne},
         row.pc \in {"asked", "locked", "counted", "email"} => row.who \in People /\ row.paid \in billed,
         \/ orgLock' = orgLock /\ (row.pc \in {"locked", "counted"} <=> inviting[i].pc \in {"locked", "counted"})
         \/ orgLock = NoOne /\ orgLock' = i /\ row.pc \in {"locked", "counted"}
         \/ orgLock = i /\ orgLock' = NoOne /\ row.pc \notin {"locked", "counted"}
  PROVE  /\ inviting' \in [Invites -> InviteType]
         /\ inviting'[i] = row /\ \A j \in Invites \ {i} : inviting'[j] = inviting[j]
         /\ \A j \in Invites : inviting'[j].pc \in {"locked", "counted"} <=> orgLock' = j
         /\ \A j \in Invites : inviting'[j].pc \in {"asked", "locked", "counted", "email"}
                                 => inviting'[j].who \in People /\ inviting'[j].paid \in billed'
  <1>0. SeatsTyped /\ LockInv
    BY DEF SeatInv
  <1>1. /\ inviting' \in [Invites -> InviteType]
        /\ inviting'[i] = row /\ \A j \in Invites \ {i} : inviting'[j] = inviting[j]
    BY <1>0 DEF SeatsTyped
  <1>2. \A j \in Invites : inviting'[j].pc \in {"locked", "counted"} <=> orgLock' = j
    BY <1>0, <1>1, SeatNumbers DEF LockInv
  <1>3. \A j \in Invites : inviting'[j].pc \in {"asked", "locked", "counted", "email"}
                                 => inviting'[j].who \in People /\ inviting'[j].paid \in billed'
    BY <1>0, <1>1 DEF LockInv
  <1> QED
    BY <1>1, <1>2, <1>3

\* An acceptance ends or begins; no two hold one invitation.
LEMMA OneAccepts ==
  ASSUME SeatInv, NEW q \in Accepts, NEW row \in AcceptType,
         accepting' = [accepting EXCEPT ![q] = row],
         row.pc = "done" \/ (row.who \in People /\ ~RowTaken(row.who))
  PROVE  /\ accepting' \in [Accepts -> AcceptType]
         /\ accepting'[q] = row /\ \A r \in Accepts \ {q} : accepting'[r] = accepting[r]
         /\ \A r \in Accepts : accepting'[r].pc = "joining" => accepting'[r].who \in People
         /\ \A r, t \in Accepts : accepting'[r].pc = "joining" /\ accepting'[t].pc = "joining"
                                    /\ accepting'[r].who = accepting'[t].who => r = t
  <1>0. SeatsTyped /\ LockInv
    BY DEF SeatInv
  <1>1. /\ accepting' \in [Accepts -> AcceptType]
        /\ accepting'[q] = row /\ \A r \in Accepts \ {q} : accepting'[r] = accepting[r]
    BY <1>0 DEF SeatsTyped
  <1>2. \A r \in Accepts : accepting'[r].pc = "joining" => accepting'[r].who \in People
    BY <1>0, <1>1 DEF LockInv
  <1>3. \A r, t \in Accepts : accepting'[r].pc = "joining" /\ accepting'[t].pc = "joining"
                                    /\ accepting'[r].who = accepting'[t].who => r = t
    BY <1>0, <1>1 DEF LockInv, RowTaken
  <1> QED
    BY <1>1, <1>2, <1>3

\* Every action keeps the types and the locks.
LEMMA SeatsTypedStep == ASSUME SeatInv, NextSeats PROVE SeatsTyped' /\ LockInv'
  <1>0. SeatsTyped /\ LockInv
    BY DEF SeatInv
  <1>1. ASSUME NEW i \in Invites, AskInvite(i) PROVE SeatsTyped' /\ LockInv'
    <2>1. PICK p \in People \ Members : inviting' = [inviting EXCEPT ![i] =
                [pc |-> "asked", who |-> p, paid |-> seats, members |-> 0]]
      BY <1>1 DEF AskInvite
    <2> DEFINE row == [pc |-> "asked", who |-> p, paid |-> seats, members |-> 0]
    <2>2. seats \in billed /\ seats \in Nat
      BY <1>0, SeatNumbers DEF SeatsTyped
    <2>3. row \in InviteType /\ row.pc = "asked" /\ row.who \in People /\ row.paid \in billed
      BY <2>2 DEF InviteType, Pcs
    <2>4. inviting' = [inviting EXCEPT ![i] = row] /\ inviting[i].pc = "new"
          /\ UNCHANGED <<orgRole, invitation, orgLock, accepting, removing, seats, billed, overtaken>>
      BY <1>1, <2>1 DEF AskInvite
    <2> HIDE DEF row
    <2>5. /\ inviting' \in [Invites -> InviteType]
          /\ \A j \in Invites : inviting'[j].pc \in {"locked", "counted"} <=> orgLock' = j
          /\ \A j \in Invites : inviting'[j].pc \in {"asked", "locked", "counted", "email"}
                                 => inviting'[j].who \in People /\ inviting'[j].paid \in billed'
      BY <1>0, <2>3, <2>4, OneInvites DEF LockInv
    <2> QED
      BY <1>0, <2>4, <2>5 DEF SeatsTyped, LockInv
  <1>2. ASSUME NEW i \in Invites, LockOrg(i) \/ CountMembers(i) PROVE SeatsTyped' /\ LockInv'
    <2>0. inviting[i].pc \in {"asked", "locked"}
      BY <1>2 DEF LockOrg, CountMembers
    <2>1. Cardinality(Members) \in Nat
      BY Counted, SeatSets
    <2>2. PICK row \in InviteType :
              /\ inviting' = [inviting EXCEPT ![i] = row]
              /\ row.pc \in {"locked", "counted"}
              /\ row.who = inviting[i].who /\ row.paid = inviting[i].paid
              /\ \/ orgLock' = orgLock /\ inviting[i].pc = "locked"
                 \/ orgLock = NoOne /\ orgLock' = i
      <3>1. CASE LockOrg(i)
        <4>1. [inviting[i] EXCEPT !.pc = "locked"] \in InviteType
              /\ inviting' = [inviting EXCEPT ![i] = [inviting[i] EXCEPT !.pc = "locked"]]
          BY <1>0, <3>1, InviteRows DEF LockOrg, Pcs
        <4> QED
          BY <1>0, <3>1, <4>1, InviteRows DEF LockOrg, Pcs
      <3>2. CASE CountMembers(i)
        <4> DEFINE row == [inviting[i] EXCEPT !.pc = "counted", !.members = Cardinality(Members)]
        <4>1. /\ row \in InviteType /\ row.pc = "counted"
              /\ row.who = inviting[i].who /\ row.paid = inviting[i].paid
          BY <1>0, <2>1, InviteRows
        <4>2. inviting' = [inviting EXCEPT ![i] = row] /\ orgLock' = orgLock /\ inviting[i].pc = "locked"
          BY <3>2 DEF CountMembers
        <4> HIDE DEF row
        <4> QED
          BY <4>1, <4>2
      <3> QED
        BY <1>2, <3>1, <3>2
    <2>3. UNCHANGED <<orgRole, invitation, accepting, removing, seats, billed, overtaken>>
      BY <1>2 DEF LockOrg, CountMembers
    <2>4. inviting[i].who \in People /\ inviting[i].paid \in billed
      BY <1>0, <2>0 DEF LockInv
    <2>5. orgLock' \in Invites \cup {NoOne}
      BY <1>0, <2>2 DEF LockInv
    <2>6. /\ inviting' \in [Invites -> InviteType]
          /\ \A j \in Invites : inviting'[j].pc \in {"locked", "counted"} <=> orgLock' = j
          /\ \A j \in Invites : inviting'[j].pc \in {"asked", "locked", "counted", "email"}
                                 => inviting'[j].who \in People /\ inviting'[j].paid \in billed'
      BY <2>2, <2>3, <2>4, <2>5, OneInvites
    <2> QED
      BY <1>0, <2>3, <2>5, <2>6 DEF SeatsTyped, LockInv
  <1>3. ASSUME NEW i \in Invites, GrantInvite(i) PROVE SeatsTyped' /\ LockInv'
    <2>1. PICK row \in InviteType :
              /\ inviting' = [inviting EXCEPT ![i] = row] /\ row.pc \in {"email", "done"}
              /\ row.pc = "email" => row.who = inviting[i].who /\ row.paid = inviting[i].paid
      <3>1. CASE Committed(i) < inviting[i].paid
        <4>1. [inviting[i] EXCEPT !.pc = "email"] \in InviteType
              /\ inviting' = [inviting EXCEPT ![i] = [inviting[i] EXCEPT !.pc = "email"]]
          BY <1>0, <1>3, <3>1, InviteRows DEF GrantInvite, Pcs
        <4> QED
          BY <1>0, <4>1, InviteRows DEF Pcs
      <3>2. CASE ~(Committed(i) < inviting[i].paid)
        BY <1>0, <1>3, <3>2, InviteRows DEF GrantInvite, Dropped
      <3> QED
        BY <3>1, <3>2
    <2>2. UNCHANGED <<orgRole, accepting, removing, seats, billed, overtaken>> /\ orgLock' = NoOne
          /\ inviting[i].pc = "counted"
      BY <1>3 DEF GrantInvite
    <2>3. inviting[i].who \in People /\ inviting[i].paid \in billed /\ orgLock = i
      BY <1>0, <2>2 DEF LockInv
    <2>4. invitation' \in [People -> {"none", "pending", "expired", "revoked", "accepted"}]
      BY <1>0, <1>3 DEF GrantInvite, SeatsTyped
    <2>5. /\ inviting' \in [Invites -> InviteType]
          /\ \A j \in Invites : inviting'[j].pc \in {"locked", "counted"} <=> orgLock' = j
          /\ \A j \in Invites : inviting'[j].pc \in {"asked", "locked", "counted", "email"}
                                 => inviting'[j].who \in People /\ inviting'[j].paid \in billed'
      BY <2>1, <2>2, <2>3, OneInvites
    <2> QED
      BY <1>0, <2>2, <2>4, <2>5 DEF SeatsTyped, LockInv
  <1>4. ASSUME NEW i \in Invites, Dropped(i), UNCHANGED <<billed>>,
               \/ orgLock' = orgLock /\ inviting[i].pc = "email"
               \/ orgLock' = NoOne /\ inviting[i].pc = "locked"
        PROVE  /\ inviting' \in [Invites -> InviteType]
               /\ \A j \in Invites : inviting'[j].pc \in {"locked", "counted"} <=> orgLock' = j
               /\ \A j \in Invites : inviting'[j].pc \in {"asked", "locked", "counted", "email"}
                                 => inviting'[j].who \in People /\ inviting'[j].paid \in billed'
    <2>1. inviting' = [inviting EXCEPT ![i] = Idle] /\ Idle \in InviteType /\ Idle.pc = "done"
      BY <1>0, <1>4, InviteRows DEF Dropped
    <2>2. orgLock' \in Invites \cup {NoOne} /\ (inviting[i].pc = "locked" => orgLock = i)
      BY <1>0, <1>4 DEF LockInv
    <2> QED
      BY <1>4, <2>1, <2>2, OneInvites
  <1>5. ASSUME NEW i \in Invites, SendInviteEmail(i) PROVE SeatsTyped' /\ LockInv'
    <2>1. invitation' \in [People -> {"none", "pending", "expired", "revoked", "accepted"}]
      BY <1>0, <1>5 DEF SendInviteEmail, SeatsTyped
    <2>2. /\ inviting' \in [Invites -> InviteType]
          /\ \A j \in Invites : inviting'[j].pc \in {"locked", "counted"} <=> orgLock' = j
          /\ \A j \in Invites : inviting'[j].pc \in {"asked", "locked", "counted", "email"}
                                 => inviting'[j].who \in People /\ inviting'[j].paid \in billed'
      BY <1>4, <1>5 DEF SendInviteEmail
    <2> QED
      BY <1>0, <1>5, <2>1, <2>2 DEF SendInviteEmail, SeatsTyped, LockInv
  <1>6. ASSUME NEW i \in Invites, NEW q \in Accepts, AbortDeadlock(i, q) PROVE SeatsTyped' /\ LockInv'
    <2>1. CASE UNCHANGED accepting
      <3>1. /\ inviting' \in [Invites -> InviteType]
            /\ \A j \in Invites : inviting'[j].pc \in {"locked", "counted"} <=> orgLock' = j
            /\ \A j \in Invites : inviting'[j].pc \in {"asked", "locked", "counted", "email"}
                                 => inviting'[j].who \in People /\ inviting'[j].paid \in billed'
        BY <1>0, <1>4, <1>6, <2>1 DEF AbortDeadlock, SeatsTyped, LockInv
      <3>2. orgLock' \in Invites \cup {NoOne}
        BY <1>0, <1>6 DEF AbortDeadlock, LockInv
      <3> QED
        BY <1>0, <1>6, <2>1, <3>1, <3>2 DEF AbortDeadlock, SeatsTyped, LockInv
    <2>2. CASE accepting' = [accepting EXCEPT ![q] = [pc |-> "done", who |-> NoOne]]
               /\ UNCHANGED <<inviting, orgLock>>
      <3>1. [pc |-> "done", who |-> NoOne] \in AcceptType
        BY DEF AcceptType
      <3>2. /\ accepting' \in [Accepts -> AcceptType]
            /\ \A r \in Accepts : accepting'[r].pc = "joining" => accepting'[r].who \in People
            /\ \A r, t \in Accepts : accepting'[r].pc = "joining" /\ accepting'[t].pc = "joining"
                                    /\ accepting'[r].who = accepting'[t].who => r = t
        BY <2>2, <3>1, OneAccepts
      <3> QED
        BY <1>0, <1>6, <2>2, <3>2 DEF AbortDeadlock, SeatsTyped, LockInv
    <2> QED
      BY <1>6, <2>1, <2>2 DEF AbortDeadlock
  <1>7. ASSUME NEW q \in Accepts, LockInvitation(q) \/ Join(q) PROVE SeatsTyped' /\ LockInv'
    <2>1. PICK row \in AcceptType :
              /\ accepting' = [accepting EXCEPT ![q] = row]
              /\ row.pc = "done" \/ (row.who \in People /\ ~RowTaken(row.who))
      <3>1. CASE LockInvitation(q)
        <4>1. PICK p \in Pending : ~RowTaken(p)
                     /\ accepting' = [accepting EXCEPT ![q] = [pc |-> "joining", who |-> p]]
          BY <3>1 DEF LockInvitation
        <4> DEFINE row == [pc |-> "joining", who |-> p]
        <4>2. row \in AcceptType /\ row.who \in People /\ ~RowTaken(row.who)
          BY <4>1 DEF AcceptType, Pending
        <4>3. accepting' = [accepting EXCEPT ![q] = row]
          BY <4>1
        <4> HIDE DEF row
        <4> QED
          BY <4>2, <4>3
      <3>2. CASE Join(q)
        <4> DEFINE row == [pc |-> "done", who |-> NoOne]
        <4>1. row \in AcceptType /\ row.pc = "done"
          BY DEF AcceptType
        <4>2. accepting' = [accepting EXCEPT ![q] = row]
          BY <3>2 DEF Join
        <4> HIDE DEF row
        <4> QED
          BY <4>1, <4>2
      <3> QED
        BY <1>7, <3>1, <3>2
    <2>2. /\ accepting' \in [Accepts -> AcceptType]
          /\ \A r \in Accepts : accepting'[r].pc = "joining" => accepting'[r].who \in People
          /\ \A r, t \in Accepts : accepting'[r].pc = "joining" /\ accepting'[t].pc = "joining"
                                    /\ accepting'[r].who = accepting'[t].who => r = t
      BY <2>1, OneAccepts
    <2>3. /\ orgRole' \in [People -> {"none", "member", "owner"}]
          /\ invitation' \in [People -> {"none", "pending", "expired", "revoked", "accepted"}]
      BY <1>0, <1>7 DEF LockInvitation, Join, SeatsTyped
    <2>4. UNCHANGED <<orgLock, inviting, removing, seats, billed, overtaken>>
      BY <1>7 DEF LockInvitation, Join
    <2> QED
      BY <1>0, <2>2, <2>3, <2>4 DEF SeatsTyped, LockInv
  <1>8. ASSUME NEW p \in People,
               RevokeInvite(p) \/ ExpireInvite(p) \/ CheckRemoval(p) \/ DeleteMember(p)
        PROVE  SeatsTyped' /\ LockInv'
    <2>1. /\ orgRole' \in [People -> {"none", "member", "owner"}]
          /\ invitation' \in [People -> {"none", "pending", "expired", "revoked", "accepted"}]
          /\ removing' \in [People -> BOOLEAN] /\ overtaken' \subseteq People
      BY <1>0, <1>8 DEF RevokeInvite, ExpireInvite, CheckRemoval, DeleteMember, SeatsTyped
    <2>2. UNCHANGED <<orgLock, inviting, accepting, seats, billed>>
      BY <1>8 DEF RevokeInvite, ExpireInvite, CheckRemoval, DeleteMember
    <2> QED
      BY <1>0, <2>1, <2>2 DEF SeatsTyped, LockInv
  <1>9. ASSUME NEW n \in Quantities, OrderSeats(n) \/ ApplySubscription(n) PROVE SeatsTyped' /\ LockInv'
    <2>1. billed' \subseteq Quantities /\ seats' \in billed' /\ billed \subseteq billed'
      BY <1>0, <1>9 DEF OrderSeats, ApplySubscription, SeatsTyped
    <2>2. UNCHANGED <<orgRole, invitation, orgLock, inviting, accepting, removing, overtaken>>
      BY <1>9 DEF OrderSeats, ApplySubscription
    <2> QED
      BY <1>0, <2>1, <2>2 DEF SeatsTyped, LockInv
  <1> QED
    BY <1>1, <1>2, <1>3, <1>5, <1>6, <1>7, <1>8, <1>9 DEF NextSeats

-----------------------------------------------------------------------------
(* Lemmas: the seats.                                                      *)

\* While an Invite that has counted holds the organization nobody joins.
LEMMA MemberCountStep == ASSUME SeatInv, NextSeats PROVE CountInv'
  <1>0. SeatsTyped /\ LockInv /\ CountInv
    BY DEF SeatInv
  <1> SUFFICES ASSUME NEW j \in Invites, inviting'[j].pc = "counted"
               PROVE  Cardinality(Members') <= inviting'[j].members
    BY DEF CountInv
  <1>1. CASE inviting'[j] = inviting[j]
    <2>1. orgLock = j /\ orgLock # NoOne /\ Cardinality(Members) <= inviting[j].members
      BY <1>0, <1>1, SeatNumbers DEF LockInv, CountInv
    <2>2. Members' \subseteq Members
      <3>1. ASSUME NEW q \in Accepts, Join(q) PROVE Members' \subseteq Members
        <4>1. orgRole[accepting[q].who] # "none"
          BY <2>1, <3>1 DEF Join, MayJoin
        <4> QED
          BY <1>0, <3>1, <4>1 DEF Join, SeatsTyped, Members
      <3>2. ASSUME NEW p \in People, DeleteMember(p) PROVE Members' \subseteq Members
        BY <1>0, <3>2 DEF DeleteMember, SeatsTyped, Members
      <3>3. CASE UNCHANGED orgRole
        BY <3>3 DEF Members
      <3> QED
        BY <3>1, <3>2, <3>3 DEF NextSeats, AskInvite, LockOrg, CountMembers, GrantInvite,
           SendInviteEmail, AbortDeadlock, LockInvitation, RevokeInvite, ExpireInvite,
           CheckRemoval, OrderSeats, ApplySubscription
    <2>3. Cardinality(Members') <= Cardinality(Members)
      BY <2>2, Grows, SeatSets
    <2>4. Cardinality(Members) \in Nat /\ Cardinality(Members') \in Nat
      BY Counted, SeatSets
    <2>5. inviting[j].members \in Nat
      BY <1>0 DEF SeatsTyped, InviteType
    <2> QED
      BY <1>1, <2>1, <2>3, <2>4, <2>5
  <1>2. CASE inviting'[j] # inviting[j]
    <2>1. Cardinality(Members) \in Nat
      BY Counted, SeatSets
    <2>2. ASSUME NEW i \in Invites, CountMembers(i) PROVE Cardinality(Members') <= inviting'[j].members
      <3> DEFINE row == [inviting[i] EXCEPT !.pc = "counted", !.members = Cardinality(Members)]
      <3>1. row.members = Cardinality(Members)
        BY <1>0, <2>1, InviteRows
      <3>2. inviting' = [inviting EXCEPT ![i] = row] /\ UNCHANGED orgRole
        BY <2>2 DEF CountMembers
      <3> HIDE DEF row
      <3>3. inviting'[j].members = Cardinality(Members) /\ Members' = Members
        BY <1>0, <1>2, <3>1, <3>2 DEF SeatsTyped, Members
      <3> QED
        BY <2>1, <3>3
    <2>3. ASSUME NEW i \in Invites, NEW row, row.pc # "counted",
                 inviting' = [inviting EXCEPT ![i] = row]
          PROVE  FALSE
      BY <1>0, <1>2, <2>3 DEF SeatsTyped
    <2>4. ASSUME NEW i \in Invites, AskInvite(i) PROVE FALSE
      <3>1. PICK p \in People \ Members : inviting' = [inviting EXCEPT ![i] =
                [pc |-> "asked", who |-> p, paid |-> seats, members |-> 0]]
        BY <2>4 DEF AskInvite
      <3> DEFINE row == [pc |-> "asked", who |-> p, paid |-> seats, members |-> 0]
      <3>2. row.pc # "counted" /\ inviting' = [inviting EXCEPT ![i] = row]
        BY <3>1
      <3> HIDE DEF row
      <3> QED
        BY <2>3, <3>2
    <2>5. ASSUME NEW i \in Invites, LockOrg(i) PROVE FALSE
      <3>1. inviting' = [inviting EXCEPT ![i] = [inviting[i] EXCEPT !.pc = "locked"]]
        BY <1>0, <2>5 DEF LockOrg, SeatsTyped
      <3>2. [inviting[i] EXCEPT !.pc = "locked"].pc # "counted"
        BY <1>0, InviteRows DEF Pcs
      <3> QED
        BY <2>3, <3>1, <3>2
    <2>6. ASSUME NEW i \in Invites, Dropped(i) PROVE FALSE
      BY <1>0, <2>3, <2>6, InviteRows DEF Dropped
    <2>7. ASSUME NEW i \in Invites, GrantInvite(i) PROVE FALSE
      <3>1. inviting' = [inviting EXCEPT ![i] = [inviting[i] EXCEPT !.pc = "email"]] \/ Dropped(i)
        BY <1>0, <2>7 DEF GrantInvite, SeatsTyped
      <3>2. [inviting[i] EXCEPT !.pc = "email"].pc # "counted"
        BY <1>0, InviteRows DEF Pcs
      <3> QED
        BY <2>3, <2>6, <3>1, <3>2
    <2>8. ASSUME NEW i \in Invites,
                 SendInviteEmail(i) \/ \E q \in Accepts : AbortDeadlock(i, q)
          PROVE  FALSE
      BY <1>2, <2>6, <2>8 DEF SendInviteEmail, AbortDeadlock
    <2> QED
      BY <1>2, <2>2, <2>4, <2>5, <2>7, <2>8 DEF NextSeats, LockInvitation, Join, RevokeInvite,
         ExpireInvite, CheckRemoval, DeleteMember, OrderSeats, ApplySubscription
  <1> QED
    BY <1>1, <1>2

\* The quantities that were billed only grow, and have a largest one.
LEMMA BilledStep ==
  ASSUME SeatInv, NextSeats
  PROVE  HasMax' /\ billed \subseteq billed' /\ Max(billed) \in Nat /\ Max(billed') \in Nat
         /\ Max(billed) <= Max(billed')
  <1>0. SeatsTyped /\ HasMax /\ SeatsTyped'
    BY SeatsTypedStep DEF SeatInv
  <1>1. UNCHANGED billed \/ \E n \in Quantities : billed' = billed \cup {n}
    BY DEF NextSeats, AskInvite, LockOrg, CountMembers, GrantInvite, SendInviteEmail, AbortDeadlock,
           LockInvitation, Join, RevokeInvite, ExpireInvite, CheckRemoval, DeleteMember,
           OrderSeats, ApplySubscription
  <1>2. billed \subseteq billed'
    BY <1>1
  <1>3. HasMax'
    <2>1. CASE UNCHANGED billed
      BY <1>0, <2>1 DEF HasMax
    <2>2. ASSUME NEW n \in Quantities, billed' = billed \cup {n} PROVE HasMax'
      <3>1. PICK m \in billed : \A k \in billed : m >= k
        BY <1>0 DEF HasMax
      <3>2. m \in Nat /\ n \in Nat /\ billed \subseteq Nat
        BY <1>0, SeatNumbers DEF SeatsTyped
      <3>3. CASE m >= n
        BY <2>2, <3>1, <3>3 DEF HasMax
      <3>4. CASE n > m
        <4>1. \A k \in billed \cup {n} : n >= k
          BY <3>1, <3>2, <3>4
        <4> QED
          BY <2>2, <4>1 DEF HasMax
      <3> QED
        BY <3>2, <3>3, <3>4
    <2> QED
      BY <1>1, <2>1, <2>2
  <1>4. billed \subseteq Quantities /\ billed' \subseteq Quantities
    BY <1>0 DEF SeatsTyped
  <1>5. Max(billed) \in billed /\ Max(billed) \in Nat
    BY <1>0, <1>4, Largest DEF HasMax
  <1>6. Max(billed') \in Nat /\ \A n \in billed' : n <= Max(billed')
    BY <1>3, <1>4, Largest DEF HasMax
  <1> QED
    BY <1>2, <1>3, <1>5, <1>6

\* A step that takes no seat keeps within the seats.
LEMMA NoneTaken ==
  ASSUME SeatInv, NextSeats, Members' \subseteq Members, Reserved' \subseteq Reserved,
         overtaken \subseteq overtaken'
  PROVE  Fits'
  <1>1. SeatsTyped' /\ Fits
    BY SeatsTypedStep DEF SeatInv
  <1>2. overtaken \subseteq People /\ overtaken' \subseteq People
    BY <1>1 DEF SeatInv, SeatsTyped
  <1>3. /\ Cardinality(Members) \in Nat /\ Cardinality(Members') \in Nat
        /\ Cardinality(Reserved) \in Nat /\ Cardinality(Reserved') \in Nat
        /\ Cardinality(overtaken) \in Nat /\ Cardinality(overtaken') \in Nat
    BY <1>2, Counted, SeatSets
  <1>4. /\ Cardinality(Members') <= Cardinality(Members)
        /\ Cardinality(Reserved') <= Cardinality(Reserved)
        /\ Cardinality(overtaken) <= Cardinality(overtaken')
    BY <1>2, Grows, SeatSets
  <1>5. Max(billed) \in Nat /\ Max(billed') \in Nat /\ Max(billed) <= Max(billed')
    BY BilledStep
  <1> QED
    BY <1>1, <1>3, <1>4, <1>5 DEF Fits

\* An invitation that is locked by an acceptance is pending or was overtaken, and
\* whatever takes a seat was counted.
LEMMA SeatStep == ASSUME SeatInv, NextSeats PROVE OvertakenInv' /\ Fits'
  <1>0. SeatsTyped /\ LockInv /\ CountInv /\ OvertakenInv /\ HasMax /\ Fits /\ SeatsTyped'
    BY SeatsTypedStep DEF SeatInv
  <1>1. ASSUME UNCHANGED <<invitation, accepting, overtaken>>, Members' \subseteq Members
        PROVE  OvertakenInv' /\ Fits'
    <2>1. Pending' = Pending /\ Taken' = Taken /\ Reserved' = Reserved
      BY <1>1 DEF Pending, Taken, RowTaken, Reserved
    <2> QED
      BY <1>0, <1>1, <2>1, NoneTaken DEF OvertakenInv
  <1>2. ASSUME NEW p \in People, NEW status \in {"expired", "revoked"},
               invitation' = [invitation EXCEPT ![p] = status],
               UNCHANGED <<orgRole, accepting>>,
               overtaken \subseteq overtaken', RowTaken(p) => p \in overtaken'
        PROVE  OvertakenInv' /\ Fits'
    <2>1. Pending' = Pending \ {p} /\ Taken' = Taken /\ Members' = Members
      BY <1>0, <1>2 DEF Pending, Taken, RowTaken, Members, SeatsTyped
    <2>2. p \in Taken => p \in overtaken'
      BY <1>2 DEF Taken
    <2> QED
      BY <1>0, <1>2, <2>1, <2>2, NoneTaken DEF OvertakenInv, Reserved
  <1>3. ASSUME NEW i \in Invites, AskInvite(i) \/ LockOrg(i) \/ CountMembers(i)
        PROVE  OvertakenInv' /\ Fits'
    <2>1. UNCHANGED <<invitation, accepting, overtaken, orgRole>>
      BY <1>3 DEF AskInvite, LockOrg, CountMembers
    <2> QED
      BY <1>1, <2>1 DEF Members
  <1>4. ASSUME NEW i \in Invites, SendInviteEmail(i) PROVE OvertakenInv' /\ Fits'
    <2>1. inviting[i].who \in People
      BY <1>0, <1>4 DEF SendInviteEmail, LockInv
    <2>2. CASE UNCHANGED invitation
      BY <1>1, <1>4, <2>2 DEF SendInviteEmail, Members
    <2>3. CASE ~RowTaken(inviting[i].who)
               /\ invitation' = [invitation EXCEPT ![inviting[i].who] = "revoked"]
      BY <1>2, <1>4, <2>1, <2>3 DEF SendInviteEmail
    <2> QED
      BY <1>4, <2>2, <2>3 DEF SendInviteEmail
  <1>5. ASSUME NEW p \in People, RevokeInvite(p) PROVE OvertakenInv' /\ Fits'
    BY <1>2, <1>5 DEF RevokeInvite
  <1>6. ASSUME NEW p \in People, ExpireInvite(p) PROVE OvertakenInv' /\ Fits'
    BY <1>2, <1>6 DEF ExpireInvite
  <1>7. ASSUME NEW p \in People, CheckRemoval(p) \/ DeleteMember(p) PROVE OvertakenInv' /\ Fits'
    <2>1. UNCHANGED <<invitation, accepting, overtaken>>
      BY <1>7 DEF CheckRemoval, DeleteMember
    <2>2. Members' \subseteq Members
      BY <1>0, <1>7 DEF CheckRemoval, DeleteMember, Members, SeatsTyped
    <2> QED
      BY <1>1, <2>1, <2>2
  <1>8. ASSUME NEW n \in Quantities, OrderSeats(n) \/ ApplySubscription(n)
        PROVE  OvertakenInv' /\ Fits'
    <2>1. UNCHANGED <<invitation, accepting, overtaken, orgRole>>
      BY <1>8 DEF OrderSeats, ApplySubscription
    <2> QED
      BY <1>1, <2>1 DEF Members
  <1>9. ASSUME NEW q \in Accepts, LockInvitation(q) PROVE OvertakenInv' /\ Fits'
    <2>1. PICK p \in Pending : accepting' = [accepting EXCEPT ![q] = [pc |-> "joining", who |-> p]]
      BY <1>9 DEF LockInvitation
    <2>2. UNCHANGED <<orgRole, invitation, overtaken>>
      BY <1>9 DEF LockInvitation
    <2>3. \A r \in Accepts : accepting'[r] = accepting[r] \/ accepting'[r].who = p
      BY <1>0, <2>1 DEF SeatsTyped
    <2>4. Members' = Members /\ Pending' = Pending /\ Taken' \subseteq Taken \cup {p}
      BY <2>2, <2>3 DEF Members, Pending, Taken, RowTaken
    <2> QED
      BY <1>0, <2>2, <2>4, NoneTaken DEF OvertakenInv, Reserved
  <1>10. ASSUME NEW i \in Invites, NEW q \in Accepts, AbortDeadlock(i, q) PROVE OvertakenInv' /\ Fits'
    <2>1. UNCHANGED <<orgRole, invitation, overtaken>>
      BY <1>10 DEF AbortDeadlock
    <2>2. \A r \in Accepts : accepting'[r] = accepting[r] \/ accepting'[r].pc = "done"
      BY <1>0, <1>10 DEF AbortDeadlock, SeatsTyped
    <2>3. Members' = Members /\ Pending' = Pending /\ Taken' \subseteq Taken
      BY <2>1, <2>2 DEF Members, Pending, Taken, RowTaken
    <2> QED
      BY <1>0, <2>1, <2>3, NoneTaken DEF OvertakenInv, Reserved
  <1>11. ASSUME NEW q \in Accepts, Join(q) PROVE OvertakenInv' /\ Fits'
    <2> DEFINE p == accepting[q].who
    <2>1. accepting[q].pc = "joining" /\ p \in People /\ p \in Taken
      BY <1>0, <1>11 DEF Join, LockInv, Taken, RowTaken
    <2>2. /\ \A r \in Accepts \ {q} : accepting'[r] = accepting[r]
          /\ accepting'[q].pc = "done"
      BY <1>0, <1>11 DEF Join, SeatsTyped
    <2>3. Taken' \subseteq Taken \ {p}
      BY <1>0, <2>1, <2>2 DEF Taken, RowTaken, LockInv
    <2>4. Pending' = Pending \ {p} /\ Members' \subseteq Members \cup {p} /\ UNCHANGED <<billed, overtaken>>
      BY <1>0, <1>11 DEF Join, Pending, Members, SeatsTyped
    <2>5. p \in Reserved /\ Reserved' \subseteq Reserved \ {p}
      BY <2>1, <2>3, <2>4 DEF Reserved
    <2>6. Cardinality(Reserved \ {p}) = Cardinality(Reserved) - 1
      BY <2>1, <2>5, OneMore, SeatSets
    <2>7. Cardinality(Members \cup {p}) <= Cardinality(Members) + 1
      BY <2>1, OneMore, SeatSets
    <2>8. /\ Cardinality(Reserved') <= Cardinality(Reserved \ {p})
          /\ Cardinality(Members') <= Cardinality(Members \cup {p})
      <3>1. Reserved \ {p} \in SUBSET People /\ Members \cup {p} \in SUBSET People
        BY <2>1, SeatSets
      <3> HIDE DEF p
      <3> QED
        BY <2>4, <2>5, <3>1, Grows, SeatSets
    <2>9. /\ Cardinality(Members) \in Nat /\ Cardinality(Members') \in Nat
          /\ Cardinality(Reserved) \in Nat /\ Cardinality(Reserved') \in Nat
          /\ Cardinality(overtaken) \in Nat /\ Max(billed) \in Nat
      BY <1>0, Counted, SeatSets, BilledStep DEF SeatsTyped
    <2>10. Cardinality(Members \cup {p}) \in Nat
      BY <2>1, Counted, SeatSets
    <2>11. Fits'
      <3> HIDE DEF p
      <3> QED
        BY <1>0, <2>4, <2>6, <2>7, <2>8, <2>9, <2>10 DEF Fits
    <2>12. OvertakenInv'
      BY <1>0, <2>3, <2>4 DEF OvertakenInv
    <2> QED
      BY <2>11, <2>12
  <1>12. ASSUME NEW i \in Invites, GrantInvite(i) PROVE OvertakenInv' /\ Fits'
    <2>1. /\ inviting[i].pc = "counted" /\ inviting[i].who \in People /\ inviting[i].paid \in billed
          /\ inviting[i].members \in Nat /\ Cardinality(Members) <= inviting[i].members
      BY <1>0, <1>12 DEF GrantInvite, LockInv, CountInv, SeatsTyped, InviteType
    <2>2. UNCHANGED <<orgRole, accepting, billed, overtaken>>
      BY <1>12 DEF GrantInvite
    <2>3. CASE UNCHANGED invitation
      BY <1>1, <2>2, <2>3 DEF Members
    <2>4. CASE /\ Committed(i) < inviting[i].paid
               /\ invitation' = [invitation EXCEPT ![inviting[i].who] = "pending"]
      <3> DEFINE p == inviting[i].who
                 Others == Pending \ {p}
      <3>1. Pending' = Others \cup {p} /\ Taken' = Taken /\ Members' = Members
        BY <1>0, <2>1, <2>2, <2>4 DEF Pending, Taken, RowTaken, Members, SeatsTyped
      <3>2. Reserved' \subseteq (Others \cup {p}) \cup overtaken
        BY <1>0, <3>1 DEF OvertakenInv, Reserved
      <3>3. Others \in SUBSET People /\ Others \cup {p} \in SUBSET People /\ overtaken \in SUBSET People
        BY <1>0, <2>1, SeatSets DEF SeatsTyped
      <3>4. inviting[i].members + Cardinality(Others) < inviting[i].paid
        BY <2>4 DEF Committed
      <3>5. OvertakenInv'
        BY <1>0, <2>2, <3>1 DEF OvertakenInv
      <3>6. p \in People
        BY <2>1
      <3>7. inviting[i].paid <= Max(billed) /\ Max(billed) \in Nat /\ inviting[i].paid \in Nat
        <4>1. billed \subseteq Quantities
          BY <1>0 DEF SeatsTyped
        <4>2. \E m \in billed : \A n \in billed : m >= n
          BY <1>0 DEF HasMax
        <4> QED
          BY <2>1, <4>1, <4>2, Largest, SeatNumbers
      <3> HIDE DEF p, Others
      <3>8. Cardinality(Others \cup {p}) <= Cardinality(Others) + 1
        BY <3>3, <3>6, OneMore
      <3>9. Cardinality((Others \cup {p}) \cup overtaken) <= Cardinality(Others \cup {p}) + Cardinality(overtaken)
        BY <3>3, Together
      <3>10. (Others \cup {p}) \cup overtaken \in SUBSET People
        BY <3>3
      <3>11. Cardinality(Reserved') <= Cardinality((Others \cup {p}) \cup overtaken)
        BY <3>2, <3>10, Grows, SeatSets
      <3>12. /\ Cardinality(Others) \in Nat /\ Cardinality(Others \cup {p}) \in Nat
             /\ Cardinality(overtaken) \in Nat /\ Cardinality(Reserved') \in Nat
             /\ Cardinality((Others \cup {p}) \cup overtaken) \in Nat /\ Cardinality(Members) \in Nat
        BY <3>3, <3>10, Counted, SeatSets
      <3>13. Cardinality(Reserved') <= Cardinality(Others) + 1 + Cardinality(overtaken)
        BY <3>8, <3>9, <3>11, <3>12
      <3>14. Cardinality(Members) + Cardinality(Others) + 1 <= Max(billed)
        BY <2>1, <3>4, <3>7, <3>12
      <3>15. Cardinality(Members) + Cardinality(Reserved') <= Max(billed) + Cardinality(overtaken)
        BY <3>7, <3>12, <3>13, <3>14
      <3>16. Fits'
        BY <2>2, <3>1, <3>15 DEF Fits
      <3> QED
        BY <3>5, <3>16
    <2> QED
      BY <1>12, <2>3, <2>4 DEF GrantInvite
  <1> QED
    BY <1>3, <1>4, <1>5, <1>6, <1>7, <1>8, <1>9, <1>10, <1>11, <1>12 DEF NextSeats

\* The parts together.
LEMMA SeatNext == SeatInv /\ [NextSeats]_seatVars => SeatInv'
  <1> SUFFICES ASSUME SeatInv, [NextSeats]_seatVars PROVE SeatInv'
    OBVIOUS
  <1>1. CASE UNCHANGED seatVars
    BY <1>1 DEF seatVars, SeatInv, SeatsTyped, LockInv, CountInv, OvertakenInv, HasMax, Fits, Members,
                Pending, Taken, RowTaken, Reserved
  <1>2. CASE NextSeats
    BY <1>2, SeatsTypedStep, MemberCountStep, BilledStep, SeatStep DEF SeatInv
  <1> QED
    BY <1>1, <1>2

-----------------------------------------------------------------------------
(* Theorems.                                                               *)

\* The rows are well formed, and the organization is locked by whoever counts.
THEOREM SeatsTypeCorrect == SeatSpec => []SeatsTypeOK
  <1>1. SeatInv => SeatsTypeOK
    BY DEF SeatInv, SeatsTyped, LockInv, SeatsTypeOK, InviteType, AcceptType, Pcs
  <1> QED
    BY <1>1, SeatInit, SeatNext, PTL DEF SeatSpec

\* Members and outstanding invitations never take more seats than the largest
\* quantity ever billed, but for overtaken invitations (Invite, Seats, Accept).
THEOREM NeverOversold == SeatSpec => []SeatsNotOversold
  <1>1. ASSUME SeatInv PROVE SeatsNotOversold
    <2>1. SeatsTyped /\ HasMax /\ Fits
      BY <1>1 DEF SeatInv
    <2>2. Cardinality(Pending) <= Cardinality(Reserved)
      BY Grows, SeatSets DEF Reserved
    <2>3. billed \subseteq Quantities /\ overtaken \in SUBSET People
      BY <2>1 DEF SeatsTyped
    <2>4. Max(billed) \in Nat
      BY <2>1, <2>3, Largest DEF HasMax
    <2>5. /\ Cardinality(Members) \in Nat /\ Cardinality(Pending) \in Nat
          /\ Cardinality(Reserved) \in Nat /\ Cardinality(overtaken) \in Nat
      BY <2>3, Counted, SeatSets
    <2> QED
      BY <2>1, <2>2, <2>4, <2>5 DEF Fits, SeatsNotOversold
  <1> QED
    BY <1>1, SeatInit, SeatNext, PTL DEF SeatSpec
=============================================================================
