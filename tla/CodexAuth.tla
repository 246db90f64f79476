------------------------------ MODULE CodexAuth ------------------------------
(***************************************************************************)
(* How one member connects a Codex account (codingagent/auth.go): attempts, *)
(* the goroutine that runs the device login of each one, its monitor, the   *)
(* member's cancellation and disconnection, removal from the organization   *)
(* (handlers/members.go), the reconciler and crashes.                       *)
(*                                                                         *)
(* Completion, disconnection and removal each are one transaction under the *)
(* member's authority lock, and one step here.  A write that the code does  *)
(* not check may be lost.  The sandbox ids are left out: they only serve to  *)
(* delete sandboxes that the provider deletes by itself after 15 minutes.    *)
(***************************************************************************)
EXTENDS Naturals

CONSTANTS Attempts,   \* rows of coding_agent_auth_attempts the member may create
          NoAttempt   \* no row

VARIABLES attempt,     \* row -> [status, active, claimed, cancel, expired, fresh]
          login,       \* row -> [pc, ctx, verdict]: the goroutine of an attempt
          authCred,    \* [status, from]: the member's credential and its attempt
          authMember,  \* the user is a member
          starting     \* a request passed verifyMember and has not opened its transaction

authVars == <<attempt, login, authCred, authMember, starting>>

OpenStatus == {"provisioning", "waiting"}
Open(x) == attempt[x].status \in OpenStatus
ActiveAttempts == {x \in Attempts : attempt[x].active}
LoginAt(x, pc) == login[x].pc = pc
GoTo(x, pc) == login' = [login EXCEPT ![x].pc = pc]
\* The goroutine is about to record how the attempt ended.
FinishAs(x, verdict) == login' = [login EXCEPT ![x].pc = "finish", ![x].verdict = verdict]
\* BugEnded keeps the row active.
BugEnded(row, status) == [row EXCEPT !.status = status, !.claimed = FALSE]
\* A closed row: nobody reads its clock any more.
Ended(row, status) == [row EXCEPT !.status = status, !.active = FALSE, !.claimed = FALSE,
                                  !.fresh = TRUE, !.expired = FALSE]
NoRow == [status |-> "none", active |-> FALSE, claimed |-> FALSE, cancel |-> FALSE,
          expired |-> FALSE, fresh |-> TRUE]
NoLogin == [pc |-> "none", ctx |-> "none", verdict |-> "none"]
OverFor(x) == login' = [login EXCEPT ![x] = [NoLogin EXCEPT !.pc = "done"]]

-----------------------------------------------------------------------------
(* The member's requests.                                                  *)

StartConnection ==
    /\ ~starting /\ authMember
    /\ starting' = TRUE
    /\ UNCHANGED <<attempt, login, authCred, authMember>>

\* An active attempt is returned; an expired one is closed and a new one made,
\* unless the hourly limit refuses and rolls back.  The unique active_key lets
\* one of two racing transactions win; the other returns the winner.
CreateAttempt ==
    /\ starting
    /\ starting' = FALSE
    /\ \/ UNCHANGED <<attempt, login>>
       \/ \E x \in Attempts :
             /\ attempt[x].status = "none"
             /\ \A y \in ActiveAttempts : attempt[y].expired
             /\ attempt' = [y \in Attempts |->
                    IF y = x THEN [NoRow EXCEPT !.status = "provisioning",
                                                !.active = TRUE, !.claimed = TRUE]
                    ELSE IF attempt[y].active THEN Ended(attempt[y], "expired")
                    ELSE attempt[y]]
             /\ login' = [login EXCEPT ![x].pc = "load", ![x].ctx = "live"]
    /\ UNCHANGED <<authCred, authMember>>

Cancelled(row) == [Ended(row, "cancelled") EXCEPT !.cancel = TRUE]
\* The update, then the context of the goroutine if this process runs it.
CancelAuthAttempt(x) ==
    /\ Open(x)
    /\ attempt' = [attempt EXCEPT ![x] = Cancelled(@)]
    /\ \/ login[x].ctx = "live" /\ login' = [login EXCEPT ![x].ctx = "cancelled"]
       \/ UNCHANGED login
    /\ UNCHANGED <<authCred, authMember, starting>>

DisconnectCredential ==
    /\ authCred.status # "none"
    /\ authCred' = [status |-> "revoked", from |-> NoAttempt]
    /\ UNCHANGED <<attempt, login, authMember, starting>>

RemoveFromOrganization ==
    /\ authMember
    /\ authMember' = FALSE
    /\ authCred' = IF authCred.status = "none" THEN authCred
                   ELSE [status |-> "revoked", from |-> NoAttempt]
    /\ attempt' = [x \in Attempts |-> IF Open(x) THEN Cancelled(attempt[x]) ELSE attempt[x]]
    /\ UNCHANGED <<login, starting>>

-----------------------------------------------------------------------------
(* The goroutine of an attempt.                                            *)

ContextLive(x) == login[x].ctx = "live"

\* The row and the membership are read; any failed read ends the goroutine.
LoadAttempt(x) ==
    /\ LoginAt(x, "load")
    /\ IF ~ContextLive(x) THEN OverFor(x)
       ELSE IF attempt[x].cancel THEN FinishAs(x, "cancelled")
       ELSE IF ~authMember THEN FinishAs(x, "failed")
       ELSE GoTo(x, "create") \/ OverFor(x)
    /\ UNCHANGED <<attempt, authCred, authMember, starting>>

CreateAuthSandbox(x) ==
    /\ LoginAt(x, "create")
    /\ FinishAs(x, "failed") \/ (ContextLive(x) /\ GoTo(x, "login"))
    /\ UNCHANGED <<attempt, authCred, authMember, starting>>

\* The CLI prints its URL and code.
ShowCode(x) ==
    /\ LoginAt(x, "login") /\ Open(x)
    /\ attempt' = [attempt EXCEPT ![x].status = "waiting"]
    /\ UNCHANGED <<login, authCred, authMember, starting>>
\* The member approved and the bundle was read from the sandbox.
LoginSucceeds(x) ==
    /\ LoginAt(x, "login") /\ ContextLive(x)
    /\ GoTo(x, "complete")
    /\ UNCHANGED <<attempt, authCred, authMember, starting>>
\* Toolchain, set-up, login or download fail; only a failed login asks why.
LoginFails(x) ==
    /\ LoginAt(x, "login")
    /\ \/ ContextLive(x) /\ FinishAs(x, "failed")
       \/ FinishAs(x, IF attempt[x].cancel THEN "cancelled"
                      ELSE IF login[x].ctx = "deadline" THEN "expired" ELSE "failed")
    /\ UNCHANGED <<attempt, authCred, authMember, starting>>

\* BugMayComplete trusts what the goroutine read when it started.
BugMayComplete(x) == ContextLive(x)
MayComplete(x) == /\ ContextLive(x) /\ Open(x) /\ authMember
                  /\ ~attempt[x].cancel /\ ~attempt[x].expired
\* completeCodexConnection: credential and attempt commit together, and the
\* reply to the commit may still be lost.
CompleteConnection(x) ==
    /\ LoginAt(x, "complete")
    /\ \/ FinishAs(x, "failed") /\ UNCHANGED <<attempt, authCred>>
       \/ /\ MayComplete(x)
          /\ authCred' = [status |-> "connected", from |-> x]
          /\ attempt' = [attempt EXCEPT ![x] =
                IF attempt[x].claimed /\ Open(x) THEN Ended(@, "connected") ELSE @]
          /\ GoTo(x, "cleanup") \/ FinishAs(x, "failed")
    /\ UNCHANGED <<authMember, starting>>

\* Only the claim holder of an open attempt; the update is not checked.
FinishAuthAttempt(x) ==
    /\ LoginAt(x, "finish")
    /\ \/ attempt' = [attempt EXCEPT ![x] =
              IF attempt[x].claimed /\ Open(x) THEN Ended(@, login[x].verdict) ELSE @]
       \/ UNCHANGED attempt
    /\ login' = [login EXCEPT ![x].pc = "cleanup", ![x].verdict = "none"]
    /\ UNCHANGED <<authCred, authMember, starting>>

\* The deferred deletion of the sandbox; its failure is ignored.
CleanUp(x) ==
    /\ LoginAt(x, "cleanup")
    /\ OverFor(x)
    /\ UNCHANGED <<attempt, authCred, authMember, starting>>

-----------------------------------------------------------------------------
(* Beside it: the monitor, the clock, the reconciler, crashes.              *)

Running(x) == login[x].pc \notin {"none", "done"}

\* Each second the monitor writes a heartbeat; an attempt it no longer holds, or
\* that asks for cancellation, ends the context.
MonitorAuthCancellation(x) ==
    /\ Running(x) /\ ContextLive(x)
    /\ IF Open(x) /\ attempt[x].claimed
       THEN ~attempt[x].fresh /\ attempt' = [attempt EXCEPT ![x].fresh = TRUE] /\ UNCHANGED login
       ELSE login' = [login EXCEPT ![x].ctx = "cancelled"] /\ UNCHANGED attempt
    /\ UNCHANGED <<authCred, authMember, starting>>
\* The fifteen minutes of the row, and of the goroutine's context, run out.
AttemptExpires(x) ==
    /\ Open(x) /\ ~attempt[x].expired
    /\ attempt' = [attempt EXCEPT ![x].expired = TRUE]
    /\ UNCHANGED <<login, authCred, authMember, starting>>
ContextExpires(x) ==
    /\ Running(x) /\ ContextLive(x) /\ (attempt[x].expired \/ ~Open(x))
    /\ login' = [login EXCEPT ![x].ctx = "deadline"]
    /\ UNCHANGED <<attempt, authCred, authMember, starting>>
\* The heartbeat is older than the grace period of the reconciler.
HeartbeatAges(x) ==
    /\ Open(x) /\ attempt[x].fresh
    /\ attempt' = [attempt EXCEPT ![x].fresh = FALSE]
    /\ UNCHANGED <<login, authCred, authMember, starting>>

StaleAttempt(x) == Open(x) /\ ~attempt[x].fresh
\* Looked at again under the row lock.
ReconcileAuthAttempt(x) ==
    /\ StaleAttempt(x)
    /\ attempt' = [attempt EXCEPT ![x] =
           Ended(@, IF attempt[x].cancel THEN "cancelled"
                    ELSE IF attempt[x].expired THEN "expired" ELSE "failed")]
    /\ UNCHANGED <<login, authCred, authMember, starting>>

CrashLogin(x) ==
    /\ Running(x)
    /\ OverFor(x)
    /\ UNCHANGED <<attempt, authCred, authMember, starting>>

-----------------------------------------------------------------------------
InitAuth ==
    /\ attempt = [x \in Attempts |-> NoRow]
    /\ login = [x \in Attempts |-> NoLogin]
    /\ authCred = [status |-> "none", from |-> NoAttempt]
    /\ authMember = TRUE /\ starting = FALSE

LoginSteps(x) ==
    \/ LoadAttempt(x) \/ CreateAuthSandbox(x) \/ LoginSucceeds(x) \/ LoginFails(x)
    \/ CompleteConnection(x) \/ FinishAuthAttempt(x) \/ CleanUp(x)
\* What the program and the clock do by themselves; the member's login, the page
\* with the code, heartbeats and crashes are not bound to happen.
AuthProgress(x) ==
    \/ LoginSteps(x) /\ login[x].pc # "login"
    \/ LoginFails(x) /\ ~ContextLive(x)
    \/ AttemptExpires(x) \/ ContextExpires(x) \/ ReconcileAuthAttempt(x)
    \/ HeartbeatAges(x) /\ ~Running(x)
AuthClock(x) == AttemptExpires(x) \/ ContextExpires(x) \/ MonitorAuthCancellation(x)
NextAuth ==
    \/ StartConnection \/ CreateAttempt \/ DisconnectCredential \/ RemoveFromOrganization
    \/ \E x \in Attempts :
          \/ LoginSteps(x) \/ AuthClock(x) \/ ShowCode(x) \/ CancelAuthAttempt(x)
          \/ HeartbeatAges(x) \/ ReconcileAuthAttempt(x) \/ CrashLogin(x)

AuthSpec == InitAuth /\ [][NextAuth]_authVars

-----------------------------------------------------------------------------
(* Properties.                                                             *)

AuthTypeOK ==
    /\ \A x \in Attempts :
          /\ attempt[x].status \in OpenStatus \cup
                {"none", "connected", "cancelled", "failed", "expired"}
          /\ login[x].pc \in {"none", "load", "create", "login", "complete", "finish",
                              "cleanup", "done"}
          /\ login[x].ctx \in {"none", "live", "cancelled", "deadline"}
          /\ attempt[x].active => Open(x) /\ ActiveAttempts = {x}
    /\ authCred.status \in {"none", "connected", "revoked"}
    /\ authCred.from \in Attempts \cup {NoAttempt}

\* A connected credential belongs to a member and comes from an attempt that is
\* recorded as connected and that nobody cancelled, whatever its goroutine, the
\* reconciler and a removal did meanwhile (completeCodexConnection).
CredentialIsEarned ==
    authCred.status = "connected" =>
        /\ authMember
        /\ authCred.from \in Attempts
        /\ attempt[authCred.from].status = "connected" /\ ~attempt[authCred.from].cancel
=============================================================================
