------------------------------ MODULE MCPlatform ------------------------------
(***************************************************************************)
(* The components around the job service and the runs in one instance: tool *)
(* calls, Codex authentication, seats, hosted agents, triggers and data      *)
(* stores.  They share no state in these models, so each behaviour moves the *)
(* one that part names and leaves the others in their initial state.         *)
(***************************************************************************)
EXTENDS ToolCalls, CodexAuth, Seats, HostedAgents, Triggers, DataStores, TLC

VARIABLE part
allVars == <<part, toolVars, authVars, seatVars, hostedVars, triggerVars, storeVars>>

TheThread == 1 :> "th1" @@ 2 :> "th2"

Parts == {"tools", "auth", "seats", "hosted", "triggers", "stores"}
Init == /\ part \in Parts
        /\ InitTools /\ InitAuth /\ InitSeats /\ InitHosted /\ InitTriggers /\ InitStores
        /\ part # "triggers" => provider = "github"
        /\ part # "stores" => storeKind = "cell" /\ dataRow = NoDataRow

Next ==
    /\ UNCHANGED part
    /\ \/ part = "tools" /\ NextTools /\ UNCHANGED <<authVars, seatVars, hostedVars, triggerVars, storeVars>>
       \/ part = "auth" /\ NextAuth /\ UNCHANGED <<toolVars, seatVars, hostedVars, triggerVars, storeVars>>
       \/ part = "seats" /\ NextSeats /\ UNCHANGED <<toolVars, authVars, hostedVars, triggerVars, storeVars>>
       \/ part = "hosted" /\ NextHosted /\ UNCHANGED <<toolVars, authVars, seatVars, triggerVars, storeVars>>
       \/ part = "triggers" /\ NextTriggers /\ UNCHANGED <<toolVars, authVars, seatVars, hostedVars, storeVars>>
       \/ part = "stores" /\ NextStores /\ UNCHANGED <<toolVars, authVars, seatVars, hostedVars, triggerVars>>

\* The process keeps running its goroutines, timers, reconciler and workers.
Spec == /\ Init /\ [][Next]_allVars
        /\ WF_authVars(part = "auth" /\ \E x \in Attempts : AuthProgress(x))
        /\ WF_hostedVars(part = "hosted" /\ HostWorks)

\* The state is well formed.
PlatformTypeOK == /\ ToolsTypeOK /\ AuthTypeOK /\ SeatsTypeOK /\ HostedTypeOK
                  /\ TriggersTypeOK /\ StoresTypeOK

\* What was begun ends.  A sign-in attempt is closed, also when its goroutine
\* crashed, its verdict was not written or the member never approves, so that the
\* member can start another (runCodexConnection, reconcileAuthAttempts); attempts
\* are alike, so one stands for each.  And the queue of hosted agents drains: a
\* delivery is completed or has failed in the end, through crashes, lost writes,
\* locks and the deliveries before it (claimHostedAgentDelivery).
Unfinished == Open(CHOOSE x \in Attempts : TRUE) \/ SomeWaiting
WorkEnds == Unfinished ~> ~Unfinished
=============================================================================
