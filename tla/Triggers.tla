------------------------------- MODULE Triggers -------------------------------
(***************************************************************************)
(* The integration trigger of one canvas node: saving and deleting it with  *)
(* its webhook at the provider (handlers/triggers_api.go), the deliveries    *)
(* the provider makes and the runs they start, and the lifecycle events of   *)
(* an app-level provider (handlers/hooks.go).                                *)
(*                                                                         *)
(* Each save registers at most one hook, so the hook and the row a save      *)
(* makes carry its name.  A save that changes no part of the specification   *)
(* returns the row as it is and is left out, as are the deliveries that      *)
(* start nothing and write nothing: unreadable, of another resource,         *)
(* filtered, or of a workflow that is not published.  No adapter polls and   *)
(* no subscription expires, so the two sweeps (triggers_sweep.go) never do   *)
(* anything.  All deliveries fall into the same hour.                        *)
(***************************************************************************)
EXTENDS Naturals, FiniteSets

CONSTANTS Saves,      \* requests that save the trigger
          Retires,    \* deletions: of the trigger, its workflow or its connection
          Posts,      \* deliveries, redeliveries included
          Events,     \* event keys
          MaxRuns,    \* MaxRunsPerHour
          MaxLapses,  \* database writes and calls of the provider that fail
          NoSave      \* none

ASSUME TriggerConstants ==
    /\ NoSave \notin Saves /\ MaxRuns \in Nat \ {0} /\ MaxLapses \in Nat

VARIABLES provider,   \* "github": one app-level hook; "gitlab": a secret per hook;
                      \* "monday": its hooks share a secret
          trigger,    \* the live row of the node, or NoTrigger
          hooks,      \* hooks that exist at the provider
          callback,   \* hook -> the row its address names
          saving, retiring, posting,
          claimed,    \* rows of webhook_deliveries: <<event, row>>
          lapses      \* failures so far

triggerVars == <<provider, trigger, hooks, callback, saving, retiring, posting, claimed, lapses>>

\* Of last_error only the two reasons that can be undone are ever read.
Other == "other"
NoTrigger == [id |-> NoSave, hook |-> NoSave, enabled |-> FALSE, error |-> Other]
Unused == [pc |-> "new", id |-> NoSave, hook |-> NoSave]
Unposted == [pc |-> "new", id |-> NoSave, event |-> NoSave, recorded |-> FALSE]

Live == trigger.id # NoSave
AppLevel == provider = "github"
Lapse == lapses < MaxLapses /\ lapses' = lapses + 1
SavingAt(s, pc) == saving[s].pc = pc
SaveStep(s, pc) == saving' = [saving EXCEPT ![s].pc = pc]
\* Forgets what a finished save had read.
EndSave(s) == saving' = [saving EXCEPT ![s] = [Unused EXCEPT !.pc = "done"]]

-----------------------------------------------------------------------------
(* CreateTrigger.                                                          *)

ReadTrigger(s) ==
    /\ SavingAt(s, "new")
    /\ saving' = [saving EXCEPT ![s] = [pc |-> "register", id |-> trigger.id, hook |-> trigger.hook]]
    /\ UNCHANGED <<provider, trigger, hooks, callback, retiring, posting, claimed, lapses>>

\* The hook is created first: its address needs the id of the row.  An app-level
\* provider has nothing to create.
RegisterHook(s) ==
    /\ SavingAt(s, "register")
    /\ SaveStep(s, "save")
    /\ IF AppLevel THEN UNCHANGED <<hooks, callback>>
                   ELSE /\ hooks' = hooks \cup {s}
                        /\ callback' = [callback EXCEPT ![s] =
                                          IF saving[s].id = NoSave THEN s ELSE saving[s].id]
    /\ UNCHANGED <<provider, trigger, retiring, posting, claimed, lapses>>
RegisterFails(s) ==
    /\ SavingAt(s, "register")
    /\ Lapse /\ EndSave(s)
    /\ UNCHANGED <<provider, trigger, hooks, callback, retiring, posting, claimed>>

\* The row is written whole, also when it was deleted since it was read; the
\* index on live nodes refuses a second row.
MaySave(s) == Live => trigger.id = saving[s].id
SaveTrigger(s) ==
    /\ SavingAt(s, "save") /\ MaySave(s)
    /\ trigger' = [id |-> IF saving[s].id = NoSave THEN s ELSE saving[s].id,
                   hook |-> IF AppLevel THEN NoSave ELSE s,
                   enabled |-> TRUE, error |-> Other]
    /\ IF saving[s].hook # NoSave THEN SaveStep(s, "retire") ELSE EndSave(s)
    /\ UNCHANGED <<provider, hooks, callback, retiring, posting, claimed, lapses>>
SaveFails(s) ==
    /\ SavingAt(s, "save")
    /\ IF MaySave(s) THEN Lapse ELSE UNCHANGED lapses
    /\ IF AppLevel THEN EndSave(s) ELSE SaveStep(s, "rollback")
    /\ UNCHANGED <<provider, trigger, hooks, callback, retiring, posting, claimed>>

\* The hook a save takes down at its end: its own if it failed, else the one it
\* replaced.  The provider may refuse; that is only logged.
BugStaleHook(s) == trigger.hook
StaleHook(s) == IF SavingAt(s, "rollback") THEN s ELSE saving[s].hook
RetireHook(s) ==
    /\ SavingAt(s, "rollback") \/ SavingAt(s, "retire")
    /\ EndSave(s)
    /\ \/ hooks' = hooks \ {StaleHook(s)} /\ UNCHANGED lapses
       \/ Lapse /\ UNCHANGED hooks
    /\ UNCHANGED <<provider, trigger, callback, retiring, posting, claimed>>

-----------------------------------------------------------------------------
(* DeleteTrigger and retireIntegrationTriggers: read, remove the hook, delete *)
(* the row.                                                                *)

ReadRetired(x) ==
    /\ retiring[x].pc = "new" /\ Live
    /\ retiring' = [retiring EXCEPT ![x] = [pc |-> "hook", id |-> trigger.id, hook |-> trigger.hook]]
    /\ UNCHANGED <<provider, trigger, hooks, callback, saving, posting, claimed, lapses>>
UnregisterHook(x) ==
    /\ retiring[x].pc = "hook"
    /\ retiring' = [retiring EXCEPT ![x].pc = "row"]
    /\ \/ hooks' = hooks \ {retiring[x].hook} /\ UNCHANGED lapses
       \/ Lapse /\ UNCHANGED hooks
    /\ UNCHANGED <<provider, trigger, callback, saving, posting, claimed>>
\* DeleteTrigger does not look at the outcome, so the row may stay.
DeleteTrigger(x) ==
    /\ retiring[x].pc = "row"
    /\ retiring' = [retiring EXCEPT ![x].pc = "done"]
    /\ \/ trigger' = (IF trigger.id = retiring[x].id THEN NoTrigger ELSE trigger)
          /\ UNCHANGED lapses
       \/ Lapse /\ UNCHANGED trigger
    /\ UNCHANGED <<provider, hooks, callback, saving, posting, claimed>>

-----------------------------------------------------------------------------
(* ReceiveProviderHook and dispatch.                                        *)

PostAt(p, pc) == posting[p].pc = pc
EndPost(p) == posting' = [posting EXCEPT ![p] = [Unposted EXCEPT !.pc = "done"]]

\* The row the address names is read and its secret checked; an app-level
\* delivery is routed to the rows that match it.  A delivery may arrive after its
\* hook was removed.  Deliveries are alike: it does not matter which one comes next.
Routed(h) == \/ AppLevel /\ h = NoSave
             \/ /\ ~AppLevel /\ h \in Saves /\ callback[h] = trigger.id
                /\ provider = "gitlab" => trigger.hook = h
ReceiveProviderHook(p, e) ==
    /\ PostAt(p, "new") /\ p = CHOOSE q \in Posts : PostAt(q, "new")
    /\ trigger.enabled
    /\ \E h \in Saves \cup {NoSave} : Routed(h)
    /\ posting' = [posting EXCEPT ![p] = [pc |-> "routed", id |-> trigger.id, event |-> e,
                                          recorded |-> FALSE]]
    /\ UNCHANGED <<provider, trigger, hooks, callback, saving, retiring, claimed, lapses>>

\* One insert that does nothing on a conflict; BugFirstClaim looks for the run
\* the event has started instead, so that two deliveries may both find none.
BugFirstClaim(p) == \A q \in Posts \ {p} : posting[q].pc # "ran" \/ posting[q].event # posting[p].event
FirstClaim(p) == <<posting[p].event, posting[p].id>> \notin claimed
ClaimPost(p) ==
    /\ PostAt(p, "routed")
    /\ claimed' = claimed \cup {<<posting[p].event, posting[p].id>>}
    /\ IF FirstClaim(p)
         THEN posting' = [posting EXCEPT ![p].pc = "count", ![p].recorded = TRUE]
         ELSE EndPost(p)
    /\ UNCHANGED <<provider, trigger, hooks, callback, saving, retiring, lapses>>
\* The insert fails: rather a run too many than one too few.
ClaimFails(p) ==
    /\ PostAt(p, "routed") /\ Lapse
    /\ posting' = [posting EXCEPT ![p].pc = "count"]
    /\ UNCHANGED <<provider, trigger, hooks, callback, saving, retiring, claimed>>

\* Writes the outcome of p over the last error of the row as long as it lives.
NoteTrigger(p) ==
    trigger' = IF Live /\ trigger.id = posting[p].id THEN [trigger EXCEPT !.error = Other] ELSE trigger
OverTriggerRate(p) == Cardinality({c \in claimed : c[2] = posting[p].id}) > MaxRuns
CountRuns(p) ==
    /\ PostAt(p, "count")
    /\ IF OverTriggerRate(p)
         THEN EndPost(p) /\ NoteTrigger(p)
         ELSE posting' = [posting EXCEPT ![p].pc = "admit"] /\ UNCHANGED trigger
    /\ UNCHANGED <<provider, hooks, callback, saving, retiring, claimed, lapses>>
StartRun(p) ==
    /\ PostAt(p, "admit")
    /\ posting' = [posting EXCEPT ![p].pc = "ran"]
    /\ NoteTrigger(p)
    /\ UNCHANGED <<provider, hooks, callback, saving, retiring, claimed, lapses>>
RefuseRun(p) ==
    /\ PostAt(p, "admit")
    /\ EndPost(p) /\ NoteTrigger(p)
    /\ UNCHANGED <<provider, hooks, callback, saving, retiring, claimed, lapses>>
\* The process ends: what a delivery had claimed stays claimed.
CrashPost(p) ==
    /\ posting[p].pc \in {"routed", "count", "admit"} /\ Lapse
    /\ EndPost(p)
    /\ UNCHANGED <<provider, trigger, hooks, callback, saving, retiring, claimed>>

-----------------------------------------------------------------------------
(* applyTriggerLifecycle.                                                   *)

Disable(error) == trigger' = [trigger EXCEPT !.enabled = FALSE, !.error = error]
\* Whatever the row said before is overwritten.
LoseAccess(reason) ==
    /\ AppLevel /\ Live
    /\ Disable(reason)
    /\ UNCHANGED <<provider, hooks, callback, saving, retiring, posting, claimed, lapses>>
RegainAccess(reason) ==
    /\ AppLevel /\ Live /\ trigger.error = reason
    /\ trigger' = [trigger EXCEPT !.enabled = TRUE, !.error = Other]
    /\ UNCHANGED <<provider, hooks, callback, saving, retiring, posting, claimed, lapses>>

-----------------------------------------------------------------------------
InitTriggers ==
    /\ provider \in {"github", "gitlab", "monday"}
    /\ trigger = NoTrigger /\ hooks = {} /\ callback = [s \in Saves |-> NoSave]
    /\ saving = [s \in Saves |-> Unused] /\ retiring = [x \in Retires |-> Unused]
    /\ posting = [p \in Posts |-> Unposted]
    /\ claimed = {} /\ lapses = 0

NextTriggers ==
    \/ \E s \in Saves : \/ ReadTrigger(s) \/ RegisterHook(s) \/ RegisterFails(s)
                        \/ SaveTrigger(s) \/ SaveFails(s) \/ RetireHook(s)
    \/ \E x \in Retires : ReadRetired(x) \/ UnregisterHook(x) \/ DeleteTrigger(x)
    \/ \E p \in Posts : \/ \E e \in Events : ReceiveProviderHook(p, e)
                        \/ ClaimPost(p) \/ ClaimFails(p) \/ CountRuns(p)
                        \/ StartRun(p) \/ RefuseRun(p) \/ CrashPost(p)
    \/ \E reason \in {"suspended", "repository", Other} : LoseAccess(reason)
    \/ \E reason \in {"suspended", "repository"} : RegainAccess(reason)

TriggerSpec == InitTriggers /\ [][NextTriggers]_triggerVars

-----------------------------------------------------------------------------
(* Properties.                                                             *)

TriggersTypeOK ==
    /\ provider \in {"github", "gitlab", "monday"}
    /\ trigger \in [id : Saves \cup {NoSave}, hook : Saves \cup {NoSave}, enabled : BOOLEAN,
                    error : {"suspended", "repository", Other}]
    /\ hooks \subseteq Saves /\ callback \in [Saves -> Saves \cup {NoSave}]
    /\ claimed \subseteq Events \X Saves
    /\ \A p \in Posts : posting[p].pc \in {"new", "routed", "count", "admit", "ran", "done"}
    /\ \A s \in Saves : saving[s].pc \in {"new", "register", "save", "retire", "rollback", "done"}

\* However saves of a node, deletions and failing calls overlap, a live row names
\* a hook that exists at the provider, unless a deletion has read that very hook:
\* a trigger that looks set up is never deaf (CreateTrigger and DeleteTrigger).
HookMatchesRow ==
    (~AppLevel /\ Live /\ \A x \in Retires : retiring[x].hook # trigger.hook)
        => trigger.hook \in hooks

\* However often a delivery is repeated and wherever the process stops, an event
\* starts at most one run of a trigger, and its runs of an hour stay within the
\* cap.  Only runs whose claim could not be written are not counted (dispatch).
DispatchIsBounded ==
    \A i \in Saves :
        LET Runs == {p \in Posts : PostAt(p, "ran") /\ posting[p].id = i /\ posting[p].recorded} IN
        /\ \A p, q \in Runs : posting[p].event = posting[q].event => p = q
        /\ Cardinality(Runs) <= MaxRuns
=============================================================================
