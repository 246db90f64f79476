----------------------------- MODULE RunSession -----------------------------
(***************************************************************************)
(* One run as the people around it meet it: the goroutine that executes it *)
(* and stores the result (handlers/fire.go executeRun, the tail of         *)
(* handlers/workflow.go Run), the in-memory hub it publishes to            *)
(* (hub/hub.go), the viewers of its event stream (handlers/runs.go         *)
(* StreamRun) and the reviewers of its approval gate (ResolveApproval and  *)
(* the wait in executor/executor.go).                                      *)
(*                                                                         *)
(* The graph is reduced to what these parts see: a gate, whose source may   *)
(* be re-run, and then an end.  An event is its type; runLog of             *)
(* WorkflowGraph is what a longer run would publish.  Everything but the    *)
(* row is in the memory of one process and is lost when it dies.            *)
(***************************************************************************)
EXTENDS Naturals, Sequences, SequencesExt

CONSTANTS Viewers,
          Reviewers,     \* decisions of people: each is one request
          HubCapacity,   \* free places in a subscriber's channel (256)
          MaxRetries     \* MaxApprovalRetries

ASSUME SessionBounds == HubCapacity \in Nat \ {0} /\ MaxRetries \in Nat

VARIABLES engine,    \* [pc, pending: events still to emit, attempt]
          row,       \* the workflow_runs row: [status, events]
          manual,    \* a run of the editor, which also stores events one by one
          history,   \* every event emitted, in order
          buffer,    \* hub: the events a late subscriber is given
          channel,   \* hub: viewer -> [queue, room]; NoChannel if not subscribed
          viewer,    \* viewer -> [pc, sent]
          dropped,   \* viewers whose channel was full when an event came
          approvals, \* the attempt whose channel is registered, 0 if none
          answer,    \* attempt -> whose decision is in its channel, at most one
          reviewer,  \* reviewer -> [pc, shown, attempt, decision]: the attempt that was
                     \* read, and the one whose channel the request found
          applied,   \* decisions the gate acted on: [attempt, by]
          writeLost  \* the final write failed, which nobody checks

sessionVars == <<engine, row, manual, history, buffer, channel, viewer, dropped,
                 approvals, answer, reviewer, applied, writeLost>>

NoChannel == [queue |-> << >>, room |-> 0]
Attempts == 1 .. MaxRetries + 2
Decisions == {"final", "retry"}   \* approved and rejected both end the gate
Terminal == {"run_completed", "run_error"}
Failure == <<"run_error", "skipped">>   \* skips follow the terminal event
Success == <<"run_completed">>

-----------------------------------------------------------------------------
(* Hub and row.                                                            *)

Subscribed(v) == viewer[v].pc \in {"check", "stream"}

\* A full channel drops the event; the buffer keeps it for late joiners.
HubPublish(ev) ==
    /\ buffer' = Append(buffer, ev)
    /\ channel' = [v \in Viewers |->
         IF Subscribed(v) /\ channel[v].room > 0
         THEN [queue |-> Append(channel[v].queue, ev), room |-> channel[v].room - 1]
         ELSE channel[v]]
    /\ dropped' = dropped \cup {v \in Viewers : Subscribed(v) /\ channel[v].room = 0}

-----------------------------------------------------------------------------
(* The run's goroutine.                                                    *)

\* Billing refuses the run, which only the editor is told at once and which the
\* others find in a row of its own, or holds credit for it.
Refuse ==
    /\ engine.pc = "admit"
    /\ row' = IF manual THEN row ELSE [status |-> "error", events |-> << >>]
    /\ engine' = [engine EXCEPT !.pc = "done"]
    /\ UNCHANGED <<manual, history, buffer, channel, viewer, dropped, approvals,
                   answer, reviewer, applied, writeLost>>
Admit ==
    /\ engine.pc = "admit"
    /\ row' = [status |-> "running", events |-> << >>]
    /\ engine' = [engine EXCEPT !.pc = "open", !.pending = <<"run_started">>]
    /\ UNCHANGED <<manual, history, buffer, channel, viewer, dropped, approvals,
                   answer, reviewer, applied, writeLost>>

\* One emit: published, appended and, for a manual run, stored.
EmitNext ==
    LET ev == Head(engine.pending) IN
    /\ engine.pending # << >>
    /\ engine' = [engine EXCEPT !.pending = Tail(@)]
    /\ history' = Append(history, ev)
    /\ HubPublish(ev)
    /\ row' = IF manual THEN [row EXCEPT !.events = history'] ELSE row
    /\ UNCHANGED <<manual, viewer, approvals, answer, reviewer, applied, writeLost>>

\* BugFreshChannel hands the channel of the last attempt to the next.
BugFreshChannel(a) == IF a = 1 THEN << >> ELSE answer[a - 1]
FreshChannel(a) == << >>
\* RegisterApprovalChannel, one channel per attempt, then "waiting".
OpenAttempt ==
    LET a == engine.attempt + 1 IN
    /\ engine.pc = "open" /\ engine.pending = << >>
    /\ engine' = [pc |-> "wait", attempt |-> a, pending |-> <<"waiting">>]
    /\ approvals' = a
    /\ answer' = [answer EXCEPT ![a] = FreshChannel(a)]
    /\ UNCHANGED <<row, manual, history, buffer, channel, viewer, dropped, reviewer,
                   applied, writeLost>>

AtGate == engine.pc = "wait" /\ engine.pending = << >>
Answerer == answer[engine.attempt][1]
MayRetry == engine.attempt <= MaxRetries

\* The gate takes the decision from its channel.
TakeAnswer ==
    /\ AtGate /\ answer[engine.attempt] # << >>
    /\ answer' = [answer EXCEPT ![engine.attempt] = Tail(@)]
    /\ applied' = applied \cup {[attempt |-> engine.attempt, by |-> Answerer]}
    /\ engine' = IF reviewer[Answerer].decision = "retry" /\ MayRetry
                 THEN [engine EXCEPT !.pc = "rerun", !.pending = <<"feedback">>]
                 ELSE [engine EXCEPT !.pc = "persist", !.pending = Success]
    /\ UNCHANGED <<row, manual, history, buffer, channel, viewer, dropped, approvals,
                   reviewer, writeLost>>

\* The source of the gate runs again; its failure fails the run.
Rerun ==
    /\ engine.pc = "rerun" /\ engine.pending = << >>
    /\ \/ engine' = [engine EXCEPT !.pc = "open"]
       \/ engine' = [engine EXCEPT !.pc = "persist", !.pending = Failure]
    /\ UNCHANGED <<row, manual, history, buffer, channel, viewer, dropped, approvals,
                   answer, reviewer, applied, writeLost>>

\* BugApprovalTimeout never fires.
BugApprovalTimeout == FALSE /\ UNCHANGED sessionVars
\* The timeout may be chosen although a decision is in the channel.
ApprovalTimeout ==
    /\ AtGate
    /\ approvals' = 0
    /\ engine' = [engine EXCEPT !.pc = "persist", !.pending = Failure]
    /\ UNCHANGED <<row, manual, history, buffer, channel, viewer, dropped, answer,
                   reviewer, applied, writeLost>>

Persist ==
    /\ engine.pc = "persist" /\ engine.pending = << >>
    /\ engine' = [engine EXCEPT !.pc = "clear"]
    /\ \/ /\ row' = [status |-> IF "run_error" \in ToSet(history) THEN "error"
                                ELSE "completed",
                     events |-> history]
          /\ UNCHANGED writeLost
       \/ writeLost' = TRUE /\ UNCHANGED row
    /\ UNCHANGED <<manual, history, buffer, channel, viewer, dropped, approvals,
                   answer, reviewer, applied>>

ClearBuffer ==
    /\ engine.pc = "clear"
    /\ buffer' = << >>
    /\ engine' = [engine EXCEPT !.pc = "done"]
    /\ UNCHANGED <<row, manual, history, channel, viewer, dropped, approvals, answer,
                   reviewer, applied, writeLost>>

\* The process dies.  Nothing resumes the run: its row keeps saying "running", and
\* the next process refuses every decision about it.
Crash ==
    /\ engine.pc \notin {"admit", "done", "dead"}
    /\ engine' = [engine EXCEPT !.pc = "dead", !.pending = << >>]
    /\ buffer' = << >> /\ approvals' = 0
    /\ channel' = [v \in Viewers |-> NoChannel]
    /\ viewer' = [v \in Viewers |-> IF viewer[v].pc \in {"new", "closed"} THEN viewer[v]
                                    ELSE [viewer[v] EXCEPT !.pc = "left"]]
    /\ answer' = [a \in Attempts |-> << >>]
    /\ reviewer' = [r \in Reviewers |->
         IF reviewer[r].pc = "new" THEN reviewer[r]
         ELSE [reviewer[r] EXCEPT !.pc = "done"]]
    /\ UNCHANGED <<row, manual, history, dropped, applied, writeLost>>

-----------------------------------------------------------------------------
(* Viewers: GET /api/runs/:id/stream.                                      *)

Finished == row.status \in {"completed", "error"}
ViewerStep(v, pc, sent, ch) ==
    /\ viewer' = [viewer EXCEPT ![v] = [pc |-> pc, sent |-> sent]]
    /\ channel' = [channel EXCEPT ![v] = ch]
    /\ UNCHANGED <<engine, row, manual, history, buffer, dropped, approvals, answer,
                   reviewer, applied, writeLost>>
Replay(v) == ViewerStep(v, "closed", viewer[v].sent \o row.events, NoChannel)

OpenStream(v) ==
    /\ viewer[v].pc = "new" /\ row.status # "none"
    /\ IF Finished THEN Replay(v) ELSE ViewerStep(v, "load", << >>, NoChannel)

\* BugSubscribe starts with the live events.
BugSubscribe(v) ==
    /\ viewer[v].pc = "load"
    /\ ViewerStep(v, "check", << >>, [queue |-> << >>, room |-> HubCapacity])
\* The hub preloads the channel with what was published so far.
Subscribe(v) ==
    /\ viewer[v].pc = "load"
    /\ ViewerStep(v, "check", << >>, [queue |-> buffer, room |-> HubCapacity])

\* The run may have ended between the first look and the subscription.
Recheck(v) ==
    /\ viewer[v].pc = "check"
    /\ IF channel[v].queue = << >> /\ Finished THEN Replay(v)
       ELSE ViewerStep(v, "stream", << >>, channel[v])

Receive(v) ==
    LET ev == Head(channel[v].queue) IN
    /\ viewer[v].pc = "stream" /\ channel[v].queue # << >>
    /\ ViewerStep(v, IF ev \in Terminal THEN "closed" ELSE "stream",
                  Append(viewer[v].sent, ev),
                  IF ev \in Terminal THEN NoChannel
                  ELSE [queue |-> Tail(channel[v].queue), room |-> channel[v].room + 1])

\* BugTick: no periodic look at the row.
BugTick(v) == FALSE /\ Replay(v)
\* Every five seconds the row is looked at, and a finished run replayed.
Tick(v) == viewer[v].pc = "stream" /\ Finished /\ Replay(v)

Leave(v) == viewer[v].pc = "stream" /\ ViewerStep(v, "left", viewer[v].sent, NoChannel)

-----------------------------------------------------------------------------
(* Reviewers: ApproveRun and RejectRun, which call ResolveApproval.  The    *)
(* request names run and node, not the attempt that was read.              *)

ReviewerStep(r, rec) ==
    /\ reviewer' = [reviewer EXCEPT ![r] = rec]
    /\ UNCHANGED <<engine, row, manual, history, buffer, channel, viewer, dropped,
                   applied, writeLost>>

\* A person reads what the gate shows and decides ...
Decide(r) ==
    /\ reviewer[r].pc = "new" /\ AtGate
    /\ \E d \in Decisions :
          ReviewerStep(r, [pc |-> "decided", shown |-> engine.attempt, attempt |-> 0,
                           decision |-> d])
    /\ UNCHANGED <<approvals, answer>>
\* ... the request, when it arrives, looks up whatever channel is registered under
\* the key, or is refused ...
Lookup(r) ==
    /\ reviewer[r].pc = "decided"
    /\ ReviewerStep(r, IF approvals = 0 THEN [reviewer[r] EXCEPT !.pc = "done"]
                       ELSE [reviewer[r] EXCEPT !.pc = "found", !.attempt = approvals])
    /\ UNCHANGED <<approvals, answer>>
\* ... the decision is sent without the lock and waits while the channel is full ...
Send(r) ==
    LET a == reviewer[r].attempt IN
    /\ reviewer[r].pc = "found" /\ answer[a] = << >>
    /\ answer' = [answer EXCEPT ![a] = <<r>>]
    /\ ReviewerStep(r, [reviewer[r] EXCEPT !.pc = "sent"])
    /\ UNCHANGED approvals
\* ... and whatever is registered under the key by then removed.
Unregister(r) ==
    /\ reviewer[r].pc = "sent"
    /\ approvals' = 0
    /\ ReviewerStep(r, [reviewer[r] EXCEPT !.pc = "done"])
    /\ UNCHANGED answer

-----------------------------------------------------------------------------
InitSession ==
    /\ engine = [pc |-> "admit", pending |-> << >>, attempt |-> 0]
    /\ row = [status |-> "none", events |-> << >>]
    /\ manual \in BOOLEAN
    /\ history = << >> /\ buffer = << >>
    /\ channel = [v \in Viewers |-> NoChannel]
    /\ viewer = [v \in Viewers |-> [pc |-> "new", sent |-> << >>]]
    /\ dropped = {} /\ approvals = 0
    /\ answer = [a \in Attempts |-> << >>]
    /\ reviewer = [r \in Reviewers |-> [pc |-> "new", shown |-> 0, attempt |-> 0,
                                       decision |-> "none"]]
    /\ applied = {} /\ writeLost = FALSE

EngineSteps == \/ Refuse \/ Admit \/ EmitNext \/ OpenAttempt \/ TakeAnswer \/ Rerun
               \/ Persist \/ ClearBuffer
ViewerSteps(v) == \/ OpenStream(v) \/ Subscribe(v) \/ Recheck(v) \/ Receive(v)
ReviewerSteps(r) == Decide(r) \/ Lookup(r) \/ Send(r) \/ Unregister(r)
NextSession ==
    \/ EngineSteps \/ ApprovalTimeout \/ Crash
    \/ \E v \in Viewers : ViewerSteps(v) \/ Tick(v) \/ Leave(v)
    \/ \E r \in Reviewers : ReviewerSteps(r)

\* Goroutines run, the gate's timer fires and a stream's ticker ticks.  Nothing
\* obliges a process to die, a reviewer to decide or a viewer to stay.
FairSession ==
    /\ WF_sessionVars(EngineSteps) /\ WF_sessionVars(ApprovalTimeout)
    /\ \A v \in Viewers : WF_sessionVars(ViewerSteps(v)) /\ WF_sessionVars(Tick(v))
SpecSession == InitSession /\ [][NextSession]_sessionVars /\ FairSession

-----------------------------------------------------------------------------
(* Properties.                                                             *)

SessionTypeOK ==
    /\ engine.pc \in {"admit", "open", "wait", "rerun", "persist", "clear", "done", "dead"}
    /\ engine.attempt \in 0 .. MaxRetries + 1
    /\ row.status \in {"none", "running", "completed", "error"}
    /\ approvals \in 0 .. engine.attempt
    /\ \A v \in Viewers : viewer[v].pc \in {"new", "load", "check", "stream", "closed", "left"}
    /\ \A r \in Reviewers : reviewer[r].pc \in {"new", "decided", "found", "sent", "done"}
    /\ \A a \in Attempts : Len(answer[a]) <= 1

\* When the server ends a stream, the viewer was sent every event up to the one
\* that reports how the run ended, in order, unless its channel had overflowed;
\* joining before, during or after the hand-over from hub to row makes no
\* difference (StreamRun, Subscribe, ClearBuffer).
UpToTerminal(s) == LET e == {k \in DOMAIN s : s[k] \in Terminal}
                   IN  IF e = {} THEN s ELSE SubSeq(s, 1, CHOOSE k \in e : TRUE)
ClosedViewIsComplete ==
    \A v \in Viewers :
       viewer[v].pc = "closed" /\ v \notin dropped =>
          \/ IsPrefix(UpToTerminal(history), viewer[v].sent)
          \/ Finished /\ row.events = history /\ IsSuffix(history, viewer[v].sent)

\* A gate acts on one decision per attempt, on each decision once, and only at the
\* attempt its request found.  That may be a later attempt than the one its reviewer
\* read, but then each attempt in between ended by the retry of another decision:
\* a decision that nobody overtakes acts on what was shown (executor.go, one channel
\* per attempt; runs.go, whose requests name no attempt).
ActsOnWhatWasShown ==
    \A d \in applied :
       /\ d.attempt = reviewer[d.by].attempt
       /\ \A e \in applied : e.attempt = d.attempt \/ e.by = d.by => e = d
       /\ \A a \in reviewer[d.by].shown .. d.attempt - 1 :
             \E e \in applied : e.attempt = a /\ reviewer[e.by].decision = "retry"

\* While a gate waits with an empty channel, a reviewer can reach it: its
\* channel is the one registered under the key.
WaitingIsResolvable ==
    AtGate /\ answer[engine.attempt] = << >>
       => \/ approvals = engine.attempt
          \/ \E r \in Reviewers : reviewer[r].pc \in {"found", "sent"}

\* A run does not stay "running" for ever, unless its process died or the write
\* of its result failed: an unanswered gate times out.
RunIsRecorded == row.status = "running" ~> Finished \/ engine.pc = "dead" \/ writeLost

\* Once the row says that the run ended, every open stream is closed, even one
\* that lost the terminal event.
StreamsEnd ==
    \A v \in Viewers : (viewer[v].pc = "stream" /\ Finished) ~> viewer[v].pc # "stream"
=============================================================================
