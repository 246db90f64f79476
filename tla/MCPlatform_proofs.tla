-------------------------- MODULE MCPlatform_proofs --------------------------
(***************************************************************************)
(* Proofs about hosted agents, triggers and data stores, and about the     *)
(* composition MCPlatform, which has them and the components of            *)
(* Admission_proofs side by side.                                          *)
(***************************************************************************)
EXTENDS MCPlatform, Admission_proofs, SequenceTheorems

-----------------------------------------------------------------------------
(***************************************************************************)
(* Hosted agents, for any number of threads, deliveries, approvals, workers *)
(* and faults: an approved action is performed at most once and alone, its *)
(* deployment is active meanwhile, and a known outcome is not given up.    *)
(***************************************************************************)
DeliveryType == [status : {"none", "ended"} \cup Waiting, kind : {"none", "mention"} \cup Presses,
                 target : Mentions \cup {0}, replied : BOOLEAN, attempts : Nat]
ApprovalType == [posted : BOOLEAN, status : {"none", "pending", "executing", "executed",
                                             "outcome_unknown", Closed}]
Stages == {"idle", "start", "turn", "post_approval", "approve"} \cup Executing
MayBeDone == {"executing", "outcome_unknown"}

HostedTyped ==
    /\ approval \in [Mentions -> ApprovalType]
    /\ deployment \in [Threads -> {"active", "paused", "revoked"}]
    /\ memory \subseteq Mentions /\ redis \subseteq Mentions
    /\ performed \in [Mentions -> Nat]
QueueTyped ==
    /\ delivery \in [Deliveries -> DeliveryType] /\ stage \in [Deliveries -> Stages]
    /\ faults \in 0..MaxFaults

\* A delivery that waits has a target, and a mention is its own.
HasTarget == \A d \in Deliveries : delivery[d].status \in Waiting =>
    /\ delivery[d].target \in Mentions
    /\ delivery[d].kind = "mention" => delivery[d].target = d
\* Whoever has a worker is the first of its thread, and deliveries are numbered as
\* they come: no second worker sees the approvals of a thread.
HasWorker == \A d \in Deliveries : ~At(d, "idle") =>
    delivery[d].status = "processing" /\ FirstOfThread(d)
InOrder == \A c, d \in Deliveries :
    c < d /\ delivery[d].status # "none" => delivery[c].status # "none"
MentionStages == \A d \in Deliveries : stage[d] \in {"turn", "post_approval"} =>
    delivery[d].kind = "mention"
\* Beyond MaxAttempts a delivery is only taken up again after a fault.
AttemptsCounted == \A d \in Deliveries :
    /\ delivery[d].status \in {"none", "ended"} => delivery[d].attempts = 0
    /\ delivery[d].status = "pending" => delivery[d].attempts < MaxAttempts
    /\ delivery[d].attempts <= MaxAttempts + faults
    /\ StaleClaim(d) => delivery[d].attempts < MaxAttempts + faults

QueueInv == QueueTyped /\ HasTarget /\ HasWorker /\ InOrder /\ MentionStages /\ AttemptsCounted

\* What a worker may rely on at its stage.
Relies(d) ==
    LET a == delivery[d].target IN
    /\ stage[d] \in Executing => Mine(d) = "active"
    /\ At(d, "turn") => approval[a].status = "none"
    /\ At(d, "claim") => approval[a].status = "pending" /\ ~EquivalentUnresolved(a)
    /\ stage[d] \in {"act", "acted", "record"} => approval[a].status = "executing"
    /\ At(d, "act") => performed[a] = 0
    /\ At(d, "acted") => performed[a] = 1 /\ a \notin memory \cup redis
OneExecutes == \A c, d \in Deliveries :
    stage[c] \in Executing /\ stage[d] \in Executing => c = d
OncePerformed == \A a \in Mentions :
    /\ performed[a] <= 1
    /\ performed[a] > 0 => approval[a].status \notin {"none", "pending"}
    /\ a \in memory \cup redis => performed[a] > 0
Alone == \A a, b \in Mentions :
    approval[a].status \in MayBeDone /\ approval[b].status \in MayBeDone => a = b

HostInv == /\ HostedTyped /\ QueueInv /\ OneExecutes /\ OncePerformed /\ Alone
           /\ \A d \in Deliveries : Relies(d)

-----------------------------------------------------------------------------
(* The queue.                                                              *)

\* An empty queue satisfies the invariant.
LEMMA HostInit == InitHosted => HostInv
  <1> SUFFICES ASSUME InitHosted PROVE HostInv
    OBVIOUS
  <1>1. \A d \in Deliveries : /\ delivery[d] = NoDelivery /\ delivery[d].status = "none"
                              /\ delivery[d].attempts = 0 /\ stage[d] = "idle"
    BY DEF InitHosted, NoDelivery, AtRest
  <1>2. \A a \in Mentions : approval[a].status = "none" /\ performed[a] = 0
    BY DEF InitHosted, NoApproval
  <1>3. HostedTyped
    BY DEF InitHosted, NoApproval, HostedTyped, ApprovalType
  <1>4. NoDelivery \in DeliveryType
    BY DEF NoDelivery, DeliveryType
  <1>5. QueueTyped
    BY <1>4, HostedConstants DEF InitHosted, QueueTyped, AtRest, Stages
  <1>6. HasTarget /\ HasWorker /\ InOrder /\ MentionStages
    BY <1>1 DEF HasTarget, HasWorker, InOrder, MentionStages, Waiting, At
  <1>7. AttemptsCounted
    BY <1>1, <1>5, HostedConstants DEF AttemptsCounted, StaleClaim, QueueTyped
  <1>8. OneExecutes /\ OncePerformed /\ Alone
    BY <1>1, <1>2 DEF InitHosted, OneExecutes, OncePerformed, Alone, Executing, MayBeDone
  <1>9. \A d \in Deliveries : Relies(d)
    BY <1>1 DEF Relies, At, Executing
  <1> QED
    BY <1>3, <1>5, <1>6, <1>7, <1>8, <1>9 DEF HostInv, QueueInv

\* Two deliveries that have workers belong to different threads, and so ask about
\* different approvals.
LEMMA Apart ==
  ASSUME HostInv, NEW c \in Deliveries, NEW d \in Deliveries, c # d, ~At(c, "idle"), ~At(d, "idle")
  PROVE  /\ ThreadAt(c) # ThreadAt(d) /\ delivery[c].target # delivery[d].target
         /\ delivery[c].target \in Mentions /\ delivery[d].target \in Mentions
  <1>1. /\ FirstOfThread(c) /\ FirstOfThread(d)
        /\ delivery[c].status \in Waiting /\ delivery[d].status \in Waiting
    BY DEF HostInv, QueueInv, HasWorker, Waiting
  <1>2. c < d \/ d < c
    BY HostedConstants
  <1>3. ThreadAt(c) # ThreadAt(d)
    BY <1>1, <1>2 DEF FirstOfThread
  <1> QED
    BY <1>1, <1>3 DEF ThreadAt, HostInv, QueueInv, HasTarget

\* What the queue keeps when one delivery moves: it had a worker, and it does not
\* wait again if it has ended.
LEMMA QueueMove ==
  ASSUME HostInv, NEW d \in Deliveries, ~At(d, "idle"), NEW row \in DeliveryType, NEW pc \in Stages,
         delivery' = [delivery EXCEPT ![d] = row], stage' = [stage EXCEPT ![d] = pc],
         faults' \in 0..MaxFaults, faults' >= faults,
         row.status # "none",
         row.status \in Waiting => row.target = delivery[d].target /\ row.kind = delivery[d].kind,
         pc # "idle" => row.status = "processing",
         pc \in {"turn", "post_approval"} => row.kind = "mention",
         row.status = "ended" => row.attempts = 0,
         row.status = "pending" => row.attempts < MaxAttempts,
         row.attempts <= MaxAttempts + faults',
         row.status = "processing" /\ pc = "idle" => row.attempts < MaxAttempts + faults'
  PROVE  /\ QueueInv' /\ stage'[d] = pc /\ delivery'[d] = row
         /\ \A c \in Deliveries \ {d} : stage'[c] = stage[c] /\ delivery'[c] = delivery[c]
  <1>1. /\ stage'[d] = pc /\ delivery'[d] = row
        /\ \A c \in Deliveries \ {d} : stage'[c] = stage[c] /\ delivery'[c] = delivery[c]
        /\ QueueTyped'
    BY DEF HostInv, QueueInv, QueueTyped
  <1>2. delivery[d].status = "processing" /\ FirstOfThread(d)
    BY DEF HostInv, QueueInv, HasWorker
  <1>3. HasTarget'
    BY <1>1, <1>2 DEF HostInv, QueueInv, HasTarget, Waiting
  <1>4. \A c \in Deliveries : delivery'[c].status \in Waiting =>
            delivery[c].status \in Waiting /\ delivery'[c].target = delivery[c].target
    BY <1>1, <1>2 DEF Waiting
  <1>5. HasWorker'
    <2>1. ASSUME NEW c \in Deliveries, stage'[c] # "idle"
          PROVE  /\ delivery'[c].status = "processing" /\ ~At(c, "idle") /\ FirstOfThread(c)
                 /\ delivery'[c].target = delivery[c].target
      BY <1>1, <1>2, <1>4, <2>1 DEF HostInv, QueueInv, HasWorker, At, Waiting
    <2>2. ASSUME NEW c \in Deliveries, stage'[c] # "idle" PROVE FirstOfThread(c)'
      BY <1>4, <2>1, <2>2 DEF FirstOfThread, ThreadAt
    <2> QED
      BY <2>1, <2>2 DEF HasWorker, At
  <1>6. InOrder'
    BY <1>1, <1>2 DEF HostInv, QueueInv, InOrder
  <1>7. MentionStages'
    BY <1>1 DEF HostInv, QueueInv, MentionStages
  <1>8. AttemptsCounted'
    <2>1. faults \in Int /\ faults' \in Int /\ MaxAttempts \in Int
          /\ \A c \in Deliveries : delivery[c].attempts \in Nat
      BY HostedConstants DEF HostInv, QueueInv, QueueTyped, DeliveryType
    <2>2. ASSUME NEW c \in Deliveries, c # d
          PROVE  /\ delivery'[c].status \in {"none", "ended"} => delivery'[c].attempts = 0
                 /\ delivery'[c].status = "pending" => delivery'[c].attempts < MaxAttempts
                 /\ delivery'[c].attempts <= MaxAttempts + faults'
                 /\ StaleClaim(c)' => delivery'[c].attempts < MaxAttempts + faults'
      BY <1>1, <2>1, <2>2 DEF HostInv, QueueInv, AttemptsCounted, StaleClaim, At
    <2>3. /\ delivery'[d].status \in {"none", "ended"} => delivery'[d].attempts = 0
          /\ delivery'[d].status = "pending" => delivery'[d].attempts < MaxAttempts
          /\ delivery'[d].attempts <= MaxAttempts + faults'
          /\ StaleClaim(d)' => delivery'[d].attempts < MaxAttempts + faults'
      BY <1>1 DEF StaleClaim, At
    <2> QED
      BY <2>2, <2>3 DEF AttemptsCounted
  <1> QED
    BY <1>1, <1>3, <1>5, <1>6, <1>7, <1>8 DEF QueueInv

\* A worker that leaves its delivery, in whatever state.
LEMMA Leaves ==
  ASSUME HostInv, NEW d \in Deliveries, ~At(d, "idle"), NEW e \in BOOLEAN, NEW r \in BOOLEAN,
         Leave(d, e, r)
  PROVE  /\ QueueInv' /\ stage'[d] = "idle"
         /\ \A c \in Deliveries \ {d} : stage'[c] = stage[c] /\ delivery'[c] = delivery[c]
  <1> DEFINE row == [delivery[d] EXCEPT !.replied = r]
             back == [row EXCEPT !.status = "pending"]
             end == [NoDelivery EXCEPT !.status = "ended"]
  <1>1. /\ delivery[d] \in DeliveryType /\ delivery[d].status = "processing"
        /\ faults \in 0..MaxFaults /\ delivery[d].attempts \in Nat
        /\ delivery[d].attempts <= MaxAttempts + faults
        /\ MaxAttempts \in Nat /\ MaxFaults \in Nat /\ "idle" \in Stages
    BY HostedConstants DEF HostInv, QueueInv, QueueTyped, HasWorker, AttemptsCounted, DeliveryType,
                           Stages
  <1>2. /\ row \in DeliveryType /\ row.status = "processing" /\ row.target = delivery[d].target
        /\ row.kind = delivery[d].kind /\ row.attempts = delivery[d].attempts
    BY <1>1 DEF DeliveryType
  <1>3. /\ back \in DeliveryType /\ back.status = "pending" /\ back.target = delivery[d].target
        /\ back.kind = delivery[d].kind /\ back.attempts = delivery[d].attempts
    BY <1>1 DEF DeliveryType, Waiting
  <1>4. /\ end \in DeliveryType /\ end.status = "ended" /\ end.attempts = 0
    BY DEF NoDelivery, DeliveryType
  <1>5. /\ stage' = [stage EXCEPT ![d] = "idle"]
        /\ \/ /\ delivery[d].attempts < MaxAttempts /\ UNCHANGED faults
              /\ delivery' = [delivery EXCEPT ![d] = back]
           \/ UNCHANGED faults /\ delivery' = [delivery EXCEPT ![d] = end]
           \/ /\ faults < MaxFaults /\ faults' = faults + 1
              /\ delivery' = [delivery EXCEPT ![d] = row]
    BY DEF Leave, StepTo, Fault
  <1> HIDE DEF row, back, end
  <1>6. CASE /\ delivery[d].attempts < MaxAttempts /\ UNCHANGED faults
             /\ delivery' = [delivery EXCEPT ![d] = back]
    <2>1. faults' \in 0..MaxFaults /\ faults' >= faults
      BY <1>1, <1>6
    <2> QED
      BY <1>1, <1>3, <1>5, <1>6, <2>1, QueueMove
  <1>7. CASE UNCHANGED faults /\ delivery' = [delivery EXCEPT ![d] = end]
    <2>1. /\ faults' \in 0..MaxFaults /\ faults' >= faults /\ 0 <= MaxAttempts + faults'
      BY <1>1, <1>7
    <2>2. end.status \notin Waiting
      BY <1>4 DEF Waiting
    <2> QED
      BY <1>1, <1>4, <1>5, <1>7, <2>1, <2>2, QueueMove
  <1>8. CASE /\ faults < MaxFaults /\ faults' = faults + 1
             /\ delivery' = [delivery EXCEPT ![d] = row]
    <2>1. /\ faults' \in 0..MaxFaults /\ faults' >= faults
          /\ row.attempts <= MaxAttempts + faults' /\ row.attempts < MaxAttempts + faults'
      BY <1>1, <1>2, <1>8
    <2>2. /\ row.status # "none"
          /\ (row.status \in Waiting => row.target = delivery[d].target /\ row.kind = delivery[d].kind)
          /\ ("idle" # "idle" => row.status = "processing")
          /\ ("idle" \in {"turn", "post_approval"} => row.kind = "mention")
          /\ (row.status = "ended" => row.attempts = 0)
          /\ (row.status = "pending" => row.attempts < MaxAttempts)
          /\ row.attempts <= MaxAttempts + faults'
          /\ (row.status = "processing" /\ "idle" = "idle" => row.attempts < MaxAttempts + faults')
      BY <1>2, <2>1
    <2>3. row \in DeliveryType /\ "idle" \in Stages
      BY <1>1, <1>2
    <2>4. delivery' = [delivery EXCEPT ![d] = row] /\ stage' = [stage EXCEPT ![d] = "idle"]
      BY <1>5, <1>8
    <2> QED
      BY <2>1, <2>2, <2>3, <2>4, QueueMove
  <1> QED
    BY <1>5, <1>6, <1>7, <1>8

\* A worker that goes on with its delivery.
LEMMA DeliveryGoes ==
  ASSUME HostInv, NEW d \in Deliveries, ~At(d, "idle"), NEW pc \in Stages \ {"idle"},
         Going(d, pc), pc \in {"turn", "post_approval"} => delivery[d].kind = "mention"
  PROVE  /\ QueueInv' /\ stage'[d] = pc /\ delivery'[d] = delivery[d]
         /\ \A c \in Deliveries \ {d} : stage'[c] = stage[c] /\ delivery'[c] = delivery[c]
  <1>1. /\ delivery[d] \in DeliveryType /\ delivery[d].status = "processing"
        /\ faults \in 0..MaxFaults
        /\ delivery[d].attempts <= MaxAttempts + faults
    BY DEF HostInv, QueueInv, QueueTyped, HasWorker, AttemptsCounted
  <1>2. delivery' = [delivery EXCEPT ![d] = delivery[d]]
    BY DEF Going, HostInv, QueueInv, QueueTyped
  <1>3. stage' = [stage EXCEPT ![d] = pc] /\ faults' = faults /\ faults' >= faults
    BY <1>1, HostedConstants DEF Going, StepTo
  <1> SUFFICES ASSUME NEW row, row = delivery[d]
               PROVE  /\ QueueInv' /\ stage'[d] = pc /\ delivery'[d] = row
                      /\ \A c \in Deliveries \ {d} : stage'[c] = stage[c] /\ delivery'[c] = delivery[c]
    OBVIOUS
  <1>4. /\ row \in DeliveryType /\ row.status # "none"
        /\ (row.status \in Waiting => row.target = delivery[d].target /\ row.kind = delivery[d].kind)
        /\ (pc # "idle" => row.status = "processing")
        /\ (pc \in {"turn", "post_approval"} => row.kind = "mention")
        /\ (row.status = "ended" => row.attempts = 0)
        /\ (row.status = "pending" => row.attempts < MaxAttempts)
        /\ row.attempts <= MaxAttempts + faults'
        /\ (row.status = "processing" /\ pc = "idle" => row.attempts < MaxAttempts + faults')
    BY <1>1, <1>3
  <1>5. pc \in Stages /\ faults' \in 0..MaxFaults /\ delivery' = [delivery EXCEPT ![d] = row]
    BY <1>1, <1>2, <1>3
  <1>6. stage' = [stage EXCEPT ![d] = pc] /\ faults' >= faults
    BY <1>3
  <1>7. /\ QueueInv' /\ stage'[d] = pc /\ delivery'[d] = row
        /\ \A c \in Deliveries \ {d} : stage'[c] = stage[c] /\ delivery'[c] = delivery[c]
    BY ONLY HostInv, d \in Deliveries, ~At(d, "idle"), <1>4, <1>5, <1>6, QueueMove
  <1> QED
    BY <1>7

-----------------------------------------------------------------------------
(* A step of a worker.                                                     *)

\* What such a step may do: it touches no approval but its own, brings nothing
\* under way beside another execution, and leaves behind what its stage relies on.
LEMMA WorkerStep ==
  ASSUME HostInv, NEW d \in Deliveries, ~At(d, "idle"), NEW a, a = delivery[d].target,
         QueueInv', HostedTyped', UNCHANGED deployment,
         \A c \in Deliveries \ {d} : stage'[c] = stage[c] /\ delivery'[c] = delivery[c],
         \A b \in Mentions \ {a} : /\ approval'[b] = approval[b] /\ performed'[b] = performed[b]
                                   /\ b \in memory' \cup redis' => b \in memory \cup redis,
         Relies(d)',
         stage'[d] \in Executing => stage[d] \in Executing \/ ExecutionFree,
         performed'[a] <= 1,
         performed'[a] > 0 => approval'[a].status \notin {"none", "pending"},
         a \in memory' \cup redis' => performed'[a] > 0,
         approval'[a].status \in MayBeDone =>
             \/ approval[a].status \in MayBeDone
             \/ stage[d] \in Executing /\ ~EquivalentUnresolved(a)
  PROVE  HostInv'
  <1>1. a \in Mentions
    BY DEF HostInv, QueueInv, HasWorker, HasTarget, Waiting
  <1>2. OneExecutes'
    BY DEF HostInv, OneExecutes, ExecutionFree
  <1>3. OncePerformed'
    BY <1>1 DEF HostInv, OncePerformed
  <1>4. Alone'
    <2>1. ASSUME NEW b \in Mentions, b # a, approval'[b].status \in MayBeDone,
                 approval'[a].status \in MayBeDone
          PROVE  FALSE
      BY <1>1, <2>1 DEF HostInv, Alone, EquivalentUnresolved, MayBeDone
    <2> QED
      BY <1>1, <2>1 DEF HostInv, Alone
  <1>5. ASSUME NEW c \in Deliveries, c # d PROVE Relies(c)'
    <2> DEFINE b == delivery[c].target
    <2>1. CASE At(c, "idle")
      BY <1>5, <2>1 DEF Relies, At, Executing
    <2>2. CASE ~At(c, "idle")
      <3>1. /\ b # a /\ b \in Mentions /\ stage'[c] = stage[c] /\ delivery'[c].target = b
            /\ approval'[b] = approval[b] /\ performed'[b] = performed[b]
            /\ b \in memory' \cup redis' => b \in memory \cup redis
        BY <1>5, <2>2, Apart
      <3>2. Relies(c)
        BY DEF HostInv
      <3>3. ASSUME At(c, "claim") PROVE ~EquivalentUnresolved(b)'
        <4>1. stage[d] \notin Executing /\ ~EquivalentUnresolved(b)
          BY <1>5, <3>2, <3>3 DEF HostInv, OneExecutes, Executing, At, Relies
        <4>2. approval'[a].status \in MayBeDone => approval[a].status \in MayBeDone
          BY <4>1
        <4>3. \A x \in Mentions \ {b} : approval'[x].status \in MayBeDone
                                            => approval[x].status \in MayBeDone
          BY <4>2
        <4>4. ~\E x \in Mentions \ {b} : approval'[x].status \in {"executing", "outcome_unknown"}
          BY <4>1, <4>3 DEF EquivalentUnresolved, MayBeDone
        <4> QED
          BY <3>1, <4>4 DEF EquivalentUnresolved
      <3>4. Mine(c)' = Mine(c)
        BY <3>1 DEF Mine, ThreadAt
      <3> QED
        BY <3>1, <3>2, <3>3, <3>4 DEF Relies, At
    <2> QED
      BY <2>1, <2>2
  <1>6. \A c \in Deliveries : Relies(c)'
    BY <1>5
  <1> QED
    BY <1>2, <1>3, <1>4, <1>6 DEF HostInv

\* A worker has a target; a mention is its own.
LEMMA Target ==
  ASSUME HostInv, NEW d \in Deliveries, ~At(d, "idle")
  PROVE  /\ delivery[d].target \in Mentions /\ delivery[d] \in DeliveryType
         /\ delivery[d].kind = "mention" => delivery[d].target = d
         /\ delivery[d].replied \in BOOLEAN
  BY DEF HostInv, QueueInv, QueueTyped, HasWorker, HasTarget, Waiting, DeliveryType

\* An approval that gets a new status.
LEMMA FieldSet ==
  ASSUME HostInv, NEW a \in Mentions,
         NEW s \in {"none", "pending", "executing", "executed", "outcome_unknown", Closed},
         SetApproval(a, s)
  PROVE  /\ approval' \in [Mentions -> ApprovalType] /\ approval'[a].status = s
         /\ \A b \in Mentions \ {a} : approval'[b] = approval[b]
  <1> DEFINE row == [approval[a] EXCEPT !.status = s]
  <1>1. row \in ApprovalType /\ row.status = s
    BY DEF HostInv, HostedTyped, ApprovalType
  <1>2. approval' = [approval EXCEPT ![a] = row] /\ approval \in [Mentions -> ApprovalType]
    BY DEF SetApproval, HostInv, HostedTyped
  <1> HIDE DEF row
  <1> QED
    BY <1>1, <1>2

\* A step after which the worker has left its delivery.
LEMMA LeaveStep ==
  ASSUME HostInv, NEW d \in Deliveries, ~At(d, "idle"), NEW e \in BOOLEAN, NEW r \in BOOLEAN,
         Leave(d, e, r), NEW a, a = delivery[d].target, HostedTyped',
         UNCHANGED <<deployment, performed>>,
         memory' \cup redis' \subseteq memory \cup redis,
         \A b \in Mentions \ {a} : approval'[b] = approval[b],
         approval'[a].status \in {"none", "pending"} =>
             approval[a].status \in {"none", "pending"},
         approval'[a].status \in MayBeDone =>
             \/ approval[a].status \in MayBeDone
             \/ stage[d] \in Executing /\ ~EquivalentUnresolved(a)
  PROVE  HostInv'
  <1>1. /\ QueueInv' /\ stage'[d] = "idle"
        /\ \A c \in Deliveries \ {d} : stage'[c] = stage[c] /\ delivery'[c] = delivery[c]
    BY Leaves
  <1>2. Relies(d)' /\ stage'[d] \notin Executing
    BY <1>1 DEF Relies, At, Executing
  <1>3. a \in Mentions
    BY Target
  <1>4. /\ performed'[a] <= 1
        /\ performed'[a] > 0 => approval'[a].status \notin {"none", "pending"}
        /\ a \in memory' \cup redis' => performed'[a] > 0
    BY <1>3 DEF HostInv, OncePerformed
  <1> QED
    BY <1>1, <1>2, <1>4, WorkerStep

\* A step after which the worker goes on.
LEMMA GoStep ==
  ASSUME HostInv, NEW d \in Deliveries, ~At(d, "idle"), NEW pc \in Stages \ {"idle"},
         Going(d, pc), NEW a, a = delivery[d].target, HostedTyped', UNCHANGED deployment,
         pc \in {"turn", "post_approval"} => delivery[d].kind = "mention",
         \A b \in Mentions \ {a} : /\ approval'[b] = approval[b] /\ performed'[b] = performed[b]
                                   /\ b \in memory' \cup redis' => b \in memory \cup redis,
         pc \in Executing => Mine(d) = "active" /\ (stage[d] \in Executing \/ ExecutionFree),
         pc = "turn" => approval'[a].status = "none",
         pc = "claim" => approval'[a].status = "pending" /\ ~EquivalentUnresolved(a),
         pc \in {"act", "acted", "record"} => approval'[a].status = "executing",
         pc = "act" => performed'[a] = 0,
         pc = "acted" => performed'[a] = 1 /\ a \notin memory' \cup redis',
         performed'[a] <= 1,
         performed'[a] > 0 => approval'[a].status \notin {"none", "pending"},
         a \in memory' \cup redis' => performed'[a] > 0,
         approval'[a].status \in MayBeDone =>
             \/ approval[a].status \in MayBeDone
             \/ stage[d] \in Executing /\ ~EquivalentUnresolved(a)
  PROVE  HostInv'
  <1>1. /\ QueueInv' /\ stage'[d] = pc /\ delivery'[d] = delivery[d]
        /\ \A c \in Deliveries \ {d} : stage'[c] = stage[c] /\ delivery'[c] = delivery[c]
    BY DeliveryGoes
  <1>2. Mine(d)' = Mine(d) /\ delivery'[d].target = a
    BY <1>1 DEF Mine, ThreadAt
  <1>3. pc = "claim" => ~EquivalentUnresolved(a)'
    BY DEF EquivalentUnresolved
  <1>4. Relies(d)'
    BY <1>1, <1>2, <1>3 DEF Relies, At, EquivalentUnresolved
  <1>5. stage'[d] \in Executing => stage[d] \in Executing \/ ExecutionFree
    BY <1>1
  <1> QED
    BY <1>1, <1>4, <1>5, WorkerStep

\* Nothing about the approvals changes, and the worker leaves.
LEMMA QuietLeave ==
  ASSUME HostInv, NEW d \in Deliveries, ~At(d, "idle"), NEW e \in BOOLEAN, NEW r \in BOOLEAN,
         Leave(d, e, r), UNCHANGED agentVars
  PROVE  HostInv'
  <1>1. HostedTyped' /\ UNCHANGED <<approval, deployment, memory, redis, performed>>
    BY DEF agentVars, HostInv, HostedTyped
  <1> QED
    BY <1>1, LeaveStep

\* A worker ends with Finish or Answer: either way it leaves.
LEMMA Ends ==
  ASSUME HostInv, NEW d \in Deliveries, ~At(d, "idle"),
         Answer(d) \/ Finish(d, TRUE) \/ Finish(d, FALSE)
  PROVE  \E e \in BOOLEAN, r \in BOOLEAN : Leave(d, e, r)
  BY Target DEF Answer, Finish

\* The worker leaves after it gave its approval a new status.
LEMMA SetAndLeave ==
  ASSUME HostInv, NEW d \in Deliveries, ~At(d, "idle"),
         Answer(d) \/ Finish(d, TRUE) \/ Finish(d, FALSE),
         NEW s \in {"executed", "outcome_unknown", Closed},
         SetApproval(delivery[d].target, s), UNCHANGED <<deployment, performed>>,
         memory' \subseteq memory, redis' \subseteq redis,
         s = "outcome_unknown" => approval[delivery[d].target].status \in MayBeDone
  PROVE  HostInv'
  <1> SUFFICES ASSUME NEW a, a = delivery[d].target PROVE HostInv'
    OBVIOUS
  <1>1. a \in Mentions
    BY Target
  <1>2. /\ approval' \in [Mentions -> ApprovalType] /\ approval'[a].status = s
        /\ \A b \in Mentions \ {a} : approval'[b] = approval[b]
    BY <1>1, FieldSet
  <1>3. HostedTyped'
    BY <1>2 DEF HostInv, HostedTyped
  <1>4. /\ approval'[a].status \notin {"none", "pending"}
        /\ approval'[a].status \in MayBeDone => approval[a].status \in MayBeDone
    BY <1>2 DEF Closed, MayBeDone
  <1>5. PICK e \in BOOLEAN, r \in BOOLEAN : Leave(d, e, r)
    BY Ends
  <1> QED
    BY <1>2, <1>3, <1>4, <1>5, LeaveStep

-----------------------------------------------------------------------------
(* The actions of a worker.                                                *)

\* The mention takes up what it finds, or the agent's turn comes.
LEMMA ProcessStep ==
  ASSUME HostInv, NEW d \in Deliveries, ~At(d, "idle"), ProcessMention(d) PROVE HostInv'
  <1>1. CASE Answer(d) \/ Finish(d, TRUE) \/ Finish(d, FALSE)
    BY <1>1, Ends, QuietLeave DEF ProcessMention
  <1>2. CASE /\ ~delivery[d].replied /\ approval[d].status \in {"none", "pending"}
             /\ Going(d, IF approval[d].status = "pending" THEN "post_approval" ELSE "turn")
    <2> SUFFICES ASSUME NEW pc, pc = (IF approval[d].status = "pending" THEN "post_approval" ELSE "turn")
                 PROVE  HostInv'
      OBVIOUS
    <2>1. /\ pc \in Stages \ {"idle"} /\ pc \in {"turn", "post_approval"}
          /\ pc \notin Executing /\ Going(d, pc)
          /\ pc = "turn" => approval[d].status = "none"
      BY <1>2 DEF Stages, Executing
    <2>2. d = delivery[d].target /\ d \in Mentions /\ delivery[d].kind = "mention"
      BY Target DEF ProcessMention
    <2>3. HostedTyped' /\ UNCHANGED <<approval, deployment, memory, redis, performed>>
      BY DEF ProcessMention, agentVars, HostInv, HostedTyped
    <2>4. /\ performed'[d] <= 1
          /\ performed'[d] > 0 => approval'[d].status \notin {"none", "pending"}
          /\ d \in memory' \cup redis' => performed'[d] > 0
      BY <2>2, <2>3 DEF HostInv, OncePerformed
    <2>5. /\ approval'[d].status \in MayBeDone => approval[d].status \in MayBeDone
          /\ pc \notin {"claim", "act", "acted", "record"}
      BY <2>1, <2>3
    <2> QED
      BY <2>1, <2>2, <2>3, <2>4, <2>5, GoStep
  <1> QED
    BY <1>1, <1>2 DEF ProcessMention

\* The turn of the agent: a new approval has not been performed.
LEMMA TurnStep ==
  ASSUME HostInv, NEW d \in Deliveries, ~At(d, "idle"), AgentTurn(d) PROVE HostInv'
  <1>1. ASSUME NEW e \in BOOLEAN, Leave(d, e, TRUE), UNCHANGED approval PROVE HostInv'
    BY <1>1, QuietLeave DEF AgentTurn, agentVars, outsideVars
  <1>2. CASE Finish(d, TRUE) /\ UNCHANGED approval
    BY <1>2, Ends, QuietLeave DEF AgentTurn, agentVars, outsideVars
  <1>3. CASE SetApproval(d, "pending") /\ Going(d, "post_approval")
    <2>1. /\ stage[d] = "turn" /\ delivery[d].kind = "mention"
      BY DEF AgentTurn, At, HostInv, QueueInv, MentionStages
    <2>2. d = delivery[d].target /\ d \in Mentions
      BY <2>1, Target
    <2>3. approval[d].status = "none" /\ performed[d] = 0 /\ d \notin memory \cup redis
      BY <2>1, <2>2 DEF HostInv, HostedTyped, Relies, At, OncePerformed
    <2>4. /\ approval' \in [Mentions -> ApprovalType] /\ approval'[d].status = "pending"
          /\ \A b \in Mentions \ {d} : approval'[b] = approval[b]
      BY <1>3, <2>2, FieldSet
    <2>5. UNCHANGED <<deployment, memory, redis, performed>>
      BY DEF AgentTurn, outsideVars
    <2>6. HostedTyped'
      BY <2>4, <2>5 DEF HostInv, HostedTyped
    <2>7. /\ "post_approval" \in Stages \ {"idle"} /\ "post_approval" \notin Executing
          /\ "pending" \notin MayBeDone
      BY DEF Stages, Executing, MayBeDone
    <2> QED
      BY <1>3, <2>1, <2>2, <2>3, <2>4, <2>5, <2>6, <2>7, GoStep
  <1> QED
    BY <1>1, <1>2, <1>3 DEF AgentTurn

\* Showing an approval changes no status.
LEMMA PostStep ==
  ASSUME HostInv, NEW d \in Deliveries, ~At(d, "idle"), PostApproval(d) PROVE HostInv'
  <1>1. CASE UNCHANGED approval
    BY <1>1, Ends, QuietLeave DEF PostApproval, agentVars, outsideVars
  <1>2. CASE approval' = [approval EXCEPT ![d].posted = TRUE] /\ Answer(d)
    <2>1. delivery[d].kind = "mention"
      BY DEF PostApproval, At, HostInv, QueueInv, MentionStages
    <2>2. d = delivery[d].target /\ d \in Mentions
      BY <2>1, Target
    <2> DEFINE row == [approval[d] EXCEPT !.posted = TRUE]
    <2>3. row \in ApprovalType /\ row.status = approval[d].status
      BY <2>2 DEF HostInv, HostedTyped, ApprovalType
    <2>4. approval' = [approval EXCEPT ![d] = row] /\ approval \in [Mentions -> ApprovalType]
      BY <1>2 DEF HostInv, HostedTyped
    <2> HIDE DEF row
    <2>5. /\ approval' \in [Mentions -> ApprovalType] /\ approval'[d].status = approval[d].status
          /\ \A b \in Mentions \ {d} : approval'[b] = approval[b]
      BY <2>2, <2>3, <2>4
    <2>6. UNCHANGED <<deployment, memory, redis, performed>>
      BY DEF PostApproval, outsideVars
    <2>7. HostedTyped'
      BY <2>5, <2>6 DEF HostInv, HostedTyped
    <2>8. PICK e \in BOOLEAN, r \in BOOLEAN : Leave(d, e, r)
      BY <1>2, Ends
    <2> QED
      BY <2>2, <2>5, <2>6, <2>7, <2>8, LeaveStep
  <1> QED
    BY <1>1, <1>2 DEF PostApproval

\* The presses of a button that decide nothing, reconcile, or look up an outcome.
LEMMA PressStep ==
  ASSUME HostInv, NEW d \in Deliveries, ~At(d, "idle"),
         ReconcileOutcome(d) \/ ReportStatus(d) \/ RecoverExecuting(d)
  PROVE  HostInv'
  <1> DEFINE a == delivery[d].target
  <1>1. CASE ReconcileOutcome(d)
    BY <1>1, SetAndLeave DEF ReconcileOutcome, outsideVars, Closed
  <1>2. CASE ReportStatus(d)
    BY <1>2, Ends, QuietLeave DEF ReportStatus
  <1>3. CASE RecoverExecuting(d)
    <2>1. approval[a].status \in MayBeDone
      BY <1>3 DEF RecoverExecuting, Press, MayBeDone
    <2>2. CASE Finish(d, TRUE) /\ UNCHANGED <<approval, memory, redis>>
      BY <1>3, <2>2, Ends, QuietLeave DEF RecoverExecuting, agentVars
    <2>3. CASE SetApproval(a, "executed") /\ Forget(a) /\ Answer(d)
      BY <1>3, <2>3, SetAndLeave DEF RecoverExecuting, Forget
    <2>4. CASE /\ SetApproval(a, "outcome_unknown") /\ Answer(d)
               /\ UNCHANGED <<memory, redis>>
      BY <1>3, <2>1, <2>4, SetAndLeave DEF RecoverExecuting
    <2> QED
      BY <1>3, <2>2, <2>3, <2>4 DEF RecoverExecuting
  <1> QED
    BY <1>1, <1>2, <1>3

\* What every worker keeps of an approval it does not touch.
LEMMA Same ==
  ASSUME HostInv, NEW d \in Deliveries, ~At(d, "idle"), UNCHANGED agentVars
  PROVE  LET a == delivery[d].target IN
         /\ HostedTyped' /\ UNCHANGED <<approval, deployment, memory, redis, performed>>
         /\ performed'[a] <= 1
         /\ performed'[a] > 0 => approval'[a].status \notin {"none", "pending"}
         /\ a \in memory' \cup redis' => performed'[a] > 0
  BY Target DEF agentVars, HostInv, HostedTyped, OncePerformed

\* A verdict on a pending approval.
LEMMA DecideStep ==
  ASSUME HostInv, NEW d \in Deliveries, ~At(d, "idle"), DecidePending(d) PROVE HostInv'
  <1>1. CASE SetApproval(delivery[d].target, Closed) /\ Answer(d)
    BY <1>1, SetAndLeave DEF DecidePending, outsideVars, Closed
  <1>2. CASE Going(d, "approve") /\ UNCHANGED approval
    <2> SUFFICES ASSUME NEW a, a = delivery[d].target PROVE HostInv'
      OBVIOUS
    <2>1. "approve" \in Stages \ {"idle"} /\ "approve" \notin Executing
      BY DEF Stages, Executing
    <2>2. UNCHANGED agentVars
      BY <1>2 DEF DecidePending, agentVars, outsideVars
    <2> QED
      BY <1>2, <2>1, <2>2, Same, GoStep
  <1> QED
    BY <1>1, <1>2 DEF DecidePending

\* The claim is checked under both locks, when nothing else is executing.
LEMMA CheckStep ==
  ASSUME HostInv, NEW d \in Deliveries, ~At(d, "idle"), CheckClaim(d) PROVE HostInv'
  <1> DEFINE t == delivery[d].target
  <1>1. CASE SetApproval(t, Closed) /\ Answer(d)
    BY <1>1, SetAndLeave DEF CheckClaim, outsideVars, Closed
  <1>2. CASE Answer(d) /\ UNCHANGED approval
    BY <1>2, Ends, QuietLeave DEF CheckClaim, agentVars, outsideVars
  <1>3. CASE /\ approval[t].status = "pending" /\ Mine(d) = "active" /\ ~EquivalentUnresolved(t)
             /\ Going(d, "claim") /\ UNCHANGED approval
    <2> SUFFICES ASSUME NEW a, a = delivery[d].target PROVE HostInv'
      OBVIOUS
    <2>1. "claim" \in Stages \ {"idle"} /\ ExecutionFree
      BY DEF Stages, Executing, CheckClaim
    <2>2. UNCHANGED agentVars
      BY <1>3 DEF CheckClaim, agentVars, outsideVars
    <2> QED
      BY <1>3, <2>1, <2>2, Same, GoStep
  <1> QED
    BY <1>1, <1>2, <1>3 DEF CheckClaim

\* The claim commits: nothing equivalent is unresolved, and it has not been performed.
LEMMA ActionClaimStep ==
  ASSUME HostInv, NEW d \in Deliveries, ~At(d, "idle"), ClaimApproval(d) PROVE HostInv'
  <1> SUFFICES ASSUME NEW a, a = delivery[d].target PROVE HostInv'
    OBVIOUS
  <1>1. a \in Mentions /\ stage[d] = "claim" /\ stage[d] \in Executing
    BY Target DEF ClaimApproval, At, Executing
  <1>2. /\ Mine(d) = "active" /\ approval[a].status = "pending" /\ ~EquivalentUnresolved(a)
    BY <1>1 DEF HostInv, Relies, At
  <1>3. performed[a] = 0 /\ a \notin memory \cup redis
    BY <1>1, <1>2 DEF HostInv, HostedTyped, OncePerformed
  <1>4. /\ approval' \in [Mentions -> ApprovalType] /\ approval'[a].status = "executing"
        /\ \A b \in Mentions \ {a} : approval'[b] = approval[b]
    BY <1>1, FieldSet DEF ClaimApproval
  <1>5. UNCHANGED <<deployment, memory, redis, performed>> /\ Going(d, "act")
    BY DEF ClaimApproval, outsideVars
  <1>6. HostedTyped'
    BY <1>4, <1>5 DEF HostInv, HostedTyped
  <1>7. "act" \in Stages \ {"idle"}
    BY DEF Stages, Executing
  <1> QED
    BY <1>1, <1>2, <1>3, <1>4, <1>5, <1>6, <1>7, GoStep

\* The action: for the first time.
LEMMA PerformStep ==
  ASSUME HostInv, NEW d \in Deliveries, ~At(d, "idle"), PerformAction(d) PROVE HostInv'
  <1> SUFFICES ASSUME NEW a, a = delivery[d].target PROVE HostInv'
    OBVIOUS
  <1>1. a \in Mentions /\ stage[d] = "act" /\ stage[d] \in Executing
    BY Target DEF PerformAction, At, Executing
  <1>2. Mine(d) = "active" /\ approval[a].status = "executing" /\ performed[a] = 0
    BY <1>1 DEF HostInv, Relies, At
  <1>3. a \notin memory \cup redis /\ approval[a].status \in MayBeDone
    BY <1>1, <1>2 DEF HostInv, OncePerformed, MayBeDone
  <1>4. /\ performed' \in [Mentions -> Nat] /\ performed'[a] = 1
        /\ \A b \in Mentions \ {a} : performed'[b] = performed[b]
    BY <1>1, <1>2 DEF PerformAction, HostInv, HostedTyped
  <1>5. UNCHANGED <<approval, deployment, memory, redis>> /\ Going(d, "acted")
    BY DEF PerformAction
  <1>6. HostedTyped'
    BY <1>4, <1>5 DEF HostInv, HostedTyped
  <1>7. "acted" \in Stages \ {"idle"}
    BY DEF Stages, Executing
  <1>8. performed'[a] <= 1
    BY <1>4
  <1> QED
    BY <1>1, <1>2, <1>3, <1>4, <1>5, <1>6, <1>7, <1>8, GoStep

\* The action returns, and its outcome is recorded.
LEMMA OutcomeStep ==
  ASSUME HostInv, NEW d \in Deliveries, ~At(d, "idle"), ActionReturns(d) \/ RecordExecution(d)
  PROVE  HostInv'
  <1> DEFINE t == delivery[d].target
  <1>1. t \in Mentions /\ stage[d] \in {"acted", "record"} /\ stage[d] \in Executing
    BY Target DEF ActionReturns, RecordExecution, At, Executing
  <1>2. Mine(d) = "active" /\ approval[t].status = "executing" /\ approval[t].status \in MayBeDone
    BY <1>1 DEF HostInv, Relies, MayBeDone
  <1>3. UNCHANGED <<deployment, performed>>
    BY DEF ActionReturns, RecordExecution
  <1>4. CASE SetApproval(t, "outcome_unknown") /\ Answer(d) /\ UNCHANGED <<memory, redis>>
    BY <1>2, <1>3, <1>4, SetAndLeave
  <1>5. CASE Finish(d, TRUE) /\ UNCHANGED <<approval, memory, redis>>
    BY <1>3, <1>5, Ends, QuietLeave DEF agentVars
  <1>6. CASE SetApproval(t, "executed") /\ Forget(t) /\ Answer(d)
    BY <1>3, <1>6, SetAndLeave DEF Forget
  <1>7. CASE /\ At(d, "acted") /\ memory' = memory \cup {t} /\ redis' \in {redis, redis \cup {t}}
             /\ Going(d, "record") /\ UNCHANGED approval
    <2> SUFFICES ASSUME NEW a, a = delivery[d].target PROVE HostInv'
      OBVIOUS
    <2>1. performed[a] = 1
      BY <1>1, <1>7 DEF HostInv, HostedTyped, Relies, At, OncePerformed
    <2>2. HostedTyped'
      BY <1>1, <1>3, <1>7 DEF HostInv, HostedTyped
    <2>3. "record" \in Stages \ {"idle"} /\ a \in Mentions
      BY <1>1 DEF Stages, Executing
    <2>4. performed'[a] <= 1 /\ performed'[a] > 0
      BY <1>3, <2>1
    <2>5. \A b \in Mentions \ {a} : /\ approval'[b] = approval[b] /\ performed'[b] = performed[b]
                                    /\ b \in memory' \cup redis' => b \in memory \cup redis
      BY <1>3, <1>7
    <2>6. approval'[a].status = "executing" /\ Going(d, "record")
      BY <1>2, <1>7
    <2> QED
      BY <1>1, <1>2, <1>3, <2>2, <2>3, <2>4, <2>5, <2>6, GoStep
  <1> QED
    BY <1>4, <1>5, <1>6, <1>7 DEF ActionReturns, RecordExecution

-----------------------------------------------------------------------------
(* The other steps.                                                        *)

\* A delivery is queued behind the others.
LEMMA QueueStep ==
  ASSUME HostInv, NEW d \in Deliveries, ReceiveMention(d) \/ ReceiveInteraction(d)
  PROVE  HostInv'
  <1>1. PICK k \in {"mention"} \cup Presses, a \in Mentions :
           Queue(d, k, a) /\ (k = "mention" => a = d)
    BY DEF ReceiveMention, ReceiveInteraction, Presses
  <1> DEFINE row == [delivery[d] EXCEPT !.status = "pending", !.kind = k, !.target = a]
  <1>2. /\ delivery[d].status = "none" /\ delivery[d].attempts = 0 /\ delivery[d] \in DeliveryType
        /\ At(d, "idle") /\ MaxAttempts \in Nat \ {0} /\ faults \in Nat
    BY <1>1, HostedConstants DEF Queue, HostInv, QueueInv, QueueTyped, HasWorker, AttemptsCounted
  <1>3. /\ row \in DeliveryType /\ row.status = "pending" /\ row.kind = k /\ row.target = a
        /\ row.attempts = 0
    BY <1>2 DEF DeliveryType, Waiting
  <1>4. delivery' = [delivery EXCEPT ![d] = row] /\ UNCHANGED <<stage, faults>>
        /\ UNCHANGED <<approval, deployment, memory, redis, performed>>
        /\ \A c \in Deliveries : c < d => delivery[c].status # "none"
    BY <1>1 DEF Queue, agentVars
  <1> HIDE DEF row
  <1>5. /\ delivery'[d] = row /\ \A c \in Deliveries \ {d} : delivery'[c] = delivery[c]
        /\ QueueTyped' /\ HostedTyped'
    BY <1>3, <1>4 DEF HostInv, QueueInv, QueueTyped, HostedTyped
  <1>6. HasTarget'
    BY <1>1, <1>3, <1>5 DEF HostInv, QueueInv, HasTarget
  <1>7. HasWorker'
    <2>1. ASSUME NEW c \in Deliveries, stage[c] # "idle"
          PROVE  /\ c # d /\ delivery[c].status = "processing" /\ FirstOfThread(c) /\ ~(d < c)
      BY <1>2, <2>1 DEF HostInv, QueueInv, HasWorker, InOrder, At
    <2>2. ASSUME NEW c \in Deliveries, stage[c] # "idle" PROVE FirstOfThread(c)'
      BY <1>5, <2>1, <2>2 DEF FirstOfThread, ThreadAt
    <2> QED
      BY <1>4, <1>5, <2>1, <2>2 DEF HasWorker, At
  <1>8. InOrder'
    <2>1. ASSUME NEW b \in Deliveries, NEW c \in Deliveries, b < c, delivery'[c].status # "none"
          PROVE  delivery'[b].status # "none"
      BY <1>3, <1>4, <1>5, <2>1 DEF HostInv, QueueInv, InOrder
    <2> QED
      BY <2>1 DEF InOrder
  <1>9. MentionStages'
    BY <1>2, <1>4, <1>5 DEF HostInv, QueueInv, MentionStages, At
  <1>10. AttemptsCounted'
    BY <1>2, <1>3, <1>4, <1>5 DEF HostInv, QueueInv, AttemptsCounted, StaleClaim, At
  <1>11. OneExecutes' /\ OncePerformed' /\ Alone'
    BY <1>4 DEF HostInv, OneExecutes, OncePerformed, Alone
  <1>12. ASSUME NEW c \in Deliveries PROVE Relies(c)'
    <2>1. CASE c = d
      BY <1>2, <1>4, <2>1 DEF Relies, At, Executing
    <2>2. CASE c # d
      <3>1. delivery'[c] = delivery[c] /\ Relies(c)
        BY <1>5, <2>2 DEF HostInv
      <3> QED
        BY <1>4, <3>1 DEF Relies, At, Mine, ThreadAt, EquivalentUnresolved
    <2> QED
      BY <2>1, <2>2
  <1> QED
    BY <1>5, <1>6, <1>7, <1>8, <1>9, <1>10, <1>11, <1>12 DEF HostInv, QueueInv

\* A worker takes the first delivery of a thread.
LEMMA TakeStep ==
  ASSUME HostInv, NEW d \in Deliveries, At(d, "idle"), ClaimDelivery(d) PROVE HostInv'
  <1> SUFFICES ASSUME NEW n, n = delivery[d].attempts + 1 PROVE HostInv'
    OBVIOUS
  <1> DEFINE row == [delivery[d] EXCEPT !.status = "processing", !.attempts = n]
  <1>1. /\ delivery[d] \in DeliveryType /\ delivery[d].attempts \in Nat /\ faults \in Nat
        /\ MaxAttempts \in Nat /\ delivery[d].attempts < MaxAttempts + faults
        /\ delivery[d].status \in Waiting /\ FirstOfThread(d)
    BY HostedConstants DEF ClaimDelivery, StaleClaim, HostInv, QueueInv, QueueTyped,
                           AttemptsCounted, DeliveryType, Waiting
  <1>0. n \in Nat
    BY <1>1
  <1>2. /\ row \in DeliveryType /\ row.status = "processing" /\ row.kind = delivery[d].kind
        /\ row.target = delivery[d].target /\ row.attempts = n
    BY <1>0, <1>1 DEF DeliveryType, Waiting
  <1>3. /\ delivery' = [delivery EXCEPT ![d] = row] /\ stage' = [stage EXCEPT ![d] = "start"]
        /\ UNCHANGED <<faults, approval, deployment, memory, redis, performed>>
    BY DEF ClaimDelivery, StepTo, agentVars
  <1> HIDE DEF row
  <1>4. /\ delivery'[d] = row /\ stage'[d] = "start"
        /\ \A c \in Deliveries \ {d} : delivery'[c] = delivery[c] /\ stage'[c] = stage[c]
        /\ QueueTyped' /\ HostedTyped'
    BY <1>2, <1>3 DEF HostInv, QueueInv, QueueTyped, HostedTyped, Stages
  <1>5. \A c \in Deliveries : /\ delivery'[c].target = delivery[c].target
                              /\ delivery'[c].kind = delivery[c].kind
                              /\ delivery'[c].status \in Waiting <=> delivery[c].status \in Waiting
    BY <1>1, <1>2, <1>4 DEF Waiting
  <1>6. HasTarget'
    BY <1>5 DEF HostInv, QueueInv, HasTarget
  <1>7. HasWorker'
    <2>1. ASSUME NEW c \in Deliveries, stage'[c] # "idle"
          PROVE  delivery'[c].status = "processing" /\ FirstOfThread(c)
      BY <1>1, <1>2, <1>4, <2>1 DEF HostInv, QueueInv, HasWorker, At
    <2>2. ASSUME NEW c \in Deliveries, stage'[c] # "idle" PROVE FirstOfThread(c)'
      BY <1>5, <2>1, <2>2 DEF FirstOfThread, ThreadAt
    <2> QED
      BY <2>1, <2>2 DEF HasWorker, At
  <1>8. InOrder'
    <2>1. \A c \in Deliveries : delivery'[c].status # "none" <=> delivery[c].status # "none"
      BY <1>1, <1>2, <1>4 DEF Waiting
    <2> QED
      BY <2>1 DEF HostInv, QueueInv, InOrder
  <1>9. MentionStages'
    BY <1>4 DEF HostInv, QueueInv, MentionStages
  <1>10. AttemptsCounted'
    BY <1>1, <1>2, <1>3, <1>4 DEF HostInv, QueueInv, AttemptsCounted, StaleClaim, At
  <1>11. OneExecutes' /\ OncePerformed' /\ Alone'
    BY <1>3, <1>4 DEF HostInv, OneExecutes, OncePerformed, Alone, Executing
  <1>12. ASSUME NEW c \in Deliveries PROVE Relies(c)'
    <2>1. CASE c = d
      BY <1>4, <2>1 DEF Relies, At, Executing
    <2>2. CASE c # d
      <3>1. delivery'[c] = delivery[c] /\ stage'[c] = stage[c] /\ Relies(c)
        BY <1>4, <2>2 DEF HostInv
      <3> QED
        BY <1>3, <3>1 DEF Relies, At, Mine, ThreadAt, EquivalentUnresolved
    <2> QED
      BY <2>1, <2>2
  <1> QED
    BY <1>4, <1>6, <1>7, <1>8, <1>9, <1>10, <1>11, <1>12 DEF HostInv, QueueInv

\* The process dies: every worker is gone, and one more attempt may be made of each.
LEMMA CrashStep == ASSUME HostInv, CrashHost PROVE HostInv'
  <1>1. /\ \A d \in Deliveries : stage'[d] = "idle"
        /\ stage' \in [Deliveries -> Stages] /\ memory' = {}
        /\ faults < MaxFaults /\ faults' = faults + 1 /\ faults \in Nat /\ MaxFaults \in Nat
        /\ MaxAttempts \in Nat
        /\ UNCHANGED <<delivery, approval, deployment, redis, performed>>
    BY HostedConstants DEF CrashHost, AtRest, Fault, Stages, HostInv, QueueInv, QueueTyped
  <1>2. HostedTyped' /\ QueueTyped'
    BY <1>1 DEF HostInv, QueueInv, HostedTyped, QueueTyped
  <1>3. HasTarget' /\ HasWorker' /\ InOrder' /\ MentionStages'
    BY <1>1 DEF HostInv, QueueInv, HasTarget, HasWorker, InOrder, MentionStages, At
  <1>4. AttemptsCounted'
    <2>1. \A d \in Deliveries : delivery[d].attempts \in Nat
      BY DEF HostInv, QueueInv, QueueTyped, DeliveryType
    <2> QED
      BY <1>1, <2>1 DEF HostInv, QueueInv, AttemptsCounted, StaleClaim
  <1>5. OneExecutes' /\ OncePerformed' /\ Alone'
    BY <1>1 DEF HostInv, OneExecutes, OncePerformed, Alone, Executing
  <1>6. \A d \in Deliveries : Relies(d)'
    BY <1>1 DEF Relies, At, Executing
  <1> QED
    BY <1>2, <1>3, <1>4, <1>5, <1>6 DEF HostInv, QueueInv

\* More faults keep what the queue says.
LEMMA QueueStays ==
  ASSUME HostInv, UNCHANGED <<delivery, stage>>, faults' \in 0..MaxFaults, faults' >= faults
  PROVE  QueueInv'
  <1>1. QueueTyped' /\ HasTarget' /\ InOrder' /\ MentionStages'
    BY DEF HostInv, QueueInv, QueueTyped, HasTarget, InOrder, MentionStages
  <1>2. HasWorker'
    BY DEF HostInv, QueueInv, HasWorker, At, FirstOfThread, ThreadAt
  <1>3. AttemptsCounted'
    <2>1. /\ faults \in Int /\ faults' \in Int /\ MaxAttempts \in Int
          /\ \A d \in Deliveries : delivery[d].attempts \in Nat
      BY HostedConstants DEF HostInv, QueueInv, QueueTyped, DeliveryType
    <2> QED
      BY <2>1 DEF HostInv, QueueInv, AttemptsCounted, StaleClaim, At
  <1> QED
    BY <1>1, <1>2, <1>3 DEF QueueInv

\* The owner changes a deployment while nobody executes under it, and closes at most
\* the pending approvals of its thread.
LEMMA HostOwnerStep ==
  ASSUME HostInv, NEW t \in Threads, AuthorityFree(t), NEW v \in {"active", "paused", "revoked"},
         deployment' = [deployment EXCEPT ![t] = v],
         UNCHANGED <<delivery, stage, memory, redis, performed>>,
         faults' \in 0..MaxFaults, faults' >= faults,
         ExpirePending(t) \/ UNCHANGED approval
  PROVE  HostInv'
  <1>1. ASSUME NEW a \in Mentions
        PROVE  /\ approval'[a] \in ApprovalType
               /\ approval'[a].status = approval[a].status
                  \/ /\ ThreadOf[a] = t /\ approval[a].status = "pending"
                     /\ approval'[a].status = Closed
    BY DEF ExpirePending, HostInv, HostedTyped, ApprovalType, Closed
  <1>2. HostedTyped'
    BY <1>1 DEF ExpirePending, HostInv, HostedTyped
  <1>3. QueueInv'
    BY QueueStays
  <1>4. OneExecutes' /\ OncePerformed'
    BY <1>1 DEF HostInv, OneExecutes, OncePerformed, Closed
  <1>5. \A a \in Mentions : approval'[a].status \in MayBeDone <=> approval[a].status \in MayBeDone
    BY <1>1 DEF MayBeDone, Closed
  <1>6. Alone'
    BY <1>5 DEF HostInv, Alone
  <1>7. ASSUME NEW d \in Deliveries PROVE Relies(d)'
    <2> DEFINE a == delivery[d].target
    <2>1. CASE stage[d] \notin Executing /\ stage[d] # "turn"
      BY <2>1 DEF Relies, At, Executing
    <2>2. CASE stage[d] = "turn"
      <3>1. a \in Mentions /\ approval[a].status = "none"
        BY <2>2, Target DEF HostInv, Relies, At
      <3>2. approval'[a].status = "none"
        BY <1>1, <3>1
      <3> QED
        BY <2>2, <3>2 DEF Relies, At, Executing
    <2>3. CASE stage[d] \in Executing
      <3>1. a \in Mentions /\ ThreadOf[a] # t /\ Relies(d)
        BY <2>3, Target DEF AuthorityFree, ThreadAt, HostInv, At, Executing
      <3>2. approval'[a].status = approval[a].status /\ Mine(d)' = Mine(d)
        BY <1>1, <3>1, HostedConstants DEF Mine, ThreadAt, HostInv, HostedTyped
      <3>3. EquivalentUnresolved(a)' <=> EquivalentUnresolved(a)
        BY <1>5 DEF EquivalentUnresolved, MayBeDone
      <3> QED
        BY <3>1, <3>2, <3>3 DEF Relies, At
    <2> QED
      BY <2>1, <2>2, <2>3
  <1> QED
    BY <1>2, <1>3, <1>4, <1>6, <1>7 DEF HostInv

\* A result that Redis forgets.
LEMMA ForgetStep == ASSUME HostInv, NEW x \in Mentions, ResultExpires(x) PROVE HostInv'
  <1>1. /\ redis' \subseteq redis
        /\ UNCHANGED <<delivery, approval, deployment, stage, memory, performed>>
        /\ faults' \in 0..MaxFaults /\ faults' >= faults
    BY HostedConstants DEF ResultExpires, Fault, HostInv, QueueInv, QueueTyped
  <1>2. QueueInv'
    BY <1>1, QueueStays
  <1>3. HostedTyped' /\ OneExecutes' /\ OncePerformed' /\ Alone'
    BY <1>1 DEF HostInv, HostedTyped, OneExecutes, OncePerformed, Alone
  <1>4. \A d \in Deliveries : Relies(d)'
    BY <1>1 DEF HostInv, Relies, At, Mine, ThreadAt, EquivalentUnresolved
  <1> QED
    BY <1>2, <1>3, <1>4 DEF HostInv

\* Every step keeps the invariant.
LEMMA HostStep == HostInv /\ [NextHosted]_hostedVars => HostInv'
  <1> SUFFICES ASSUME HostInv, [NextHosted]_hostedVars PROVE HostInv'
    OBVIOUS
  <1>0. faults \in 0..MaxFaults /\ MaxFaults \in Nat
    BY HostedConstants DEF HostInv, QueueInv, QueueTyped
  <1>1. CASE UNCHANGED hostedVars
    <2>1. UNCHANGED <<delivery, approval, deployment, stage, memory, redis, performed, faults>>
      BY <1>1 DEF hostedVars
    <2>2. QueueInv'
      BY <1>0, <2>1, QueueStays
    <2>3. HostedTyped' /\ OneExecutes' /\ OncePerformed' /\ Alone'
      BY <2>1 DEF HostInv, HostedTyped, OneExecutes, OncePerformed, Alone
    <2>4. \A d \in Deliveries : Relies(d)'
      BY <2>1 DEF HostInv, Relies, At, Mine, ThreadAt, EquivalentUnresolved
    <2> QED
      BY <2>2, <2>3, <2>4 DEF HostInv
  <1>2. ASSUME NEW d \in Deliveries, ReceiveMention(d) \/ ReceiveInteraction(d) PROVE HostInv'
    BY <1>2, QueueStep
  <1>3. CASE HostWorks
    BY <1>3, TakeStep, ProcessStep, TurnStep, PostStep, PressStep, DecideStep, CheckStep,
       ActionClaimStep, PerformStep, OutcomeStep DEF HostWorks, WorkerSteps
  <1>4. CASE CrashHost
    BY <1>4, CrashStep
  <1>5. ASSUME NEW a \in Mentions, ResultExpires(a) PROVE HostInv'
    BY <1>5, ForgetStep
  <1>6. ASSUME NEW t \in Threads,
               \/ PauseDeployment(t) \/ ResumeDeployment(t)
               \/ DeleteDeployment(t) \/ RemoveDeployer(t) \/ EditDeployment(t)
        PROVE  HostInv'
    <2>1. PICK v \in {"active", "paused", "revoked"} : ChangeDeployment(t, v)
      BY <1>6 DEF PauseDeployment, ResumeDeployment, DeleteDeployment, RemoveDeployer,
                  EditDeployment, HostInv, HostedTyped
    <2>2. /\ faults' \in 0..MaxFaults /\ faults' >= faults
          /\ ExpirePending(t) \/ UNCHANGED approval
      BY <1>0, <1>6 DEF PauseDeployment, ResumeDeployment, DeleteDeployment, RemoveDeployer,
                        EditDeployment, Fault
    <2> QED
      BY <2>1, <2>2, HostOwnerStep DEF ChangeDeployment, LockAuthority
  <1> QED
    BY <1>1, <1>2, <1>3, <1>4, <1>5, <1>6 DEF NextHosted

-----------------------------------------------------------------------------
(* Theorems.                                                               *)

\* The state is well formed; a delivery is tried MaxAttempts times and once more for
\* every fault at most (claimHostedAgentDelivery).
THEOREM HostedTypeCorrect == HostedSpec => []HostedTypeOK
  <1>1. HostInv => HostedTypeOK
    <2> SUFFICES ASSUME HostInv PROVE HostedTypeOK
      OBVIOUS
    <2>1. faults \in 0..MaxFaults /\ MaxFaults \in Nat /\ MaxAttempts \in Nat
      BY HostedConstants DEF HostInv, QueueInv, QueueTyped
    <2>2. ASSUME NEW d \in Deliveries
          PROVE  /\ delivery[d] \in DeliveryType
                 /\ delivery[d].attempts \in 0..(MaxAttempts + MaxFaults)
      BY <2>1 DEF HostInv, QueueInv, QueueTyped, AttemptsCounted, DeliveryType
    <2>3. \A d \in Deliveries : delivery[d] \in
              [status : {"none", "ended"} \cup Waiting, kind : {"none", "mention"} \cup Presses,
               target : Mentions \cup {0}, replied : BOOLEAN,
               attempts : 0..(MaxAttempts + MaxFaults)]
      BY <2>2 DEF DeliveryType
    <2>4. delivery \in [Deliveries -> [status : {"none", "ended"} \cup Waiting,
              kind : {"none", "mention"} \cup Presses, target : Mentions \cup {0},
              replied : BOOLEAN, attempts : 0..(MaxAttempts + MaxFaults)]]
      BY <2>3 DEF HostInv, QueueInv, QueueTyped
    <2> QED
      BY <2>1, <2>4 DEF HostedTypeOK, HostInv, QueueInv, QueueTyped, HostedTyped, ApprovalType, Stages
  <1> QED
    BY <1>1, HostInit, HostStep, PTL DEF HostedSpec

\* An approved action is performed at most once, and never while an equivalent one
\* runs or may have happened; the deliveries of a thread are processed one at a time
\* and in order (slack_agent_host.go:411, :1403, :1756, :1872).
THEOREM ActionsOnceAndAlone == HostedSpec => []ActsOnceAndAlone
  <1>1. HostInv => ActsOnceAndAlone
    BY DEF HostInv, QueueInv, HasWorker, OncePerformed, Alone, MayBeDone, ActsOnceAndAlone
  <1> QED
    BY <1>1, HostInit, HostStep, PTL DEF HostedSpec

\* While an action is under way its deployment is active (slack_agent_host.go:553).
THEOREM ActionsCovered == HostedSpec => []AuthorityCoversAction
  <1>1. HostInv => AuthorityCoversAction
    BY DEF HostInv, Relies, Executing, AuthorityCoversAction
  <1> QED
    BY <1>1, HostInit, HostStep, PTL DEF HostedSpec

\* No step gives up an outcome that can still be looked up (slack_agent_host.go:2000).
THEOREM OutcomesKept == HostedSpec => KnownOutcomeKept
  <1> DEFINE Kept == \A a \in Mentions : approval'[a].status = "outcome_unknown" =>
                         approval[a].status = "outcome_unknown" \/ a \notin memory \cup redis
  <1>1. HostInv /\ [NextHosted]_hostedVars => [Kept]_hostedVars
    <2> SUFFICES ASSUME HostInv, NextHosted PROVE Kept
      OBVIOUS
    <2>1. CASE UNCHANGED approval
      BY <2>1
    <2>2. ASSUME NEW a \in Mentions, approval'[a].status = "outcome_unknown",
                 approval[a].status # "outcome_unknown", ~(UNCHANGED approval)
          PROVE  a \notin memory \cup redis
      <3>1. ASSUME NEW b \in Mentions, NEW s \in {"pending", "executing", "executed", Closed},
                   SetApproval(b, s)
            PROVE  FALSE
        BY <2>2, <3>1, FieldSet DEF Closed
      <3>2. ASSUME NEW t \in Threads, ExpirePending(t) PROVE FALSE
        BY <2>2, <3>2 DEF ExpirePending, HostInv, HostedTyped, ApprovalType, Closed
      <3>3. ASSUME NEW d \in Deliveries, approval' = [approval EXCEPT ![d].posted = TRUE] PROVE FALSE
        BY <2>2, <3>3 DEF HostInv, HostedTyped, ApprovalType
      <3>4. ASSUME NEW b \in Mentions, b \notin memory \cup redis, SetApproval(b, "outcome_unknown")
            PROVE  a \notin memory \cup redis
        BY <2>2, <3>4, FieldSet
      <3>5. PICK d \in Deliveries : ~At(d, "idle") /\ WorkerSteps(d)
        <4>1. \A t \in Threads : ~(\/ PauseDeployment(t) \/ ResumeDeployment(t)
                                   \/ DeleteDeployment(t) \/ RemoveDeployer(t) \/ EditDeployment(t))
          BY <2>2, <3>2 DEF PauseDeployment, ResumeDeployment, DeleteDeployment, RemoveDeployer,
                            EditDeployment
        <4>2. /\ ~CrashHost /\ \A b \in Mentions : ~ResultExpires(b)
              /\ \A d \in Deliveries : ~ReceiveMention(d) /\ ~ReceiveInteraction(d)
                                        /\ ~ClaimDelivery(d)
          BY <2>2 DEF CrashHost, ResultExpires, ReceiveMention, ReceiveInteraction, Queue,
                      ClaimDelivery, agentVars
        <4> QED
          BY <4>1, <4>2 DEF NextHosted, HostWorks
      <3> DEFINE b == delivery[d].target
      <3>6. b \in Mentions /\ (delivery[d].kind = "mention" => d = b) /\ Relies(d)
        BY <3>5, Target DEF HostInv
      <3>7. ~ProcessMention(d) /\ ~ReportStatus(d) /\ ~PerformAction(d)
        BY <2>2 DEF ProcessMention, ReportStatus, PerformAction, agentVars
      <3>8. ~AgentTurn(d)
        BY <2>2, <3>1, <3>6 DEF AgentTurn, HostInv, QueueInv, MentionStages, At
      <3>9. ~PostApproval(d)
        BY <2>2, <3>3 DEF PostApproval
      <3>10. ~ReconcileOutcome(d) /\ ~DecidePending(d) /\ ~CheckClaim(d) /\ ~ClaimApproval(d)
             /\ ~RecordExecution(d)
        BY <2>2, <3>1, <3>6 DEF ReconcileOutcome, DecidePending, CheckClaim, ClaimApproval,
                                RecordExecution
      <3>11. CASE RecoverExecuting(d)
        BY <2>2, <3>1, <3>4, <3>6, <3>11 DEF RecoverExecuting, Known
      <3>12. CASE ActionReturns(d)
        BY <2>2, <3>4, <3>6, <3>12 DEF ActionReturns, Relies
      <3> QED
        BY <3>5, <3>7, <3>8, <3>9, <3>10, <3>11, <3>12 DEF WorkerSteps
    <2> QED
      BY <2>1, <2>2
  <1> QED
    BY <1>1, HostInit, HostStep, PTL DEF HostedSpec, KnownOutcomeKept

-----------------------------------------------------------------------------
(***************************************************************************)
(* Triggers, for any number of saves, deletions, deliveries and failures: a *)
(* live row names a hook that exists, and an event starts one run within   *)
(* the cap.                                                                *)
(***************************************************************************)
MaybeSave == Saves \cup {NoSave}
TriggerRowType == [id : MaybeSave, hook : MaybeSave, enabled : BOOLEAN,
            error : {"suspended", "repository", Other}]
SavingType == [pc : {"new", "register", "save", "retire", "rollback", "done"},
               id : MaybeSave, hook : MaybeSave]
RetiringType == [pc : {"new", "hook", "row", "done"}, id : MaybeSave, hook : MaybeSave]
PostingType == [pc : {"new", "routed", "count", "admit", "ran", "done"}, id : MaybeSave,
                event : Events \cup {NoSave}, recorded : BOOLEAN]

TriggersTyped ==
    /\ provider \in {"github", "gitlab", "monday"}
    /\ trigger \in TriggerRowType /\ (trigger.enabled => Live) /\ (Live \/ trigger.hook = NoSave)
    /\ hooks \subseteq Saves /\ callback \in [Saves -> MaybeSave]
    /\ saving \in [Saves -> SavingType] /\ retiring \in [Retires -> RetiringType]
    /\ posting \in [Posts -> PostingType]
    /\ claimed \subseteq Events \X Saves /\ lapses \in Nat

\* A row, and whoever read a row, names the hook of a save that has written it;
\* such a save removes no hook but the one it replaced.  A save that is about to
\* write still has its own hook.
RowWritten(h) == h \in Saves /\ saving[h].pc \in {"retire", "done"}
HookInv ==
    /\ Live => RowWritten(trigger.hook)
    /\ \A s \in Saves : SavingAt(s, "save") => s \in hooks
    /\ \A s \in Saves : saving[s].hook = NoSave \/ RowWritten(saving[s].hook)
    /\ \A x \in Retires : retiring[x].hook = NoSave \/ RowWritten(retiring[x].hook)
    /\ \A s \in Saves : SavingAt(s, "retire") /\ Live => saving[s].hook # trigger.hook
    /\ HookMatchesRow

\* A recorded delivery holds the one claim of its event and row, and those that
\* passed the cap are no more than the claims that were counted.
Recorded(p) == posting[p].recorded /\ posting[p].pc \in {"count", "admit", "ran"}
ClaimOf(p) == <<posting[p].event, posting[p].id>>
Passed(i) == {p \in Posts : posting[p].recorded /\ posting[p].pc \in {"admit", "ran"}
                            /\ posting[p].id = i}
ClaimInv ==
    /\ IsFiniteSet(claimed)
    /\ \A p \in Posts : posting[p].pc \in {"routed", "count", "admit", "ran"}
                            => ClaimOf(p) \in Events \X Saves
    /\ \A p \in Posts : posting[p].pc = "routed" => ~posting[p].recorded
    /\ \A p \in Posts : Recorded(p) => ClaimOf(p) \in claimed
    /\ \A p, q \in Posts : Recorded(p) /\ Recorded(q) /\ ClaimOf(p) = ClaimOf(q) => p = q
CapInv == \A i \in Saves : IsFiniteSet(Passed(i)) /\ Cardinality(Passed(i)) <= MaxRuns

TriggerInv == TriggersTyped /\ (~AppLevel => HookInv) /\ ClaimInv /\ CapInv

-----------------------------------------------------------------------------
(* Lemmas: the types.                                                      *)

\* Before anything happened the invariant holds.
LEMMA TriggerInit == InitTriggers => TriggerInv
  <1> SUFFICES ASSUME InitTriggers PROVE TriggerInv
    OBVIOUS
  <1> USE TriggerConstants
  <1>1. /\ NoTrigger \in TriggerRowType /\ NoTrigger.id = NoSave /\ ~NoTrigger.enabled
        /\ NoTrigger.hook = NoSave
    BY DEF NoTrigger, TriggerRowType, MaybeSave
  <1>2. Unused \in SavingType /\ Unused \in RetiringType /\ Unused.pc = "new"
        /\ Unused.hook = NoSave
    BY DEF Unused, SavingType, RetiringType, MaybeSave
  <1>3. Unposted \in PostingType /\ Unposted.pc = "new" /\ ~Unposted.recorded
    BY DEF Unposted, PostingType, MaybeSave
  <1>4. TriggersTyped
    BY <1>1, <1>2, <1>3 DEF InitTriggers, TriggersTyped, Live, MaybeSave
  <1>5. HookInv
    BY <1>1, <1>2 DEF InitTriggers, HookInv, Live, SavingAt, HookMatchesRow
  <1>6. ClaimInv
    BY <1>3, FS_EmptySet DEF InitTriggers, ClaimInv, Recorded
  <1>7. \A i \in Saves : Passed(i) = {}
    BY <1>3 DEF InitTriggers, Passed
  <1> QED
    BY <1>4, <1>5, <1>6, <1>7, FS_EmptySet DEF TriggerInv, CapInv

\* The records the actions write are well formed.
LEMMA Records ==
  ASSUME TriggersTyped
  PROVE  /\ \A s \in Saves, pc \in {"new", "register", "save", "retire", "rollback", "done"} :
              /\ [saving[s] EXCEPT !.pc = pc] \in SavingType
              /\ [saving[s] EXCEPT !.pc = pc].pc = pc
              /\ [saving[s] EXCEPT !.pc = pc].hook = saving[s].hook
         /\ [Unused EXCEPT !.pc = "done"] \in SavingType
         /\ [Unused EXCEPT !.pc = "done"].pc = "done"
         /\ [Unused EXCEPT !.pc = "done"].hook = NoSave
         /\ [Unposted EXCEPT !.pc = "done"] \in PostingType
         /\ [Unposted EXCEPT !.pc = "done"].pc = "done"
         /\ ~[Unposted EXCEPT !.pc = "done"].recorded
         /\ \A x \in Retires, pc \in {"new", "hook", "row", "done"} :
              /\ [retiring[x] EXCEPT !.pc = pc] \in RetiringType
              /\ [retiring[x] EXCEPT !.pc = pc].hook = retiring[x].hook
  <1>1. \A s \in Saves : saving[s] \in SavingType
    BY DEF TriggersTyped
  <1>2. \A x \in Retires : retiring[x] \in RetiringType
    BY DEF TriggersTyped
  <1>3. ASSUME NEW s \in Saves,
               NEW pc \in {"new", "register", "save", "retire", "rollback", "done"}
        PROVE  /\ [saving[s] EXCEPT !.pc = pc] \in SavingType
               /\ [saving[s] EXCEPT !.pc = pc].pc = pc
               /\ [saving[s] EXCEPT !.pc = pc].hook = saving[s].hook
    BY <1>1 DEF SavingType
  <1>4. ASSUME NEW x \in Retires, NEW pc \in {"new", "hook", "row", "done"}
        PROVE  /\ [retiring[x] EXCEPT !.pc = pc] \in RetiringType
               /\ [retiring[x] EXCEPT !.pc = pc].hook = retiring[x].hook
    BY <1>2 DEF RetiringType
  <1>5. /\ [Unused EXCEPT !.pc = "done"] \in SavingType
        /\ [Unused EXCEPT !.pc = "done"].pc = "done"
        /\ [Unused EXCEPT !.pc = "done"].hook = NoSave
    BY DEF Unused, SavingType, MaybeSave
  <1>6. /\ [Unposted EXCEPT !.pc = "done"] \in PostingType
        /\ [Unposted EXCEPT !.pc = "done"].pc = "done"
        /\ ~[Unposted EXCEPT !.pc = "done"].recorded
    BY DEF Unposted, PostingType, MaybeSave
  <1> QED
    BY <1>3, <1>4, <1>5, <1>6

\* What a delivery notes leaves the row and its hook alone.
LEMMA Noted ==
  ASSUME TriggersTyped, NEW p \in Posts, NoteTrigger(p)
  PROVE  /\ trigger' \in TriggerRowType /\ trigger'.id = trigger.id /\ trigger'.hook = trigger.hook
         /\ trigger'.enabled = trigger.enabled
  BY DEF NoteTrigger, TriggersTyped, TriggerRowType

-----------------------------------------------------------------------------
(* Lemmas: no step breaks a type.                                          *)

\* Every action, one by one.
LEMMA TriggersTypedStep == ASSUME TriggerInv, NextTriggers PROVE TriggersTyped'
  <1> USE TriggerConstants
  <1>0. TriggersTyped /\ ClaimInv
    BY DEF TriggerInv
  <1>l. Lapse \/ UNCHANGED lapses => lapses' \in Nat
    BY <1>0 DEF TriggersTyped, Lapse
  <1>s. ASSUME NEW s \in Saves, EndSave(s) PROVE saving' \in [Saves -> SavingType]
    BY <1>0, <1>s, Records DEF EndSave, TriggersTyped
  <1>1. ASSUME NEW s \in Saves, ReadTrigger(s) PROVE TriggersTyped'
    <2>1. [pc |-> "register", id |-> trigger.id, hook |-> trigger.hook] \in SavingType
      BY <1>0 DEF TriggersTyped, TriggerRowType, SavingType
    <2> QED
      BY <1>0, <1>1, <2>1 DEF ReadTrigger, TriggersTyped, Live
  <1>2. ASSUME NEW s \in Saves, RegisterHook(s) PROVE TriggersTyped'
    <2>1. saving' \in [Saves -> SavingType]
      BY <1>0, <1>2, Records DEF RegisterHook, SaveStep, TriggersTyped
    <2>2. saving[s].id \in MaybeSave
      BY <1>0 DEF TriggersTyped, SavingType
    <2>3. hooks' \subseteq Saves /\ callback' \in [Saves -> MaybeSave]
      BY <1>0, <1>2, <2>2 DEF RegisterHook, TriggersTyped, MaybeSave
    <2> QED
      BY <1>0, <1>2, <2>1, <2>3 DEF RegisterHook, TriggersTyped, Live
  <1>3. ASSUME NEW s \in Saves, RegisterFails(s) PROVE TriggersTyped'
    BY <1>0, <1>l, <1>s, <1>3 DEF RegisterFails, TriggersTyped, Live
  <1>4. ASSUME NEW s \in Saves, SaveTrigger(s) PROVE TriggersTyped'
    <2>1. saving' \in [Saves -> SavingType]
      BY <1>0, <1>4, Records DEF SaveTrigger, SaveStep, EndSave, TriggersTyped
    <2>2. saving[s].id \in MaybeSave
      BY <1>0 DEF TriggersTyped, SavingType
    <2>3. trigger' \in TriggerRowType /\ Live'
      BY <1>4, <2>2 DEF SaveTrigger, TriggerRowType, MaybeSave, Live
    <2> QED
      BY <1>0, <1>4, <2>1, <2>3 DEF SaveTrigger, TriggersTyped
  <1>5. ASSUME NEW s \in Saves, SaveFails(s) PROVE TriggersTyped'
    <2>1. saving' \in [Saves -> SavingType]
      BY <1>0, <1>5, Records DEF SaveFails, SaveStep, EndSave, TriggersTyped
    <2> QED
      BY <1>0, <1>l, <1>5, <2>1 DEF SaveFails, TriggersTyped, Live
  <1>6. ASSUME NEW s \in Saves, RetireHook(s) PROVE TriggersTyped'
    BY <1>0, <1>l, <1>s, <1>6 DEF RetireHook, TriggersTyped, Live
  <1>7. ASSUME NEW x \in Retires, ReadRetired(x) PROVE TriggersTyped'
    <2>1. [pc |-> "hook", id |-> trigger.id, hook |-> trigger.hook] \in RetiringType
      BY <1>0 DEF TriggersTyped, TriggerRowType, RetiringType
    <2> QED
      BY <1>0, <1>7, <2>1 DEF ReadRetired, TriggersTyped, Live
  <1>8. ASSUME NEW x \in Retires, UnregisterHook(x) PROVE TriggersTyped'
    <2>1. retiring' \in [Retires -> RetiringType]
      BY <1>0, <1>8, Records DEF UnregisterHook, TriggersTyped
    <2> QED
      BY <1>0, <1>l, <1>8, <2>1 DEF UnregisterHook, TriggersTyped, Live
  <1>9. ASSUME NEW x \in Retires, DeleteTrigger(x) PROVE TriggersTyped'
    <2>1. NoTrigger \in TriggerRowType /\ ~NoTrigger.enabled /\ NoTrigger.hook = NoSave
      BY DEF NoTrigger, TriggerRowType, MaybeSave
    <2>2. retiring' \in [Retires -> RetiringType]
      BY <1>0, <1>9, Records DEF DeleteTrigger, TriggersTyped
    <2>3. trigger' = trigger \/ trigger' = NoTrigger
      BY <1>9 DEF DeleteTrigger
    <2>4. trigger' \in TriggerRowType /\ (trigger'.enabled => Live') /\ (Live' \/ trigger'.hook = NoSave)
      BY <1>0, <2>1, <2>3 DEF TriggersTyped, Live
    <2> QED
      BY <1>0, <1>l, <1>9, <2>2, <2>4 DEF DeleteTrigger, TriggersTyped
  <1>10. ASSUME NEW p \in Posts, NEW e \in Events, ReceiveProviderHook(p, e) PROVE TriggersTyped'
    <2>1. [pc |-> "routed", id |-> trigger.id, event |-> e, recorded |-> FALSE] \in PostingType
      BY <1>0 DEF TriggersTyped, TriggerRowType, PostingType
    <2> QED
      BY <1>0, <1>10, <2>1 DEF ReceiveProviderHook, TriggersTyped, Live
  <1>11. ASSUME NEW p \in Posts, ClaimPost(p) PROVE TriggersTyped'
    <2>1. ClaimOf(p) \in Events \X Saves
      BY <1>0, <1>11 DEF ClaimPost, PostAt, ClaimInv
    <2>2. posting[p] \in PostingType
      BY <1>0 DEF TriggersTyped
    <2>3. [posting[p] EXCEPT !.pc = "count", !.recorded = TRUE] \in PostingType
      BY <2>2 DEF PostingType
    <2>4. posting' = [posting EXCEPT ![p] = [posting[p] EXCEPT !.pc = "count", !.recorded = TRUE]]
          \/ posting' = [posting EXCEPT ![p] = [Unposted EXCEPT !.pc = "done"]]
      BY <1>0, <1>11 DEF ClaimPost, EndPost, TriggersTyped
    <2> HIDE DEF ClaimOf
    <2>5. posting' \in [Posts -> PostingType]
      BY <1>0, <2>3, <2>4, Records DEF TriggersTyped
    <2>6. claimed' \subseteq Events \X Saves
      BY <1>0, <1>11, <2>1 DEF ClaimPost, TriggersTyped, ClaimOf
    <2> QED
      BY <1>0, <1>11, <2>5, <2>6 DEF ClaimPost, TriggersTyped, Live
  <1>12. ASSUME NEW p \in Posts, NEW pc \in {"count", "admit", "ran"}
         PROVE  [posting EXCEPT ![p].pc = pc] \in [Posts -> PostingType]
    BY <1>0 DEF TriggersTyped, PostingType
  <1>13. ASSUME NEW p \in Posts, EndPost(p) PROVE posting' \in [Posts -> PostingType]
    BY <1>0, <1>13, Records DEF EndPost, TriggersTyped
  <1>14. ASSUME NEW p \in Posts, ClaimFails(p) \/ CrashPost(p) PROVE TriggersTyped'
    <2>1. posting' \in [Posts -> PostingType]
      BY <1>12, <1>13, <1>14 DEF ClaimFails, CrashPost
    <2> QED
      BY <1>0, <1>l, <1>14, <2>1 DEF ClaimFails, CrashPost, TriggersTyped, Live
  <1>15. ASSUME NEW p \in Posts, CountRuns(p) \/ StartRun(p) \/ RefuseRun(p) PROVE TriggersTyped'
    <2>1. posting' \in [Posts -> PostingType]
      BY <1>12, <1>13, <1>15 DEF CountRuns, StartRun, RefuseRun
    <2>2. trigger' = trigger \/ NoteTrigger(p)
      BY <1>15 DEF CountRuns, StartRun, RefuseRun
    <2>3. trigger' \in TriggerRowType /\ trigger'.id = trigger.id /\ trigger'.hook = trigger.hook
          /\ trigger'.enabled = trigger.enabled
      BY <1>0, <2>2, Noted DEF TriggersTyped
    <2> QED
      BY <1>0, <1>15, <2>1, <2>3 DEF CountRuns, StartRun, RefuseRun, TriggersTyped, Live
  <1>16. ASSUME NEW reason \in {"suspended", "repository", Other},
                LoseAccess(reason) \/ RegainAccess(reason)
         PROVE  TriggersTyped'
    <2>1. trigger' \in TriggerRowType /\ trigger'.id = trigger.id /\ trigger'.hook = trigger.hook /\ Live
      BY <1>0, <1>16 DEF LoseAccess, RegainAccess, Disable, TriggersTyped, TriggerRowType
    <2> QED
      BY <1>0, <1>16, <2>1 DEF LoseAccess, RegainAccess, TriggersTyped, Live
  <1> QED
    BY <1>1, <1>2, <1>3, <1>4, <1>5, <1>6, <1>7, <1>8, <1>9, <1>10, <1>11, <1>14, <1>15, <1>16
    DEF NextTriggers

-----------------------------------------------------------------------------
(* Lemmas: the hooks.                                                      *)

\* What keeps the hooks: nobody's read row changes but by reading the trigger, a
\* written save stays written, and a hook that goes is not the live one.
LEMMA HookStep == ASSUME TriggerInv, NextTriggers, ~AppLevel PROVE HookInv'
  <1> USE TriggerConstants
  <1>0. TriggersTyped /\ HookInv
    BY DEF TriggerInv
  <1>1. ASSUME NEW s \in Saves, ReadTrigger(s) PROVE HookInv'
    <2>1. /\ saving'[s].pc = "register" /\ saving'[s].hook = trigger.hook
          /\ \A t \in Saves \ {s} : saving'[t] = saving[t]
      BY <1>0, <1>1 DEF ReadTrigger, TriggersTyped
    <2>2. \A h : RowWritten(h) => RowWritten(h)'
      BY <1>1, <2>1 DEF RowWritten, ReadTrigger, SavingAt
    <2>3. trigger.hook = NoSave \/ RowWritten(trigger.hook)
      BY <1>0 DEF TriggersTyped, HookInv
    <2> QED
      BY <1>0, <1>1, <2>1, <2>2, <2>3 DEF ReadTrigger, HookInv, HookMatchesRow, SavingAt, Live, AppLevel
  <1>2. ASSUME NEW s \in Saves, RegisterHook(s) PROVE HookInv'
    <2>1. /\ saving'[s].pc = "save" /\ saving'[s].hook = saving[s].hook
          /\ \A t \in Saves \ {s} : saving'[t] = saving[t]
      BY <1>0, <1>2, Records DEF RegisterHook, SaveStep, TriggersTyped
    <2>2. \A h : RowWritten(h) => RowWritten(h)'
      BY <1>2, <2>1 DEF RowWritten, RegisterHook, SavingAt
    <2>3. hooks' = hooks \cup {s}
      BY <1>2 DEF RegisterHook
    <2> QED
      BY <1>0, <1>2, <2>1, <2>2, <2>3 DEF RegisterHook, HookInv, HookMatchesRow, SavingAt, Live, AppLevel
  <1>3. ASSUME NEW s \in Saves, RegisterFails(s) PROVE HookInv'
    <2>1. /\ saving'[s].pc = "done" /\ saving'[s].hook = NoSave
          /\ \A t \in Saves \ {s} : saving'[t] = saving[t]
      BY <1>0, <1>3, Records DEF RegisterFails, EndSave, TriggersTyped
    <2>2. \A h : RowWritten(h) => RowWritten(h)'
      BY <1>3, <2>1 DEF RowWritten
    <2> QED
      BY <1>0, <1>3, <2>1, <2>2 DEF RegisterFails, HookInv, HookMatchesRow, SavingAt, Live, AppLevel
  <1>4. ASSUME NEW s \in Saves, SaveTrigger(s) PROVE HookInv'
    <2>1. /\ saving[s].pc = "save" /\ s \in hooks /\ s # NoSave
          /\ trigger'.hook = s
          /\ hooks' = hooks /\ retiring' = retiring /\ provider' = provider
      BY <1>0, <1>4 DEF SaveTrigger, SavingAt, HookInv
    <2>2. /\ \A t \in Saves \ {s} : saving'[t] = saving[t]
          /\ \/ saving'[s].pc = "retire" /\ saving'[s].hook = saving[s].hook /\ saving[s].hook # NoSave
             \/ saving'[s].pc = "done" /\ saving'[s].hook = NoSave
      BY <1>0, <1>4, Records DEF SaveTrigger, SaveStep, EndSave, TriggersTyped
    <2>3. RowWritten(s)' /\ \A h : RowWritten(h) => RowWritten(h)' /\ h # s
      BY <2>1, <2>2 DEF RowWritten
    <2>4. \A t \in Saves : SavingAt(t, "retire")' => saving'[t].hook # s
      BY <1>0, <2>1, <2>2, <2>3 DEF HookInv, SavingAt, RowWritten
    <2> QED
      BY <1>0, <2>1, <2>2, <2>3, <2>4 DEF HookInv, HookMatchesRow, SavingAt
  <1>5. ASSUME NEW s \in Saves, SaveFails(s) PROVE HookInv'
    <2>1. /\ saving[s].pc = "save" /\ saving'[s].pc = "rollback" /\ saving'[s].hook = saving[s].hook
          /\ \A t \in Saves \ {s} : saving'[t] = saving[t]
      BY <1>0, <1>5, Records DEF SaveFails, SavingAt, SaveStep, TriggersTyped
    <2>2. \A h : RowWritten(h) => RowWritten(h)'
      BY <2>1 DEF RowWritten
    <2> QED
      BY <1>0, <1>5, <2>1, <2>2 DEF SaveFails, HookInv, HookMatchesRow, SavingAt, Live, AppLevel
  <1>6. ASSUME NEW s \in Saves, RetireHook(s) PROVE HookInv'
    <2>1. /\ saving[s].pc \in {"rollback", "retire"}
          /\ saving'[s].pc = "done" /\ saving'[s].hook = NoSave
          /\ \A t \in Saves \ {s} : saving'[t] = saving[t]
      BY <1>0, <1>6, Records DEF RetireHook, EndSave, SavingAt, TriggersTyped
    <2>2. \A h : RowWritten(h) => RowWritten(h)'
      BY <2>1 DEF RowWritten
    <2>3. Live => StaleHook(s) # trigger.hook
      BY <1>0, <2>1 DEF StaleHook, SavingAt, HookInv, RowWritten
    <2>4. \A t \in Saves : SavingAt(t, "save") => StaleHook(s) # t
      BY <1>0, <2>1 DEF StaleHook, SavingAt, HookInv, RowWritten
    <2>5. \A h \in hooks : h # StaleHook(s) => h \in hooks'
      BY <1>6 DEF RetireHook
    <2> QED
      BY <1>0, <1>6, <2>1, <2>2, <2>3, <2>4, <2>5
      DEF RetireHook, HookInv, HookMatchesRow, SavingAt, Live, AppLevel
  <1>7. ASSUME NEW x \in Retires, ReadRetired(x) PROVE HookInv'
    <2>1. /\ retiring'[x].hook = trigger.hook
          /\ \A y \in Retires \ {x} : retiring'[y] = retiring[y]
      BY <1>0, <1>7 DEF ReadRetired, TriggersTyped
    <2> QED
      BY <1>0, <1>7, <2>1 DEF ReadRetired, HookInv, HookMatchesRow, SavingAt, Live, AppLevel, RowWritten
  <1>8. ASSUME NEW x \in Retires, UnregisterHook(x) PROVE HookInv'
    <2>1. \A y \in Retires : retiring'[y].hook = retiring[y].hook
      BY <1>0, <1>8, Records DEF UnregisterHook, TriggersTyped
    <2>2. \A h \in hooks : h # retiring[x].hook => h \in hooks'
      BY <1>8 DEF UnregisterHook
    <2>3. \A t \in Saves : SavingAt(t, "save") => retiring[x].hook # t
      BY <1>0 DEF SavingAt, HookInv, RowWritten
    <2> QED
      BY <1>0, <1>8, <2>1, <2>2, <2>3
      DEF UnregisterHook, HookInv, HookMatchesRow, SavingAt, Live, AppLevel, RowWritten
  <1>9. ASSUME NEW x \in Retires, DeleteTrigger(x) PROVE HookInv'
    <2>1. \A y \in Retires : retiring'[y].hook = retiring[y].hook
      BY <1>0, <1>9, Records DEF DeleteTrigger, TriggersTyped
    <2>2. trigger' = trigger \/ ~Live'
      BY <1>9 DEF DeleteTrigger, NoTrigger, Live
    <2> QED
      BY <1>0, <1>9, <2>1, <2>2
      DEF DeleteTrigger, HookInv, HookMatchesRow, SavingAt, Live, AppLevel, RowWritten
  <1>10. ASSUME trigger'.id = trigger.id, trigger'.hook = trigger.hook,
                UNCHANGED <<provider, hooks, saving, retiring>>
         PROVE  HookInv'
    BY <1>0, <1>10 DEF HookInv, HookMatchesRow, SavingAt, Live, AppLevel, RowWritten
  <1>11. ASSUME NEW p \in Posts, NEW e \in Events, ReceiveProviderHook(p, e) PROVE HookInv'
    BY <1>10, <1>11 DEF ReceiveProviderHook
  <1>12. ASSUME NEW p \in Posts,
                ClaimPost(p) \/ ClaimFails(p) \/ CountRuns(p) \/ StartRun(p) \/ RefuseRun(p) \/ CrashPost(p)
         PROVE  HookInv'
    <2>1. trigger' = trigger \/ NoteTrigger(p)
      BY <1>12 DEF ClaimPost, ClaimFails, CountRuns, StartRun, RefuseRun, CrashPost
    <2>2. UNCHANGED <<provider, hooks, saving, retiring>>
      BY <1>12 DEF ClaimPost, ClaimFails, CountRuns, StartRun, RefuseRun, CrashPost
    <2>3. trigger'.id = trigger.id /\ trigger'.hook = trigger.hook
      BY <1>0, <2>1, Noted
    <2> QED
      BY <1>10, <2>2, <2>3
  <1>13. \A reason : ~LoseAccess(reason) /\ ~RegainAccess(reason)
    BY DEF LoseAccess, RegainAccess
  <1> QED
    BY <1>1, <1>2, <1>3, <1>4, <1>5, <1>6, <1>7, <1>8, <1>9, <1>11, <1>12, <1>13
    DEF NextTriggers

-----------------------------------------------------------------------------
(* Lemmas: claims and the cap.                                             *)

\* A step that moves one delivery, claims nothing and lets no further delivery
\* past the cap: the delivery ends, arrives, goes on unrecorded or starts its run.
LEMMA OneMoves ==
  ASSUME TriggerInv, NEW p \in Posts, NEW post \in PostingType,
         posting' = [posting EXCEPT ![p] = post], UNCHANGED claimed,
         \/ post.pc = "done"
         \/ ~post.recorded /\ <<post.event, post.id>> \in Events \X Saves
         \/ /\ posting[p].pc = "admit" /\ post.pc = "ran"
            /\ post.event = posting[p].event /\ post.id = posting[p].id
            /\ post.recorded = posting[p].recorded
  PROVE  ClaimInv' /\ CapInv'
  <1>0. TriggersTyped /\ ClaimInv /\ CapInv
    BY DEF TriggerInv
  <1>1. posting'[p] = post /\ \A q \in Posts \ {p} : posting'[q] = posting[q]
    BY <1>0 DEF TriggersTyped
  <1>2. \A q \in Posts : Recorded(q)' => Recorded(q) /\ ClaimOf(q)' = ClaimOf(q)
    BY <1>1 DEF Recorded, ClaimOf
  <1>3. ClaimInv'
    BY <1>0, <1>1, <1>2 DEF ClaimInv, ClaimOf
  <1>4. ASSUME NEW i \in Saves
        PROVE  IsFiniteSet(Passed(i)') /\ Cardinality(Passed(i)') <= MaxRuns
    <2>1. Passed(i)' \in SUBSET Passed(i)
      BY <1>1 DEF Passed
    <2>2. IsFiniteSet(Passed(i)) /\ Cardinality(Passed(i)) <= MaxRuns
      BY <1>0 DEF CapInv
    <2>3. IsFiniteSet(Passed(i)') /\ Cardinality(Passed(i)') <= Cardinality(Passed(i))
      BY <2>1, <2>2, FS_Subset
    <2>4. Cardinality(Passed(i)) \in Nat /\ Cardinality(Passed(i)') \in Nat /\ MaxRuns \in Nat
      BY <2>2, <2>3, FS_CardinalityType, TriggerConstants
    <2> QED
      BY <2>2, <2>3, <2>4
  <1>5. CapInv'
    BY <1>4 DEF CapInv
  <1> QED
    BY <1>3, <1>5

\* The first claim of an event belongs to one delivery alone.
LEMMA EventClaimStep == ASSUME TriggerInv, NEW p \in Posts, ClaimPost(p) PROVE ClaimInv' /\ CapInv'
  <1>0. TriggersTyped /\ ClaimInv /\ CapInv
    BY DEF TriggerInv
  <1>1. /\ posting[p].pc = "routed" /\ ClaimOf(p) \in Events \X Saves
        /\ claimed' = claimed \cup {ClaimOf(p)}
    BY <1>0 DEF ClaimPost, PostAt, ClaimInv, ClaimOf
  <1>2. IsFiniteSet(claimed')
    BY <1>0, <1>1, FS_AddElement DEF ClaimInv
  <1>3. /\ \A q \in Posts \ {p} : posting'[q] = posting[q]
        /\ \/ ClaimOf(p) \notin claimed /\ posting'[p] = [posting[p] EXCEPT !.pc = "count", !.recorded = TRUE]
           \/ posting'[p].pc = "done"
    BY <1>0, Records DEF ClaimPost, FirstClaim, EndPost, TriggersTyped, ClaimOf
  <1>4. posting[p] \in PostingType
    BY <1>0 DEF TriggersTyped
  <1>5. \/ /\ ClaimOf(p) \notin claimed /\ posting'[p].pc = "count" /\ posting'[p].recorded
           /\ posting'[p].event = posting[p].event /\ posting'[p].id = posting[p].id
        \/ posting'[p].pc = "done"
    BY <1>3, <1>4 DEF PostingType
  <1>6. \A q \in Posts : posting'[q].pc # "done" => ClaimOf(q)' = ClaimOf(q)
    BY <1>3, <1>5 DEF ClaimOf
  <1>7. \A q \in Posts : Recorded(q)' => \/ q # p /\ Recorded(q) /\ ClaimOf(q) \in claimed
                                         \/ q = p /\ ClaimOf(p) \notin claimed
    BY <1>0, <1>3, <1>5 DEF Recorded, ClaimInv
  <1>8. \A q \in Posts : Recorded(q)' => ClaimOf(q)' = ClaimOf(q) /\ ClaimOf(q) \in claimed'
    BY <1>1, <1>6, <1>7 DEF Recorded
  <1>9. \A q, r \in Posts : Recorded(q)' /\ Recorded(r)' /\ ClaimOf(q)' = ClaimOf(r)' => q = r
    <2> SUFFICES ASSUME NEW q \in Posts, NEW r \in Posts, Recorded(q)', Recorded(r)',
                        ClaimOf(q)' = ClaimOf(r)'
                 PROVE  q = r
      OBVIOUS
    <2>1. ClaimOf(q) = ClaimOf(r)
      BY <1>8
    <2> QED
      BY <1>0, <1>7, <2>1 DEF ClaimInv
  <1>10. \A q \in Posts : /\ posting'[q].pc \in {"routed", "count", "admit", "ran"} => ClaimOf(q)' \in Events \X Saves
                          /\ posting'[q].pc = "routed" => ~posting'[q].recorded
    BY <1>0, <1>1, <1>3, <1>5, <1>6 DEF ClaimInv
  <1>11. ClaimInv'
    BY <1>2, <1>8, <1>9, <1>10 DEF ClaimInv
  <1>12. ASSUME NEW i \in Saves PROVE Passed(i)' = Passed(i)
    BY <1>1, <1>3, <1>5 DEF Passed
  <1>13. CapInv'
    BY <1>0, <1>12 DEF CapInv
  <1> QED
    BY <1>11, <1>13

\* A recorded delivery that passes the cap is one of the claims counted there, as
\* is every one that passed before it, and no two of them hold the same claim.
LEMMA RunCountStep == ASSUME TriggerInv, NEW p \in Posts, CountRuns(p) PROVE ClaimInv' /\ CapInv'
  <1>0. TriggersTyped /\ ClaimInv /\ CapInv
    BY DEF TriggerInv
  <1>1. CASE OverTriggerRate(p)
    <2>1. posting' = [posting EXCEPT ![p] = [Unposted EXCEPT !.pc = "done"]] /\ UNCHANGED claimed
      BY <1>1 DEF CountRuns, EndPost
    <2> QED
      BY <1>0, <2>1, Records, OneMoves
  <1>2. CASE ~OverTriggerRate(p)
    <2>1. posting[p] \in PostingType /\ posting[p].pc = "count"
      BY <1>0 DEF TriggersTyped, CountRuns, PostAt
    <2>2. /\ \A q \in Posts : /\ posting'[q].event = posting[q].event
                              /\ posting'[q].id = posting[q].id
                              /\ posting'[q].recorded = posting[q].recorded
                              /\ q # p => posting'[q].pc = posting[q].pc
          /\ posting'[p].pc = "admit" /\ claimed' = claimed
      BY <1>0, <1>2 DEF CountRuns, TriggersTyped, PostingType
    <2>3. \A q \in Posts : ClaimOf(q)' = ClaimOf(q) /\ Recorded(q)' = Recorded(q)
      BY <2>1, <2>2 DEF ClaimOf, Recorded
    <2>4. ClaimInv'
      BY <1>0, <2>1, <2>2, <2>3 DEF ClaimInv
    <2>5. ASSUME NEW i \in Saves, i # posting[p].id PROVE Passed(i)' = Passed(i)
      BY <2>2, <2>5 DEF Passed
    <2>6. ASSUME NEW i \in Saves, i = posting[p].id
          PROVE  IsFiniteSet(Passed(i)') /\ Cardinality(Passed(i)') <= MaxRuns
      <3> DEFINE RunsCounted == {c \in claimed : c[2] = i}
                 f == [q \in Passed(i)' |-> ClaimOf(q)]
      <3>1. IsFiniteSet(RunsCounted)
        BY <1>0, FS_Subset DEF ClaimInv
      <3>2. Cardinality(RunsCounted) <= MaxRuns /\ Cardinality(RunsCounted) \in Nat
        <4>1. ~(Cardinality(RunsCounted) > MaxRuns)
          BY <1>2, <2>6 DEF OverTriggerRate
        <4>2. Cardinality(RunsCounted) \in Nat /\ MaxRuns \in Nat
          BY <3>1, FS_CardinalityType, TriggerConstants
        <4> HIDE DEF RunsCounted
        <4> QED
          BY <4>1, <4>2
      <3>3. \A q \in Passed(i)' : q \in Posts /\ Recorded(q) /\ posting[q].id = i
        BY <2>2, <2>3 DEF Passed, Recorded
      <3>4. \A q \in Passed(i)' : ClaimOf(q) \in RunsCounted
        BY <1>0, <3>3 DEF ClaimInv, ClaimOf
      <3>5. \A q, r \in Passed(i)' : ClaimOf(q) = ClaimOf(r) => q = r
        BY <1>0, <3>3 DEF ClaimInv
      <3> HIDE DEF RunsCounted
      <3>6. f \in Injection(Passed(i)', RunsCounted)
        BY <3>4, <3>5 DEF Injection, IsInjective
      <3> HIDE DEF f
      <3>7. IsFiniteSet(Passed(i)') /\ Cardinality(Passed(i)') <= Cardinality(RunsCounted)
        BY <3>1, <3>6, FS_Injection
      <3>8. Cardinality(Passed(i)') \in Nat /\ MaxRuns \in Nat
        BY <3>7, FS_CardinalityType, TriggerConstants
      <3> QED
        BY <3>2, <3>7, <3>8
    <2>7. CapInv'
      BY <1>0, <2>5, <2>6 DEF CapInv
    <2> QED
      BY <2>4, <2>7
  <1> QED
    BY <1>1, <1>2

\* Every step keeps the claims and the cap.
LEMMA BoundStep == ASSUME TriggerInv, NextTriggers PROVE ClaimInv' /\ CapInv'
  <1>0. TriggersTyped /\ ClaimInv /\ CapInv
    BY DEF TriggerInv
  <1>1. ASSUME UNCHANGED <<posting, claimed>> PROVE ClaimInv' /\ CapInv'
    BY <1>0, <1>1 DEF ClaimInv, CapInv, Recorded, ClaimOf, Passed
  <1>2. ASSUME NEW s \in Saves,
               \/ ReadTrigger(s) \/ RegisterHook(s) \/ RegisterFails(s)
               \/ SaveTrigger(s) \/ SaveFails(s) \/ RetireHook(s)
        PROVE  ClaimInv' /\ CapInv'
    BY <1>1, <1>2 DEF ReadTrigger, RegisterHook, RegisterFails, SaveTrigger, SaveFails, RetireHook
  <1>3. ASSUME NEW x \in Retires, ReadRetired(x) \/ UnregisterHook(x) \/ DeleteTrigger(x)
        PROVE  ClaimInv' /\ CapInv'
    BY <1>1, <1>3 DEF ReadRetired, UnregisterHook, DeleteTrigger
  <1>4. ASSUME NEW reason, LoseAccess(reason) \/ RegainAccess(reason) PROVE ClaimInv' /\ CapInv'
    BY <1>1, <1>4 DEF LoseAccess, RegainAccess
  <1>5. ASSUME NEW p \in Posts, EndPost(p), UNCHANGED claimed PROVE ClaimInv' /\ CapInv'
    BY <1>0, <1>5, Records, OneMoves DEF EndPost
  <1>6. ASSUME NEW p \in Posts, NEW e \in Events, ReceiveProviderHook(p, e)
        PROVE  ClaimInv' /\ CapInv'
    <2> DEFINE post == [pc |-> "routed", id |-> trigger.id, event |-> e, recorded |-> FALSE]
    <2>1. trigger.id \in Saves
      BY <1>0, <1>6 DEF ReceiveProviderHook, TriggersTyped, TriggerRowType, MaybeSave, Live
    <2>2. /\ post \in PostingType /\ ~post.recorded
          /\ <<post.event, post.id>> \in Events \X Saves
      BY <2>1 DEF PostingType, MaybeSave
    <2>3. posting' = [posting EXCEPT ![p] = post] /\ UNCHANGED claimed
      BY <1>6 DEF ReceiveProviderHook
    <2> HIDE DEF post
    <2> QED
      BY <2>2, <2>3, OneMoves
  <1>7. ASSUME NEW p \in Posts, ClaimFails(p) PROVE ClaimInv' /\ CapInv'
    <2> DEFINE post == [posting[p] EXCEPT !.pc = "count"]
    <2>1. posting[p] \in PostingType
      BY <1>0 DEF TriggersTyped
    <2>2. ClaimOf(p) \in Events \X Saves /\ ~posting[p].recorded
      BY <1>0, <1>7 DEF ClaimFails, PostAt, ClaimInv
    <2>3. /\ post \in PostingType /\ ~post.recorded
          /\ <<post.event, post.id>> \in Events \X Saves
      BY <2>1, <2>2 DEF PostingType, ClaimOf
    <2>4. posting' = [posting EXCEPT ![p] = post] /\ UNCHANGED claimed
      BY <1>0, <1>7 DEF ClaimFails, TriggersTyped
    <2> HIDE DEF post
    <2> QED
      BY <2>3, <2>4, OneMoves
  <1>8. ASSUME NEW p \in Posts, StartRun(p) PROVE ClaimInv' /\ CapInv'
    <2> DEFINE post == [posting[p] EXCEPT !.pc = "ran"]
    <2>1. posting[p] \in PostingType /\ posting[p].pc = "admit"
      BY <1>0, <1>8 DEF StartRun, PostAt, TriggersTyped
    <2>2. /\ post \in PostingType /\ post.pc = "ran"
          /\ post.event = posting[p].event /\ post.id = posting[p].id
          /\ post.recorded = posting[p].recorded
      BY <2>1 DEF PostingType
    <2>3. posting' = [posting EXCEPT ![p] = post] /\ UNCHANGED claimed
      BY <1>0, <1>8 DEF StartRun, TriggersTyped
    <2> HIDE DEF post
    <2> QED
      BY <2>1, <2>2, <2>3, OneMoves
  <1>9. ASSUME NEW p \in Posts, RefuseRun(p) \/ CrashPost(p) PROVE ClaimInv' /\ CapInv'
    BY <1>5, <1>9 DEF RefuseRun, CrashPost
  <1> QED
    BY <1>2, <1>3, <1>4, <1>6, <1>7, <1>8, <1>9, EventClaimStep, RunCountStep DEF NextTriggers

\* The three parts together.
LEMMA TriggerStep == TriggerInv /\ [NextTriggers]_triggerVars => TriggerInv'
  <1> SUFFICES ASSUME TriggerInv, [NextTriggers]_triggerVars PROVE TriggerInv'
    OBVIOUS
  <1>1. CASE UNCHANGED triggerVars
    BY <1>1 DEF triggerVars, TriggerInv, TriggersTyped, HookInv, HookMatchesRow, RowWritten, Live, AppLevel,
                SavingAt, ClaimInv, CapInv, Recorded, ClaimOf, Passed
  <1>2. CASE NextTriggers
    <2>1. provider' = provider
      BY <1>2 DEF NextTriggers, ReadTrigger, RegisterHook, RegisterFails, SaveTrigger, SaveFails,
                  RetireHook, ReadRetired, UnregisterHook, DeleteTrigger, ReceiveProviderHook,
                  ClaimPost, ClaimFails, CountRuns, StartRun, RefuseRun, CrashPost,
                  LoseAccess, RegainAccess
    <2>2. ~AppLevel' => HookInv'
      BY <1>2, <2>1, HookStep DEF AppLevel
    <2> QED
      BY <1>2, <2>2, TriggersTypedStep, BoundStep DEF TriggerInv
  <1> QED
    BY <1>1, <1>2

-----------------------------------------------------------------------------
(* Theorems.                                                               *)

\* The rows are well formed.
THEOREM TriggersTypeCorrect == TriggerSpec => []TriggersTypeOK
  <1>1. TriggerInv => TriggersTypeOK
    BY DEF TriggerInv, TriggersTypeOK, TriggersTyped, TriggerRowType, SavingType, PostingType, MaybeSave
  <1> QED
    BY <1>1, TriggerInit, TriggerStep, PTL DEF TriggerSpec

\* A live trigger names a hook that exists at the provider, unless a deletion has
\* read that very hook (CreateTrigger, DeleteTrigger).
THEOREM NeverDeaf == TriggerSpec => []HookMatchesRow
  <1>1. TriggerInv => HookMatchesRow
    BY DEF TriggerInv, HookInv, HookMatchesRow
  <1> QED
    BY <1>1, TriggerInit, TriggerStep, PTL DEF TriggerSpec

\* An event starts at most one run of a trigger, and the recorded runs of an hour
\* stay within the cap (dispatch).
THEOREM OneRunPerEvent == TriggerSpec => []DispatchIsBounded
  <1>1. ASSUME TriggerInv PROVE DispatchIsBounded
    <2>0. ClaimInv /\ CapInv
      BY <1>1 DEF TriggerInv
    <2> SUFFICES ASSUME NEW i \in Saves
                 PROVE  LET Runs == {p \in Posts : PostAt(p, "ran") /\ posting[p].id = i
                                                   /\ posting[p].recorded} IN
                        /\ \A p, q \in Runs : posting[p].event = posting[q].event => p = q
                        /\ Cardinality(Runs) <= MaxRuns
      BY DEF DispatchIsBounded
    <2> DEFINE Runs == {p \in Posts : PostAt(p, "ran") /\ posting[p].id = i /\ posting[p].recorded}
    <2>1. ASSUME NEW p \in Runs, NEW q \in Runs, posting[p].event = posting[q].event PROVE p = q
      <3>1. Recorded(p) /\ Recorded(q) /\ ClaimOf(p) = ClaimOf(q) /\ p \in Posts /\ q \in Posts
        BY <2>1 DEF Recorded, ClaimOf, PostAt
      <3> QED
        BY <2>0, <3>1 DEF ClaimInv
    <2>2. Runs \in SUBSET Passed(i)
      BY DEF Passed, PostAt
    <2>3. IsFiniteSet(Passed(i)) /\ Cardinality(Passed(i)) <= MaxRuns
      BY <2>0 DEF CapInv
    <2> HIDE DEF Runs
    <2>4. IsFiniteSet(Runs) /\ Cardinality(Runs) <= Cardinality(Passed(i))
      BY <2>2, <2>3, FS_Subset
    <2>5. Cardinality(Runs) \in Nat /\ Cardinality(Passed(i)) \in Nat /\ MaxRuns \in Nat
      BY <2>3, <2>4, FS_CardinalityType, TriggerConstants
    <2>6. Cardinality(Runs) <= MaxRuns
      BY <2>3, <2>4, <2>5
    <2> QED
      BY <2>1, <2>6 DEF Runs
  <1> QED
    BY <1>1, TriggerInit, TriggerStep, PTL DEF TriggerSpec

-----------------------------------------------------------------------------
(***************************************************************************)
(* Data stores, for any number of operations: a durable store implements   *)
(* AtomicStore.                                                            *)
(***************************************************************************)
\* What the holder of the row lock read is what the row says, and only the
\* operations of a cell lock: every other write waits for the lock, or finds no row.
LockedReads ==
    /\ \A o \in DataOps : DataAt(o, "locked") =>
          rowLock = o /\ dataRow.present /\ dataRow.value = dataOp[o].read
    /\ \A o \in DataOps : dataOp[o].pc \in {"absent", "locked"} => storeKind = "cell"

StoreInv == StoresTypeOK /\ LockedReads

Values == Seq(DataOps)
DataRowType == [present : BOOLEAN, value : Values]
OpType == [pc : DataPcs, read : Values, note : Values]

-----------------------------------------------------------------------------
(* Lemmas.                                                                 *)

\* A new store, or one with a row from before, satisfies the invariant.
LEMMA StoreInit == InitStores => StoreInv
  <1> SUFFICES ASSUME InitStores PROVE StoreInv
    OBVIOUS
  <1>1. <<>> \in Values
    BY EmptySeq DEF Values
  <1>2. dataRow \in DataRowType
    <2>1. NoDataRow \in DataRowType
      BY <1>1 DEF NoDataRow, DataRowType
    <2>2. RowOf(<<>>) \in DataRowType
      BY <1>1 DEF RowOf, DataRowType
    <2> QED
      BY <2>1, <2>2, Zenon DEF InitStores
  <1>3. dataOp \in [DataOps -> OpType] /\ \A o \in DataOps : dataOp[o].pc = "new"
    BY <1>1 DEF InitStores, OpType, DataPcs
  <1>4. StoresTypeOK
    BY <1>1, <1>2, <1>3 DEF InitStores, StoresTypeOK, Values, DataRowType, OpType
  <1>5. LockedReads
    BY <1>3 DEF LockedReads, DataAt
  <1> QED
    BY <1>4, <1>5 DEF StoreInv

\* The values an operation writes are sequences of operations.
LEMMA CellWritten ==
  ASSUME StoresTypeOK, NEW o \in DataOps
  PROVE  /\ <<>> \in Values /\ <<o>> \in Values
         /\ Append(dataOp[o].read, o) \in Values /\ Append(dataRow.value, o) \in Values
         /\ \A i \in DOMAIN dataRow.value : WithoutRecord(i) \in Values
  <1> DEFINE v == dataRow.value
  <1>1. v \in Values /\ dataOp[o].read \in Values
    BY DEF StoresTypeOK, Values
  <1>2. <<>> \in Values
    BY EmptySeq DEF Values
  <1>3. /\ Append(<<>>, o) = <<o>> /\ <<o>> \in Values
        /\ Append(dataOp[o].read, o) \in Values /\ Append(v, o) \in Values
    BY <1>1, <1>2 DEF Values
  <1>4. ASSUME NEW i \in DOMAIN v PROVE WithoutRecord(i) \in Values
    <2>1. Len(v) \in Nat /\ DOMAIN v = 1..Len(v) /\ \A j \in 1..Len(v) : v[j] \in DataOps
      BY <1>1 DEF Values
    <2>2. i \in Int /\ 1 <= i /\ i <= Len(v)
      BY <2>1, <1>4
    <2> HIDE DEF v
    <2>3. SubSeq(v, 1, i - 1) \in Values
      BY <2>1, <2>2, SubSeqProperties DEF Values
    <2>4. SubSeq(v, i + 1, Len(v)) \in Values
      BY <2>1, <2>2, SubSeqProperties DEF Values
    <2>5. SubSeq(v, 1, i - 1) \o SubSeq(v, i + 1, Len(v)) \in Values
      BY <2>3, <2>4, ConcatProperties DEF Values
    <2> QED
      BY <2>5 DEF WithoutRecord, v
  <1> QED
    BY <1>2, <1>3, <1>4

\* What GoesTo does to the operations.
LEMMA OpGoes ==
  ASSUME StoresTypeOK, NEW o \in DataOps, NEW pc \in DataPcs, GoesTo(o, pc)
  PROVE  /\ dataOp' \in [DataOps -> OpType]
         /\ dataOp'[o].pc = pc /\ dataOp'[o].note = dataOp[o].note
         /\ \A p \in DataOps \ {o} : dataOp'[p] = dataOp[p]
  BY DEF StoresTypeOK, GoesTo, OpType, Values

\* What a commit does to them and to the row.
LEMMA OpCommits ==
  ASSUME StoresTypeOK, NEW o \in DataOps, NEW row \in DataRowType, CommitRow(o, row)
  PROVE  /\ dataRow' = row
         /\ dataOp' \in [DataOps -> OpType]
         /\ dataOp'[o].pc = "publish" /\ dataOp'[o].note = row.value
         /\ \A p \in DataOps \ {o} : dataOp'[p] = dataOp[p]
  BY DEF StoresTypeOK, CommitRow, OpType, DataRowType, Values, DataPcs

\* A step of one operation keeps the invariant if it leaves the row and the lock
\* alone while another operation holds it, and if what it reads itself is the row.
LEMMA StepOf ==
  ASSUME StoreInv, NEW o \in DataOps,
         dataOp' \in [DataOps -> OpType],
         \A p \in DataOps \ {o} : dataOp'[p] = dataOp[p],
         dataRow' \in DataRowType, rowLock' \in DataOps \cup {NoOp}, shown' \in Values,
         UNCHANGED <<storeKind, storeLive, deleting>>,
         \/ UNCHANGED <<dataRow, rowLock>>
         \/ \A p \in DataOps \ {o} : ~DataAt(p, "locked"),
         dataOp'[o].pc = "locked" =>
             rowLock' = o /\ dataRow'.present /\ dataRow'.value = dataOp'[o].read,
         dataOp'[o].pc \in {"absent", "locked"} => storeKind = "cell"
  PROVE  StoreInv'
  <1>1. StoresTypeOK'
    BY DEF StoreInv, StoresTypeOK, OpType, DataRowType, Values
  <1>2. ASSUME NEW p \in DataOps, DataAt(p, "locked")'
        PROVE  rowLock' = p /\ dataRow'.present /\ dataRow'.value = dataOp'[p].read
    <2>1. CASE p = o
      BY <1>2, <2>1 DEF DataAt
    <2>2. CASE p # o
      <3>1. dataOp'[p] = dataOp[p] /\ DataAt(p, "locked")
        BY <1>2, <2>2 DEF DataAt
      <3>2. UNCHANGED <<dataRow, rowLock>>
        BY <2>2, <3>1
      <3>3. rowLock = p /\ dataRow.present /\ dataRow.value = dataOp[p].read
        BY <3>1 DEF StoreInv, LockedReads
      <3> QED
        BY <3>1, <3>2, <3>3
    <2> QED
      BY <2>1, <2>2
  <1>3. ASSUME NEW p \in DataOps, dataOp'[p].pc \in {"absent", "locked"}
        PROVE  storeKind' = "cell"
    BY <1>3 DEF StoreInv, LockedReads
  <1> QED
    BY <1>1, <1>2, <1>3 DEF StoreInv, LockedReads, DataAt

\* Nobody reads under a lock that is free.
LEMMA FreeLock ==
  ASSUME StoreInv, RowFree PROVE \A p \in DataOps : ~DataAt(p, "locked")
  BY NoOpIsNone DEF StoreInv, LockedReads, RowFree

-----------------------------------------------------------------------------
(* The invariant.                                                          *)

\* Every step of the store keeps the invariant.
LEMMA StoreStep == StoreInv /\ [NextStores]_storeVars => StoreInv'
  <1> SUFFICES ASSUME StoreInv, [NextStores]_storeVars PROVE StoreInv'
    OBVIOUS
  <1>t. /\ StoresTypeOK /\ dataRow \in DataRowType /\ rowLock \in DataOps \cup {NoOp}
        /\ shown \in Values /\ dataOp \in [DataOps -> OpType]
    BY DEF StoreInv, StoresTypeOK, DataRowType, OpType, Values
  <1>r. \A v \in Values : RowOf(v) \in DataRowType /\ RowOf(v).value = v /\ RowOf(v).present
    BY DEF RowOf, DataRowType
  <1>n. NoDataRow \in DataRowType /\ NoDataRow.value = <<>>
    BY EmptySeq DEF NoDataRow, DataRowType, Values
  <1>1. ASSUME NEW o \in DataOps, GetStore(o) PROVE StoreInv'
    <2>1. PICK pc \in {"run", "failed"} : GoesTo(o, pc)
      BY <1>1 DEF GetStore
    <2>2. pc \in DataPcs
      BY DEF DataPcs
    <2> QED
      BY <1>1, <1>t, <2>1, <2>2, OpGoes, StepOf DEF GetStore, tableVars
  <1>2. ASSUME NEW o \in DataOps, KVSet(o) PROVE StoreInv'
    <2>1. PICK v \in {<<o>>, <<>>} : CommitRow(o, RowOf(v))
      BY <1>2 DEF KVSet
    <2>2. RowOf(v) \in DataRowType
      BY <1>t, <1>r, CellWritten
    <2>3. /\ dataRow' = RowOf(v) /\ dataOp' \in [DataOps -> OpType]
          /\ dataOp'[o].pc = "publish" /\ \A p \in DataOps \ {o} : dataOp'[p] = dataOp[p]
      BY <1>t, <2>1, <2>2, OpCommits
    <2> QED
      BY <1>2, <1>t, <2>2, <2>3, FreeLock, StepOf DEF KVSet, tableVars
  <1>3. ASSUME NEW o \in DataOps, LockRow(o) PROVE StoreInv'
    <2>1. /\ dataOp' \in [DataOps -> OpType]
          /\ \A p \in DataOps \ {o} : dataOp'[p] = dataOp[p]
          /\ dataOp'[o].pc = IF dataRow.present THEN "locked" ELSE "absent"
          /\ dataOp'[o].read = dataRow.value
      BY <1>3, <1>t DEF LockRow, OpType, DataPcs, DataRowType
    <2>2. rowLock' \in DataOps \cup {NoOp} /\ (dataRow.present => rowLock' = o)
      BY <1>3 DEF LockRow
    <2>3. storeKind = "cell" /\ UNCHANGED <<tableVars, dataRow>>
      BY <1>3 DEF LockRow, OnCell
    <2>4. dataOp'[o].pc = "locked" => dataRow.present
      BY <2>1
    <2> QED
      BY <1>3, <1>t, <2>1, <2>2, <2>3, <2>4, FreeLock, StepOf DEF LockRow, tableVars
  <1>4. ASSUME NEW o \in DataOps, UpdateRow(o) PROVE StoreInv'
    <2>1. RowOf(Append(dataOp[o].read, o)) \in DataRowType
      BY <1>t, <1>r, CellWritten
    <2>2. /\ dataRow' \in DataRowType /\ dataOp' \in [DataOps -> OpType]
          /\ dataOp'[o].pc = "publish" /\ \A p \in DataOps \ {o} : dataOp'[p] = dataOp[p]
      BY <1>4, <1>t, <2>1, OpCommits DEF UpdateRow
    <2>3. \A p \in DataOps \ {o} : ~DataAt(p, "locked")
      BY <1>4 DEF UpdateRow, OnCell, StoreInv, LockedReads
    <2> QED
      BY <1>4, <1>t, <2>2, <2>3, StepOf DEF UpdateRow, tableVars
  <1>5. ASSUME NEW o \in DataOps, InsertRow(o) PROVE StoreInv'
    <2>1. CASE dataRow.present
      <3>1. GoesTo(o, "failed") /\ "failed" \in DataPcs
        BY <1>5, <2>1 DEF InsertRow, DataPcs
      <3> QED
        BY <1>5, <1>t, <2>1, <3>1, OpGoes, StepOf DEF InsertRow, tableVars
    <2>2. CASE ~dataRow.present
      <3>1. RowOf(<<o>>) \in DataRowType
        BY <1>t, <1>r, CellWritten
      <3>2. /\ dataRow' \in DataRowType /\ dataOp' \in [DataOps -> OpType]
            /\ dataOp'[o].pc = "publish" /\ \A p \in DataOps \ {o} : dataOp'[p] = dataOp[p]
        BY <1>5, <1>t, <2>2, <3>1, OpCommits DEF InsertRow
      <3>3. \A p \in DataOps \ {o} : ~DataAt(p, "locked")
        BY <2>2 DEF StoreInv, LockedReads
      <3> QED
        BY <1>5, <1>t, <3>2, <3>3, StepOf DEF InsertRow, tableVars
    <2> QED
      BY <2>1, <2>2
  <1>6. ASSUME NEW o \in DataOps, KVDelete(o) PROVE StoreInv'
    <2>1. /\ dataRow' \in DataRowType /\ dataOp' \in [DataOps -> OpType]
          /\ dataOp'[o].pc = "publish" /\ \A p \in DataOps \ {o} : dataOp'[p] = dataOp[p]
      BY <1>6, <1>t, <1>n, OpCommits DEF KVDelete
    <2> QED
      BY <1>6, <1>t, <2>1, FreeLock, StepOf DEF KVDelete, tableVars
  <1>7. ASSUME NEW o \in DataOps, ClearCell(o) PROVE StoreInv'
    <2>1. GoesTo(o, "done") /\ "done" \in DataPcs /\ dataRow' \in DataRowType
      BY <1>7, <1>n DEF ClearCell, DataPcs
    <2> QED
      BY <1>7, <1>t, <2>1, OpGoes, FreeLock, StepOf DEF ClearCell, tableVars
  <1>8. ASSUME NEW o \in DataOps, RecordStep(o) PROVE StoreInv'
    <2>1. storeKind = "collection" /\ UNCHANGED <<tableVars, rowLock>>
      BY <1>8 DEF RecordStep, RecordAppend, NoSuchRecord, RecordUpdate, RecordDelete,
                  RecordClear, OnRecords
    <2>2. \A p \in DataOps : ~DataAt(p, "locked")
      BY <2>1 DEF StoreInv, LockedReads, DataAt
    <2>3. \A v \in Values : [dataRow EXCEPT !.value = v] \in DataRowType
      BY <1>t DEF DataRowType
    <2>4. CASE RecordClear(o)
      <3>1. [dataRow EXCEPT !.value = <<>>] \in DataRowType
        BY <1>t, <2>3, CellWritten
      <3>2. /\ dataRow' \in DataRowType /\ dataOp' \in [DataOps -> OpType]
            /\ dataOp'[o].pc = "publish" /\ \A p \in DataOps \ {o} : dataOp'[p] = dataOp[p]
        BY <1>t, <2>4, <3>1, OpCommits DEF RecordClear
      <3> QED
        BY <1>t, <2>1, <2>2, <3>2, StepOf DEF tableVars
    <2>5. CASE ~RecordClear(o)
      <3>1. PICK pc \in {"count", "failed"} : GoesTo(o, pc)
        BY <1>8, <2>5 DEF RecordStep, RecordAppend, NoSuchRecord, RecordUpdate, RecordDelete
      <3>2. pc \in DataPcs
        BY DEF DataPcs
      <3>3. dataRow' \in DataRowType
        BY <1>8, <1>t, <2>3, <2>5, CellWritten
           DEF RecordStep, RecordAppend, NoSuchRecord, RecordUpdate, RecordDelete, SetRecords
      <3> QED
        BY <1>t, <2>1, <2>2, <3>1, <3>2, <3>3, OpGoes, StepOf DEF tableVars
    <2> QED
      BY <2>4, <2>5
  <1>9. ASSUME NEW o \in DataOps, RecordCount(o) PROVE StoreInv'
    <2>1. /\ dataOp' \in [DataOps -> OpType] /\ dataOp'[o].pc = "publish"
          /\ \A p \in DataOps \ {o} : dataOp'[p] = dataOp[p]
      BY <1>9, <1>t DEF RecordCount, OpType, DataRowType, DataPcs
    <2> QED
      BY <1>9, <1>t, <2>1, StepOf DEF RecordCount, tableVars
  <1>10. ASSUME NEW o \in DataOps, Publish(o) PROVE StoreInv'
    <2>1. GoesTo(o, "done") /\ "done" \in DataPcs
      BY <1>10 DEF Publish, DataPcs
    <2>2. shown' \in Values
      BY <1>10, <1>t DEF Publish, OpType
    <2> QED
      BY <1>10, <1>t, <2>1, <2>2, OpGoes, StepOf DEF Publish
  <1>11. ASSUME NEW o \in DataOps, FailOp(o) PROVE StoreInv'
    <2>1. PICK pc \in {"failed", "done"} : GoesTo(o, pc)
      BY <1>11 DEF FailOp
    <2>2. pc \in DataPcs
      BY DEF DataPcs
    <2>3. rowLock' \in DataOps \cup {NoOp} /\ UNCHANGED <<tableVars, dataRow>>
      BY <1>11, <1>t DEF FailOp
    <2>4. rowLock' = rowLock \/ rowLock = o
      BY <1>11 DEF FailOp
    <2>5. rowLock = o => \A p \in DataOps \ {o} : ~DataAt(p, "locked")
      BY DEF StoreInv, LockedReads
    <2> QED
      BY <1>t, <2>1, <2>2, <2>3, <2>4, <2>5, OpGoes, StepOf DEF tableVars
  <1>12. CASE DeleteDataStore
    <2>1. /\ UNCHANGED <<storeKind, rowLock, dataOp, shown>>
          /\ deleting' \in {"empty", "drop", "done"} /\ storeLive' \in BOOLEAN
      BY <1>12, <1>t
         DEF DeleteDataStore, LoadStore, DeleteEntries, DeleteStoreRow, StoresTypeOK
    <2>2. dataRow' \in DataRowType
      BY <1>12, <1>t, <1>n DEF DeleteDataStore, LoadStore, DeleteEntries, DeleteStoreRow
    <2>3. StoresTypeOK'
      BY <1>t, <2>1, <2>2 DEF StoresTypeOK, DataRowType, Values
    <2>4. dataRow' = dataRow \/ RowFree
      BY <1>12 DEF DeleteDataStore, LoadStore, DeleteEntries, DeleteStoreRow
    <2>5. LockedReads'
      BY <2>1, <2>4, FreeLock DEF StoreInv, LockedReads, DataAt
    <2> QED
      BY <2>3, <2>5 DEF StoreInv
  <1>13. CASE UNCHANGED storeVars
    BY <1>13 DEF storeVars, StoreInv, StoresTypeOK, LockedReads, DataAt
  <1> QED
    BY <1>1, <1>2, <1>3, <1>4, <1>5, <1>6, <1>7, <1>8, <1>9, <1>10, <1>11, <1>12, <1>13
       DEF NextStores, CellStep

\* The durable store stays well formed.
THEOREM StoreTypeCorrect == StoresSpec => []StoresTypeOK
  <1>1. StoreInv => StoresTypeOK
    BY DEF StoreInv
  <1> QED
    BY <1>1, StoreInit, StoreStep, PTL DEF StoresSpec

-----------------------------------------------------------------------------
(* The refinement.                                                         *)

Mapped == [p \in DataOps |-> AtomicStatus(p)]
Notes == [p \in DataOps |-> dataOp[p].note]

\* A step of one operation changes its own status and note only.
LEMMA MappedStep ==
  ASSUME NEW o \in DataOps, StoreInv,
         dataOp' \in [DataOps -> OpType],
         \A p \in DataOps \ {o} : dataOp'[p] = dataOp[p]
  PROVE  /\ Mapped' = [Mapped EXCEPT ![o] = AtomicStatus(o)']
         /\ Notes' = [Notes EXCEPT ![o] = dataOp'[o].note]
  BY DEF Mapped, Notes, AtomicStatus

\* An operation that takes effect leaves the row it wrote, and answers with it or with
\* something else.
Effect(o) == /\ Mapped[o] = "pending" /\ Mapped' = [Mapped EXCEPT ![o] = "done"]
             /\ Notes' \in {Notes, [Notes EXCEPT ![o] = dataRow'.value]}
             /\ UNCHANGED shown

LEMMA Applies ==
  ASSUME NEW o \in DataOps, StoreInv,
         dataOp' \in [DataOps -> OpType],
         \A p \in DataOps \ {o} : dataOp'[p] = dataOp[p],
         AtomicStatus(o) = "pending", AtomicStatus(o)' = "done",
         dataOp'[o].note \in {dataOp[o].note, dataRow'.value},
         UNCHANGED shown
  PROVE  Effect(o)
  <1>1. /\ Mapped' = [Mapped EXCEPT ![o] = "done"] /\ Mapped[o] = "pending"
        /\ Notes' = [Notes EXCEPT ![o] = dataOp'[o].note]
    BY MappedStep DEF Mapped
  <1>2. Notes' \in {Notes, [Notes EXCEPT ![o] = dataRow'.value]}
    <2>1. CASE dataOp'[o].note = dataOp[o].note
      BY <1>1, <2>1 DEF Notes
    <2>2. CASE dataOp'[o].note = dataRow'.value
      BY <1>1, <2>2
    <2> QED
      BY <2>1, <2>2
  <1> QED
    BY <1>1, <1>2 DEF Effect

\* An operation that fails before its commit.
LEMMA Refuses ==
  ASSUME NEW o \in DataOps, StoreInv, NEW pc \in DataPcs, GoesTo(o, pc),
         AtomicStatus(o) = "pending", pc = "failed",
         UNCHANGED <<dataRow, shown>>
  PROVE  Atomic!Refuse(o)
  <1>1. /\ dataOp' \in [DataOps -> OpType] /\ dataOp'[o].pc = pc
        /\ dataOp'[o].note = dataOp[o].note
        /\ \A p \in DataOps \ {o} : dataOp'[p] = dataOp[p]
    BY OpGoes DEF StoreInv
  <1>2. AtomicStatus(o)' = "failed"
    BY <1>1 DEF AtomicStatus
  <1>3. /\ Mapped' = [Mapped EXCEPT ![o] = "failed"] /\ Mapped[o] = "pending"
        /\ Notes' = [Notes EXCEPT ![o] = dataOp'[o].note]
    BY <1>1, <1>2, MappedStep DEF Mapped
  <1>4. Notes' = Notes
    BY <1>1, <1>3 DEF Notes
  <1> QED
    BY <1>3, <1>4 DEF Atomic!Refuse, Mapped, Notes

\* A step that goes on inside one status.
LEMMA Stutters ==
  ASSUME NEW o \in DataOps, StoreInv,
         dataOp' \in [DataOps -> OpType],
         \A p \in DataOps \ {o} : dataOp'[p] = dataOp[p],
         AtomicStatus(o)' = AtomicStatus(o), dataOp'[o].note = dataOp[o].note,
         UNCHANGED <<dataRow, shown>>
  PROVE  UNCHANGED Atomic!vars
  <1>1. Mapped' = Mapped
    BY MappedStep DEF Mapped
  <1>2. Notes' = Notes
    BY MappedStep DEF Notes
  <1> QED
    BY <1>1, <1>2 DEF Atomic!vars, Mapped, Notes

\* A commit is the operation taking effect.
LEMMA CommitApplies ==
  ASSUME NEW o \in DataOps, StoreInv, NEW row \in DataRowType, CommitRow(o, row),
         AtomicStatus(o) = "pending", UNCHANGED shown
  PROVE  Effect(o) /\ dataRow'.value = row.value
  <1>1. /\ dataRow' = row /\ dataOp' \in [DataOps -> OpType]
        /\ dataOp'[o].pc = "publish" /\ dataOp'[o].note = row.value
        /\ \A p \in DataOps \ {o} : dataOp'[p] = dataOp[p]
    BY OpCommits DEF StoreInv
  <1>2. AtomicStatus(o)' = "done"
    BY <1>1 DEF AtomicStatus
  <1> QED
    BY <1>1, <1>2, Applies

\* So is a statement that moves on to counting, or that tells nobody.
LEMMA StatementApplies ==
  ASSUME NEW o \in DataOps, StoreInv, NEW pc \in {"count", "done"}, GoesTo(o, pc),
         AtomicStatus(o) = "pending", UNCHANGED shown
  PROVE  Effect(o)
  <1>1. /\ dataOp' \in [DataOps -> OpType] /\ dataOp'[o].pc = pc
        /\ dataOp'[o].note = dataOp[o].note
        /\ \A p \in DataOps \ {o} : dataOp'[p] = dataOp[p]
    BY OpGoes DEF StoreInv, DataPcs
  <1>2. AtomicStatus(o)' = "done"
    BY <1>1 DEF AtomicStatus
  <1> QED
    BY <1>1, <1>2, Applies

\* Every step of the durable store is one of the atomic store, or none.
LEMMA StepImplements ==
  ASSUME StoreInv, [NextStores]_storeVars
  PROVE  [Atomic!Next]_(Atomic!vars)
  <1>t. /\ StoresTypeOK /\ dataRow \in DataRowType /\ shown \in Values
        /\ dataOp \in [DataOps -> OpType]
    BY DEF StoreInv, StoresTypeOK, DataRowType, OpType, Values
  <1>r. \A v \in Values : RowOf(v) \in DataRowType /\ RowOf(v).value = v
    BY DEF RowOf, DataRowType
  <1>n. NoDataRow \in DataRowType /\ NoDataRow.value = <<>>
    BY EmptySeq DEF NoDataRow, DataRowType, Values
  <1>p. \A o \in DataOps : dataOp[o].pc \in {"new", "run", "absent", "locked"}
                              => AtomicStatus(o) = "pending"
    BY DEF AtomicStatus
  <1>1. ASSUME NEW o \in DataOps, GetStore(o) PROVE [Atomic!Next]_(Atomic!vars)
    <2>1. PICK pc \in {"run", "failed"} : GoesTo(o, pc)
      BY <1>1 DEF GetStore
    <2>2. pc \in DataPcs /\ AtomicStatus(o) = "pending" /\ UNCHANGED <<dataRow, shown>>
      BY <1>1, <1>p DEF DataPcs, GetStore, DataAt, tableVars
    <2>3. CASE pc = "failed"
      BY <2>1, <2>2, <2>3, Refuses DEF Atomic!Next
    <2>4. CASE pc = "run"
      <3>1. AtomicStatus(o)' = "pending"
        BY <1>t, <2>1, <2>2, <2>4, OpGoes DEF AtomicStatus
      <3> QED
        BY <1>t, <2>1, <2>2, <3>1, OpGoes, Stutters
    <2> QED
      BY <2>3, <2>4
  <1>2. ASSUME NEW o \in DataOps, KVSet(o) PROVE [Atomic!Next]_(Atomic!vars)
    <2>1. PICK v \in {<<o>>, <<>>} : CommitRow(o, RowOf(v))
      BY <1>2 DEF KVSet
    <2>2. RowOf(v) \in DataRowType /\ RowOf(v).value = v /\ UNCHANGED shown
      BY <1>2, <1>t, <1>r, CellWritten DEF KVSet, tableVars
    <2>3. Effect(o) /\ dataRow'.value \in {<<o>>, <<>>}
      BY <1>2, <1>p, <2>1, <2>2, CommitApplies DEF KVSet, OnCell, DataAt
    <2>4. Atomic!Set(o)
      BY <2>3 DEF Atomic!Set, Atomic!Apply, Effect, Mapped, Notes
    <2> QED
      BY <2>4 DEF Atomic!Next
  <1>3. ASSUME NEW o \in DataOps, LockRow(o) PROVE [Atomic!Next]_(Atomic!vars)
    <2>1. /\ dataOp' \in [DataOps -> OpType]
          /\ \A p \in DataOps \ {o} : dataOp'[p] = dataOp[p]
          /\ dataOp'[o].pc \in {"locked", "absent"} /\ dataOp'[o].note = dataOp[o].note
      BY <1>3, <1>t DEF LockRow, OpType, DataPcs, DataRowType
    <2>2. AtomicStatus(o) = "pending" /\ AtomicStatus(o)' = "pending"
      BY <1>3, <1>p, <2>1 DEF LockRow, OnCell, DataAt, AtomicStatus
    <2> QED
      BY <1>3, <2>1, <2>2, Stutters DEF LockRow, tableVars
  <1>4. ASSUME NEW o \in DataOps, UpdateRow(o) PROVE [Atomic!Next]_(Atomic!vars)
    <2>1. dataOp[o].read = dataRow.value
      BY <1>4 DEF UpdateRow, OnCell, StoreInv, LockedReads
    <2>2. /\ RowOf(Append(dataOp[o].read, o)) \in DataRowType
          /\ RowOf(Append(dataOp[o].read, o)).value = Append(dataRow.value, o)
      BY <1>t, <1>r, <2>1, CellWritten
    <2>3. /\ CommitRow(o, RowOf(Append(dataOp[o].read, o))) /\ UNCHANGED shown
          /\ AtomicStatus(o) = "pending"
      BY <1>4, <1>p DEF UpdateRow, OnCell, DataAt, tableVars
    <2>4. Effect(o) /\ dataRow'.value = Append(dataRow.value, o)
      BY <2>2, <2>3, CommitApplies
    <2>5. Atomic!Add(o)
      BY <2>4 DEF Atomic!Add, Atomic!Apply, Effect, Mapped, Notes
    <2> QED
      BY <2>5 DEF Atomic!Next
  <1>5. ASSUME NEW o \in DataOps, InsertRow(o) PROVE [Atomic!Next]_(Atomic!vars)
    <2>1. AtomicStatus(o) = "pending" /\ UNCHANGED shown
      BY <1>5, <1>p DEF InsertRow, OnCell, DataAt, tableVars
    <2>2. CASE dataRow.present
      BY <1>5, <2>1, <2>2, Refuses DEF InsertRow, DataPcs, Atomic!Next
    <2>3. CASE ~dataRow.present
      <3>1. RowOf(<<o>>) \in DataRowType /\ RowOf(<<o>>).value = <<o>>
        BY <1>t, <1>r, CellWritten
      <3>2. Effect(o) /\ dataRow'.value = <<o>>
        BY <1>5, <2>1, <2>3, <3>1, CommitApplies DEF InsertRow
      <3>3. Atomic!Set(o)
        BY <3>2 DEF Atomic!Set, Atomic!Apply, Effect, Mapped, Notes
      <3> QED
        BY <3>3 DEF Atomic!Next
    <2> QED
      BY <2>2, <2>3
  <1>6. ASSUME NEW o \in DataOps, KVDelete(o) PROVE [Atomic!Next]_(Atomic!vars)
    <2>1. Effect(o) /\ dataRow'.value = <<>>
      BY <1>6, <1>n, <1>p, CommitApplies DEF KVDelete, OnCell, DataAt, tableVars
    <2>2. Atomic!Empty(o)
      BY <2>1 DEF Atomic!Empty, Atomic!Apply, Effect, Mapped, Notes
    <2> QED
      BY <2>2 DEF Atomic!Next
  <1>7. ASSUME NEW o \in DataOps, ClearCell(o) PROVE [Atomic!Next]_(Atomic!vars)
    <2>1. Effect(o) /\ dataRow'.value = <<>>
      BY <1>7, <1>n, <1>p, StatementApplies DEF ClearCell, OnCell, DataAt, tableVars
    <2>2. Atomic!Empty(o)
      BY <2>1 DEF Atomic!Empty, Atomic!Apply, Effect, Mapped, Notes
    <2> QED
      BY <2>2 DEF Atomic!Next
  <1>8. ASSUME NEW o \in DataOps, RecordStep(o) PROVE [Atomic!Next]_(Atomic!vars)
    <2>1. /\ AtomicStatus(o) = "pending" /\ UNCHANGED shown
          /\ \A v \in Values : [dataRow EXCEPT !.value = v] \in DataRowType
          /\ \A v \in Values : [dataRow EXCEPT !.value = v].value = v
      BY <1>8, <1>p, <1>t
         DEF RecordStep, RecordAppend, NoSuchRecord, RecordUpdate, RecordDelete, RecordClear,
             OnRecords, DataAt, tableVars, DataRowType
    <2>2. CASE RecordAppend(o)
      <3>1. GoesTo(o, "count") /\ dataRow'.value = Append(dataRow.value, o)
        BY <1>t, <2>1, <2>2, CellWritten DEF RecordAppend, SetRecords
      <3>2. Effect(o)
        BY <2>1, <3>1, StatementApplies
      <3>3. Atomic!Add(o)
        BY <3>1, <3>2 DEF Atomic!Add, Atomic!Apply, Effect, Mapped, Notes
      <3> QED
        BY <3>3 DEF Atomic!Next
    <2>3. CASE NoSuchRecord(o)
      BY <2>1, <2>3, Refuses DEF NoSuchRecord, DataPcs, Atomic!Next
    <2>4. CASE RecordUpdate(o)
      <3>1. GoesTo(o, "count") /\ dataRow'.value = dataRow.value
        BY <2>4 DEF RecordUpdate
      <3>2. Effect(o)
        BY <2>1, <3>1, StatementApplies
      <3>3. Atomic!RecordUpdate(o)
        BY <3>1, <3>2 DEF Atomic!RecordUpdate, Atomic!Apply, Effect, Mapped, Notes
      <3> QED
        BY <3>3 DEF Atomic!Next
    <2>5. CASE RecordDelete(o)
      <3>1. PICK i \in DOMAIN dataRow.value : SetRecords(WithoutRecord(i))
        BY <2>5 DEF RecordDelete
      <3>2. GoesTo(o, "count") /\ dataRow'.value = WithoutRecord(i)
        BY <1>t, <2>1, <2>5, <3>1, CellWritten DEF RecordDelete, SetRecords
      <3>3. Effect(o)
        BY <2>1, <3>2, StatementApplies
      <3>4. Atomic!RecordDelete(o)
        BY <3>2, <3>3 DEF Atomic!RecordDelete, Atomic!Apply, Atomic!Without, WithoutRecord,
                          Effect, Mapped, Notes
      <3> QED
        BY <3>4 DEF Atomic!Next
    <2>6. CASE RecordClear(o)
      <3>1. Effect(o) /\ dataRow'.value = <<>>
        BY <1>t, <2>1, <2>6, CellWritten, CommitApplies DEF RecordClear
      <3>2. Atomic!Empty(o)
        BY <3>1 DEF Atomic!Empty, Atomic!Apply, Effect, Mapped, Notes
      <3> QED
        BY <3>2 DEF Atomic!Next
    <2> QED
      BY <1>8, <2>2, <2>3, <2>4, <2>5, <2>6 DEF RecordStep
  <1>9. ASSUME NEW o \in DataOps, RecordCount(o) PROVE [Atomic!Next]_(Atomic!vars)
    <2>1. /\ dataOp' \in [DataOps -> OpType]
          /\ dataOp'[o].pc = "publish" /\ dataOp'[o].note = dataRow.value
          /\ \A p \in DataOps \ {o} : dataOp'[p] = dataOp[p]
      BY <1>9, <1>t DEF RecordCount, OpType, DataRowType, DataPcs
    <2>2. AtomicStatus(o) = "done" /\ AtomicStatus(o)' = "done"
      BY <1>9, <2>1 DEF RecordCount, DataAt, AtomicStatus
    <2>3. /\ Mapped' = [Mapped EXCEPT ![o] = "done"] /\ Mapped[o] = "done"
          /\ Notes' = [Notes EXCEPT ![o] = dataRow.value]
      BY <2>1, <2>2, MappedStep DEF Mapped
    <2>4. Mapped' = Mapped
      BY <2>3 DEF Mapped
    <2>5. Atomic!RecordCount(o)
      BY <1>9, <2>3, <2>4 DEF Atomic!RecordCount, Mapped, Notes, RecordCount, tableVars
    <2> QED
      BY <2>5 DEF Atomic!Next
  <1>10. ASSUME NEW o \in DataOps, Publish(o) PROVE [Atomic!Next]_(Atomic!vars)
    <2>1. /\ dataOp' \in [DataOps -> OpType] /\ dataOp'[o].pc = "done"
          /\ dataOp'[o].note = dataOp[o].note /\ dataRow' = dataRow
          /\ \A p \in DataOps \ {o} : dataOp'[p] = dataOp[p]
      BY <1>10, <1>t, OpGoes DEF Publish, DataPcs
    <2>2. AtomicStatus(o) = "done" /\ AtomicStatus(o)' = "done"
      BY <1>10, <2>1 DEF Publish, DataAt, AtomicStatus
    <2>3. CASE shown' = shown
      BY <2>1, <2>2, <2>3, Stutters
    <2>4. CASE shown' = dataOp[o].note
      <3>1. Mapped' = Mapped /\ Notes' = Notes /\ Mapped[o] = "done"
        BY <2>1, <2>2, MappedStep DEF Mapped, Notes
      <3>2. Atomic!Show(o)
        BY <2>1, <2>4, <3>1 DEF Atomic!Show, Mapped, Notes
      <3> QED
        BY <3>2 DEF Atomic!Next
    <2> QED
      BY <1>10, <2>3, <2>4 DEF Publish
  <1>11. ASSUME NEW o \in DataOps, FailOp(o) PROVE [Atomic!Next]_(Atomic!vars)
    <2>1. UNCHANGED <<dataRow, shown>>
      BY <1>11 DEF FailOp, tableVars
    <2>2. CASE dataOp[o].pc \in {"run", "absent", "locked"} /\ GoesTo(o, "failed")
      BY <1>p, <2>1, <2>2, Refuses DEF DataPcs, Atomic!Next
    <2>3. CASE dataOp[o].pc \in {"count", "publish"} /\ GoesTo(o, "done")
      <3>1. /\ dataOp' \in [DataOps -> OpType] /\ dataOp'[o].pc = "done"
            /\ dataOp'[o].note = dataOp[o].note
            /\ \A p \in DataOps \ {o} : dataOp'[p] = dataOp[p]
        BY <1>t, <2>3, OpGoes DEF DataPcs
      <3>2. AtomicStatus(o)' = AtomicStatus(o)
        BY <2>3, <3>1 DEF AtomicStatus
      <3> QED
        BY <2>1, <3>1, <3>2, Stutters
    <2> QED
      BY <1>11, <2>2, <2>3 DEF FailOp
  <1>12. CASE DeleteDataStore
    <2>1. /\ UNCHANGED <<dataOp, shown>> /\ dataRow' \in {dataRow, NoDataRow}
      BY <1>12 DEF DeleteDataStore, LoadStore, DeleteEntries, DeleteStoreRow
    <2>2. Mapped' = Mapped /\ Notes' = Notes
      BY <2>1 DEF Mapped, Notes, AtomicStatus
    <2>3. CASE dataRow' = dataRow
      BY <2>1, <2>2, <2>3 DEF Atomic!vars, Mapped, Notes
    <2>4. CASE dataRow' = NoDataRow
      BY <1>n, <2>1, <2>2, <2>4 DEF Atomic!Next, Atomic!Wipe, Mapped, Notes
    <2> QED
      BY <2>1, <2>3, <2>4
  <1>13. CASE UNCHANGED storeVars
    BY <1>13 DEF storeVars, Atomic!vars, AtomicStatus
  <1> QED
    BY <1>1, <1>2, <1>3, <1>4, <1>5, <1>6, <1>7, <1>8, <1>9, <1>10, <1>11, <1>12, <1>13
       DEF NextStores, CellStep

\* A new store is a new atomic store.
LEMMA InitImplements == InitStores => Atomic!Init
  BY DEF InitStores, Atomic!Init, NoDataRow, RowOf, AtomicStatus

\* A durable store behaves like the in-memory one: what was acknowledged took effect
\* once and at one instant, what failed did not (KVIncrement, TextAppend and the rest).
THEOREM StoresImplementAtomic == StoresSpec => ImplementsAtomicStore
  <1>1. StoresSpec => []StoreInv
    BY StoreInit, StoreStep, PTL DEF StoresSpec
  <1>2. StoreInv /\ [NextStores]_storeVars => [Atomic!Next]_(Atomic!vars)
    BY StepImplements
  <1> QED
    BY <1>1, <1>2, InitImplements, PTL DEF StoresSpec, ImplementsAtomicStore, Atomic!Spec
-----------------------------------------------------------------------------
(***************************************************************************)
(* The composition.                                                        *)
(***************************************************************************)

(* A step of the composition is a step or a stutter of every component.    *)
LEMMA OnePartMoves ==
  ASSUME [Next]_allVars
  PROVE  /\ [NextTools]_toolVars /\ [NextAuth]_authVars /\ [NextSeats]_seatVars
         /\ [NextHosted]_hostedVars /\ [NextTriggers]_triggerVars /\ [NextStores]_storeVars
BY DEF Next, allVars

(* Side by side each component behaves as it does alone, so that all that  *)
(* was proved of one component holds of the composition.                   *)
THEOREM PlatformRunsComponents ==
  Spec => ToolSpec /\ AuthSpec /\ SeatSpec /\ HostedSpec /\ TriggerSpec /\ StoresSpec
<1>1. Init => /\ InitTools /\ InitAuth /\ InitSeats /\ InitHosted /\ InitTriggers
              /\ InitStores
  BY DEF Init
<1> QED
  BY <1>1, OnePartMoves, PTL DEF Spec, ToolSpec, AuthSpec, SeatSpec, HostedSpec, TriggerSpec,
     StoresSpec

(* Every component of the composition is always in a state of the program. *)
THEOREM PlatformTypeCorrect == Spec => []PlatformTypeOK
<1>1. /\ ToolsTypeOK /\ AuthTypeOK /\ SeatsTypeOK /\ HostedTypeOK /\ TriggersTypeOK
      /\ StoresTypeOK
      => PlatformTypeOK
  BY DEF PlatformTypeOK
<1> QED
  BY <1>1, PlatformRunsComponents, ToolsTypeCorrect, AuthTypeCorrect, SeatsTypeCorrect,
     HostedTypeCorrect, TriggersTypeCorrect, StoreTypeCorrect, PTL
=============================================================================
