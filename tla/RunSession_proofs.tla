------------------------- MODULE RunSession_proofs -------------------------
(***************************************************************************)
(* Proofs about RunSession, for any number of viewers and reviewers, any   *)
(* channel size and any number of retries: its types, that a gate acts on  *)
(* a decision once and, unless other decisions overtook it, on the attempt *)
(* it was made for, and that a stream closed by the server carried the     *)
(* whole run.                                                              *)
(*                                                                         *)
(* The inductive invariant SInv says, besides the types, where the engine  *)
(* stands against what it emitted (at most one terminal event, counting    *)
(* what it is about to emit), that buffer and row hold the history while   *)
(* they are the ones to hold it, that what a viewer was sent followed by   *)
(* what waits in its channel is the history, and that the channel of an    *)
(* attempt holds only what was sent to that attempt and not acted on yet.  *)
(***************************************************************************)
EXTENDS RunSession, SequenceTheorems, TLAPS

(* Every event a session emits.                                            *)
EventTypes == {"run_started", "waiting", "feedback", "run_completed", "run_error", "skipped"}

(* What the variables hold.                                                *)
ReviewerStates == [pc : {"new", "decided", "found", "sent", "done"},
                   shown : 0 .. MaxRetries + 1, attempt : 0 .. MaxRetries + 1,
                   decision : Decisions \cup {"none"}]
STypes ==
  /\ engine \in [pc : {"admit", "open", "wait", "rerun", "persist", "clear", "done", "dead"},
                 pending : Seq(EventTypes), attempt : 0 .. MaxRetries + 1]
  /\ row \in [status : {"none", "running", "completed", "error"}, events : Seq(EventTypes)]
  /\ manual \in BOOLEAN /\ writeLost \in BOOLEAN
  /\ history \in Seq(EventTypes) /\ buffer \in Seq(EventTypes)
  /\ channel \in [Viewers -> [queue : Seq(EventTypes), room : Nat]]
  /\ viewer \in [Viewers -> [pc : {"new", "load", "check", "stream", "closed", "left"},
                             sent : Seq(EventTypes)]]
  /\ approvals \in 0 .. engine.attempt
  /\ answer \in [Attempts -> Seq(Reviewers)]
  /\ reviewer \in [Reviewers -> ReviewerStates]
  /\ applied \subseteq [attempt : Attempts, by : Reviewers]

(* The engine's position, against what it emitted and is about to emit.    *)
Unended(s) == \A k \in DOMAIN s : s[k] \notin Terminal
EndsOnce(s) == \A j, k \in DOMAIN s : s[j] \in Terminal /\ s[k] \in Terminal => j = k

EngineInv ==
  /\ engine.pc = "admit" => engine.attempt = 0
  /\ engine.pc \in {"open", "rerun"} => engine.attempt <= MaxRetries
  /\ engine.pc = "wait" => engine.attempt \in Attempts
  /\ engine.pc = "admit" => history = << >>
  /\ engine.pc \in {"admit", "clear", "done", "dead"} => engine.pending = << >>
  /\ engine.pc \in {"admit", "open", "wait", "rerun"} =>
       Unended(history) /\ Unended(engine.pending)
  /\ EndsOnce(history \o engine.pending)

(* The two places a viewer may be served from.                             *)
StoreInv ==
  /\ Finished => engine.pc \in {"clear", "done", "dead"} /\ row.events = history
  /\ buffer = IF engine.pc \in {"done", "dead"} THEN << >> ELSE history

(* A viewer that lost no event has, with what is still in its channel,     *)
(* every event so far; or it came after the buffer was cleared.            *)
SeenEnd(h, s) == \E k \in DOMAIN h : /\ h[k] \in Terminal /\ k <= Len(s)
                                       /\ \A i \in 1 .. k : s[i] = h[i]
ViewInv(v) ==
  /\ viewer[v].pc \in {"new", "load", "check"} => viewer[v].sent = << >>
  /\ Subscribed(v) /\ v \notin dropped =>
       \/ viewer[v].sent \o channel[v].queue = history
       \/ /\ engine.pc \in {"done", "dead"}
          /\ viewer[v].sent = << >> /\ channel[v].queue = << >>
  /\ viewer[v].pc = "closed" /\ v \notin dropped =>
       SeenEnd(history, viewer[v].sent) \/ (Finished /\ IsSuffix(history, viewer[v].sent))

(* What is in an attempt's channel was sent to that attempt and not acted  *)
(* on yet; what was acted on was sent; each attempt behind the engine      *)
(* ended by a retry.                                                       *)
WasSent(r, a) == reviewer[r].pc \in {"sent", "done"} /\ reviewer[r].attempt = a
Retried(a) == \E e \in applied : e.attempt = a /\ reviewer[e.by].decision = "retry"
Past == IF engine.pc \in {"open", "rerun"} THEN engine.attempt ELSE engine.attempt - 1
ChannelInv(a) ==
  /\ Len(answer[a]) <= 1
  /\ \A k \in DOMAIN answer[a] :
       WasSent(answer[a][k], a) /\ \A d \in applied : d.by # answer[a][k]
AnswerInv ==
  /\ \A a \in Attempts : ChannelInv(a)
  /\ \A r \in Reviewers :
       /\ reviewer[r].pc = "found" => reviewer[r].attempt \in Attempts
       /\ reviewer[r].pc # "new" => reviewer[r].shown # 0
  /\ \A d \in applied :
       /\ WasSent(d.by, d.attempt)
       /\ d.attempt <= engine.attempt
       /\ engine.pc = "wait" => d.attempt < engine.attempt
  /\ \A d, e \in applied : d.attempt = e.attempt => d = e
  /\ \A a \in 1 .. Past : Retried(a)

SInv == /\ STypes /\ EngineInv /\ StoreInv /\ (\A v \in Viewers : ViewInv(v)) /\ AnswerInv

-----------------------------------------------------------------------------
(* Sequences.                                                              *)

(* Moving the first element of one sequence to the end of another.         *)
LEMMA MoveHead ==
  ASSUME NEW E, NEW s \in Seq(E), NEW t \in Seq(E), t # << >>
  PROVE  /\ Head(t) \in E /\ Tail(t) \in Seq(E) /\ Append(s, Head(t)) \in Seq(E)
         /\ Append(s, Head(t)) \o Tail(t) = s \o t
<1>1. /\ Head(t) \in E /\ Tail(t) \in Seq(E) /\ Len(t) \in Nat \ {0} /\ Head(t) = t[1]
  BY HeadTailProperties, EmptySeq
<1>2. /\ Append(s, Head(t)) \in Seq(E) /\ Append(s, Head(t)) = s \o <<Head(t)>>
      /\ <<Head(t)>> \in Seq(E)
  BY <1>1, AppendProperties, AppendIsConcat
<1>3. t = <<Head(t)>> \o Tail(t)
  <2>1. SubSeq(t, 1, Len(t)) = <<t[1]>> \o SubSeq(t, 2, Len(t))
    BY <1>1, SubSeqRecursiveFirst
  <2> QED BY <1>1, <2>1, SubSeqFull, TailIsSubSeq
<1>4. (s \o <<Head(t)>>) \o Tail(t) = s \o (<<Head(t)>> \o Tail(t))
  BY <1>1, <1>2, ConcatAssociative
<1> QED BY <1>1, <1>2, <1>3, <1>4

(* Appending to the second part appends to the whole.                      *)
LEMMA AppendRight ==
  ASSUME NEW E, NEW s \in Seq(E), NEW t \in Seq(E), NEW e \in E
  PROVE  s \o Append(t, e) = Append(s \o t, e)
<1>1. /\ Append(t, e) = t \o <<e>> /\ s \o t \in Seq(E) /\ <<e>> \in Seq(E)
      /\ Append(s \o t, e) = (s \o t) \o <<e>>
  BY AppendIsConcat, ConcatProperties
<1> QED BY <1>1, ConcatAssociative

(* What follows an unended sequence may end it once.                       *)
LEMMA EndsOnceAfter ==
  ASSUME NEW s \in Seq(EventTypes), NEW t \in Seq(EventTypes), Unended(s), EndsOnce(t)
  PROVE  EndsOnce(s \o t)
<1>1. /\ Len(s) \in Nat /\ DOMAIN s = 1 .. Len(s) /\ Len(t) \in Nat /\ DOMAIN t = 1 .. Len(t)
      /\ DOMAIN (s \o t) = 1 .. Len(s) + Len(t)
      /\ \A i \in 1 .. Len(s) + Len(t) :
           (s \o t)[i] = IF i <= Len(s) THEN s[i] ELSE t[i - Len(s)]
  BY LenProperties, ConcatProperties
<1>2. ASSUME NEW j \in DOMAIN (s \o t), (s \o t)[j] \in Terminal
      PROVE  j - Len(s) \in DOMAIN t /\ t[j - Len(s)] \in Terminal
  BY <1>1, <1>2 DEF Unended
<1> QED BY <1>1, <1>2 DEF EndsOnce

(* What ends once at most does so at every point of it.                    *)
LEMMA EndsOnceInFront ==
  ASSUME NEW s \in Seq(EventTypes), NEW t \in Seq(EventTypes), EndsOnce(s \o t)
  PROVE  EndsOnce(s)
<1>1. /\ DOMAIN s = 1 .. Len(s) /\ Len(s) \in Nat /\ Len(t) \in Nat
      /\ DOMAIN (s \o t) = 1 .. Len(s) + Len(t)
      /\ \A i \in 1 .. Len(s) : (s \o t)[i] = s[i]
  BY LenProperties, ConcatProperties
<1> QED BY <1>1 DEF EndsOnce

(* A suffix is what a sequence was extended by.                            *)
LEMMA SuffixOfConcat ==
  ASSUME NEW E, NEW s \in Seq(E), NEW t \in Seq(E)
  PROVE  IsSuffix(t, s \o t)
<1> DEFINE u == s \o t
<1>1. /\ Len(s) \in Nat /\ Len(t) \in Nat /\ Len(u) = Len(s) + Len(t)
      /\ \A i \in 1 .. Len(s) + Len(t) : u[i] = IF i <= Len(s) THEN s[i] ELSE t[i - Len(s)]
      /\ \A i \in 1 .. Len(t) : t[i] \in E
      /\ \A i \in 1 .. Len(u) : u[i] \in E
  BY LenProperties, ConcatProperties, ElementOfSeq
<1> HIDE DEF u
<1> DEFINE rt == Reverse(t)
           ru == Reverse(u)
<1>2. /\ Len(rt) = Len(t) /\ Len(ru) = Len(u)
      /\ \A i \in 1 .. Len(t) : rt[i] = t[(Len(t) - i) + 1]
      /\ \A i \in 1 .. Len(u) : ru[i] = u[(Len(u) - i) + 1]
  BY <1>1 DEF Reverse
<1>3. ASSUME NEW i \in 1 .. Len(t) PROVE rt[i] = ru[i] /\ rt[i] \in E
  <2>1. /\ (Len(u) - i) + 1 \in 1 .. Len(u) /\ ((Len(u) - i) + 1) - Len(s) = (Len(t) - i) + 1
        /\ ~((Len(u) - i) + 1 <= Len(s)) /\ (Len(t) - i) + 1 \in 1 .. Len(t)
        /\ i \in 1 .. Len(u)
    BY <1>1
  <2> QED BY <1>1, <1>2, <2>1
<1> HIDE DEF rt, ru
<1>4. SubSeq(rt, 1, Len(t)) = SubSeq(ru, 1, Len(t))
  <2>1. /\ SubSeq(rt, 1, Len(t)) \in Seq(E) /\ SubSeq(ru, 1, Len(t)) \in Seq(E)
        /\ Len(SubSeq(rt, 1, Len(t))) = Len(t) /\ Len(SubSeq(ru, 1, Len(t))) = Len(t)
        /\ \A i \in 1 .. Len(t) : SubSeq(rt, 1, Len(t))[i] = rt[i]
        /\ \A i \in 1 .. Len(t) : SubSeq(ru, 1, Len(t))[i] = ru[i]
    BY <1>1, <1>3, SubSeqProperties
  <2> QED BY <2>1, <1>3, SeqEqual
<1> QED BY <1>1, <1>2, <1>4 DEF IsSuffix, IsPrefix, rt, ru, u

-----------------------------------------------------------------------------
(* A closed stream was given the whole run.                                *)

(* The events up to the terminal one are a prefix of what was sent.        *)
LEMMA SeenEndIsPrefix ==
  ASSUME NEW h \in Seq(EventTypes), NEW s \in Seq(EventTypes), EndsOnce(h), SeenEnd(h, s)
  PROVE  IsPrefix(UpToTerminal(h), s)
<1>1. PICK k \in DOMAIN h : /\ h[k] \in Terminal /\ k <= Len(s)
                            /\ \A i \in 1 .. k : s[i] = h[i]
  BY DEF SeenEnd
<1>2. {j \in DOMAIN h : h[j] \in Terminal} = {k}
  BY <1>1 DEF EndsOnce
<1>3. UpToTerminal(h) = SubSeq(h, 1, k)
  BY <1>2 DEF UpToTerminal
<1>4. /\ k \in Nat \ {0} /\ Len(s) \in Nat
      /\ \A i \in 1 .. k : h[i] \in EventTypes /\ s[i] \in EventTypes
  BY <1>1, LenProperties, ElementOfSeq
<1> DEFINE p == SubSeq(h, 1, k)
<1>5. /\ p \in Seq(EventTypes) /\ Len(p) = k /\ \A i \in 1 .. k : p[i] = h[i]
  BY <1>4, SubSeqProperties
<1> HIDE DEF p
<1>6. /\ SubSeq(s, 1, k) \in Seq(EventTypes) /\ Len(SubSeq(s, 1, k)) = k
      /\ \A i \in 1 .. k : SubSeq(s, 1, k)[i] = s[i]
  BY <1>4, SubSeqProperties
<1>7. SubSeq(p, 1, k) = p /\ SubSeq(s, 1, k) = p
  BY <1>1, <1>5, <1>6, SubSeqFull, SeqEqual
<1> QED BY <1>1, <1>3, <1>5, <1>7 DEF IsPrefix, p

(* What is sent already is not undone by later events.                     *)
LEMMA SeenEndKept ==
  ASSUME NEW h \in Seq(EventTypes), NEW e \in EventTypes, NEW s, SeenEnd(h, s)
  PROVE  SeenEnd(Append(h, e), s)
<1>1. PICK k \in DOMAIN h : /\ h[k] \in Terminal /\ k <= Len(s)
                            /\ \A i \in 1 .. k : s[i] = h[i]
  BY DEF SeenEnd
<1>2. DOMAIN h = 1 .. Len(h) /\ Len(h) \in Nat
  BY LenProperties
<1> DEFINE a == Append(h, e)
<1>3. /\ a \in Seq(EventTypes) /\ Len(a) = Len(h) + 1
      /\ \A i \in 1 .. Len(h) : a[i] = h[i]
  BY AppendProperties
<1>4. DOMAIN a = 1 .. Len(h) + 1
  BY <1>3, LenProperties
<1> HIDE DEF a
<1>5. k \in DOMAIN a /\ \A i \in 1 .. k : a[i] = h[i]
  BY <1>1, <1>2, <1>3, <1>4
<1> QED BY <1>1, <1>5 DEF SeenEnd, a

(* The last event sent, when it is terminal.                               *)
LEMMA SeenEndNow ==
  ASSUME NEW s \in Seq(EventTypes), NEW q \in Seq(EventTypes), NEW ev \in Terminal \cap EventTypes
  PROVE  SeenEnd(Append(s, ev) \o q, Append(s, ev))
<1> DEFINE u == Append(s, ev)
           k == Len(u)
           h == u \o q
<1>1. u \in Seq(EventTypes) /\ u[k] = ev /\ k \in Nat \ {0}
  BY AppendProperties, LenProperties
<1> HIDE DEF u
<1>2. /\ h \in Seq(EventTypes) /\ Len(q) \in Nat /\ Len(h) = k + Len(q)
      /\ \A i \in 1 .. k + Len(q) : h[i] = IF i <= k THEN u[i] ELSE q[i - k]
  BY <1>1, ConcatProperties, LenProperties
<1>3. DOMAIN h = 1 .. k + Len(q)
  BY <1>2, LenProperties
<1> HIDE DEF h
<1>4. k \in DOMAIN h /\ h[k] = ev /\ \A i \in 1 .. k : u[i] = h[i]
  BY <1>1, <1>2, <1>3
<1>5. SeenEnd(h, u)
  BY <1>1, <1>4 DEF SeenEnd
<1> QED BY <1>5 DEF u, h

-----------------------------------------------------------------------------
(* The invariant is inductive: the run's goroutine.                        *)

(* A viewer that the step leaves alone keeps its account of the run.       *)
LEMMA ViewKept ==
  ASSUME SInv, NEW v \in Viewers, viewer'[v] = viewer[v], channel'[v] = channel[v],
         dropped' = dropped, history' = history, Finished => row' = row,
         engine.pc \in {"done", "dead"} => engine'.pc \in {"done", "dead"}
  PROVE  ViewInv(v)'
BY DEF SInv, ViewInv, Subscribed, Finished

(* A step that leaves the channels of the gate, the reviewers and what was *)
(* acted on alone, and opens no attempt.                                   *)
LEMMA GateKept ==
  ASSUME SInv, UNCHANGED <<answer, reviewer, applied>>, engine'.attempt = engine.attempt,
         engine'.pc = "wait" => engine.pc = "wait",
         engine'.pc \in {"open", "rerun"} =>
            engine.pc \in {"open", "rerun"} \/ engine.attempt = 0
  PROVE  AnswerInv'
<1>1. AnswerInv /\ engine.attempt \in Nat /\ MaxRetries \in Nat
  BY SessionBounds DEF SInv, STypes
<1>2. \A a \in 1 .. Past' : a \in 1 .. Past
  BY <1>1 DEF Past
<1> QED BY <1>1, <1>2 DEF AnswerInv, ChannelInv, WasSent, Retried

(* The engine's own steps, but for those that emit.                        *)
LEMMA EngineStep ==
  ASSUME SInv,
         \/ Refuse \/ Admit \/ OpenAttempt \/ TakeAnswer \/ Rerun \/ ApprovalTimeout
         \/ Persist \/ ClearBuffer
  PROVE  SInv'
<1>0. /\ STypes /\ EngineInv /\ StoreInv /\ AnswerInv
      /\ MaxRetries \in Nat
  BY SessionBounds DEF SInv
<1> DEFINE Evs == Seq(EventTypes)
<1>s. /\ << >> \in Evs /\ <<"run_started">> \in Evs /\ <<"waiting">> \in Evs
      /\ <<"feedback">> \in Evs /\ Success \in Evs /\ Failure \in Evs
      /\ Unended(<<"run_started">>) /\ Unended(<<"waiting">>) /\ Unended(<<"feedback">>)
      /\ Unended(<< >>) /\ EndsOnce(Success) /\ EndsOnce(Failure)
  BY DEF EventTypes, Success, Failure, Unended, EndsOnce, Terminal
<1>u. \A t \in Evs : Unended(t) => EndsOnce(t)
  BY DEF Unended, EndsOnce
<1>h. history \in Evs /\ history \o << >> = history
  BY <1>0, ConcatEmptySeq DEF STypes
<1>1. CASE Refuse
  <2>1. /\ engine' = [engine EXCEPT !.pc = "done"] /\ engine.pc = "admit"
        /\ row' = IF manual THEN row ELSE [status |-> "error", events |-> << >>]
        /\ UNCHANGED <<manual, history, buffer, channel, viewer, dropped, approvals,
                       answer, reviewer, applied, writeLost>>
    BY <1>1 DEF Refuse
  <2>2. STypes'
    BY <2>1, <1>0, <1>s DEF STypes
  <2>3. EngineInv' /\ StoreInv'
    BY <2>1, <1>0, <1>s DEF STypes, EngineInv, StoreInv, Finished
  <2>4. AnswerInv'
    BY <2>1, <1>0, GateKept DEF STypes, EngineInv
  <2>5. ASSUME NEW v \in Viewers PROVE ViewInv(v)'
    BY <2>1, <1>0, ViewKept DEF EngineInv, StoreInv, STypes
  <2> QED BY <2>2, <2>3, <2>4, <2>5 DEF SInv
<1>2. CASE Admit
  <2>1. /\ engine' = [engine EXCEPT !.pc = "open", !.pending = <<"run_started">>]
        /\ engine.pc = "admit" /\ row' = [status |-> "running", events |-> << >>]
        /\ UNCHANGED <<manual, history, buffer, channel, viewer, dropped, approvals,
                       answer, reviewer, applied, writeLost>>
    BY <1>2 DEF Admit
  <2>2. STypes'
    BY <2>1, <1>0, <1>s DEF STypes
  <2>3. EngineInv' /\ StoreInv'
    <3>1. EndsOnce(history \o <<"run_started">>)
      BY <2>1, <1>0, <1>s, <1>u, <1>h, EndsOnceAfter DEF EngineInv
    <3> QED BY <2>1, <3>1, <1>0, <1>s DEF STypes, EngineInv, StoreInv, Finished
  <2>4. AnswerInv'
    BY <2>1, <1>0, GateKept DEF STypes, EngineInv
  <2>5. ASSUME NEW v \in Viewers PROVE ViewInv(v)'
    BY <2>1, <1>0, ViewKept DEF EngineInv, StoreInv, STypes
  <2> QED BY <2>2, <2>3, <2>4, <2>5 DEF SInv
<1>3. CASE OpenAttempt
  <2> DEFINE a == engine.attempt + 1
  <2>1. /\ engine' = [pc |-> "wait", attempt |-> a, pending |-> <<"waiting">>]
        /\ engine.pc = "open" /\ engine.pending = << >> /\ approvals' = a
        /\ answer' = [answer EXCEPT ![a] = << >>]
        /\ UNCHANGED <<row, manual, history, buffer, channel, viewer, dropped, reviewer,
                       applied, writeLost>>
    BY <1>3 DEF OpenAttempt, FreshChannel
  <2>a. a \in Attempts /\ a \in 0 .. MaxRetries + 1 /\ engine.attempt \in Nat
    BY <2>1, <1>0 DEF STypes, EngineInv, Attempts
  <2>2. STypes'
    <3>1. << >> \in Seq(Reviewers)
      OBVIOUS
    <3> HIDE DEF a
    <3>2. approvals' \in 0 .. engine'.attempt
      BY <2>1, <2>a
    <3> QED BY <2>1, <2>a, <3>1, <3>2, <1>0, <1>s DEF STypes
  <2>3. EngineInv' /\ StoreInv'
    <3>1. EndsOnce(history \o <<"waiting">>)
      BY <2>1, <1>0, <1>s, <1>u, <1>h, EndsOnceAfter DEF EngineInv
    <3> QED BY <2>1, <2>a, <3>1, <1>0, <1>s DEF STypes, EngineInv, StoreInv, Finished
  <2>4. AnswerInv'
    <3>1. Past' = Past
      BY <2>1, <2>a DEF Past
    <3>2. ASSUME NEW d \in applied
          PROVE  WasSent(d.by, d.attempt)' /\ d.attempt < engine'.attempt /\ d.attempt <= engine'.attempt
      <4>1. d.attempt \in Nat /\ d.attempt <= engine.attempt /\ WasSent(d.by, d.attempt)
        BY <1>0 DEF STypes, Attempts, AnswerInv
      <4> QED BY <2>1, <2>a, <4>1 DEF WasSent
    <3>3. ASSUME NEW b \in Attempts PROVE ChannelInv(b)'
      <4>1. CASE b = a
        BY <2>1, <2>a, <4>1, <1>0 DEF STypes, ChannelInv
      <4>2. CASE b # a
        <5>1. answer'[b] = answer[b]
          BY <2>1, <4>2, <1>0 DEF STypes
        <5> QED BY <2>1, <5>1, <1>0 DEF AnswerInv, ChannelInv, WasSent
      <4> QED BY <4>1, <4>2
    <3> QED BY <2>1, <3>1, <3>2, <3>3, <1>0 DEF AnswerInv, Retried
  <2>5. ASSUME NEW v \in Viewers PROVE ViewInv(v)'
    BY <2>1, <1>0, ViewKept DEF EngineInv, StoreInv, STypes
  <2> QED BY <2>2, <2>3, <2>4, <2>5 DEF SInv
<1>4. CASE TakeAnswer
  <2> DEFINE a == engine.attempt
             r == answer[a][1]
             new == [attempt |-> a, by |-> r]
  <2>1. /\ engine.pc = "wait" /\ engine.pending = << >> /\ answer[a] # << >>
        /\ answer' = [answer EXCEPT ![a] = Tail(@)]
        /\ applied' = applied \cup {new}
        /\ \/ /\ engine' = [engine EXCEPT !.pc = "rerun", !.pending = <<"feedback">>]
              /\ MayRetry /\ reviewer[r].decision = "retry"
           \/ engine' = [engine EXCEPT !.pc = "persist", !.pending = Success]
        /\ UNCHANGED <<row, manual, history, buffer, channel, viewer, dropped, approvals,
                       reviewer, writeLost>>
    BY <1>4 DEF TakeAnswer, AtGate, Answerer
  <2>a. a \in Attempts /\ a \in Nat
    BY <2>1, <1>0 DEF EngineInv, Attempts
  <2>b. /\ Tail(answer[a]) = << >> /\ r \in Reviewers /\ WasSent(r, a)
        /\ \A d \in applied : d.by # r
    <3> DEFINE q == answer[a]
    <3>1. q \in Seq(Reviewers) /\ Len(q) <= 1 /\ q # << >>
      BY <2>1, <2>a, <1>0 DEF STypes, AnswerInv, ChannelInv
    <3> HIDE DEF q
    <3>2. Len(q) = 1 /\ DOMAIN q = 1 .. 1
      <4>1. Len(q) \in Nat \ {0}
        BY <3>1, EmptySeq
      <4>2. DOMAIN q = 1 .. Len(q)
        BY <3>1, LenProperties
      <4> QED BY <3>1, <4>1, <4>2
    <3>3. Len(Tail(q)) = 0 /\ Tail(q) \in Seq(Reviewers)
      BY <3>1, <3>2, HeadTailProperties
    <3>4. Tail(q) = << >>
      BY <3>3, EmptySeq
    <3>5. q[1] \in Reviewers
      BY <3>1, <3>2, ElementOfSeq
    <3> QED BY <2>a, <3>2, <3>4, <3>5, <1>0 DEF AnswerInv, ChannelInv, q
  <2>e. engine'.attempt = a /\ engine'.pc \in {"rerun", "persist"}
    BY <2>1, <1>0 DEF STypes
  <2>2. STypes'
    <3>1. << >> \in Seq(Reviewers)
      OBVIOUS
    <3>2. /\ engine' \in [pc : {"admit", "open", "wait", "rerun", "persist", "clear", "done", "dead"},
                          pending : Evs, attempt : 0 .. MaxRetries + 1]
      BY <2>1, <1>0, <1>s DEF STypes
    <3>3. applied' \subseteq [attempt : Attempts, by : Reviewers]
      BY <2>1, <2>a, <2>b, <1>0 DEF STypes
    <3>4. answer' \in [Attempts -> Seq(Reviewers)]
      BY <2>1, <2>a, <2>b, <3>1, <1>0 DEF STypes
    <3> QED BY <2>1, <2>e, <3>2, <3>3, <3>4, <1>0 DEF STypes
  <2>3. EngineInv' /\ StoreInv'
    <3>1. EndsOnce(history \o <<"feedback">>) /\ EndsOnce(history \o Success)
      BY <2>1, <1>0, <1>s, <1>u, <1>h, EndsOnceAfter DEF EngineInv
    <3> QED BY <2>1, <2>a, <3>1, <1>0, <1>s DEF STypes, EngineInv, StoreInv, Finished, MayRetry
  <2>4. AnswerInv'
    <3> HIDE DEF r
    <3>1. new.attempt = a /\ new.by = r
      OBVIOUS
    <3>2. ASSUME NEW d \in applied
          PROVE  d.attempt \in Nat /\ d.attempt < a /\ WasSent(d.by, d.attempt) /\ d.by # r
      BY <2>1, <2>b, <1>0 DEF STypes, Attempts, AnswerInv
    <3> HIDE DEF new
    <3>3. ASSUME NEW b \in Attempts PROVE ChannelInv(b)'
      <4>1. CASE b = a
        <5>1. answer'[b] = << >>
          BY <2>1, <2>a, <2>b, <4>1, <1>0 DEF STypes
        <5> QED BY <5>1 DEF ChannelInv
      <4>2. CASE b # a
        <5>1. answer'[b] = answer[b]
          BY <2>1, <4>2, <1>0 DEF STypes
        <5>2. ASSUME NEW k \in DOMAIN answer[b]
              PROVE  /\ WasSent(answer[b][k], b)
                     /\ \A d \in applied : d.by # answer[b][k]
                     /\ answer[b][k] # r
          BY <2>b, <4>2, <1>0 DEF AnswerInv, ChannelInv, WasSent
        <5> QED BY <2>1, <3>1, <5>1, <5>2, <1>0 DEF AnswerInv, ChannelInv, WasSent
      <4> QED BY <4>1, <4>2
    <3>4. ASSUME NEW d \in applied'
          PROVE  /\ WasSent(d.by, d.attempt)' /\ d.attempt <= engine'.attempt
                 /\ engine'.pc # "wait"
      BY <2>1, <2>a, <2>b, <2>e, <3>1, <3>2 DEF WasSent
    <3>5. ASSUME NEW d \in applied', NEW e \in applied', d.attempt = e.attempt
          PROVE  d = e
      BY <2>1, <2>a, <3>1, <3>2, <3>5, <1>0 DEF AnswerInv
    <3>6. ASSUME NEW b \in 1 .. Past' PROVE Retried(b)'
      <4>1. CASE b \in 1 .. Past
        BY <2>1, <4>1, <1>0 DEF AnswerInv, Retried
      <4>2. CASE b \notin 1 .. Past
        <5>1. b = a /\ engine'.pc = "rerun"
          BY <2>1, <2>a, <2>e, <4>2 DEF Past
        <5>2. new \in applied' /\ reviewer'[new.by].decision = "retry"
          BY <2>1, <3>1, <5>1, <1>0 DEF STypes
        <5> QED BY <3>1, <5>1, <5>2 DEF Retried
      <4> QED BY <4>1, <4>2
    <3> QED BY <2>1, <3>3, <3>4, <3>5, <3>6, <1>0 DEF AnswerInv
  <2>5. ASSUME NEW v \in Viewers PROVE ViewInv(v)'
    BY <2>1, <1>0, ViewKept DEF EngineInv, StoreInv, STypes
  <2> QED BY <2>2, <2>3, <2>4, <2>5 DEF SInv
<1>5. CASE Rerun \/ ApprovalTimeout
  <2>1. /\ engine.pc \in {"rerun", "wait"} /\ engine.pending = << >>
        /\ \/ engine.pc = "rerun" /\ engine' = [engine EXCEPT !.pc = "open"]
           \/ engine' = [engine EXCEPT !.pc = "persist", !.pending = Failure]
        /\ approvals' \in {0, approvals}
        /\ UNCHANGED <<row, manual, history, buffer, channel, viewer, dropped, answer,
                       reviewer, applied, writeLost>>
    BY <1>5 DEF Rerun, ApprovalTimeout, AtGate
  <2>2. STypes'
    <3>1. /\ engine' \in [pc : {"admit", "open", "wait", "rerun", "persist", "clear", "done", "dead"},
                          pending : Evs, attempt : 0 .. MaxRetries + 1]
          /\ engine'.attempt = engine.attempt
      BY <2>1, <1>0, <1>s DEF STypes
    <3>2. approvals' \in 0 .. engine'.attempt
      BY <2>1, <3>1, <1>0 DEF STypes
    <3> QED BY <2>1, <3>1, <3>2, <1>0 DEF STypes
  <2>3. EngineInv' /\ StoreInv'
    <3>1. EndsOnce(history \o Failure)
      BY <2>1, <1>0, <1>s, <1>h, EndsOnceAfter DEF EngineInv
    <3> QED BY <2>1, <3>1, <1>0, <1>s DEF STypes, EngineInv, StoreInv, Finished
  <2>4. AnswerInv'
    BY <2>1, <1>0, GateKept DEF STypes, EngineInv
  <2>5. ASSUME NEW v \in Viewers PROVE ViewInv(v)'
    BY <2>1, <1>0, ViewKept DEF EngineInv, StoreInv, STypes
  <2> QED BY <2>2, <2>3, <2>4, <2>5 DEF SInv
<1>6. CASE Persist \/ ClearBuffer
  <2>1. /\ engine.pc \in {"persist", "clear"} /\ engine.pending = << >>
        /\ engine' = [engine EXCEPT !.pc = IF engine.pc = "persist" THEN "clear" ELSE "done"]
        /\ \/ UNCHANGED row
           \/ /\ engine.pc = "persist"
              /\ row' = [status |-> IF "run_error" \in ToSet(history) THEN "error"
                                    ELSE "completed",
                         events |-> history]
        /\ writeLost' \in {TRUE, writeLost}
        /\ buffer' = IF engine.pc = "persist" THEN buffer ELSE << >>
        /\ UNCHANGED <<manual, history, channel, viewer, dropped, approvals, answer,
                       reviewer, applied>>
    BY <1>6, <1>0 DEF Persist, ClearBuffer, EngineInv
  <2>2. STypes'
    <3>1. /\ engine' \in [pc : {"admit", "open", "wait", "rerun", "persist", "clear", "done", "dead"},
                          pending : Evs, attempt : 0 .. MaxRetries + 1]
          /\ engine'.attempt = engine.attempt
      BY <2>1, <1>0, <1>s DEF STypes
    <3>2. /\ row' \in [status : {"none", "running", "completed", "error"}, events : Evs]
          /\ writeLost' \in BOOLEAN /\ buffer' \in Evs
      <4>1. row \in [status : {"none", "running", "completed", "error"}, events : Evs]
            /\ history \in Evs /\ buffer \in Evs /\ writeLost \in BOOLEAN
        BY <1>0 DEF STypes
      <4>2. writeLost' \in BOOLEAN /\ buffer' \in Evs
        BY <2>1, <4>1, <1>s
      <4>3. CASE UNCHANGED row
        BY <4>1, <4>2, <4>3
      <4>4. CASE row' = [status |-> IF "run_error" \in ToSet(history) THEN "error"
                                    ELSE "completed",
                         events |-> history]
        BY <4>1, <4>2, <4>4
      <4> QED BY <2>1, <4>3, <4>4
    <3> QED BY <2>1, <3>1, <3>2, <1>0 DEF STypes
  <2>3. EngineInv' /\ StoreInv'
    <3>1. EngineInv'
      BY <2>1, <1>0 DEF STypes, EngineInv
    <3>2. StoreInv'
      BY <2>1, <1>0 DEF STypes, StoreInv, Finished
    <3> QED BY <3>1, <3>2
  <2>4. AnswerInv'
    BY <2>1, <1>0, GateKept DEF STypes, EngineInv
  <2>5. ASSUME NEW v \in Viewers PROVE ViewInv(v)'
    BY <2>1, <1>0, ViewKept DEF EngineInv, StoreInv, STypes
  <2> QED BY <2>2, <2>3, <2>4, <2>5 DEF SInv
<1> QED BY <1>1, <1>2, <1>3, <1>4, <1>5, <1>6

(* An emitted event reaches every subscribed viewer or marks it dropped.   *)
LEMMA EmitStep ==
  ASSUME SInv, EmitNext
  PROVE  SInv'
<1>0. /\ STypes /\ EngineInv /\ StoreInv /\ AnswerInv
  BY DEF SInv
<1> DEFINE Evs == Seq(EventTypes)
           ev == Head(engine.pending)
<1>1. /\ engine.pending # << >> /\ engine' = [engine EXCEPT !.pending = Tail(@)]
      /\ history' = Append(history, ev) /\ buffer' = Append(buffer, ev)
      /\ channel' = [v \in Viewers |->
           IF Subscribed(v) /\ channel[v].room > 0
           THEN [queue |-> Append(channel[v].queue, ev), room |-> channel[v].room - 1]
           ELSE channel[v]]
      /\ dropped' = dropped \cup {v \in Viewers : Subscribed(v) /\ channel[v].room = 0}
      /\ \/ manual /\ row' = [row EXCEPT !.events = history']
         \/ row' = row
      /\ UNCHANGED <<manual, viewer, approvals, answer, reviewer, applied, writeLost>>
  BY DEF EmitNext, HubPublish
<1>2. /\ engine.pc \notin {"admit", "clear", "done", "dead"}
      /\ history \in Evs /\ engine.pending \in Evs /\ buffer = history
  BY <1>0, <1>1 DEF STypes, EngineInv, StoreInv
<1>3. /\ ev \in EventTypes /\ Tail(engine.pending) \in Evs /\ history' \in Evs
      /\ history' \o Tail(engine.pending) = history \o engine.pending
  BY <1>1, <1>2, MoveHead
<1>e. /\ engine'.pending = Tail(engine.pending) /\ engine'.pc = engine.pc
      /\ engine'.attempt = engine.attempt
  BY <1>0, <1>1 DEF STypes
<1> HIDE DEF ev
<1>4. STypes'
  <2>1. engine' \in [pc : {"admit", "open", "wait", "rerun", "persist", "clear", "done", "dead"},
                     pending : Evs, attempt : 0 .. MaxRetries + 1]
    BY <1>0, <1>1, <1>3 DEF STypes
  <2>2. channel' \in [Viewers -> [queue : Evs, room : Nat]]
    <3> SUFFICES ASSUME NEW v \in Viewers
                 PROVE  (IF Subscribed(v) /\ channel[v].room > 0
                         THEN [queue |-> Append(channel[v].queue, ev), room |-> channel[v].room - 1]
                         ELSE channel[v]) \in [queue : Evs, room : Nat]
      BY <1>1
    <3>1. channel[v] \in [queue : Evs, room : Nat]
      BY <1>0 DEF STypes
    <3>2. Append(channel[v].queue, ev) \in Evs
      BY <1>3, <3>1, AppendProperties
    <3> QED BY <3>1, <3>2
  <2>3. row' \in [status : {"none", "running", "completed", "error"}, events : Evs]
    BY <1>0, <1>1, <1>3 DEF STypes
  <2> QED BY <1>0, <1>1, <1>2, <1>3, <1>e, <2>1, <2>2, <2>3 DEF STypes
<1>5. EngineInv'
  <2>1. engine.pc \in {"open", "wait", "rerun"} => Unended(history') /\ Unended(Tail(engine.pending))
    <3> SUFFICES ASSUME engine.pc \in {"open", "wait", "rerun"}
                 PROVE  Unended(history') /\ Unended(Tail(engine.pending))
      OBVIOUS
    <3>1. Unended(history) /\ Unended(engine.pending)
      BY <1>0 DEF EngineInv
    <3>2. /\ Len(engine.pending) \in Nat \ {0} /\ DOMAIN engine.pending = 1 .. Len(engine.pending)
          /\ Len(Tail(engine.pending)) = Len(engine.pending) - 1
          /\ DOMAIN Tail(engine.pending) = 1 .. Len(Tail(engine.pending))
          /\ \A i \in 1 .. Len(Tail(engine.pending)) : Tail(engine.pending)[i] = engine.pending[i + 1]
          /\ ev = engine.pending[1]
      <4>1. Len(engine.pending) \in Nat \ {0}
        BY <1>1, <1>2, EmptySeq
      <4>2. /\ DOMAIN engine.pending = 1 .. Len(engine.pending)
            /\ DOMAIN Tail(engine.pending) = 1 .. Len(Tail(engine.pending))
        BY <1>2, <1>3, LenProperties
      <4> QED BY <1>1, <1>2, <4>1, <4>2, HeadTailProperties DEF ev
    <3>3. /\ Len(history) \in Nat /\ DOMAIN history = 1 .. Len(history)
          /\ DOMAIN history' = 1 .. Len(history) + 1
          /\ \A i \in 1 .. Len(history) : history'[i] = history[i]
          /\ history'[Len(history) + 1] = ev
      BY <1>1, <1>2, <1>3, AppendProperties, LenProperties
    <3>4. ev \notin Terminal
      BY <3>1, <3>2 DEF Unended
    <3>5. Unended(history')
      <4> SUFFICES ASSUME NEW i \in 1 .. Len(history) + 1 PROVE history'[i] \notin Terminal
        BY <3>3 DEF Unended
      <4>1. CASE i = Len(history) + 1
        BY <3>3, <3>4, <4>1
      <4>2. CASE i # Len(history) + 1
        BY <3>1, <3>3, <4>2 DEF Unended
      <4> QED BY <4>1, <4>2
    <3>6. Unended(Tail(engine.pending))
      BY <3>1, <3>2 DEF Unended
    <3> QED BY <3>5, <3>6
  <2> QED BY <1>0, <1>2, <1>3, <1>e, <2>1 DEF EngineInv
<1>6. StoreInv'
  <2>1. row'.status = row.status
    BY <1>0, <1>1 DEF STypes
  <2> QED BY <1>0, <1>1, <1>2, <1>e, <2>1 DEF StoreInv, Finished
<1>7. AnswerInv'
  BY <1>1, <1>e, GateKept
<1>8. ASSUME NEW v \in Viewers PROVE ViewInv(v)'
  <2>0. ViewInv(v) /\ viewer' = viewer /\ viewer[v].sent \in Evs /\ channel[v] \in [queue : Evs, room : Nat]
    BY <1>0, <1>1 DEF SInv, STypes
  <2>1. ASSUME Subscribed(v)', v \notin dropped'
        PROVE  viewer'[v].sent \o channel'[v].queue = history'
    <3>1. Subscribed(v) /\ v \notin dropped /\ channel[v].room > 0
      BY <1>1, <2>0, <2>1 DEF Subscribed
    <3>2. viewer[v].sent \o channel[v].queue = history
      BY <1>2, <2>0, <3>1 DEF ViewInv
    <3>3. channel'[v].queue = Append(channel[v].queue, ev)
      BY <1>1, <3>1
    <3>4. viewer[v].sent \o Append(channel[v].queue, ev)
            = Append(viewer[v].sent \o channel[v].queue, ev)
      <4> DEFINE s == viewer[v].sent
                 q == channel[v].queue
      <4>1. s \in Evs /\ q \in Evs
        BY <2>0
      <4> HIDE DEF s, q
      <4>2. s \o Append(q, ev) = Append(s \o q, ev)
        BY <1>3, <4>1, AppendRight
      <4> QED BY <4>2 DEF s, q
    <3> QED BY <1>1, <2>0, <3>2, <3>3, <3>4
  <2>2. ASSUME viewer'[v].pc = "closed", v \notin dropped'
        PROVE  SeenEnd(history', viewer'[v].sent)
    <3>1. viewer[v].pc = "closed" /\ v \notin dropped /\ ~Finished
      BY <1>0, <1>1, <1>2, <2>0, <2>2 DEF StoreInv
    <3>2. SeenEnd(history, viewer[v].sent)
      BY <2>0, <3>1 DEF ViewInv
    <3>3. SeenEnd(Append(history, ev), viewer[v].sent)
      BY <1>2, <1>3, <3>2, SeenEndKept
    <3> QED BY <1>1, <2>0, <3>3
  <2>3. viewer'[v].pc \in {"new", "load", "check"} => viewer'[v].sent = << >>
    BY <2>0 DEF ViewInv
  <2> QED BY <2>1, <2>2, <2>3 DEF ViewInv
<1> QED BY <1>4, <1>5, <1>6, <1>7, <1>8 DEF SInv

(* The process dies: every stream breaks and no channel is left.           *)
LEMMA CrashStep ==
  ASSUME SInv, Crash
  PROVE  SInv'
<1>0. /\ STypes /\ EngineInv /\ StoreInv /\ AnswerInv
  BY DEF SInv
<1> DEFINE Evs == Seq(EventTypes)
<1>1. /\ engine.pc \notin {"admit", "done", "dead"}
      /\ engine' = [engine EXCEPT !.pc = "dead", !.pending = << >>]
      /\ buffer' = << >> /\ approvals' = 0
      /\ channel' = [v \in Viewers |-> [queue |-> << >>, room |-> 0]]
      /\ viewer' = [v \in Viewers |-> IF viewer[v].pc \in {"new", "closed"} THEN viewer[v]
                                      ELSE [viewer[v] EXCEPT !.pc = "left"]]
      /\ answer' = [a \in Attempts |-> << >>]
      /\ reviewer' = [r \in Reviewers |-> IF reviewer[r].pc = "new" THEN reviewer[r]
                                          ELSE [reviewer[r] EXCEPT !.pc = "done"]]
      /\ UNCHANGED <<row, manual, history, dropped, applied, writeLost>>
  BY DEF Crash, NoChannel
<1>e. engine'.pending = << >> /\ engine'.pc = "dead" /\ engine'.attempt = engine.attempt
  BY <1>0, <1>1 DEF STypes
<1>s. << >> \in Evs /\ << >> \in Seq(Reviewers)
  OBVIOUS
<1>2. STypes'
  <2>1. engine' \in [pc : {"admit", "open", "wait", "rerun", "persist", "clear", "done", "dead"},
                     pending : Evs, attempt : 0 .. MaxRetries + 1]
    BY <1>0, <1>1, <1>s DEF STypes
  <2>2. /\ viewer' \in [Viewers -> [pc : {"new", "load", "check", "stream", "closed", "left"},
                                    sent : Evs]]
        /\ channel' \in [Viewers -> [queue : Evs, room : Nat]]
    BY <1>0, <1>1, <1>s DEF STypes
  <2>3. reviewer' \in [Reviewers -> ReviewerStates]
    <3>1. ASSUME NEW r \in Reviewers
          PROVE  [reviewer[r] EXCEPT !.pc = "done"] \in ReviewerStates
      <4>1. reviewer[r] \in ReviewerStates
        BY <1>0 DEF STypes
      <4> QED BY <4>1 DEF ReviewerStates
    <3> QED BY <1>0, <1>1, <3>1 DEF STypes
  <2>4. approvals' \in 0 .. engine'.attempt
    BY <1>0, <1>1, <1>e DEF STypes
  <2> QED BY <1>0, <1>1, <1>s, <2>1, <2>2, <2>3, <2>4 DEF STypes
<1>3. EngineInv' /\ StoreInv'
  <2>1. EndsOnce(history \o << >>)
    <3>1. history \in Evs /\ engine.pending \in Evs /\ EndsOnce(history \o engine.pending)
      BY <1>0 DEF STypes, EngineInv
    <3>2. history \o << >> = history
      BY <3>1, ConcatEmptySeq
    <3> QED BY <3>1, <3>2, EndsOnceInFront
  <2>2. EngineInv'
    BY <1>0, <1>1, <1>e, <2>1 DEF EngineInv
  <2>3. StoreInv'
    BY <1>0, <1>1, <1>e DEF StoreInv, Finished
  <2> QED BY <2>2, <2>3
<1>4. AnswerInv'
  <2>1. ASSUME NEW r \in Reviewers
        PROVE  /\ reviewer'[r].pc \in {"new", "done"}
               /\ reviewer[r].pc \in {"sent", "done"} => reviewer'[r].pc = "done"
               /\ reviewer'[r].pc # "new" => reviewer[r].pc # "new"
               /\ reviewer'[r].shown = reviewer[r].shown
               /\ reviewer'[r].attempt = reviewer[r].attempt
               /\ reviewer'[r].decision = reviewer[r].decision
    BY <1>0, <1>1 DEF STypes, ReviewerStates
  <2>2. ASSUME NEW d \in applied
        PROVE  WasSent(d.by, d.attempt)' /\ reviewer'[d.by].decision = reviewer[d.by].decision
    BY <1>0, <2>1 DEF STypes, AnswerInv, WasSent
  <2>3. \A a \in 1 .. Past' : a \in 1 .. Past
    BY <1>0, <1>e DEF STypes, Past
  <2>4. ASSUME NEW a \in Attempts PROVE ChannelInv(a)'
    <3>1. answer'[a] = << >>
      BY <1>1
    <3> QED BY <3>1 DEF ChannelInv
  <2>5. ASSUME NEW a \in 1 .. Past' PROVE Retried(a)'
    <3>1. PICK e \in applied : e.attempt = a /\ reviewer[e.by].decision = "retry"
      BY <1>0, <2>3 DEF AnswerInv, Retried
    <3> QED BY <1>1, <2>2, <3>1 DEF Retried
  <2>6. ASSUME NEW r \in Reviewers
        PROVE  /\ reviewer'[r].pc = "found" => reviewer'[r].attempt \in Attempts
               /\ reviewer'[r].pc # "new" => reviewer'[r].shown # 0
    BY <1>0, <2>1 DEF AnswerInv
  <2> QED BY <1>0, <1>1, <1>e, <2>2, <2>4, <2>5, <2>6 DEF AnswerInv
<1>5. ASSUME NEW v \in Viewers PROVE ViewInv(v)'
  <2>1. /\ viewer'[v].sent = viewer[v].sent /\ viewer'[v].pc \in {"new", "closed", "left"}
        /\ viewer'[v].pc # "left" => viewer'[v].pc = viewer[v].pc
    BY <1>0, <1>1 DEF STypes
  <2> QED BY <1>0, <1>1, <2>1 DEF SInv, ViewInv, Finished, Subscribed
<1> QED BY <1>2, <1>3, <1>4, <1>5 DEF SInv

-----------------------------------------------------------------------------
(* Viewers and reviewers.                                                  *)

(* A step of one viewer: it suffices that its own account stays true.      *)
LEMMA ViewerKeeps ==
  ASSUME SInv, NEW v \in Viewers, NEW pc \in {"load", "check", "stream", "closed", "left"},
         NEW sent \in Seq(EventTypes), NEW ch \in [queue : Seq(EventTypes), room : Nat],
         ViewerStep(v, pc, sent, ch), ViewInv(v)'
  PROVE  SInv'
<1>1. /\ viewer' = [viewer EXCEPT ![v] = [pc |-> pc, sent |-> sent]]
      /\ channel' = [channel EXCEPT ![v] = ch]
      /\ UNCHANGED <<engine, row, manual, history, buffer, dropped, approvals, answer,
                     reviewer, applied, writeLost>>
  BY DEF ViewerStep
<1>2. STypes /\ viewer \in [Viewers -> [pc : {"new", "load", "check", "stream", "closed", "left"},
                                        sent : Seq(EventTypes)]]
  BY DEF SInv, STypes
<1>3. STypes'
  BY <1>1, <1>2 DEF STypes
<1>4. EngineInv' /\ StoreInv' /\ AnswerInv'
  BY <1>1, GateKept DEF SInv, EngineInv, StoreInv, Finished
<1>5. ASSUME NEW w \in Viewers PROVE ViewInv(w)'
  <2>1. CASE w = v
    BY <2>1
  <2>2. CASE w # v
    <3>1. viewer'[w] = viewer[w] /\ channel'[w] = channel[w]
      BY <1>1, <1>2, <2>2 DEF STypes
    <3> QED BY <1>1, <3>1, ViewKept
  <2> QED BY <2>1, <2>2
<1> QED BY <1>3, <1>4, <1>5 DEF SInv

(* A replay appends the whole stored run.                                  *)
LEMMA ReplayStep ==
  ASSUME SInv, NEW v \in Viewers, Finished, Replay(v)
  PROVE  SInv'
<1>1. /\ viewer[v].sent \in Seq(EventTypes) /\ history \in Seq(EventTypes)
      /\ row.events = history
      /\ viewer \in [Viewers -> [pc : {"new", "load", "check", "stream", "closed", "left"},
                                 sent : Seq(EventTypes)]]
  BY DEF SInv, STypes, StoreInv
<1> DEFINE s == viewer[v].sent \o history
<1>2. s \in Seq(EventTypes) /\ IsSuffix(history, s)
  BY <1>1, ConcatProperties, SuffixOfConcat
<1>3. NoChannel \in [queue : Seq(EventTypes), room : Nat]
  BY DEF NoChannel
<1>4. ViewerStep(v, "closed", s, NoChannel)
  BY <1>1 DEF Replay
<1> HIDE DEF s
<1>5. ViewInv(v)'
  <2>1. viewer'[v] = [pc |-> "closed", sent |-> s] /\ row' = row /\ history' = history
    BY <1>1, <1>4 DEF ViewerStep
  <2> QED BY <1>1, <1>2, <2>1 DEF ViewInv, Subscribed, Finished
<1> QED BY <1>2, <1>3, <1>4, <1>5, ViewerKeeps

(* Every step of a viewer.                                                 *)
LEMMA ViewerStepInv ==
  ASSUME SInv, NEW v \in Viewers, ViewerSteps(v) \/ Tick(v) \/ Leave(v)
  PROVE  SInv'
<1>0. /\ STypes /\ StoreInv /\ ViewInv(v)
      /\ viewer \in [Viewers -> [pc : {"new", "load", "check", "stream", "closed", "left"},
                                 sent : Seq(EventTypes)]]
      /\ channel \in [Viewers -> [queue : Seq(EventTypes), room : Nat]]
      /\ buffer \in Seq(EventTypes) /\ history \in Seq(EventTypes)
      /\ HubCapacity \in Nat /\ << >> \in Seq(EventTypes)
      /\ NoChannel \in [queue : Seq(EventTypes), room : Nat]
  <2>1. << >> \in Seq(EventTypes) /\ HubCapacity \in Nat
    BY SessionBounds
  <2>2. NoChannel \in [queue : Seq(EventTypes), room : Nat]
    BY <2>1 DEF NoChannel
  <2>3. /\ viewer \in [Viewers -> [pc : {"new", "load", "check", "stream", "closed", "left"},
                                   sent : Seq(EventTypes)]]
        /\ channel \in [Viewers -> [queue : Seq(EventTypes), room : Nat]]
        /\ buffer \in Seq(EventTypes) /\ history \in Seq(EventTypes)
    BY DEF SInv, STypes
  <2> QED BY <2>1, <2>2, <2>3 DEF SInv
<1>1. ASSUME NEW pc, NEW sent, NEW ch, ViewerStep(v, pc, sent, ch)
      PROVE  /\ viewer'[v] = [pc |-> pc, sent |-> sent] /\ channel'[v] = ch
             /\ UNCHANGED <<engine, row, history, dropped>>
  BY <1>0, <1>1 DEF ViewerStep
<1>2. CASE OpenStream(v)
  <2>1. CASE Finished
    BY <1>2, <2>1, ReplayStep DEF OpenStream
  <2>2. CASE ~Finished
    <3>1. ViewerStep(v, "load", << >>, NoChannel)
      BY <1>2, <2>2 DEF OpenStream
    <3>2. viewer'[v] = [pc |-> "load", sent |-> << >>]
      BY <3>1, <1>1
    <3>3. ViewInv(v)'
      BY <3>2 DEF ViewInv, Subscribed
    <3> QED BY <1>0, <3>1, <3>3, ViewerKeeps
  <2> QED BY <2>1, <2>2
<1>3. CASE Subscribe(v)
  <2> DEFINE ch == [queue |-> buffer, room |-> HubCapacity]
  <2>1. ViewerStep(v, "check", << >>, ch) /\ ch \in [queue : Seq(EventTypes), room : Nat]
    BY <1>0, <1>3 DEF Subscribe
  <2>2. /\ viewer'[v] = [pc |-> "check", sent |-> << >>] /\ channel'[v] = ch
        /\ UNCHANGED <<engine, row, history, dropped>>
    BY <2>1, <1>1
  <2>3. << >> \o buffer = buffer
    BY <1>0, ConcatEmptySeq
  <2>4. ViewInv(v)'
    BY <1>0, <2>2, <2>3 DEF ViewInv, StoreInv
  <2> HIDE DEF ch
  <2> QED BY <1>0, <2>1, <2>4, ViewerKeeps
<1>4. CASE Recheck(v)
  <2>1. CASE channel[v].queue = << >> /\ Finished
    BY <1>4, <2>1, ReplayStep DEF Recheck
  <2>2. CASE ~(channel[v].queue = << >> /\ Finished)
    <3>1. ViewerStep(v, "stream", << >>, channel[v]) /\ viewer[v].pc = "check"
      BY <1>4, <2>2 DEF Recheck
    <3>2. /\ viewer'[v] = [pc |-> "stream", sent |-> << >>] /\ channel'[v] = channel[v]
          /\ UNCHANGED <<engine, row, history, dropped>>
      BY <3>1, <1>1
    <3>3. ViewInv(v)'
      <4>1. viewer[v].sent = << >> /\ Subscribed(v)
        BY <1>0, <3>1 DEF ViewInv, Subscribed
      <4> QED BY <1>0, <3>2, <4>1 DEF ViewInv
    <3> QED BY <1>0, <3>1, <3>3, ViewerKeeps
  <2> QED BY <2>1, <2>2
<1>5. CASE Receive(v)
  <2> DEFINE q == channel[v].queue
             s == viewer[v].sent
             ev == Head(q)
  <2>1. /\ q \in Seq(EventTypes) /\ s \in Seq(EventTypes) /\ q # << >>
        /\ viewer[v].pc = "stream" /\ channel[v].room \in Nat
    BY <1>0, <1>5 DEF Receive
  <2>2. /\ ev \in EventTypes /\ Tail(q) \in Seq(EventTypes) /\ Append(s, ev) \in Seq(EventTypes)
        /\ Append(s, ev) \o Tail(q) = s \o q
    BY <2>1, MoveHead
  <2>3. v \notin dropped => s \o q = history
    BY <1>0, <2>1 DEF ViewInv, Subscribed
  <2>4. CASE ev \in Terminal
    <3>1. ViewerStep(v, "closed", Append(s, ev), NoChannel)
      BY <1>5, <2>4 DEF Receive
    <3>2. /\ viewer'[v] = [pc |-> "closed", sent |-> Append(s, ev)]
          /\ UNCHANGED <<engine, row, history, dropped>>
      BY <3>1, <1>1
    <3>3. v \notin dropped => SeenEnd(history, Append(s, ev))
      <4>1. SeenEnd(Append(s, ev) \o Tail(q), Append(s, ev))
        <5> HIDE DEF q, s, ev
        <5> QED BY <2>1, <2>2, <2>4, SeenEndNow
      <4> QED BY <2>2, <2>3, <4>1
    <3>4. ViewInv(v)'
      <4> DEFINE u == Append(s, ev)
      <4>1. viewer'[v].pc = "closed" /\ viewer'[v].sent = u /\ dropped' = dropped
            /\ history' = history
        BY <3>2
      <4>2. v \notin dropped => SeenEnd(history, u)
        BY <3>3
      <4> HIDE DEF u
      <4> QED BY <4>1, <4>2 DEF ViewInv, Subscribed
    <3> QED BY <1>0, <2>2, <3>1, <3>4, ViewerKeeps
  <2>5. CASE ev \notin Terminal
    <3> DEFINE ch == [queue |-> Tail(q), room |-> channel[v].room + 1]
    <3>1. ViewerStep(v, "stream", Append(s, ev), ch) /\ ch \in [queue : Seq(EventTypes), room : Nat]
      BY <1>5, <2>1, <2>2, <2>5 DEF Receive
    <3>2. /\ viewer'[v] = [pc |-> "stream", sent |-> Append(s, ev)] /\ channel'[v] = ch
          /\ UNCHANGED <<engine, row, history, dropped>>
      BY <3>1, <1>1
    <3>3. ViewInv(v)'
      <4> DEFINE u == Append(s, ev)
                 w == Tail(q)
      <4>1. /\ viewer'[v].pc = "stream" /\ viewer'[v].sent = u /\ channel'[v].queue = w
            /\ dropped' = dropped /\ history' = history
        BY <3>2
      <4>2. v \notin dropped => u \o w = history
        BY <2>2, <2>3
      <4> HIDE DEF u, w
      <4> QED BY <4>1, <4>2 DEF ViewInv
    <3> HIDE DEF ch
    <3> QED BY <1>0, <2>2, <3>1, <3>3, ViewerKeeps
  <2> QED BY <2>4, <2>5
<1>6. CASE Tick(v)
  BY <1>6, ReplayStep DEF Tick
<1>7. CASE Leave(v)
  <2>1. ViewerStep(v, "left", viewer[v].sent, NoChannel) /\ viewer[v].sent \in Seq(EventTypes)
    BY <1>0, <1>7 DEF Leave
  <2>2. viewer'[v] = [pc |-> "left", sent |-> viewer[v].sent]
    BY <2>1, <1>1
  <2>3. ViewInv(v)'
    BY <2>2 DEF ViewInv, Subscribed
  <2> QED BY <1>0, <2>1, <2>3, ViewerKeeps
<1> QED BY <1>2, <1>3, <1>4, <1>5, <1>6, <1>7 DEF ViewerSteps

(* A reviewer who has not sent yet is in no channel and was not acted on;  *)
(* one who has keeps what was sent.                                        *)
LEMMA ReviewerStepInv ==
  ASSUME SInv, NEW r \in Reviewers, ReviewerSteps(r)
  PROVE  SInv'
<1>0. /\ STypes /\ AnswerInv /\ reviewer[r] \in ReviewerStates
      /\ approvals \in 0 .. engine.attempt /\ engine.attempt \in 0 .. MaxRetries + 1
      /\ MaxRetries \in Nat
  BY SessionBounds DEF SInv, STypes
<1>a. ASSUME NEW rec \in ReviewerStates, ReviewerStep(r, rec),
             rec.pc # "new" /\ rec.shown # 0,
             rec.pc = "found" => rec.attempt \in Attempts,
             reviewer[r].pc \in {"sent", "done"} =>
               /\ rec.pc \in {"sent", "done"} /\ rec.attempt = reviewer[r].attempt
               /\ rec.decision = reviewer[r].decision,
             approvals' \in {0, approvals},
             \/ answer' = answer
             \/ /\ answer' = [answer EXCEPT ![rec.attempt] = <<r>>] /\ rec.attempt \in Attempts
                /\ reviewer[r].pc = "found" /\ rec.pc = "sent"
      PROVE  SInv'
  <2>1. /\ reviewer' = [reviewer EXCEPT ![r] = rec]
        /\ UNCHANGED <<engine, row, manual, history, buffer, channel, viewer, dropped,
                       applied, writeLost>>
    BY <1>a DEF ReviewerStep
  <2>r. reviewer'[r] = rec /\ \A q \in Reviewers \ {r} : reviewer'[q] = reviewer[q]
    BY <1>0, <2>1 DEF STypes
  <2>2. STypes'
    <3>1. reviewer' \in [Reviewers -> ReviewerStates]
      BY <1>0, <1>a, <2>1 DEF STypes
    <3>2. approvals' \in 0 .. engine'.attempt
      BY <1>0, <1>a, <2>1
    <3>3. <<r>> \in Seq(Reviewers)
      OBVIOUS
    <3>4. answer' \in [Attempts -> Seq(Reviewers)]
      BY <1>0, <1>a, <3>3 DEF STypes
    <3> QED BY <1>0, <1>a, <2>1, <3>1, <3>2, <3>4 DEF STypes
  <2>3. AnswerInv'
    <3>1. ASSUME NEW q \in Reviewers, NEW b \in Attempts, WasSent(q, b)
          PROVE  WasSent(q, b)' /\ reviewer'[q].decision = reviewer[q].decision
      BY <1>a, <2>r, <3>1 DEF WasSent
    <3>2. ASSUME NEW d \in applied
          PROVE  /\ d.by \in Reviewers /\ WasSent(d.by, d.attempt)'
                 /\ reviewer'[d.by].decision = reviewer[d.by].decision
                 /\ d.attempt <= engine.attempt
                 /\ engine.pc = "wait" => d.attempt < engine.attempt
      <4>1. /\ d.by \in Reviewers /\ d.attempt \in Attempts /\ WasSent(d.by, d.attempt)
            /\ d.attempt <= engine.attempt
            /\ engine.pc = "wait" => d.attempt < engine.attempt
        BY <1>0 DEF STypes, AnswerInv
      <4> QED BY <3>1, <4>1
    <3>3. ASSUME NEW b \in Attempts PROVE ChannelInv(b)'
      <4>1. CASE answer'[b] = answer[b]
        <5>1. ASSUME NEW k \in DOMAIN answer[b] PROVE answer[b][k] \in Reviewers
          <6>1. answer[b] \in Seq(Reviewers) /\ k \in 1 .. Len(answer[b])
            BY <1>0, LenProperties DEF STypes
          <6> QED BY <6>1, ElementOfSeq
        <5> QED BY <1>0, <2>1, <3>1, <4>1, <5>1 DEF AnswerInv, ChannelInv
      <4>2. CASE answer'[b] # answer[b]
        <5>1. /\ answer'[b] = <<r>> /\ rec.attempt = b /\ rec.pc = "sent"
              /\ reviewer[r].pc = "found"
          BY <1>0, <1>a, <4>2 DEF STypes
        <5>2. /\ Len(answer'[b]) = 1 /\ \A k \in DOMAIN answer'[b] : answer'[b][k] = r
          BY <5>1
        <5>3. WasSent(r, b)'
          BY <2>r, <5>1 DEF WasSent
        <5>4. \A d \in applied : d.by # r
          BY <1>0, <5>1 DEF AnswerInv, WasSent
        <5> QED BY <2>1, <5>2, <5>3, <5>4 DEF ChannelInv
      <4> QED BY <4>1, <4>2
    <3>4. ASSUME NEW q \in Reviewers
          PROVE  /\ reviewer'[q].pc = "found" => reviewer'[q].attempt \in Attempts
                 /\ reviewer'[q].pc # "new" => reviewer'[q].shown # 0
      BY <1>0, <1>a, <2>r DEF AnswerInv
    <3>5. ASSUME NEW b \in 1 .. Past' PROVE Retried(b)'
      <4>1. b \in 1 .. Past
        BY <2>1 DEF Past
      <4>2. PICK e \in applied : e.attempt = b /\ reviewer[e.by].decision = "retry"
        BY <1>0, <4>1 DEF AnswerInv, Retried
      <4> QED BY <2>1, <3>2, <4>2 DEF Retried
    <3> QED BY <1>0, <2>1, <3>2, <3>3, <3>4, <3>5 DEF AnswerInv
  <2>4. EngineInv' /\ StoreInv'
    BY <2>1 DEF SInv, EngineInv, StoreInv, Finished
  <2>5. ASSUME NEW v \in Viewers PROVE ViewInv(v)'
    BY <2>1, ViewKept
  <2> QED BY <2>2, <2>3, <2>4, <2>5 DEF SInv
<1>1. CASE Decide(r)
  <2>1. PICK d \in Decisions :
          ReviewerStep(r, [pc |-> "decided", shown |-> engine.attempt, attempt |-> 0,
                           decision |-> d])
    BY <1>1 DEF Decide
  <2> DEFINE rec == [pc |-> "decided", shown |-> engine.attempt, attempt |-> 0, decision |-> d]
  <2>2. /\ reviewer[r].pc = "new" /\ engine.pc = "wait" /\ UNCHANGED <<approvals, answer>>
    BY <1>1 DEF Decide, AtGate
  <2>3. engine.attempt # 0
    BY <1>0, <2>2 DEF SInv, EngineInv, Attempts
  <2>4. /\ rec \in ReviewerStates /\ rec.pc = "decided" /\ rec.shown # 0
    BY <1>0, <2>3 DEF ReviewerStates
  <2> HIDE DEF rec
  <2>5. ReviewerStep(r, rec)
    BY <2>1 DEF rec
  <2> QED BY <1>0, <1>a, <2>2, <2>4, <2>5
<1>2. CASE Lookup(r)
  <2> DEFINE rec == IF approvals = 0 THEN [reviewer[r] EXCEPT !.pc = "done"]
                    ELSE [reviewer[r] EXCEPT !.pc = "found", !.attempt = approvals]
  <2>1. /\ reviewer[r].pc = "decided" /\ ReviewerStep(r, rec) /\ UNCHANGED <<approvals, answer>>
        /\ reviewer[r].shown # 0
    BY <1>0, <1>2 DEF Lookup, AnswerInv
  <2>2. /\ rec \in ReviewerStates /\ rec.pc \in {"found", "done"} /\ rec.shown # 0
        /\ rec.pc = "found" => rec.attempt \in Attempts
    <3>1. CASE approvals = 0
      BY <1>0, <2>1, <3>1 DEF ReviewerStates
    <3>2. CASE approvals # 0
      <4>1. approvals \in Attempts /\ approvals \in 0 .. MaxRetries + 1
        BY <1>0, <3>2 DEF Attempts
      <4> QED BY <1>0, <2>1, <3>2, <4>1 DEF ReviewerStates
    <3> QED BY <3>1, <3>2
  <2> HIDE DEF rec
  <2> QED BY <1>a, <2>1, <2>2
<1>3. CASE Send(r)
  <2> DEFINE rec == [reviewer[r] EXCEPT !.pc = "sent"]
  <2>1. /\ reviewer[r].pc = "found" /\ ReviewerStep(r, rec) /\ UNCHANGED approvals
        /\ answer' = [answer EXCEPT ![reviewer[r].attempt] = <<r>>]
        /\ reviewer[r].shown # 0 /\ reviewer[r].attempt \in Attempts
    BY <1>0, <1>3 DEF Send, AnswerInv
  <2>2. /\ rec \in ReviewerStates /\ rec.pc = "sent" /\ rec.shown # 0
        /\ rec.attempt = reviewer[r].attempt
    BY <1>0, <2>1 DEF ReviewerStates
  <2> HIDE DEF rec
  <2> QED BY <1>a, <2>1, <2>2
<1>4. CASE Unregister(r)
  <2> DEFINE rec == [reviewer[r] EXCEPT !.pc = "done"]
  <2>1. /\ reviewer[r].pc = "sent" /\ ReviewerStep(r, rec) /\ approvals' = 0 /\ UNCHANGED answer
        /\ reviewer[r].shown # 0
    BY <1>0, <1>4 DEF Unregister, AnswerInv
  <2>2. /\ rec \in ReviewerStates /\ rec.pc = "done" /\ rec.shown # 0
        /\ rec.attempt = reviewer[r].attempt /\ rec.decision = reviewer[r].decision
    BY <1>0, <2>1 DEF ReviewerStates
  <2> HIDE DEF rec
  <2> QED BY <1>a, <2>1, <2>2
<1> QED BY <1>1, <1>2, <1>3, <1>4 DEF ReviewerSteps

-----------------------------------------------------------------------------
(* The session's theorems.                                                 *)

(* A run that nobody watches yet satisfies the invariant.                  *)
LEMMA SessionInit == InitSession => SInv
<1> SUFFICES ASSUME InitSession PROVE SInv
  OBVIOUS
<1>1. << >> \in Seq(EventTypes) /\ << >> \in Seq(Reviewers)
  OBVIOUS
<1>2. STypes
  <2>1. << >> \in Seq(Reviewers) /\ << >> \in Seq(EventTypes)
    OBVIOUS
  <2>2. answer \in [Attempts -> Seq(Reviewers)]
    BY <2>1 DEF InitSession
  <2>3. /\ channel \in [Viewers -> [queue : Seq(EventTypes), room : Nat]]
        /\ viewer \in [Viewers -> [pc : {"new", "load", "check", "stream", "closed", "left"},
                                   sent : Seq(EventTypes)]]
    BY <2>1 DEF InitSession, NoChannel
  <2>4. engine \in [pc : {"admit", "open", "wait", "rerun", "persist", "clear", "done", "dead"},
                    pending : Seq(EventTypes), attempt : 0 .. MaxRetries + 1]
    BY <2>1, SessionBounds DEF InitSession
  <2>5. reviewer \in [Reviewers -> ReviewerStates]
    BY SessionBounds DEF InitSession, ReviewerStates
  <2>6. approvals \in 0 .. engine.attempt
    BY DEF InitSession
  <2> QED BY <2>1, <2>2, <2>3, <2>4, <2>5, <2>6 DEF InitSession, STypes
<1>3. EngineInv
  <2>1. << >> \o << >> = << >>
    OBVIOUS
  <2> QED BY <2>1 DEF InitSession, EngineInv, Unended, EndsOnce
<1>4. StoreInv /\ \A v \in Viewers : ViewInv(v)
  BY DEF InitSession, StoreInv, Finished, ViewInv, Subscribed
<1>5. AnswerInv
  <2>1. Past = -1
    BY DEF InitSession, Past
  <2> QED BY <2>1 DEF InitSession, AnswerInv, ChannelInv
<1> QED BY <1>2, <1>3, <1>4, <1>5 DEF SInv

(* Every step of the run, its viewers and its reviewers keeps it.          *)
LEMMA SessionStep == SInv /\ [NextSession]_sessionVars => SInv'
<1> SUFFICES ASSUME SInv, [NextSession]_sessionVars PROVE SInv'
  OBVIOUS
<1>1. CASE EngineSteps \/ ApprovalTimeout
  <2>1. CASE EmitNext
    BY <2>1, EmitStep
  <2> QED BY <1>1, <2>1, EngineStep DEF EngineSteps
<1>2. CASE Crash
  BY <1>2, CrashStep
<1>3. ASSUME NEW v \in Viewers, ViewerSteps(v) \/ Tick(v) \/ Leave(v) PROVE SInv'
  BY <1>3, ViewerStepInv
<1>4. ASSUME NEW r \in Reviewers, ReviewerSteps(r) PROVE SInv'
  BY <1>4, ReviewerStepInv
<1>5. CASE UNCHANGED sessionVars
  <2>1. STypes' /\ EngineInv'
    BY <1>5 DEF sessionVars, SInv, STypes, EngineInv
  <2>2. StoreInv' /\ AnswerInv'
    BY <1>5, GateKept DEF sessionVars, SInv, StoreInv, Finished
  <2>3. ASSUME NEW v \in Viewers PROVE ViewInv(v)'
    BY <1>5, ViewKept DEF sessionVars
  <2> QED BY <2>1, <2>2, <2>3 DEF SInv
<1> QED BY <1>1, <1>2, <1>3, <1>4, <1>5 DEF NextSession

(* The inductive invariant of a run and the people around it.              *)
THEOREM SessionInvariant == SpecSession => []SInv
  BY SessionInit, SessionStep, PTL DEF SpecSession

(* The engine, the row, the viewers, the reviewers and the channels of the *)
(* gate are always in a state of the program.                              *)
THEOREM SessionTypeCorrect == SpecSession => []SessionTypeOK
<1>1. SInv => SessionTypeOK
  BY DEF SInv, STypes, ReviewerStates, AnswerInv, ChannelInv, SessionTypeOK
<1> QED BY <1>1, SessionInvariant, PTL

(* A gate acts on one decision per attempt and on each decision once, at   *)
(* the attempt its request found; that is the attempt its reviewer read,    *)
(* unless the retries of other decisions came in between (ResolveApproval  *)
(* and the wait of the gate; a request names no attempt).                  *)
THEOREM DecisionsActAsShown == SpecSession => []ActsOnWhatWasShown
<1>1. SInv => ActsOnWhatWasShown
  <2> SUFFICES ASSUME SInv, NEW d \in applied
               PROVE  /\ d.attempt = reviewer[d.by].attempt
                      /\ \A e \in applied : e.attempt = d.attempt \/ e.by = d.by => e = d
                      /\ \A a \in reviewer[d.by].shown .. d.attempt - 1 :
                            \E e \in applied :
                               e.attempt = a /\ reviewer[e.by].decision = "retry"
    BY DEF ActsOnWhatWasShown
  <2>1. STypes /\ AnswerInv
    BY DEF SInv
  <2>2. \A e \in applied : WasSent(e.by, e.attempt) /\ (e.attempt = d.attempt => e = d)
    BY <2>1 DEF AnswerInv
  <2>3. /\ d.by \in Reviewers /\ d.attempt \in Nat /\ engine.attempt \in Nat
        /\ reviewer[d.by].shown \in Nat
    BY <2>1 DEF STypes, ReviewerStates, Attempts
  <2>4. reviewer[d.by].shown # 0 /\ d.attempt <= engine.attempt
    BY <2>1, <2>2, <2>3 DEF AnswerInv, WasSent
  <2>5. ASSUME NEW a \in reviewer[d.by].shown .. d.attempt - 1 PROVE Retried(a)
    <3>1. a \in 1 .. Past
      BY <2>3, <2>4 DEF Past
    <3> QED BY <2>1, <3>1 DEF AnswerInv
  <2> QED BY <2>2, <2>5 DEF WasSent, Retried
<1> QED BY <1>1, SessionInvariant, PTL

(* A stream the server ends has carried every event of the run up to its   *)
(* terminal one, or the whole stored run, unless its channel overflowed,   *)
(* for every number of viewers and every capacity of the hub's channels.   *)
THEOREM StreamIsComplete == SpecSession => []ClosedViewIsComplete
<1>1. SInv => ClosedViewIsComplete
  <2> SUFFICES ASSUME SInv, NEW v \in Viewers, viewer[v].pc = "closed", v \notin dropped
               PROVE  \/ IsPrefix(UpToTerminal(history), viewer[v].sent)
                      \/ /\ Finished /\ row.events = history
                         /\ IsSuffix(history, viewer[v].sent)
    BY DEF ClosedViewIsComplete
  <2>1. /\ viewer[v].sent \in Seq(EventTypes) /\ history \in Seq(EventTypes)
        /\ engine.pending \in Seq(EventTypes) /\ EndsOnce(history \o engine.pending)
        /\ SeenEnd(history, viewer[v].sent) \/ (Finished /\ IsSuffix(history, viewer[v].sent))
        /\ Finished => row.events = history
    BY DEF SInv, STypes, EngineInv, StoreInv, ViewInv
  <2>2. EndsOnce(history)
    BY <2>1, EndsOnceInFront
  <2>3. CASE SeenEnd(history, viewer[v].sent)
    BY <2>1, <2>2, <2>3, SeenEndIsPrefix
  <2> QED BY <2>1, <2>3
<1> QED BY <1>1, SessionInvariant, PTL
=============================================================================
