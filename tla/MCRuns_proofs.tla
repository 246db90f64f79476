---------------------------- MODULE MCRuns_proofs ----------------------------
(***************************************************************************)
(* What is proved of the engine and of the run's surroundings holds of the  *)
(* pair that the runs check, on the graphs those runs take: the pair's       *)
(* steps are the steps of one of the two.                                  *)
(***************************************************************************)
EXTENDS MCRuns, WorkflowGraph_proofs, RunSession_proofs

(* The pair is the two, each of which moves alone; what a run's             *)
(* surroundings owe in the end they owe only when theirs is the turn.       *)
THEOREM PairRunsBoth == Spec => SpecGraph /\ InitSession /\ [][NextSession]_sessionVars
<1>1. Init => InitGraph /\ InitSession
  BY DEF Init
<1>2. [Next]_allVars => [NextGraph]_graphVars /\ [NextSession]_sessionVars
  <2> SUFFICES ASSUME [Next]_allVars
               PROVE  [NextGraph]_graphVars /\ [NextSession]_sessionVars
    OBVIOUS
  <2>1. CASE GraphPart /\ NextGraph
    BY <2>1 DEF GraphPart
  <2>2. CASE SessionPart /\ NextSession
    BY <2>2 DEF SessionPart
  <2>3. CASE UNCHANGED allVars
    BY <2>3 DEF allVars
  <2> QED BY <2>1, <2>2, <2>3 DEF Next
<1> QED BY <1>1, <1>2, PTL DEF Spec, SpecGraph

(* The state of the engine and of the run's surroundings is well formed in *)
(* every run the two make together.                                        *)
THEOREM RunsTypeCorrect == Spec => []RunsTypeOK
<1>1. GraphTypeOK /\ SessionTypeOK <=> RunsTypeOK
  BY DEF RunsTypeOK
<1>2. InitSession /\ [][NextSession]_sessionVars => []SInv
  BY SessionInit, SessionStep, PTL
<1>3. SInv => SessionTypeOK
  BY DEF SInv, STypes, ReviewerStates, AnswerInv, ChannelInv, SessionTypeOK
<1> QED BY <1>1, <1>2, <1>3, PairRunsBoth, GraphTypeCorrect, PTL
=============================================================================
