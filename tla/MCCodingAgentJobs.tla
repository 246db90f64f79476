------------------------- MODULE MCCodingAgentJobs -------------------------
(***************************************************************************)
(* Small instances of CodingAgentJobs for TLC.                             *)
(***************************************************************************)
EXTENDS CodingAgentJobs, TLC

CONSTANTS j1, j2, w1, w2, e1, u1

(* Two jobs of one owner in one reusable workspace. *)
SharedEnvOf == [j \in Jobs |-> e1]

OneOwner == [j \in Jobs |-> u1]

(* How often each job may be claimed. *)
OneEach == [j \in Jobs |-> 1]
TwoEach == [j \in Jobs |-> 2]

SymmetricWorkers == Permutations(Workers)
=============================================================================
