------------------------ MODULE CreditLedger_proofs ------------------------
(***************************************************************************)
(* Proofs about CreditLedger, for any number of charges, reservations,     *)
(* releases, grants and sweepers, any amounts, any opening balance and any *)
(* number of lost processes.                                               *)
(*                                                                         *)
(* The argument is that of lockBalance: from its SELECT ... FOR UPDATE to  *)
(* its end, what a transaction read of the balance row is what the row     *)
(* says (SeenInv).  The other parts of the inductive invariant say what a  *)
(* transaction's position tells about the rows it is going to write.       *)
(***************************************************************************)
EXTENDS CreditLedger, InductionLemmas, TLAPS

(* What a call's position says: a charge and a hold are written once, and  *)
(* a grant that goes on has a shortfall to add.                            *)
PosInv ==
  /\ \A c \in Charges : pc[c] \in {"idle", "locked"} => delta[c] = 0
  /\ \A h \in Holds : pc[h] \in {"idle", "locked"} => holdStatus[h] = "none"
  /\ \A g \in Grants : pc[g] \in {"summed", "locked"} => granted[g] < Amount[g]

(* What the lock's owner read is still what the row says.                  *)
SeenInv ==
  \A a \in Actors : pc[a] = "locked" =>
    seen[a] = [balance |-> balance, reserved |-> reserved]

(* A Release that found its hold keeps it active to the end.               *)
ReleaseInv ==
  \A r \in Releases : pc[r] \in {"holding", "locked"} =>
    /\ holdStatus[HoldOf[r]] = "active"
    /\ holdLock[HoldOf[r]] = r

(* The inductive invariant.                                                *)
LInv == TypeOK /\ PosInv /\ SeenInv /\ ReleaseInv /\ TargetGrantedOnce

-----------------------------------------------------------------------------

(* The hold a transaction selects, by the kind of the transaction.         *)
LEMMA Kinds ==
  ASSUME NEW a \in Actors
  PROVE  /\ a \in Charges => HoldRow(a) = HoldOf[a]
         /\ a \in Releases => HoldRow(a) = HoldOf[a] /\ HoldOf[a] \in Holds
         /\ a \in Sweepers => HoldRow(a) = current[a]
BY LedgerAssumption DEF HoldRow, Actors, Calls

(* Ending a transaction frees its locks and touches nobody else's.         *)
LEMMA EndKeeps ==
  ASSUME TypeOK, NEW a \in Actors, NEW result \in Stages \ {"locked"}, End(a, result)
  PROVE  /\ pc' \in [Actors -> Stages] /\ pc'[a] = result
         /\ \A b \in Actors \ {a} : pc'[b] = pc[b] /\ seen'[b] = seen[b]
         /\ seen' \in [Actors -> [balance : Int, reserved : Int]]
         /\ balanceLock' \in Actors \cup {None}
         /\ holdLock' \in [Holds -> Releases \cup {None}]
         /\ \A h \in Holds : holdLock[h] # a => holdLock'[h] = holdLock[h]
         /\ \A b \in Actors : pc'[b] = "locked" <=> balanceLock' = b
BY LedgerAssumption DEF TypeOK, End, Unread

(* Any transaction may end, with writes or without: the invariant is kept  *)
(* when the row is written only under its lock, a charge's or a grant's    *)
(* row only by itself, and a hold only by its own Reserve or while nobody  *)
(* else locks it.                                                          *)
LEMMA EndStep ==
  ASSUME LInv, NEW a \in Actors, NEW result \in Ended \cup {"idle"}, End(a, result),
         result = "idle" => a \in Sweepers,
         pc[a] = "locked" \/ UNCHANGED <<balance, reserved>>,
         balance' \in Int, reserved' \in Int, delta' \in [Rows -> Int],
         holdStatus' \in [Holds -> {"none", "active", "settled", "expired"}],
         spent' \in [Holds -> Nat],
         \A c \in Charges \ {a} : delta'[c] = delta[c],
         \A h \in Holds \ {a} : \/ holdStatus'[h] = holdStatus[h]
                                \/ holdStatus[h] = "active" /\ holdLock[h] \in {None, a},
         a \in Holds => holdStatus[a] = "none" \/ holdStatus'[a] = holdStatus[a],
         TargetGrantedOnce', UNCHANGED <<overdue, granted, current>>,
         todo' \in [Sweepers -> SUBSET Holds], faults' \in 0..MaxFaults
  PROVE  LInv'
<1> USE LedgerAssumption
<1>a. TypeOK /\ PosInv /\ SeenInv /\ ReleaseInv /\ result \in Stages \ {"locked"}
  BY DEF LInv, Stages, Ended
<1>b. /\ pc' \in [Actors -> Stages] /\ pc'[a] = result
      /\ \A b \in Actors \ {a} : pc'[b] = pc[b] /\ seen'[b] = seen[b]
      /\ seen' \in [Actors -> [balance : Int, reserved : Int]]
      /\ balanceLock' \in Actors \cup {None}
      /\ holdLock' \in [Holds -> Releases \cup {None}]
      /\ \A h \in Holds : holdLock[h] # a => holdLock'[h] = holdLock[h]
      /\ \A b \in Actors : pc'[b] = "locked" <=> balanceLock' = b
  BY <1>a, EndKeeps
<1>c. result \notin {"locked", "summed", "holding", "picked"}
  BY DEF Ended
<1>1. TypeOK'
  BY <1>a, <1>b DEF TypeOK
<1>2. PosInv'
  <2>1. ASSUME NEW c \in Charges, pc'[c] \in {"idle", "locked"}
        PROVE  delta'[c] = 0
    BY <1>a, <1>b, <1>c, <2>1 DEF PosInv, Actors, Calls, Ended
  <2>2. ASSUME NEW h \in Holds, pc'[h] \in {"idle", "locked"}
        PROVE  holdStatus'[h] = "none"
    BY <1>a, <1>b, <1>c, <2>2 DEF PosInv, Actors, Calls, Ended
  <2>3. ASSUME NEW g \in Grants, pc'[g] \in {"summed", "locked"}
        PROVE  granted'[g] < Amount[g]
    BY <1>a, <1>b, <1>c, <2>3 DEF PosInv, Actors, Calls
  <2> QED BY <2>1, <2>2, <2>3 DEF PosInv
<1>3. SeenInv'
  <2> SUFFICES ASSUME NEW b \in Actors, pc'[b] = "locked"
               PROVE  seen'[b] = [balance |-> balance', reserved |-> reserved']
    BY DEF SeenInv
  <2>1. b # a /\ pc[b] = "locked" /\ seen'[b] = seen[b]
    BY <1>b, <1>c
  <2>2. pc[a] # "locked"
    BY <2>1, <1>a DEF TypeOK
  <2> QED BY <2>1, <2>2, <1>a DEF SeenInv
<1>4. ReleaseInv'
  <2> SUFFICES ASSUME NEW r \in Releases, pc'[r] \in {"holding", "locked"}
               PROVE  holdStatus'[HoldOf[r]] = "active" /\ holdLock'[HoldOf[r]] = r
    BY DEF ReleaseInv
  <2>1. r \in Actors /\ r # a /\ pc'[r] = pc[r] /\ HoldOf[r] \in Holds
    BY <1>b, <1>c DEF Actors, Calls
  <2>2. holdStatus[HoldOf[r]] = "active" /\ holdLock[HoldOf[r]] = r
    BY <2>1, <1>a DEF ReleaseInv
  <2>3. holdLock[HoldOf[r]] \notin {None, a}
    BY <2>1, <2>2
  <2> QED BY <2>1, <2>2, <2>3, <1>b
<1> QED BY <1>1, <1>2, <1>3, <1>4 DEF LInv

-----------------------------------------------------------------------------
(* One lemma for each action, or for those with the same effect.           *)

(* Taking the balance's lock.                                              *)
LEMMA LockStep ==
  ASSUME LInv, NEW a \in Actors, LockBalance(a)
  PROVE  LInv'
<1> USE LedgerAssumption DEF LInv, LockBalance, rowVars, idleVars
<1>1. TypeOK'
  BY DEF TypeOK, BalanceFree, Stages
<1>2. PosInv'
  BY DEF TypeOK, PosInv, Callable, Actors, Calls
<1>3. SeenInv'
  BY DEF TypeOK, SeenInv, BalanceFree
<1>4. ReleaseInv'
  BY DEF TypeOK, ReleaseInv, Callable, Actors, Calls
<1>5. TargetGrantedOnce'
  BY DEF TargetGrantedOnce
<1> QED BY <1>1, <1>2, <1>3, <1>4, <1>5

(* A charge commits.                                                       *)
LEMMA ChargeStep ==
  ASSUME LInv, NEW c \in Charges, RecordCommit(c)
  PROVE  LInv'
<1> USE LedgerAssumption
<1>a. TypeOK /\ TargetGrantedOnce BY DEF LInv
<1>0. /\ c \in Actors /\ c \in Rows /\ c \notin Holds \cup Grants
      /\ End(c, "done") /\ pc[c] = "locked"
      /\ UNCHANGED <<holdStatus, overdue, granted, todo, current, faults>>
  BY DEF RecordCommit, Actors, Calls, Rows, idleVars
<1>1. seen[c] \in [balance : Int, reserved : Int] /\ Amount[c] \in Nat
  BY <1>a, <1>0 DEF TypeOK
<1>2. balance' \in Int /\ delta' = [delta EXCEPT ![c] = -Amount[c]]
  BY <1>1 DEF RecordCommit
<1>3. spent' \in [Holds -> Nat] /\ reserved' \in Int
  <2>1. CASE Found(c)
    <3>1. HoldRow(c) \in Holds BY <2>1 DEF Found, Live
    <3>2. Settled(c, HoldRow(c)) \in Int
      BY <3>1, <1>1, <1>a DEF Settled, TypeOK
    <3> QED BY <2>1, <3>1, <3>2, <1>1, <1>a DEF RecordCommit, TypeOK
  <2>2. CASE ~Found(c)
    BY <2>2, <1>a DEF RecordCommit, TypeOK
  <2> QED BY <2>1, <2>2
<1>4. delta' \in [Rows -> Int] /\ \A d \in Charges \ {c} : delta'[d] = delta[d]
  BY <1>0, <1>1, <1>2, <1>a DEF TypeOK, Rows
<1>5. TargetGrantedOnce'
  BY <1>0, <1>2, <1>a DEF TargetGrantedOnce, TypeOK, Rows
<1> QED BY <1>a, <1>0, <1>2, <1>3, <1>4, <1>5, EndStep DEF TypeOK, Ended

(* A reservation commits or is refused.                                    *)
LEMMA ReserveStep ==
  ASSUME LInv, NEW h \in Holds, ReserveCommit(h) \/ ReserveRefused(h)
  PROVE  LInv'
<1> USE LedgerAssumption
<1>a. TypeOK /\ TargetGrantedOnce /\ PosInv BY DEF LInv
<1>0. PICK result \in {"done", "refused"} : End(h, result)
  BY DEF ReserveCommit, ReserveRefused
<1>1. /\ h \in Actors /\ pc[h] = "locked" /\ holdStatus[h] = "none"
      /\ seen[h] \in [balance : Int, reserved : Int] /\ Amount[h] \in Nat
  BY <1>a DEF ReserveCommit, ReserveRefused, Actors, Calls, TypeOK, PosInv
<1>2. /\ UNCHANGED <<balance, delta, spent, overdue, granted, todo, current, faults>>
      /\ reserved' \in Int
      /\ holdStatus' \in [Holds -> {"none", "active", "settled", "expired"}]
      /\ \A i \in Holds \ {h} : holdStatus'[i] = holdStatus[i]
  BY <1>1, <1>a DEF ReserveCommit, ReserveRefused, rowVars, idleVars, TypeOK
<1>3. TargetGrantedOnce'
  BY <1>2, <1>a DEF TargetGrantedOnce
<1> QED BY <1>a, <1>0, <1>1, <1>2, <1>3, EndStep DEF TypeOK, Ended

(* A Release finds its hold and locks it.                                  *)
LEMMA ReleaseBeginStep ==
  ASSUME LInv, NEW r \in Releases, ReleaseBegin(r)
  PROVE  LInv'
<1> USE LedgerAssumption DEF LInv, ReleaseBegin, rowVars, idleVars
<1>0. r \in Actors /\ HoldRow(r) = HoldOf[r] /\ HoldOf[r] \in Holds
  BY Kinds DEF Actors, Calls
<1>1. TypeOK'
  BY <1>0 DEF TypeOK, Stages
<1>2. PosInv'
  BY <1>0 DEF PosInv, TypeOK, Actors, Calls
<1>3. SeenInv'
  BY <1>0 DEF SeenInv, TypeOK
<1>4. ReleaseInv'
  BY <1>0 DEF ReleaseInv, TypeOK, Found, Live, Actors, Calls
<1>5. TargetGrantedOnce'
  BY DEF TargetGrantedOnce
<1> QED BY <1>1, <1>2, <1>3, <1>4, <1>5

(* A transaction ends without having written anything.                     *)
LEMMA NoWriteStep ==
  ASSUME LInv, NEW a \in Actors, NEW result \in Ended \cup {"idle"}, End(a, result),
         result = "idle" => a \in Sweepers,
         UNCHANGED <<rowVars, overdue, granted, current>>,
         todo' \in [Sweepers -> SUBSET Holds], faults' \in 0..MaxFaults
  PROVE  LInv'
<1>1. TypeOK /\ TargetGrantedOnce
      /\ UNCHANGED <<balance, reserved, delta, holdStatus, spent, overdue, granted, current>>
  BY DEF LInv, rowVars
<1>2. TargetGrantedOnce'
  BY <1>1 DEF TargetGrantedOnce
<1> QED BY <1>1, <1>2, EndStep DEF TypeOK

(* A Release or a sweeper closes the hold it found.                        *)
LEMMA CloseStep ==
  ASSUME LInv, NEW a \in Releases \cup Sweepers, NEW h \in Holds,
         NEW closed \in {"settled", "expired"}, NEW result \in {"idle", "done"},
         result = "idle" => a \in Sweepers,
         pc[a] = "locked", CloseHold(a, h, closed), End(a, result), UNCHANGED idleVars,
         holdStatus[h] = "active", holdLock[h] \in {None, a}
  PROVE  LInv'
<1> USE LedgerAssumption
<1>a. TypeOK /\ TargetGrantedOnce BY DEF LInv
<1>0. /\ a \in Actors /\ a \notin Charges \cup Holds /\ result \in Ended \cup {"idle"}
      /\ UNCHANGED <<balance, delta, spent, overdue, granted, todo, current, faults>>
  BY DEF Actors, Calls, Ended, CloseHold, idleVars
<1>1. seen[a].reserved \in Int /\ Amount[h] \in Nat /\ spent[h] \in Nat
  BY <1>0, <1>a DEF TypeOK
<1>2. Remainder(h) \in Int
  BY <1>1 DEF Remainder, Larger
<1>3. reserved' \in Int
  BY <1>1, <1>2 DEF CloseHold, Larger
<1>4. /\ holdStatus' \in [Holds -> {"none", "active", "settled", "expired"}]
      /\ \A i \in Holds : \/ holdStatus'[i] = holdStatus[i]
                          \/ holdStatus[i] = "active" /\ holdLock[i] \in {None, a}
  BY <1>a DEF CloseHold, TypeOK
<1>5. TargetGrantedOnce'
  BY <1>0, <1>a DEF TargetGrantedOnce
<1> QED BY <1>a, <1>0, <1>3, <1>4, <1>5, EndStep DEF TypeOK

(* The rows of a period add credit, so what they sum to is not negative.   *)
LEMMA PeriodSum ==
  ASSUME LInv
  PROVE  GrantedInPeriod \in Nat
<1>1. IsFiniteSet(Grants)
  BY LedgerAssumption, FS_Subset
<1>2. ASSUME NEW g \in Grants PROVE delta[g] \in Nat
  BY LedgerAssumption DEF LInv, TypeOK, TargetGrantedOnce, Rows
<1> QED BY <1>1, <1>2, SumTypes DEF GrantedInPeriod

(* A period's rows are summed, before the lock.                            *)
LEMMA SumStep ==
  ASSUME LInv, NEW g \in Grants, SumPeriod(g)
  PROVE  LInv'
<1> USE LedgerAssumption DEF LInv, SumPeriod, rowVars
<1>0. /\ g \in Actors /\ Amount[g] \in Nat /\ g \notin Charges \cup Holds \cup Releases
      /\ GrantedInPeriod \in Nat
  BY PeriodSum DEF Actors, Calls
<1>1. TypeOK'
  BY <1>0 DEF TypeOK, Stages, Ended
<1>2. PosInv'
  BY <1>0 DEF PosInv, TypeOK, Actors, Calls
<1>3. SeenInv'
  BY <1>0 DEF SeenInv, TypeOK
<1>4. ReleaseInv'
  BY <1>0 DEF ReleaseInv, TypeOK, Actors, Calls
<1>5. TargetGrantedOnce'
  BY DEF TargetGrantedOnce
<1> QED BY <1>1, <1>2, <1>3, <1>4, <1>5

(* A grant commits: what it adds is positive and within its target.        *)
LEMMA ShortfallInTarget ==
  ASSUME LInv, NEW g \in Grants, pc[g] = "locked"
  PROVE  /\ g \in Actors /\ g \in Rows /\ seen[g] \in [balance : Int, reserved : Int]
         /\ Amount[g] - granted[g] \in 1..Amount[g]
<1>1. g \in Actors /\ g \in Rows /\ Amount[g] \in Nat
  BY LedgerAssumption DEF Actors, Calls, Rows
<1>2. granted[g] \in Nat /\ granted[g] < Amount[g]
  BY DEF LInv, TypeOK, PosInv
<1>3. seen[g] \in [balance : Int, reserved : Int]
  BY <1>1 DEF LInv, TypeOK
<1> QED BY <1>1, <1>2, <1>3

(* The unique reference is what keeps two deliveries from both crediting.  *)
LEMMA GrantStep ==
  ASSUME LInv, NEW g \in Grants, GrantCommit(g)
  PROVE  LInv'
<1> USE LedgerAssumption
<1>a. TypeOK /\ TargetGrantedOnce BY DEF LInv
<1>0. /\ g \in Actors /\ g \notin Charges \cup Holds /\ g \in Rows /\ pc[g] = "locked"
      /\ End(g, "done") /\ UNCHANGED <<overdue, granted, todo, current, faults>>
  BY DEF GrantCommit, Actors, Calls, idleVars, Rows
<1>1. CASE Conflicts(g)
  BY <1>a, <1>0, <1>1, NoWriteStep DEF GrantCommit, TypeOK, Ended
<1>2. CASE ~Conflicts(g)
  <2>1. Amount[g] - granted[g] \in 1..Amount[g] /\ seen[g].balance \in Int
    BY <1>0, ShortfallInTarget
  <2>2. /\ delta' = [delta EXCEPT ![g] = Amount[g] - granted[g]]
        /\ balance' = seen[g].balance + (Amount[g] - granted[g])
        /\ UNCHANGED <<reserved, holdStatus, spent>>
    BY <1>2 DEF GrantCommit
  <2>3. balance' \in Int /\ delta' \in [Rows -> Int]
    BY <2>1, <2>2, <1>a, <1>0 DEF TypeOK
  <2>4. \A c \in Charges : delta'[c] = delta[c]
    BY <2>2, <1>0, <1>a DEF TypeOK
  <2>5. TargetGrantedOnce'
    <3> SUFFICES ASSUME NEW i \in Grants, NEW k \in Grants, Amount[i] = Amount[k],
                        delta'[i] # 0, delta'[k] # 0
                 PROVE  i = k /\ delta'[i] \in 1..Amount[i]
      BY DEF TargetGrantedOnce
    <3>1. \A j \in Grants : delta'[j] = IF j = g THEN Amount[g] - granted[g] ELSE delta[j]
      BY <2>2, <1>a DEF TypeOK, Rows
    <3>2. \A j \in Grants : Amount[j] = Amount[g] => delta[j] = 0
      BY <1>2 DEF Conflicts
    <3>3. CASE i = g \/ k = g
      BY <3>1, <3>2, <3>3, <2>1
    <3>4. CASE i # g /\ k # g
      BY <3>1, <3>4, <1>a DEF TargetGrantedOnce
    <3> QED BY <3>3, <3>4
  <2> QED BY <1>a, <1>0, <2>2, <2>3, <2>4, <2>5, EndStep DEF TypeOK, Ended
<1> QED BY <1>1, <1>2

(* A sweeper's commit: the hold it found, or nothing.                      *)
LEMMA SweepCommitStep ==
  ASSUME LInv, NEW s \in Sweepers, SweepCommit(s)
  PROVE  LInv'
<1>0. s \in Actors /\ pc[s] = "locked" /\ End(s, "idle") /\ UNCHANGED idleVars
  BY DEF SweepCommit, Actors
<1>1. CASE Found(s)
  BY <1>0, <1>1, CloseStep DEF SweepCommit, Found, Live
<1>2. CASE ~Found(s)
  BY <1>0, <1>2, NoWriteStep DEF SweepCommit, idleVars, LInv, TypeOK
<1> QED BY <1>1, <1>2

(* A Release's commit: its hold is still active, and nobody else's.        *)
LEMMA ReleaseCommitStep ==
  ASSUME LInv, NEW r \in Releases, ReleaseCommit(r)
  PROVE  LInv'
<1>0. r \in Actors /\ HoldRow(r) = HoldOf[r] /\ HoldOf[r] \in Holds
  BY Kinds DEF Actors, Calls
<1>1. holdStatus[HoldOf[r]] = "active" /\ holdLock[HoldOf[r]] = r
  BY DEF ReleaseCommit, LInv, ReleaseInv
<1> QED BY <1>0, <1>1, CloseStep DEF ReleaseCommit

(* A transaction that does not commit.                                     *)
LEMMA AbortStep ==
  ASSUME LInv, NEW a \in Actors, Abort(a), faults' \in 0..MaxFaults
  PROVE  LInv'
<1>1. PICK result \in Ended \cup {"idle"} :
        End(a, result) /\ (result = "idle" => a \in Sweepers)
  BY DEF Abort, Ended
<1>2. todo' \in [Sweepers -> SUBSET Holds]
  BY DEF Abort, LInv, TypeOK
<1> QED BY <1>1, <1>2, NoWriteStep DEF Abort

(* The steps that touch neither the row nor a lock.                        *)
LEMMA QuietStep ==
  ASSUME LInv,
         \/ \E h \in Holds : Expire(h)
         \/ \E s \in Sweepers : SweepScan(s) \/ SweepPick(s)
         \/ UNCHANGED vars
  PROVE  LInv'
<1> USE LedgerAssumption DEF LInv, rowVars
<1>1. ASSUME NEW h \in Holds, Expire(h) PROVE LInv'
  BY <1>1 DEF Expire, TypeOK, PosInv, SeenInv, ReleaseInv, TargetGrantedOnce
<1>2. ASSUME NEW s \in Sweepers, SweepScan(s) PROVE LInv'
  BY <1>2 DEF SweepScan, Sweepable, TypeOK, PosInv, SeenInv, ReleaseInv, TargetGrantedOnce
<1>3. ASSUME NEW s \in Sweepers, SweepPick(s) PROVE LInv'
  <2>0. s \in Actors /\ s \notin Calls BY DEF Actors, Calls
  <2>1. TypeOK' BY <1>3, <2>0 DEF SweepPick, TypeOK, Stages
  <2>2. PosInv' BY <1>3, <2>0 DEF SweepPick, TypeOK, PosInv, Calls
  <2>3. SeenInv' BY <1>3, <2>0 DEF SweepPick, TypeOK, SeenInv
  <2>4. ReleaseInv' BY <1>3, <2>0 DEF SweepPick, TypeOK, ReleaseInv, Calls
  <2> QED BY <1>3, <2>1, <2>2, <2>3, <2>4 DEF SweepPick, TargetGrantedOnce
<1>4. ASSUME UNCHANGED vars PROVE LInv'
  BY <1>4 DEF vars, TypeOK, PosInv, SeenInv, ReleaseInv, TargetGrantedOnce
<1> QED BY <1>1, <1>2, <1>3, <1>4

-----------------------------------------------------------------------------
(* The invariant is inductive.                                             *)

(* It holds when the organization has made no call yet.                    *)
LEMMA InitInv ==
  Init => LInv
<1> SUFFICES ASSUME Init PROVE LInv
  OBVIOUS
<1> USE LedgerAssumption DEF Init
<1>1. TypeOK
  BY DEF TypeOK, Stages, Unread
<1>a. \A a \in Actors : pc[a] = "idle"
  OBVIOUS
<1>b. /\ \A c \in Charges : c \in Rows /\ c \in Actors
      /\ Holds \subseteq Actors /\ Releases \subseteq Actors /\ Grants \subseteq Actors
  BY DEF Rows, Actors, Calls
<1>2. PosInv /\ SeenInv /\ ReleaseInv
  <2>1. PosInv BY <1>a, <1>b DEF PosInv
  <2>2. SeenInv BY <1>a DEF SeenInv
  <2>3. ReleaseInv BY <1>a, <1>b DEF ReleaseInv
  <2> QED BY <2>1, <2>2, <2>3
<1>3. TargetGrantedOnce
  BY DEF TargetGrantedOnce, Rows
<1> QED BY <1>1, <1>2, <1>3 DEF LInv

(* Every step of every transaction keeps it.                               *)
LEMMA StepInv ==
  LInv /\ [Next]_vars => LInv'
<1> SUFFICES ASSUME LInv, [Next]_vars PROVE LInv'
  OBVIOUS
<1>f. faults' = faults => faults' \in 0..MaxFaults
  BY DEF LInv, TypeOK
<1>1. ASSUME NEW c \in Calls, CallStep(c) PROVE LInv'
  <2>0. c \in Actors BY DEF Actors
  <2>1. CASE LockBalance(c)
    BY <2>0, <2>1, LockStep
  <2>2. CASE RecordCommit(c)
    BY <2>2, ChargeStep DEF RecordCommit
  <2>3. CASE ReserveCommit(c) \/ ReserveRefused(c)
    BY <2>3, ReserveStep DEF ReserveCommit, ReserveRefused
  <2>4. CASE ReleaseBegin(c)
    BY <2>4, ReleaseBeginStep DEF ReleaseBegin
  <2>5. CASE ReleaseNothing(c)
    BY <2>0, <2>5, <1>f, NoWriteStep DEF ReleaseNothing, idleVars, LInv, TypeOK, Ended
  <2>6. CASE ReleaseCommit(c)
    BY <2>6, ReleaseCommitStep DEF ReleaseCommit
  <2>7. CASE SumPeriod(c)
    BY <2>7, SumStep DEF SumPeriod
  <2>8. CASE GrantCommit(c)
    BY <2>8, GrantStep DEF GrantCommit
  <2> QED BY <1>1, <2>1, <2>2, <2>3, <2>4, <2>5, <2>6, <2>7, <2>8 DEF CallStep
<1>2. ASSUME NEW s \in Sweepers, SweepStep(s) PROVE LInv'
  <2>0. s \in Actors BY DEF Actors
  <2> QED BY <1>2, <2>0, QuietStep, LockStep, SweepCommitStep DEF SweepStep
<1>3. ASSUME NEW h \in Holds, Expire(h) PROVE LInv'
  BY <1>3, QuietStep
<1>4. ASSUME Deadlocks PROVE LInv'
  <2>1. PICK r \in Releases, b \in Actors : DeadlockVictim(r, b)
    BY <1>4 DEF Deadlocks
  <2>2. r \in Actors BY DEF Actors, Calls
  <2> QED BY <2>1, <2>2, <1>f, AbortStep DEF DeadlockVictim
<1>5. ASSUME NEW a \in Actors, ProcessDies(a) PROVE LInv'
  <2>1. faults' \in 0..MaxFaults
    BY <1>5, LedgerAssumption DEF ProcessDies, LInv, TypeOK
  <2> QED BY <1>5, <2>1, AbortStep DEF ProcessDies
<1>6. ASSUME UNCHANGED vars PROVE LInv'
  BY <1>6, QuietStep
<1> QED BY <1>1, <1>2, <1>3, <1>4, <1>5, <1>6 DEF Next

(* The inductive invariant holds throughout every run of the service.      *)
THEOREM LedgerInvariance ==
  Spec => []LInv
<1> QED BY InitInv, StepInv, PTL DEF Spec

(* Every variable keeps its type, and at most one transaction at a time    *)
(* holds the balance row that lockBalance selects FOR UPDATE.              *)
THEOREM LedgerTypes ==
  Spec => []TypeOK
<1>1. LInv => TypeOK
  BY DEF LInv
<1> QED BY <1>1, LedgerInvariance, PTL

(* Overlapping deliveries of one Stripe event credit their target once     *)
(* (GrantPeriodTo's ON CONFLICT DO NOTHING), and never more than it.       *)
THEOREM OneGrantPerTarget ==
  Spec => []TargetGrantedOnce
<1>1. LInv => TargetGrantedOnce
  BY DEF LInv
<1> QED BY <1>1, LedgerInvariance, PTL

-----------------------------------------------------------------------------
(* The ledger implements AtomicLedger.                                     *)

(* A charge commits against the row and the hold of that instant.          *)
LEMMA ChargeRefines ==
  ASSUME LInv, NEW c \in Charges, RecordCommit(c)
  PROVE  Atomic!Charge(c)
<1> USE LedgerAssumption
<1>0. /\ c \in Actors /\ HoldRow(c) = HoldOf[c] /\ delta[c] = 0 /\ Amount[c] \in Nat \ {0}
      /\ seen[c] = [balance |-> balance, reserved |-> reserved]
      /\ balance \in Int /\ reserved \in Int
  BY Kinds DEF RecordCommit, LInv, TypeOK, PosInv, SeenInv, Actors, Calls
<1>1. /\ delta' = [delta EXCEPT ![c] = -Amount[c]] /\ balance' = balance - Amount[c]
      /\ UNCHANGED holdStatus
  BY <1>0 DEF RecordCommit
<1>2. CASE Found(c)
  <2>1. HoldOf[c] \in Holds /\ holdStatus[HoldOf[c]] = "active"
    BY <1>0, <1>2 DEF Found, Live
  <2>2. spent[HoldOf[c]] \in Nat /\ Amount[HoldOf[c]] \in Nat
    BY <2>1 DEF LInv, TypeOK
  <2>3. spent' = [spent EXCEPT ![HoldOf[c]] = @ + Amount[c]]
    BY <1>0, <1>2 DEF RecordCommit
  <2>4. reserved' = reserved - (IF Amount[c] < Atomic!Remainder(HoldOf[c])
                                  THEN Amount[c] ELSE Atomic!Remainder(HoldOf[c]))
    BY <1>0, <1>2, <2>2 DEF RecordCommit, Settled, Atomic!Remainder
  <2> QED BY <1>0, <1>1, <2>1, <2>3, <2>4 DEF Atomic!Charge
<1>3. CASE ~Found(c)
  <2>1. ~(HoldOf[c] \in Holds /\ holdStatus[HoldOf[c]] = "active")
    BY <1>0, <1>3 DEF RecordCommit, Found, Waiting, Live
  <2>2. UNCHANGED <<spent, reserved>>
    BY <1>3 DEF RecordCommit
  <2> QED BY <1>0, <1>1, <2>1, <2>2 DEF Atomic!Charge
<1> QED BY <1>2, <1>3

(* A reservation commits only if the row of that instant covers it.        *)
LEMMA ReserveRefines ==
  ASSUME LInv, NEW h \in Holds, ReserveCommit(h)
  PROVE  Atomic!Reserve(h)
<1>1. /\ holdStatus[h] = "none" /\ seen[h] = [balance |-> balance, reserved |-> reserved]
      /\ balance \in Int /\ reserved \in Int /\ Amount[h] \in Nat
  BY LedgerAssumption DEF ReserveCommit, LInv, TypeOK, PosInv, SeenInv, Actors, Calls
<1> QED BY <1>1 DEF ReserveCommit, Spendable, Atomic!Reserve

(* A hold that is closed was active, and its unused part comes back.       *)
LEMMA CloseRefines ==
  ASSUME LInv, NEW a \in Actors, NEW h \in Holds, NEW closed \in {"settled", "expired"},
         pc[a] = "locked", holdStatus[h] = "active", CloseHold(a, h, closed)
  PROVE  Atomic!Close(h)
<1>1. /\ seen[a] = [balance |-> balance, reserved |-> reserved]
      /\ balance \in Int /\ reserved \in Int /\ Amount[h] \in Nat /\ spent[h] \in Nat
  BY LedgerAssumption DEF LInv, TypeOK, SeenInv
<1>2. Remainder(h) = Atomic!Remainder(h) /\ Remainder(h) \in Int
  BY <1>1 DEF Remainder, Larger, Atomic!Remainder
<1>3. reserved' = IF reserved > Atomic!Remainder(h) THEN reserved - Atomic!Remainder(h) ELSE 0
  BY <1>1, <1>2 DEF CloseHold, Larger
<1> QED BY <1>3 DEF CloseHold, Atomic!Close

(* A grant whose reference is free adds part of its target, or all of it.  *)
LEMMA GrantRefines ==
  ASSUME LInv, NEW g \in Grants, GrantCommit(g), ~Conflicts(g)
  PROVE  Atomic!Grant(g)
<1>1. /\ Amount[g] - granted[g] \in 1..Amount[g]
      /\ seen[g] = [balance |-> balance, reserved |-> reserved]
  BY ShortfallInTarget DEF GrantCommit, LInv, SeenInv
<1>2. /\ delta' = [delta EXCEPT ![g] = Amount[g] - granted[g]]
      /\ balance' = balance + (Amount[g] - granted[g])
      /\ UNCHANGED <<reserved, holdStatus, spent>>
  BY <1>1 DEF GrantCommit
<1>3. \A other \in Grants : Amount[other] = Amount[g] => delta[other] = 0
  BY DEF Conflicts
<1> QED BY <1>1, <1>2, <1>3 DEF Atomic!Grant

(* Every step of a transaction is one atomic operation or is invisible.    *)
LEMMA StepRefines ==
  LInv /\ [Next]_vars => [Atomic!Next]_Atomic!vars
<1> SUFFICES ASSUME LInv, [Next]_vars PROVE Atomic!Next \/ UNCHANGED rowVars
  BY DEF Atomic!vars, rowVars
<1>1. ASSUME NEW c \in Calls, CallStep(c) PROVE Atomic!Next \/ UNCHANGED rowVars
  <2>1. CASE LockBalance(c) \/ ReserveRefused(c) \/ ReleaseBegin(c) \/ ReleaseNothing(c)
             \/ SumPeriod(c)
    BY <2>1 DEF LockBalance, ReserveRefused, ReleaseBegin, ReleaseNothing, SumPeriod
  <2>2. CASE RecordCommit(c)
    BY <2>2, ChargeRefines DEF RecordCommit, Atomic!Next
  <2>3. CASE ReserveCommit(c)
    BY <2>3, ReserveRefines DEF ReserveCommit, Atomic!Next
  <2>4. CASE ReleaseCommit(c)
    <3>1. c \in Actors /\ HoldRow(c) = HoldOf[c] /\ HoldOf[c] \in Holds
      BY <2>4, Kinds DEF ReleaseCommit, Actors
    <3>2. holdStatus[HoldOf[c]] = "active"
      BY <2>4 DEF ReleaseCommit, LInv, ReleaseInv
    <3> QED BY <2>4, <3>1, <3>2, CloseRefines DEF ReleaseCommit, Atomic!Next
  <2>5. CASE GrantCommit(c)
    BY <2>5, GrantRefines DEF GrantCommit, Atomic!Next
  <2> QED BY <1>1, <2>1, <2>2, <2>3, <2>4, <2>5 DEF CallStep
<1>2. ASSUME NEW s \in Sweepers, SweepStep(s) PROVE Atomic!Next \/ UNCHANGED rowVars
  <2>1. CASE SweepScan(s) \/ SweepPick(s) \/ LockBalance(s)
    BY <2>1 DEF SweepScan, SweepPick, LockBalance
  <2>2. CASE SweepCommit(s)
    <3>1. s \in Actors BY DEF Actors
    <3> QED BY <2>2, <3>1, CloseRefines DEF SweepCommit, Found, Live, Atomic!Next
  <2> QED BY <1>2, <2>1, <2>2 DEF SweepStep
<1>3. ASSUME NEW h \in Holds, Expire(h) PROVE UNCHANGED rowVars
  BY <1>3 DEF Expire
<1>4. ASSUME Deadlocks PROVE UNCHANGED rowVars
  BY <1>4 DEF Deadlocks, DeadlockVictim, Abort
<1>5. ASSUME NEW a \in Actors, ProcessDies(a) PROVE UNCHANGED rowVars
  BY <1>5 DEF ProcessDies, Abort
<1>6. ASSUME UNCHANGED vars PROVE UNCHANGED rowVars
  BY <1>6 DEF vars, rowVars
<1> QED BY <1>1, <1>2, <1>3, <1>4, <1>5, <1>6 DEF Next

(* The transactions of internal/billing/credits, interleaved, aborted and  *)
(* lost in any way, behave as if each happened at one instant.             *)
THEOREM LedgerIsAtomic ==
  Spec => ImplementsAtomicLedger
<1>1. Init => Atomic!Init
  BY DEF Init, Atomic!Init, Rows
<1> QED BY <1>1, StepRefines, LedgerInvariance, PTL
         DEF Spec, ImplementsAtomicLedger, Atomic!Spec

-----------------------------------------------------------------------------

(* No run is admitted on credits another run has reserved: at the commit   *)
(* of Reserve the balance covers every reservation.                        *)
LEMMA AdmissionStep ==
  ASSUME LInv, [Next]_vars, NEW h \in Holds, holdStatus[h] = "none", holdStatus'[h] = "active"
  PROVE  reserved' <= balance'
<1>1. [Atomic!Next]_Atomic!vars
  BY StepRefines
<1>2. PICK i \in Holds : Atomic!Reserve(i)
  BY <1>1 DEF Atomic!Next, Atomic!vars, Atomic!Charge, Atomic!Close, Atomic!Grant, LInv, TypeOK
<1>3. balance \in Int /\ reserved \in Int /\ Amount[i] \in Int
  BY LedgerAssumption DEF LInv, TypeOK
<1> QED BY <1>2, <1>3 DEF Atomic!Reserve

(* Concurrent Reserve calls never overcommit the balance.                  *)
THEOREM AdmissionsCovered ==
  Spec => AdmissionCovered
<1>1. LInv /\ [Next]_vars =>
        [\A h \in Holds : holdStatus[h] = "none" /\ holdStatus'[h] = "active"
           => reserved' <= balance']_vars
  BY AdmissionStep
<1> QED BY <1>1, LedgerInvariance, PTL DEF Spec, AdmissionCovered

-----------------------------------------------------------------------------
(* The two figures of the balance row are sums over the other rows.  An     *)
(* atomic operation changes one row and the figure by the same amount.      *)

Remaining == [h \in Holds |-> Remainder(h)]

(* The sets that are summed over, and what is summed, are finite.          *)
LEMMA SumsFinite ==
  /\ IsFiniteSet(Rows) /\ IsFiniteSet(Holds)
  /\ \A S \in SUBSET Holds : IsFiniteSet(S)
<1>1. IsFiniteSet(Charges \cup Holds \cup Grants)
  BY LedgerAssumption
<1>2. Rows \in SUBSET (Charges \cup Holds \cup Grants)
  BY DEF Rows
<1> QED BY <1>1, <1>2, FS_Subset

(* What is left of a hold is a natural number.                             *)
LEMMA RemainderType ==
  ASSUME LInv, NEW h \in Holds
  PROVE  /\ Remainder(h) \in Nat /\ Remainder(h) = Atomic!Remainder(h)
         /\ Remaining[h] = Remainder(h)
<1>1. Amount[h] \in Nat /\ spent[h] \in Nat
  BY LedgerAssumption DEF LInv, TypeOK
<1> QED BY <1>1 DEF Remainder, Remaining, Larger, Atomic!Remainder

(* Writing one ledger row moves the sum by that row's change.              *)
LEMMA RowWritten ==
  ASSUME LInv, BalanceDerivable, NEW c \in Rows, NEW d \in Int, delta[c] = 0,
         delta' = [delta EXCEPT ![c] = d], balance' = balance + d
  PROVE  BalanceDerivable'
<1>1. delta \in [Rows -> Int]
  BY DEF LInv, TypeOK
<1>2. SumFunctionOnSet(delta', Rows) = SumFunctionOnSet(delta, Rows) + (d - delta[c])
  BY <1>1, SumsFinite, SumExcept
<1>3. SumFunctionOnSet(delta, Rows) \in Int
  BY <1>1, SumsFinite, SumTypes
<1>4. Opening \in Int
  BY LedgerAssumption
<1> QED BY <1>2, <1>3, <1>4 DEF BalanceDerivable

(* Any step keeps the balance derivable from the rows.                     *)
LEMMA BalanceStep ==
  ASSUME LInv, BalanceDerivable, [Next]_vars
  PROVE  BalanceDerivable'
<1>1. [Atomic!Next]_Atomic!vars
  BY StepRefines
<1>2. ASSUME NEW c \in Charges, Atomic!Charge(c) PROVE BalanceDerivable'
  <2>1. c \in Rows /\ Amount[c] \in Nat /\ balance \in Int
    BY LedgerAssumption DEF Rows, LInv, TypeOK
  <2> DEFINE d == -Amount[c]
  <2>2. /\ d \in Int /\ delta[c] = 0 /\ delta' = [delta EXCEPT ![c] = d]
        /\ balance' = balance + d
    BY <1>2, <2>1 DEF Atomic!Charge
  <2> HIDE DEF d
  <2> QED BY <2>1, <2>2, RowWritten
<1>3. ASSUME NEW g \in Grants, Atomic!Grant(g) PROVE BalanceDerivable'
  <2>1. g \in Rows /\ Amount[g] \in Nat /\ delta[g] = 0
    BY <1>3, LedgerAssumption DEF Rows, Atomic!Grant
  <2>2. PICK given \in 1..Amount[g] : /\ delta' = [delta EXCEPT ![g] = given]
                                      /\ balance' = balance + given
    BY <1>3 DEF Atomic!Grant
  <2>3. given \in Int
    BY <2>1
  <2> QED BY <2>1, <2>2, <2>3, RowWritten
<1>4. ASSUME UNCHANGED <<balance, delta>> PROVE BalanceDerivable'
  BY <1>4 DEF BalanceDerivable
<1> QED BY <1>1, <1>2, <1>3, <1>4
        DEF Atomic!Next, Atomic!vars, Atomic!Reserve, Atomic!Close

(* A charge takes out of the reservation what its hold loses.              *)
LEMMA ChargeBacked ==
  ASSUME LInv, LInv', ReservedBacked, NEW c \in Charges, Atomic!Charge(c)
  PROVE  ReservedBacked'
<1>1. Amount[c] \in Nat /\ ActiveHolds' = ActiveHolds /\ ActiveHolds \subseteq Holds
  BY LedgerAssumption DEF ActiveHolds, Atomic!Charge
<1>2. CASE ~(HoldOf[c] \in Holds /\ holdStatus[HoldOf[c]] = "active")
  <2>1. UNCHANGED <<spent, reserved>>
    BY <1>2 DEF Atomic!Charge
  <2> QED BY <1>1, <2>1 DEF ReservedBacked, Remainder, ActiveHolds
<1>3. CASE HoldOf[c] \in Holds /\ holdStatus[HoldOf[c]] = "active"
  <2> DEFINE h == HoldOf[c]
  <2>1. /\ h \in ActiveHolds /\ spent \in [Holds -> Nat] /\ Amount[h] \in Nat /\ reserved \in Int
        /\ spent' = [spent EXCEPT ![h] = @ + Amount[c]]
        /\ reserved' = reserved - (IF Amount[c] < Remainder(h) THEN Amount[c] ELSE Remainder(h))
    BY <1>3, RemainderType, LedgerAssumption DEF ActiveHolds, Atomic!Charge, LInv, TypeOK
  <2>2. /\ Remaining'[h] = Remaining[h]
             - (IF Amount[c] < Remainder(h) THEN Amount[c] ELSE Remainder(h))
        /\ \A x \in ActiveHolds : Remaining[x] \in Int /\ Remaining'[x] \in Int
        /\ \A x \in ActiveHolds \ {h} : Remaining'[x] = Remaining[x]
    <3>1. Remaining'[h] = Remaining[h]
             - (IF Amount[c] < Remainder(h) THEN Amount[c] ELSE Remainder(h))
      BY <1>1, <1>3, <2>1 DEF Remaining, Remainder, Larger
    <3>2. ASSUME NEW x \in ActiveHolds
          PROVE  /\ Remaining[x] \in Int /\ Remaining'[x] \in Int
                 /\ x # h => Remaining'[x] = Remaining[x]
      <4>1. x \in Holds /\ Amount[x] \in Nat /\ spent[x] \in Nat /\ spent'[x] \in Nat
        BY <1>1, LedgerAssumption DEF LInv, TypeOK
      <4> QED BY <2>1, <4>1 DEF Remaining, Remainder, Larger
    <3> QED BY <3>1, <3>2
  <2>3. IsFiniteSet(ActiveHolds)
    BY <1>1, SumsFinite
  <2> DEFINE f == Remaining
             g == Remaining'
             A == ActiveHolds
  <2>4. /\ reserved = SumFunctionOnSet(f, A)
        /\ ReservedBacked' <=> reserved' = SumFunctionOnSet(g, A)
    BY <1>1 DEF ReservedBacked, Remaining
  <2>5. /\ h \in A /\ IsFiniteSet(A)
        /\ \A x \in A : f[x] \in Int /\ g[x] \in Int
        /\ \A x \in A \ {h} : g[x] = f[x]
    BY <2>1, <2>2, <2>3
  <2>6. g[h] - f[h] = reserved' - reserved
    BY <2>1, <2>2, <2>5, <1>1, <1>3, RemainderType
  <2> HIDE DEF f, g, A, h
  <2>7. SumFunctionOnSet(g, A) = SumFunctionOnSet(f, A) + (g[h] - f[h])
    BY <2>5, SumChange
  <2>8. reserved \in Int /\ reserved' \in Int
    BY DEF LInv, TypeOK
  <2> QED BY <2>4, <2>6, <2>7, <2>8
<1> QED BY <1>2, <1>3

(* A hold that begins adds its amount, one that ends takes its remainder.  *)
LEMMA HoldBacked ==
  ASSUME LInv, LInv', ReservedBacked, NEW h \in Holds, Atomic!Reserve(h) \/ Atomic!Close(h),
         Atomic!Reserve(h) => spent[h] = 0
  PROVE  ReservedBacked'
<1> DEFINE f == Remaining
<1>1. /\ Remaining' = f /\ IsFiniteSet(ActiveHolds) /\ IsFiniteSet(ActiveHolds')
      /\ \A x \in Holds : f[x] \in Nat /\ f[x] = Remainder(x)
  BY RemainderType, SumsFinite
     DEF Remaining, Remainder, ActiveHolds, Atomic!Reserve, Atomic!Close
<1>2. /\ reserved = SumFunctionOnSet(f, ActiveHolds)
      /\ ReservedBacked' <=> reserved' = SumFunctionOnSet(f, ActiveHolds')
  BY <1>1 DEF ReservedBacked, Remaining
<1>3. reserved \in Int /\ holdStatus \in [Holds -> {"none", "active", "settled", "expired"}]
  BY DEF LInv, TypeOK
<1>4. CASE Atomic!Reserve(h)
  <2>1. /\ reserved' = reserved + Amount[h] /\ Amount[h] \in Nat /\ spent[h] = 0
        /\ ActiveHolds = ActiveHolds' \ {h} /\ h \in ActiveHolds'
    BY <1>3, <1>4, LedgerAssumption DEF Atomic!Reserve, ActiveHolds
  <2>2. f[h] = Amount[h]
    BY <1>1, <2>1 DEF Remainder, Larger
  <2>3. \A x \in ActiveHolds' : f[x] \in Int
    BY <1>1 DEF ActiveHolds
  <2> DEFINE B == ActiveHolds'
  <2>4. SumFunctionOnSet(f, B) = f[h] + SumFunctionOnSet(f, B \ {h})
    <3>1. IsFiniteSet(B) /\ h \in B /\ \A x \in B : f[x] \in Int
      BY <1>1, <2>1, <2>3
    <3> HIDE DEF B, f
    <3> QED BY <3>1, SumSplit
  <2> QED BY <1>2, <1>3, <2>1, <2>2, <2>4
<1>5. CASE Atomic!Close(h)
  <2>1. /\ ActiveHolds' = ActiveHolds \ {h} /\ h \in ActiveHolds
        /\ reserved' = IF reserved > Remainder(h) THEN reserved - Remainder(h) ELSE 0
    BY <1>3, <1>5, RemainderType DEF Atomic!Close, ActiveHolds
  <2> DEFINE A == ActiveHolds
             R == A \ {h}
  <2>2. /\ SumFunctionOnSet(f, A) = f[h] + SumFunctionOnSet(f, R)
        /\ SumFunctionOnSet(f, R) \in Nat
    <3>1. /\ IsFiniteSet(A) /\ IsFiniteSet(R) /\ h \in A /\ \A x \in A : f[x] \in Int
          /\ \A x \in R : f[x] \in Nat
      BY <1>1, <2>1, FS_RemoveElement DEF ActiveHolds
    <3> HIDE DEF A, f
    <3> QED BY <3>1, SumSplit, SumTypes
  <2>3. f[h] \in Nat /\ f[h] = Remainder(h)
    BY <1>1
  <2> HIDE DEF f
  <2> QED BY <1>2, <2>1, <2>2, <2>3
<1> QED BY <1>4, <1>5

(* A hold that is not yet there has spent nothing.                         *)
Unspent == \A h \in Holds : holdStatus[h] = "none" => spent[h] = 0

(* Any step keeps the reservation backed by the active holds.              *)
LEMMA ReservedStep ==
  ASSUME LInv, LInv', ReservedBacked, Unspent, [Next]_vars
  PROVE  ReservedBacked' /\ Unspent'
<1>1. [Atomic!Next]_Atomic!vars
  BY StepRefines
<1>2. ReservedBacked'
  <2>1. ASSUME NEW c \in Charges, Atomic!Charge(c) PROVE ReservedBacked'
    BY <2>1, ChargeBacked
  <2>2. ASSUME NEW h \in Holds, Atomic!Reserve(h) \/ Atomic!Close(h) PROVE ReservedBacked'
    BY <2>2, HoldBacked DEF Unspent, Atomic!Reserve
  <2>3. ASSUME UNCHANGED <<reserved, holdStatus, spent>> PROVE ReservedBacked'
    BY <2>3 DEF ReservedBacked, ActiveHolds, Remainder
  <2> QED BY <1>1, <2>1, <2>2, <2>3 DEF Atomic!Next, Atomic!vars, Atomic!Grant
<1>3. Unspent'
  <2> SUFFICES ASSUME NEW h \in Holds, holdStatus'[h] = "none" PROVE spent'[h] = 0
    BY DEF Unspent
  <2>1. holdStatus[h] = "none" /\ (spent'[h] = spent[h])
    <3>1. /\ holdStatus \in [Holds -> {"none", "active", "settled", "expired"}]
          /\ spent \in [Holds -> Nat]
      BY DEF LInv, TypeOK
    <3> QED BY <1>1, <3>1 DEF Atomic!Next, Atomic!vars, Atomic!Charge, Atomic!Reserve,
                              Atomic!Close, Atomic!Grant
  <2> QED BY <2>1 DEF Unspent
<1> QED BY <1>2, <1>3

(* "The balance is always derivable from sum(delta)" (ledger.go): no       *)
(* interleaving, abort or lost process makes the cached balance differ     *)
(* from the opening balance and the rows.                                  *)
THEOREM BalanceIsDerivable ==
  Spec => []BalanceDerivable
<1>1. Init => BalanceDerivable
  <2> SUFFICES ASSUME Init PROVE BalanceDerivable
    OBVIOUS
  <2>1. SumFunctionOnSet(delta, Rows) = 0
    BY SumsFinite, SumTypes DEF Init
  <2> QED BY <2>1, LedgerAssumption DEF Init, BalanceDerivable
<1>2. LInv /\ BalanceDerivable /\ [Next]_vars => BalanceDerivable'
  BY BalanceStep
<1> QED BY <1>1, <1>2, LedgerInvariance, PTL DEF Spec

(* "Reserved is the sum of active holds" (CreditBalance): what settles,    *)
(* releases and sweeps return is what their hold had left, once.           *)
THEOREM ReservedIsBacked ==
  Spec => []ReservedBacked
<1>1. Init => ReservedBacked /\ Unspent
  <2> SUFFICES ASSUME Init PROVE ReservedBacked /\ Unspent
    OBVIOUS
  <2>1. ActiveHolds = {}
    BY DEF Init, ActiveHolds
  <2> QED BY <2>1, SumEmpty DEF Init, ReservedBacked, Unspent
<1>2. LInv /\ LInv' /\ ReservedBacked /\ Unspent /\ [Next]_vars
        => ReservedBacked' /\ Unspent'
  BY ReservedStep
<1>3. (LInv /\ LInv' /\ (ReservedBacked /\ Unspent) /\ [Next]_vars)
        => (ReservedBacked /\ Unspent)'
  BY <1>2
<1> QED BY <1>1, <1>3, LedgerInvariance, PTL DEF Spec
=============================================================================
