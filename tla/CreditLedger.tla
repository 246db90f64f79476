---------------------------- MODULE CreditLedger ----------------------------
(***************************************************************************)
(* The credit ledger of one organization (internal/billing/credits): the   *)
(* append-only ledger, the cached balance row, the run holds, and the      *)
(* PostgreSQL transactions that change them, statement by statement where  *)
(* another transaction can come between.                                   *)
(*                                                                         *)
(* Every call is one transaction: Record for a charge, Reserve and Release *)
(* for a run, GrantPeriodTo for a Stripe event.  A transaction takes row   *)
(* locks with SELECT ... FOR UPDATE and keeps them until it ends; its      *)
(* writes become visible when it commits.  Record and the sweeper lock the *)
(* balance before the hold, Release the hold before the balance.           *)
(***************************************************************************)
EXTENDS Integers, FiniteSets, Functions

CONSTANTS Charges,    \* calls of Record
          Holds,      \* calls of Reserve, and the hold each one creates
          Releases,   \* calls of Release
          Grants,     \* calls of GrantPeriodTo for one billing period
          Sweepers,   \* replicas that run sweepHolds
          Amount,     \* cost of a charge, size of a hold, target of a grant
          HoldOf,     \* the hold a charge settles against, or a release ends
          Opening,    \* balance before any of the calls
          MaxFaults,  \* bound on transactions lost with their process
          None

Calls  == Charges \cup Holds \cup Releases \cup Grants
Actors == Calls \cup Sweepers
Rows   == Charges \cup Grants

ASSUME LedgerAssumption ==
  /\ IsFiniteSet(Charges \cup Holds \cup Grants)
  /\ Amount \in [Charges \cup Holds \cup Grants -> Nat \ {0}]
  /\ HoldOf \in [Charges \cup Releases -> Holds \cup {None}]
  /\ \A r \in Releases : HoldOf[r] \in Holds
  /\ Opening \in Int
  /\ MaxFaults \in Nat
  /\ None \notin Actors
  /\ Charges \cap (Holds \cup Releases \cup Grants \cup Sweepers) = {}
  /\ Holds \cap (Releases \cup Grants \cup Sweepers) = {}
  /\ Releases \cap (Grants \cup Sweepers) = {}
  /\ Grants \cap Sweepers = {}

VARIABLES
  balance, reserved,   \* the organization's credit_balances row
  delta,               \* the credit_ledger row a call inserted, 0 if none
  holdStatus, spent,   \* the credit_holds rows
  overdue,             \* holds whose expires_at has passed
  balanceLock,         \* the transaction that holds the balance row's lock
  holdLock,            \* for each hold, the transaction that holds its lock
  pc,                  \* where each transaction stands
  seen,                \* the balance row as the transaction read it
  granted,             \* what GrantPeriodTo summed before it took the lock
  todo,                \* holds the sweeper's scan returned and it has not done
  current,             \* the hold the sweeper is at
  faults               \* transactions lost with their process so far

rowVars  == <<balance, reserved, delta, holdStatus, spent>>
idleVars == <<overdue, granted, todo, current, faults>>
vars == <<balance, reserved, delta, holdStatus, spent, overdue, balanceLock,
          holdLock, pc, seen, granted, todo, current, faults>>

Unread == [balance |-> 0, reserved |-> 0]

Ended == {"done", "refused", "aborted"}

Init ==
  /\ balance = Opening /\ reserved = 0
  /\ delta = [c \in Rows |-> 0]
  /\ holdStatus = [h \in Holds |-> "none"]
  /\ spent = [h \in Holds |-> 0]
  /\ overdue = {}
  /\ balanceLock = None
  /\ holdLock = [h \in Holds |-> None]
  /\ pc = [a \in Actors |-> "idle"]
  /\ seen = [a \in Actors |-> Unread]
  /\ granted = [g \in Grants |-> 0]
  /\ todo = [s \in Sweepers |-> {}]
  /\ current = [s \in Sweepers |-> None]
  /\ faults = 0

-----------------------------------------------------------------------------
(* Helpers.                                                                *)

Larger(a, b) == IF a < b THEN b ELSE a

Remainder(h) == Larger(Amount[h] - spent[h], 0)

BugSpendable(row) == row.balance
(* Spendable: the balance less what in-flight runs already reserved.       *)
Spendable(row) == row.balance - row.reserved

BugSettled(c, h) == Amount[c]
(* settleAgainstHold: how much of a charge comes out of the reservation.   *)
Settled(c, h) ==
  IF spent[h] >= Amount[h] THEN 0
  ELSE IF spent[h] + Amount[c] > Amount[h] THEN Amount[h] - spent[h]
  ELSE Amount[c]

(* The sum GrantPeriodTo reads over the rows of its period.                *)
GrantedInPeriod == SumFunctionOnSet(delta, Grants)

BugConflicts(g) == FALSE
(* The unique external_ref, which names the period and the target.         *)
Conflicts(g) == \E other \in Grants : Amount[other] = Amount[g] /\ delta[other] # 0

(* The hold an actor's transaction selects FOR UPDATE, if it selects one.  *)
HoldRow(a) ==
  IF a \in Charges \cup Releases THEN HoldOf[a]
  ELSE IF a \in Sweepers THEN current[a] ELSE None

BugBalanceFree == TRUE
BalanceFree == balanceLock = None

BugLive(a) == HoldRow(a) \in Holds
(* Its SELECT returns the row: it exists, still active, and nobody else    *)
(* holds its lock.  Otherwise it finds no row, or waits.                   *)
Live(a) == HoldRow(a) \in Holds /\ holdStatus[HoldRow(a)] = "active"

Found(a) == Live(a) /\ holdLock[HoldRow(a)] \in {None, a}
Waiting(a) == Live(a) /\ holdLock[HoldRow(a)] \notin {None, a}

(* The transaction ends, gives its locks back and forgets what it read.    *)
End(a, result) ==
  /\ pc' = [pc EXCEPT ![a] = result]
  /\ balanceLock' = IF balanceLock = a THEN None ELSE balanceLock
  /\ holdLock' = [h \in Holds |-> IF holdLock[h] = a THEN None ELSE holdLock[h]]
  /\ seen' = [seen EXCEPT ![a] = Unread]

-----------------------------------------------------------------------------
(* The transactions.                                                       *)

(* A charge is made on the hold of a run that was admitted, if on any.     *)
Callable(a) ==
  \/ a \in Holds /\ pc[a] = "idle"
  \/ /\ a \in Charges /\ pc[a] = "idle"
     /\ HoldRow(a) \in Holds => holdStatus[HoldRow(a)] # "none"
  \/ a \in Releases /\ pc[a] = "holding"
  \/ a \in Grants /\ pc[a] = "summed"
  \/ a \in Sweepers /\ pc[a] = "picked"

(* lockBalance: the row is read under its lock.                            *)
LockBalance(a) ==
  /\ Callable(a)
  /\ BalanceFree
  /\ balanceLock' = a
  /\ seen' = [seen EXCEPT ![a] = [balance |-> balance, reserved |-> reserved]]
  /\ pc' = [pc EXCEPT ![a] = "locked"]
  /\ UNCHANGED <<rowVars, idleVars, holdLock>>

(* Record: the row is inserted and the balance written from what was read; *)
(* settleAgainstHold then locks the hold.                                  *)
RecordCommit(c) ==
  /\ c \in Charges /\ pc[c] = "locked" /\ ~Waiting(c)
  /\ delta' = [delta EXCEPT ![c] = -Amount[c]]
  /\ balance' = seen[c].balance - Amount[c]
  /\ IF Found(c)
       THEN LET h == HoldRow(c) IN
            /\ spent' = [spent EXCEPT ![h] = @ + Amount[c]]
            /\ reserved' = IF Settled(c, h) > 0 THEN seen[c].reserved - Settled(c, h)
                           ELSE reserved
       ELSE UNCHANGED <<spent, reserved>>
  /\ End(c, "done")
  /\ UNCHANGED <<holdStatus, idleVars>>

(* Reserve: the run is admitted, or refused for lack of credit.            *)
ReserveCommit(h) ==
  /\ h \in Holds /\ pc[h] = "locked"
  /\ Spendable(seen[h]) >= Amount[h]
  /\ holdStatus' = [holdStatus EXCEPT ![h] = "active"]
  /\ reserved' = seen[h].reserved + Amount[h]
  /\ End(h, "done")
  /\ UNCHANGED <<balance, delta, spent, idleVars>>

ReserveRefused(h) ==
  /\ h \in Holds /\ pc[h] = "locked"
  /\ Spendable(seen[h]) < Amount[h]
  /\ End(h, "refused")
  /\ UNCHANGED <<rowVars, idleVars>>

(* Release, called once the run has its hold: the hold's lock comes first. *)
ReleaseBegin(r) ==
  /\ r \in Releases /\ pc[r] = "idle" /\ Found(r)
  /\ holdLock' = [holdLock EXCEPT ![HoldRow(r)] = r]
  /\ pc' = [pc EXCEPT ![r] = "holding"]
  /\ UNCHANGED <<rowVars, idleVars, balanceLock, seen>>

ReleaseNothing(r) ==
  /\ r \in Releases /\ pc[r] = "idle"
  /\ holdStatus[HoldRow(r)] \notin {"none", "active"}
  /\ End(r, "done")
  /\ UNCHANGED <<rowVars, idleVars>>

(* What Release and the sweeper write: the unused part returns.            *)
CloseHold(a, h, status) ==
  /\ holdStatus' = [holdStatus EXCEPT ![h] = status]
  /\ reserved' = Larger(seen[a].reserved - Remainder(h), 0)
  /\ UNCHANGED <<balance, delta, spent>>

ReleaseCommit(r) ==
  /\ r \in Releases /\ pc[r] = "locked"
  /\ CloseHold(r, HoldRow(r), "settled")
  /\ End(r, "done")
  /\ UNCHANGED idleVars

(* GrantPeriodTo: the period's rows are summed before the lock is taken.   *)
SumPeriod(g) ==
  /\ g \in Grants /\ pc[g] = "idle"
  /\ granted' = [granted EXCEPT ![g] = GrantedInPeriod]
  /\ pc' = [pc EXCEPT ![g] = IF Amount[g] > GrantedInPeriod THEN "summed" ELSE "done"]
  /\ UNCHANGED <<rowVars, balanceLock, holdLock, seen, overdue, todo, current, faults>>

(* The row is inserted unless its reference is taken; only the transaction *)
(* that inserted it credits the balance.                                   *)
GrantCommit(g) ==
  /\ g \in Grants /\ pc[g] = "locked"
  /\ IF Conflicts(g) THEN UNCHANGED rowVars
     ELSE LET shortfall == Amount[g] - granted[g] IN
          /\ delta' = [delta EXCEPT ![g] = shortfall]
          /\ balance' = seen[g].balance + shortfall
          /\ UNCHANGED <<reserved, holdStatus, spent>>
  /\ End(g, "done")
  /\ UNCHANGED idleVars

(* The clock passes expires_at, whether the run still works or is gone.    *)
Expire(h) ==
  /\ holdStatus[h] = "active" /\ h \notin overdue
  /\ overdue' = overdue \cup {h}
  /\ UNCHANGED <<rowVars, balanceLock, holdLock, pc, seen, granted, todo, current, faults>>

BugSweepable == {h \in overdue : holdStatus[h] = "active" /\ spent[h] = 0}
(* What a sweep's scan returns.                                            *)
Sweepable == {h \in overdue : holdStatus[h] = "active"}

SweepScan(s) ==
  /\ s \in Sweepers /\ pc[s] = "idle" /\ todo[s] = {} /\ Sweepable # {}
  /\ todo' = [todo EXCEPT ![s] = Sweepable]
  /\ UNCHANGED <<rowVars, balanceLock, holdLock, pc, seen, overdue, granted, current, faults>>

(* A transaction of its own for each hold the scan returned.               *)
SweepPick(s) ==
  /\ s \in Sweepers /\ pc[s] = "idle"
  /\ \E h \in todo[s] :
       /\ todo' = [todo EXCEPT ![s] = @ \ {h}]
       /\ current' = [current EXCEPT ![s] = h]
  /\ pc' = [pc EXCEPT ![s] = "picked"]
  /\ UNCHANGED <<rowVars, balanceLock, holdLock, seen, overdue, granted, faults>>

(* The hold is looked up again: it may have ended since the scan.          *)
SweepCommit(s) ==
  /\ s \in Sweepers /\ pc[s] = "locked" /\ ~Waiting(s)
  /\ IF Found(s) THEN CloseHold(s, HoldRow(s), "expired") ELSE UNCHANGED rowVars
  /\ End(s, "idle")
  /\ UNCHANGED idleVars

-----------------------------------------------------------------------------
(* Transactions that do not commit.                                        *)

Abort(a) ==
  /\ End(a, IF a \in Sweepers THEN "idle" ELSE "aborted")
  /\ todo' = [s \in Sweepers |-> IF s = a THEN {} ELSE todo[s]]
  /\ UNCHANGED <<rowVars, overdue, granted, current>>

(* PostgreSQL ends a deadlock of a Release, which holds the hold and wants *)
(* the balance, with a transaction that holds the balance and wants the    *)
(* hold, by aborting one of the two.                                       *)
DeadlockVictim(r, b) ==
  /\ r \in Releases /\ pc[r] = "holding"
  /\ balanceLock = b /\ pc[b] = "locked" /\ Waiting(b) /\ holdLock[HoldRow(b)] = r
  /\ Abort(r) \/ Abort(b)
  /\ UNCHANGED faults

(* The process ends in the middle of a transaction, or before its call.    *)
ProcessDies(a) ==
  /\ pc[a] \notin Ended /\ faults < MaxFaults
  /\ faults' = faults + 1
  /\ Abort(a)

-----------------------------------------------------------------------------

CallStep(c) ==
  \/ LockBalance(c)
  \/ RecordCommit(c)
  \/ ReserveCommit(c) \/ ReserveRefused(c)
  \/ ReleaseBegin(c) \/ ReleaseNothing(c) \/ ReleaseCommit(c)
  \/ SumPeriod(c) \/ GrantCommit(c)

SweepStep(s) == SweepScan(s) \/ SweepPick(s) \/ LockBalance(s) \/ SweepCommit(s)

Deadlocks == \E r \in Releases, b \in Actors : DeadlockVictim(r, b)

Next ==
  \/ \E c \in Calls : CallStep(c)
  \/ \E s \in Sweepers : SweepStep(s)
  \/ \E h \in Holds : Expire(h)
  \/ Deadlocks
  \/ \E a \in Actors : ProcessDies(a)

Spec == Init /\ [][Next]_vars

(* A transaction that has begun is run to its end, the sweeper's timer     *)
(* fires, the clock moves and PostgreSQL resolves deadlocks.  Waiters for  *)
(* a row lock queue, so a Release that waits gets its turn.  Nothing says  *)
(* that a run ever calls Release.                                          *)
Fairness ==
  /\ \A c \in Calls : WF_vars(pc[c] # "idle" /\ CallStep(c))
  /\ \A r \in Releases : SF_vars(LockBalance(r))
  /\ \A s \in Sweepers : WF_vars(SweepStep(s))
  /\ \A h \in Holds : WF_vars(Expire(h))
  /\ WF_vars(Deadlocks)

FairSpec == Spec /\ Fairness

-----------------------------------------------------------------------------
(* Properties.                                                             *)

Stages == {"idle", "summed", "holding", "picked", "locked"} \cup Ended

(* Every variable has its type, and the balance row's lock has one owner.  *)
TypeOK ==
  /\ balance \in Int /\ reserved \in Int
  /\ delta \in [Rows -> Int]
  /\ holdStatus \in [Holds -> {"none", "active", "settled", "expired"}]
  /\ spent \in [Holds -> Nat]
  /\ overdue \subseteq Holds
  /\ balanceLock \in Actors \cup {None}
  /\ holdLock \in [Holds -> Releases \cup {None}]
  /\ pc \in [Actors -> Stages]
  /\ seen \in [Actors -> [balance : Int, reserved : Int]]
  /\ granted \in [Grants -> Nat]
  /\ todo \in [Sweepers -> SUBSET Holds]
  /\ current \in [Sweepers -> Holds \cup {None}]
  /\ faults \in 0..MaxFaults
  /\ \A a \in Actors : pc[a] = "locked" <=> balanceLock = a

(* "The balance is always derivable from sum(delta)" (ledger.go): no       *)
(* update of the cached balance is lost and none is made twice, so         *)
(* Reconcile never reports a drift.                                        *)
BalanceDerivable == balance = Opening + SumFunctionOnSet(delta, Rows)

ActiveHolds == {h \in Holds : holdStatus[h] = "active"}

(* "Reserved is the sum of active holds" (CreditBalance), less what their  *)
(* runs already spent: overshoots, releases, sweeps and crashes neither    *)
(* strand credits nor give a reservation back twice.                       *)
ReservedBacked ==
  reserved = SumFunctionOnSet([h \in Holds |-> Remainder(h)], ActiveHolds)

(* Concurrent runs are never admitted on the same credits: when Reserve    *)
(* commits, the balance of that moment covers every reservation.           *)
AdmissionCovered ==
  [][ \A h \in Holds : holdStatus[h] = "none" /\ holdStatus'[h] = "active"
        => reserved' <= balance' ]_vars

(* Deliveries of one event, however they overlap, credit its target once:  *)
(* one of them has a ledger row, and of no more than the target.           *)
TargetGrantedOnce ==
  \A g, k \in Grants :
    Amount[g] = Amount[k] /\ delta[g] # 0 /\ delta[k] # 0
      => g = k /\ delta[g] \in 1..Amount[g]

(* The interleaved transactions behave as if each happened at one instant. *)
Atomic == INSTANCE AtomicLedger
ImplementsAtomicLedger == Atomic!Spec

(* A reservation does not outlive its run for ever: released, or swept     *)
(* after it expired, also when the run's process is gone (the comment of   *)
(* SweepExpiredHolds).                                                     *)
HoldsReclaimed == \A h \in Holds : holdStatus[h] = "active" ~> holdStatus[h] # "active"

-----------------------------------------------------------------------------
(* Statements of the repository that its code does not keep.               *)

(* "Granting only the shortfall" up to the target of the period            *)
(* (GrantPeriodTo): the period never receives more than its largest target.*)
PeriodBounded == \E g \in Grants : GrantedInPeriod <= Amount[g]

(* "The spend itself is still recorded - the money was spent either way"   *)
(* (settleAgainstHold): a charge that ended, its process alive, has a row. *)
SpendRecorded ==
  faults = 0 => \A c \in Charges : pc[c] \in Ended => delta[c] # 0
=============================================================================
