---------------------------- MODULE AtomicLedger ----------------------------
(***************************************************************************)
(* What the credit ledger promises its callers: every charge, reservation, *)
(* release and grant of an organization happens at one instant, against    *)
(* the balance of that instant.  Transactions, row locks, deadlocks and    *)
(* the sweeper's scan are invisible here; CreditLedger implements this     *)
(* module.                                                                 *)
(***************************************************************************)
EXTENDS Integers

CONSTANTS Charges,   \* spends to record
          Holds,     \* reservations, one per run
          Grants,    \* requests to top the period up to a target
          Amount,    \* what a charge costs, a hold reserves, a grant aims at
          HoldOf,    \* the hold a charge settles against, if any
          Opening

VARIABLES balance,     \* credit_balances.balance
          reserved,    \* credit_balances.reserved
          delta,       \* the ledger row of a charge or grant, 0 before it
          holdStatus,  \* "none" until reserved
          spent        \* credit_holds.spent

vars == <<balance, reserved, delta, holdStatus, spent>>

Init == /\ balance = Opening
        /\ reserved = 0
        /\ delta = [c \in Charges \cup Grants |-> 0]
        /\ holdStatus = [h \in Holds |-> "none"]
        /\ spent = [h \in Holds |-> 0]

Remainder(h) == IF spent[h] < Amount[h] THEN Amount[h] - spent[h] ELSE 0

-----------------------------------------------------------------------------

(* A charge is always recorded; it eats into its run's hold while that is  *)
(* still active.                                                           *)
Charge(c) ==
  /\ delta[c] = 0
  /\ delta' = [delta EXCEPT ![c] = -Amount[c]]
  /\ balance' = balance - Amount[c]
  /\ LET h == HoldOf[c] IN
     IF h \in Holds /\ holdStatus[h] = "active"
       THEN /\ spent' = [spent EXCEPT ![h] = @ + Amount[c]]
            /\ reserved' = reserved - (IF Amount[c] < Remainder(h)
                                         THEN Amount[c] ELSE Remainder(h))
       ELSE UNCHANGED <<spent, reserved>>
  /\ UNCHANGED holdStatus

Reserve(h) ==
  /\ holdStatus[h] = "none"
  /\ Amount[h] <= balance - reserved
  /\ holdStatus' = [holdStatus EXCEPT ![h] = "active"]
  /\ reserved' = reserved + Amount[h]
  /\ UNCHANGED <<balance, delta, spent>>

(* Released at the end of its run, or swept: the unused part comes back    *)
(* once.                                                                   *)
Close(h) ==
  /\ holdStatus[h] = "active"
  /\ \E closed \in {"settled", "expired"} :
       holdStatus' = [holdStatus EXCEPT ![h] = closed]
  /\ reserved' = IF reserved > Remainder(h) THEN reserved - Remainder(h) ELSE 0
  /\ UNCHANGED <<balance, delta, spent>>

(* Part of a target, or all of it, and only once for each target.          *)
Grant(g) ==
  /\ \A other \in Grants : Amount[other] = Amount[g] => delta[other] = 0
  /\ \E given \in 1..Amount[g] :
       /\ delta' = [delta EXCEPT ![g] = given]
       /\ balance' = balance + given
  /\ UNCHANGED <<reserved, holdStatus, spent>>

Next == \/ \E c \in Charges : Charge(c)
        \/ \E h \in Holds : Reserve(h) \/ Close(h)
        \/ \E g \in Grants : Grant(g)

Spec == Init /\ [][Next]_vars
=============================================================================
