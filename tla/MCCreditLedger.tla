-------------------------- MODULE MCCreditLedger ---------------------------
(***************************************************************************)
(* Small instances of CreditLedger for TLC: runs h1 and h2, charges of run *)
(* h1 and of an interactive surface, the release of h1, and deliveries of  *)
(* two Stripe events of one period.                                        *)
(***************************************************************************)
EXTENDS CreditLedger, TLC

CONSTANTS h1, h2, c1, c2, c3, r1, g1, g2, g3, s1

(* Two charges of run h1 together overshoot its hold; the second run fits  *)
(* only beside what the first one leaves.                                  *)
MCAmount == h1 :> 3 @@ h2 :> 2 @@ c1 :> 2 @@ c2 :> 2 @@ c3 :> 1 @@
            g1 :> 2 @@ g2 :> 3 @@ g3 :> 3

MCHoldOf == c1 :> h1 @@ c2 :> h1 @@ c3 :> None @@ r1 :> h1

Amounts == [a \in Charges \cup Holds \cup Grants |-> MCAmount[a]]
HoldsOf == [a \in Charges \cup Releases |-> MCHoldOf[a]]
=============================================================================
