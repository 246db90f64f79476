-------------------------------- MODULE Seats --------------------------------
(***************************************************************************)
(* The seats of one organization: invitations and members                   *)
(* (tenancy/invite.go, handlers/members.go) against the quantity that       *)
(* Stripe bills (billing/stripe.go).                                        *)
(*                                                                         *)
(* Transactions run at READ COMMITTED: a statement sees what has committed, *)
(* and only row locks order them.  Two kinds of row are locked here: the    *)
(* organization, and the one invitation an address has.                     *)
(***************************************************************************)
EXTENDS Naturals, FiniteSets, FiniteSetsExt

CONSTANTS People,      \* users, each with one address
          Owners,      \* those who own the organization from the beginning
          Invites,     \* requests to invite somebody
          Accepts,     \* requests to accept an invitation
          Quantities,  \* seat counts that may be ordered
          FirstSeats,  \* the quantity of the subscription at the beginning
          NoOne        \* nobody

\* The subscription begins with a seat for every owner.
ASSUME SeatNumbers == /\ Owners \subseteq People /\ IsFiniteSet(People)
                      /\ Quantities \subseteq Nat /\ FirstSeats \in Quantities
                      /\ Cardinality(Owners) <= FirstSeats
                      /\ NoOne \notin Invites

VARIABLES orgRole,     \* person -> "none", "member" or "owner"
          invitation,  \* address -> "none", "pending", "expired", "revoked", "accepted"
          orgLock,     \* the invite request whose transaction holds the organization row
          inviting,    \* invite request -> [pc, who, paid, members]
          accepting,   \* accept request -> [pc, who]
          removing,    \* person -> their removal passed the check of the owners
          seats,       \* the seat count stored on the organization
          billed,      \* the quantities Stripe has been asked to bill
          overtaken    \* people whose invitation expired while they accepted it

seatVars == <<orgRole, invitation, orgLock, inviting, accepting, removing, seats, billed,
              overtaken>>

Members == {p \in People : orgRole[p] # "none"}
Pending == {p \in People : invitation[p] = "pending"}
OwnersNow == {p \in People : orgRole[p] = "owner"}

Idle == [pc |-> "done", who |-> NoOne, paid |-> 0, members |-> 0]
Dropped(i) == inviting' = [inviting EXCEPT ![i] = Idle]
\* Accept locks the invitation row until it commits.
RowTaken(p) == \E q \in Accepts : accepting[q].pc = "joining" /\ accepting[q].who = p

-----------------------------------------------------------------------------
(* InviteMember.                                                           *)

\* The paid seats and the membership are read before any transaction.
AskInvite(i) ==
    /\ inviting[i].pc = "new"
    /\ \E p \in People \ Members :
          inviting' = [inviting EXCEPT ![i] =
              [pc |-> "asked", who |-> p, paid |-> seats, members |-> 0]]
    /\ UNCHANGED <<orgRole, invitation, orgLock, accepting, removing, seats, billed, overtaken>>

LockOrg(i) ==
    /\ inviting[i].pc = "asked" /\ orgLock = NoOne
    /\ orgLock' = i
    /\ inviting' = [inviting EXCEPT ![i].pc = "locked"]
    /\ UNCHANGED <<orgRole, invitation, accepting, removing, seats, billed, overtaken>>

\* The pending invitation of the address is revoked; the update is not visible to
\* others before the commit, and waits for an Accept that holds the row.
\* Then the members are counted.
CountMembers(i) ==
    /\ inviting[i].pc = "locked"
    /\ invitation[inviting[i].who] \in {"pending", "expired"} => ~RowTaken(inviting[i].who)
    /\ inviting' = [inviting EXCEPT ![i].pc = "counted", ![i].members = Cardinality(Members)]
    /\ UNCHANGED <<orgRole, invitation, orgLock, accepting, removing, seats, billed, overtaken>>

Committed(i) == inviting[i].members + Cardinality(Pending \ {inviting[i].who})
\* Then the invitations, and the seat is granted or refused.
GrantInvite(i) ==
    /\ inviting[i].pc = "counted"
    /\ IF Committed(i) < inviting[i].paid
       THEN /\ invitation' = [invitation EXCEPT ![inviting[i].who] = "pending"]
            /\ inviting' = [inviting EXCEPT ![i].pc = "email"]
       ELSE UNCHANGED invitation /\ Dropped(i)
    /\ orgLock' = NoOne
    /\ UNCHANGED <<orgRole, accepting, removing, seats, billed, overtaken>>

\* Without its email nobody has the link: the invitation is taken back, unless it
\* was accepted or superseded; that failure is ignored.
SendInviteEmail(i) ==
    /\ inviting[i].pc = "email"
    /\ \/ /\ invitation[inviting[i].who] \in {"pending", "expired"} /\ ~RowTaken(inviting[i].who)
          /\ invitation' = [invitation EXCEPT ![inviting[i].who] = "revoked"]
       \/ UNCHANGED invitation
    /\ Dropped(i)
    /\ UNCHANGED <<orgRole, orgLock, accepting, removing, seats, billed, overtaken>>

\* Invite holds the organization and waits for the invitation, Accept the other
\* way round: PostgreSQL aborts one of the two.
AbortDeadlock(i, q) ==
    /\ inviting[i].pc = "locked" /\ accepting[q].pc = "joining"
    /\ inviting[i].who = accepting[q].who
    /\ \/ Dropped(i) /\ orgLock' = NoOne /\ UNCHANGED accepting
       \/ /\ accepting' = [accepting EXCEPT ![q] = [pc |-> "done", who |-> NoOne]]
          /\ UNCHANGED <<inviting, orgLock>>
    /\ UNCHANGED <<orgRole, invitation, removing, seats, billed, overtaken>>

-----------------------------------------------------------------------------
(* Accept, Revoke, RemoveMember.                                           *)

InviteOpen(i, p) == inviting[i].pc = "counted" /\ inviting[i].who = p
\* The row is locked; an open Invite for it may have locked it first.
LockInvitation(q) ==
    /\ accepting[q].pc = "new"
    /\ \E p \in Pending :
          /\ ~RowTaken(p) /\ \A i \in Invites : ~InviteOpen(i, p)
          /\ accepting' = [accepting EXCEPT ![q] = [pc |-> "joining", who |-> p]]
    /\ UNCHANGED <<orgRole, invitation, orgLock, inviting, removing, seats, billed, overtaken>>

\* BugMayJoin does not write the organization row.
BugMayJoin(q) == TRUE
\* A new member also clears the personal flag, and so needs the organization row.
MayJoin(q) == orgRole[accepting[q].who] # "none" \/ orgLock = NoOne
Join(q) ==
    LET p == accepting[q].who IN
    /\ accepting[q].pc = "joining" /\ MayJoin(q)
    /\ orgRole' = [orgRole EXCEPT ![p] = IF @ = "none" THEN "member" ELSE @]
    /\ invitation' = [invitation EXCEPT ![p] = "accepted"]
    /\ accepting' = [accepting EXCEPT ![q] = [pc |-> "done", who |-> NoOne]]
    /\ UNCHANGED <<orgLock, inviting, removing, seats, billed, overtaken>>

RevokeInvite(p) ==
    /\ invitation[p] \in {"pending", "expired"} /\ ~RowTaken(p)
    /\ \A i \in Invites : ~InviteOpen(i, p)
    /\ invitation' = [invitation EXCEPT ![p] = "revoked"]
    /\ UNCHANGED <<orgRole, orgLock, inviting, accepting, removing, seats, billed, overtaken>>

ExpireInvite(p) ==
    /\ p \in Pending
    /\ invitation' = [invitation EXCEPT ![p] = "expired"]
    /\ overtaken' = IF RowTaken(p) THEN overtaken \cup {p} ELSE overtaken
    /\ UNCHANGED <<orgRole, orgLock, inviting, accepting, removing, seats, billed>>

\* The owners are counted and the row is deleted by two statements.
CheckRemoval(p) ==
    /\ p \in Members /\ ~removing[p]
    /\ p \in OwnersNow => Cardinality(OwnersNow) > 1
    /\ removing' = [removing EXCEPT ![p] = TRUE]
    /\ UNCHANGED <<orgRole, invitation, orgLock, inviting, accepting, seats, billed, overtaken>>
DeleteMember(p) ==
    /\ removing[p]
    /\ removing' = [removing EXCEPT ![p] = FALSE]
    /\ orgRole' = [orgRole EXCEPT ![p] = "none"]
    /\ UNCHANGED <<invitation, orgLock, inviting, accepting, seats, billed, overtaken>>

-----------------------------------------------------------------------------
(* SetSeats and the subscription event that follows it.                     *)

\* Members and invitations are counted without a lock; Stripe is asked to bill n.
OrderSeats(n) ==
    /\ n \notin billed
    /\ Cardinality(Members) + Cardinality(Pending) <= n
    /\ billed' = billed \cup {n}
    /\ UNCHANGED <<orgRole, invitation, orgLock, inviting, accepting, removing, seats, overtaken>>
\* Events arrive in any order, also twice, and each one is applied; the update
\* waits for the row an open Invite holds.
ApplySubscription(n) ==
    /\ n \in billed \ {seats} /\ orgLock = NoOne
    /\ seats' = n
    /\ UNCHANGED <<orgRole, invitation, orgLock, inviting, accepting, removing, billed, overtaken>>

-----------------------------------------------------------------------------
InitSeats ==
    /\ orgRole = [p \in People |-> IF p \in Owners THEN "owner" ELSE "none"]
    /\ invitation = [p \in People |-> "none"]
    /\ orgLock = NoOne
    /\ inviting = [i \in Invites |-> [Idle EXCEPT !.pc = "new"]]
    /\ accepting = [q \in Accepts |-> [pc |-> "new", who |-> NoOne]]
    /\ removing = [p \in People |-> FALSE]
    /\ seats = FirstSeats /\ billed = {FirstSeats}
    /\ overtaken = {}

NextSeats ==
    \/ \E i \in Invites : \/ AskInvite(i) \/ LockOrg(i) \/ CountMembers(i) \/ GrantInvite(i)
                          \/ SendInviteEmail(i) \/ \E q \in Accepts : AbortDeadlock(i, q)
    \/ \E q \in Accepts : LockInvitation(q) \/ Join(q)
    \/ \E p \in People : RevokeInvite(p) \/ ExpireInvite(p) \/ CheckRemoval(p) \/ DeleteMember(p)
    \/ \E n \in Quantities : OrderSeats(n) \/ ApplySubscription(n)

SeatSpec == InitSeats /\ [][NextSeats]_seatVars

-----------------------------------------------------------------------------
(* Properties.                                                             *)

SeatsTypeOK ==
    /\ \A p \in People : /\ orgRole[p] \in {"none", "member", "owner"}
                         /\ invitation[p] \in {"none", "pending", "expired", "revoked", "accepted"}
                         /\ removing[p] \in BOOLEAN
    /\ \A i \in Invites : /\ inviting[i].pc \in {"new", "asked", "locked", "counted", "email", "done"}
                          /\ inviting[i].pc \in {"locked", "counted"} <=> orgLock = i
    /\ \A q \in Accepts : accepting[q].pc \in {"new", "joining", "done"}
    /\ seats \in billed /\ billed \subseteq Quantities
    /\ overtaken \subseteq People

\* However invitations, acceptances, removals and subscription events overlap,
\* members and outstanding invitations never take more seats than the largest
\* quantity ever billed.  The exception is an invitation that expires while it is
\* being accepted: its seat may be given away before the acceptance commits
\* (Invite, Seats and Accept).
SeatsNotOversold ==
    Cardinality(Members) + Cardinality(Pending) <= Max(billed) + Cardinality(overtaken)
=============================================================================
