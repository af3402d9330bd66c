------------------------------ MODULE Joining ------------------------------
(***************************************************************************)
(* What inviting, accepting, registering and deciding promise about one    *)
(* address and one tenant: whatever is done happens in one instant, and    *)
(* only if the rows it rests on allow it at that instant, although a       *)
(* handler reads and locks them one after the other (Membership).          *)
(***************************************************************************)
EXTENDS Naturals, Sequences

CONSTANT Custom    \* roles other than the system's Teacher and Creator

VARIABLES
    account,       \* the users row of the address
    resets,        \* password resets of that account
    elsewhere,     \* is it a live Teacher of some other tenant?
    member,        \* its membership of this tenant
    invitations,   \* sent to it, the oldest first
    requests,      \* to make it a Creator
    admin          \* may the platform administrator decide?

vars == <<account, resets, elsewhere, member, invitations, requests, admin>>

Grantable == {"Teacher"} \cup Custom

Sent(r) == [role |-> r, used |-> FALSE, expired |-> FALSE, accepted |-> FALSE]

Init ==
    /\ account \in {"none", "parent", "person"}
    /\ resets = 0
    /\ elsewhere = FALSE
    /\ member = [state |-> "absent", role |-> "Teacher"]
    /\ invitations \in {<<>>, <<Sent("Creator")>>}
    /\ requests = <<>>
    /\ admin = TRUE

-----------------------------------------------------------------------------
\* Invitations.

\* A new invitation leaves no other one open.
Invite ==
    /\ \E r \in Grantable :
          invitations' = Append([i \in DOMAIN invitations |-> [invitations[i] EXCEPT !.used = TRUE]],
                                Sent(r))
    /\ UNCHANGED <<account, resets, elsewhere, member, requests, admin>>

Revoke(i) ==
    /\ ~invitations[i].used
    /\ invitations' = [invitations EXCEPT ![i].used = TRUE]
    /\ UNCHANGED <<account, resets, elsewhere, member, requests, admin>>

Expire(i) ==
    /\ invitations' = [invitations EXCEPT ![i].expired = TRUE]
    /\ UNCHANGED <<account, resets, elsewhere, member, requests, admin>>

Joins(r) == member' = [state |-> "active", role |-> r]

\* An account that teaches elsewhere, or here, joins as a Teacher, once and not again after it
\* was removed, with an invitation that is open.
Accept(i) ==
    /\ ~invitations[i].used /\ ~invitations[i].expired
    /\ account = "person" /\ invitations[i].role = "Teacher"
    /\ elsewhere \/ (member.state = "active" /\ member.role = "Teacher")
    /\ \/ member.state = "absent" /\ Joins("Teacher")
       \/ member.state = "active" /\ UNCHANGED member
    /\ invitations' = [invitations EXCEPT ![i].used = TRUE, ![i].accepted = TRUE]
    /\ UNCHANGED <<account, resets, elsewhere, requests, admin>>

\* A new account joins with an invitation that nobody used; a Creator's needs its approval.
\* It may expire while the registration is under way.
Register(i) ==
    /\ ~invitations[i].used
    /\ account = "none" /\ member.state = "absent"
    /\ invitations[i].role = "Creator" =>
         \E r \in DOMAIN requests : requests[r].status = "approved" /\ requests[r].invitation = i
    /\ account' = "person"
    /\ Joins(invitations[i].role)
    /\ invitations' = [invitations EXCEPT ![i].used = TRUE]
    /\ UNCHANGED <<resets, elsewhere, requests, admin>>

-----------------------------------------------------------------------------
\* Requests for a Creator.

Submit ==
    /\ \A r \in DOMAIN requests : requests[r].status # "pending"
    /\ \E found \in BOOLEAN :
          /\ found => account # "none"
          /\ requests' = Append(requests,
                [target |-> found, status |-> "pending", invitation |-> 0])
    /\ UNCHANGED <<account, resets, elsewhere, member, invitations, admin>>

Decidable(r) == requests[r].status = "pending" /\ admin

Reject(r) ==
    /\ Decidable(r)
    /\ requests' = [requests EXCEPT ![r].status = "rejected"]
    /\ UNCHANGED <<account, resets, elsewhere, member, invitations, admin>>

\* The account that was there when the Creator was asked for becomes one.
Promote(r) ==
    /\ Decidable(r) /\ requests[r].target
    /\ account = "person"
    /\ member.state = "absent" \/ (member.state = "active" /\ member.role # "Creator")
    /\ Joins("Creator")
    /\ requests' = [requests EXCEPT ![r].status = "approved"]
    /\ UNCHANGED <<account, resets, elsewhere, invitations, admin>>

\* Nobody was there: who registers with this invitation becomes one.
InviteCreator(r) ==
    /\ Decidable(r) /\ ~requests[r].target
    /\ invitations' = Append(invitations, Sent("Creator"))
    /\ requests' = [requests EXCEPT ![r].status = "approved",
                                    ![r].invitation = Len(invitations) + 1]
    /\ UNCHANGED <<account, resets, elsewhere, member, admin>>

-----------------------------------------------------------------------------
\* Members, and what the rest of the system does.

\* The role replaced may be the Creator's: a role change does not lock what it looked at.
ChangeRole ==
    /\ member.state = "active"
    /\ \E r \in Grantable : member' = [member EXCEPT !.role = r]
    /\ UNCHANGED <<account, resets, elsewhere, invitations, requests, admin>>

Remove ==
    /\ member.state = "active"
    /\ member' = [member EXCEPT !.state = "gone"]
    /\ UNCHANGED <<account, resets, elsewhere, invitations, requests, admin>>

Elsewhere ==
    /\ \/ /\ account = "none" /\ account' \in {"parent", "person"}
          /\ UNCHANGED <<resets, elsewhere, admin>>
       \/ /\ account = "person" /\ elsewhere' \in BOOLEAN
          /\ UNCHANGED <<account, resets, admin>>
       \/ /\ account # "none" /\ resets' = resets + 1
          /\ UNCHANGED <<account, elsewhere, admin>>
       \/ /\ admin /\ admin' = FALSE
          /\ UNCHANGED <<account, resets, elsewhere>>
    /\ UNCHANGED <<member, invitations, requests>>

Next ==
    \/ Invite \/ Submit \/ ChangeRole \/ Remove \/ Elsewhere
    \/ \E i \in DOMAIN invitations : Revoke(i) \/ Expire(i) \/ Accept(i) \/ Register(i)
    \/ \E r \in DOMAIN requests : Reject(r) \/ Promote(r) \/ InviteCreator(r)

Spec == Init /\ [][Next]_vars
=============================================================================
