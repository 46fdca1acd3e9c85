----------------------------- MODULE Admissions -----------------------------
(***************************************************************************)
(* What members and invitations promise an organization, said of people:   *)
(* somebody who stands invited, and nobody else, is admitted, which uses   *)
(* his invitation up; until then it may be withdrawn, and admits nobody    *)
(* any more; and who was admitted stays among the members.  Memberships    *)
(* implements this with letters that are sent again, row locks, and        *)
(* requests that interleave and fail.                                      *)
(***************************************************************************)
CONSTANTS People,        \* everybody with an account
          Founder        \* who made the organization

VARIABLES invited,       \* the people an invitation is open for
          admitted       \* the people who are members, active or not

Init == invited = {} /\ admitted = {Founder}

(* One invitation at a time is open for a person. *)
Invite(p) ==
  /\ p \notin invited
  /\ invited' = invited \cup {p}
  /\ UNCHANGED admitted

Withdraw(p) ==
  /\ p \in invited
  /\ invited' = invited \ {p}
  /\ UNCHANGED admitted

(* A member may be invited again, and is put back as invited. *)
Admit(p) ==
  /\ p \in invited
  /\ invited' = invited \ {p}
  /\ admitted' = admitted \cup {p}

Next == \E p \in People : Invite(p) \/ Withdraw(p) \/ Admit(p)

Spec == Init /\ [][Next]_<<invited, admitted>>
=============================================================================
