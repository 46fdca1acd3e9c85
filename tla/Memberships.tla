---------------------------- MODULE Memberships ----------------------------
(***************************************************************************)
(* Members and invitations of one organization, internal/authz.            *)
(*                                                                         *)
(* An invitation is opened for an e-mail while seats are left, sent again  *)
(* with a new token, revoked, or accepted by the user who has the e-mail,  *)
(* in one transaction that locks the invitation's row. Members are changed *)
(* by statements that read the whole row and later write it by its id.     *)
(* Every user here has an e-mail of his own, so a user stands for it. The  *)
(* founder's membership is written with the organization. Permission lists *)
(* are PermissionCache's; custom roles are not deleted here.               *)
(***************************************************************************)
EXTENDS Integers, FiniteSets

CONSTANTS Users, Founder,      \* everybody with an account; who made the organization
          Invitations,         \* bound: invitations ever opened
          Requests,            \* requests in flight at the same time
          Roles,               \* keys of the roles that exist
          Absences,            \* "inactive" and "suspended", which are treated alike
          Seats,               \* organizations.max_seats
          MaxTokens            \* bound: times an invitation is sent

Owner == "owner"
Free == "free"                 \* no transaction holds the row

ASSUME FounderAssumption == Founder \in Users
ASSUME RolesAssumption == Owner \in Roles /\ "none" \notin Roles
ASSUME AbsencesAssumption == Absences \subseteq {"inactive", "suspended"}
ASSUME FreeAssumption == Free \notin Requests
ASSUME BoundsAssumption == Seats \in Nat /\ MaxTokens \in Nat \ {0}

VARIABLES member,              \* each user's row of organization_members
          inv,                 \* each row of organization_invitations
          lock,                \* the transaction that holds the invitation's row
          req                  \* program counter and local variables of each request

vars == <<member, inv, lock, req>>

MemberStatuses == {"active"} \cup Absences
Row == [role : Roles, status : MemberStatuses]
NoRow == [role |-> "none", status |-> "none"]
Settled == {"accepted", "revoked"}
Invitation ==
  [status : {"pending"} \cup Settled, email : Users, token : 1..MaxTokens, late : BOOLEAN]
NoInvitation == [status |-> "none", email |-> Founder, token |-> 1, late |-> FALSE]

Same == "same"                 \* a field the body of PATCH leaves out
Patch == [role : Roles \cup {Same}, status : MemberStatuses \cup {Same}]

Idle == [at |-> "idle"]
Request ==
  [at : {"insert"}, email : Users] \cup
  [at : {"select", "check", "admit"}, user : Users, inv : Invitations, token : 1..MaxTokens] \cup
  [at : {"resend", "revoke"}, inv : Invitations] \cup
  [at : {"read"}, user : Users, patch : Patch] \cup
  [at : {"write"}, user : Users, row : Row]

TypeOK ==
  /\ member \in [Users -> Row \cup {NoRow}]
  /\ inv \in [Invitations -> Invitation \cup {NoInvitation}]
  /\ lock \in [Invitations -> Requests \cup {Free}]
  /\ req \in [Requests -> Request \cup {Idle}]

Init ==
  /\ member = [u \in Users |-> IF u = Founder THEN [role |-> Owner, status |-> "active"]
                                              ELSE NoRow]
  /\ inv = [i \in Invitations |-> NoInvitation]
  /\ lock = [i \in Invitations |-> Free]
  /\ req = [w \in Requests |-> Idle]

Goto(w, r) == req' = [req EXCEPT ![w] = r]

(* Commit and Rollback give back the row w holds. *)
Released(w) == [i \in Invitations |-> IF lock[i] = w THEN Free ELSE lock[i]]

Active == {u \in Users : member[u].status = "active"}

-----------------------------------------------------------------------------
(* Faulty variants of the operators below, each a plausible slip in the    *)
(* code; a checked property has to tell it from the real one.              *)
HeldNot(w, i) == UNCHANGED lock            \* SELECT without FOR UPDATE
AddressedAny(w) ==                         \* the e-mail is not compared
  LET i == req[w].inv IN inv[i].status = "pending" /\ ~inv[i].late
AcceptRefusedLeaks(w) ==                   \* no deferred Rollback on refusal
  /\ req[w].at = "check"
  /\ Goto(w, Idle)
  /\ UNCHANGED <<member, inv, lock>>
MergedFromBody(old, patch) == patch        \* what the body leaves out is written, too

-----------------------------------------------------------------------------
(* InviteMember *)

(* checkSeatLimit: the seats taken now; invitations under way do not count. *)
InviteMember(w, email) ==
  /\ req[w] = Idle
  /\ Cardinality(Active) < Seats
  /\ Goto(w, [at |-> "insert", email |-> email])
  /\ UNCHANGED <<member, inv, lock>>

(* idx_org_invitations_pending_unique *)
Awaited(email) == \E i \in Invitations : inv[i].status = "pending" /\ inv[i].email = email

CreateInvitation(w, i) ==
  /\ req[w].at = "insert"
  /\ inv[i] = NoInvitation
  /\ ~Awaited(req[w].email)
  /\ inv' = [inv EXCEPT ![i] = [status |-> "pending", email |-> req[w].email,
                                token |-> 1, late |-> FALSE]]
  /\ Goto(w, Idle)
  /\ UNCHANGED <<member, lock>>

(* The partial unique index refuses it, or the bound on rows is reached. *)
InviteRefused(w) ==
  /\ req[w].at = "insert"
  /\ Awaited(req[w].email) \/ \A i \in Invitations : inv[i] # NoInvitation
  /\ Goto(w, Idle)
  /\ UNCHANGED <<member, inv, lock>>

-----------------------------------------------------------------------------
(* AcceptInvitation: any user with a token that was once sent *)

AcceptInvitation(w, u, i, t) ==
  /\ req[w] = Idle
  /\ inv[i] # NoInvitation
  /\ t <= inv[i].token
  /\ Goto(w, [at |-> "select", user |-> u, inv |-> i, token |-> t])
  /\ UNCHANGED <<member, inv, lock>>

(* SELECT ... FOR UPDATE: who waited sees the row as it is then. *)
Held(w, i) == lock' = [lock EXCEPT ![i] = w]

AcceptSelect(w) ==
  LET i == req[w].inv IN
  /\ req[w].at = "select"
  /\ inv[i].token = req[w].token
  /\ lock[i] = Free
  /\ Held(w, i)
  /\ Goto(w, [req[w] EXCEPT !.at = "check"])
  /\ UNCHANGED <<member, inv>>

(* ErrInvitationNotFound: a later mail has replaced the token. *)
AcceptUnknown(w) ==
  /\ req[w].at = "select"
  /\ inv[req[w].inv].token # req[w].token
  /\ Goto(w, Idle)
  /\ UNCHANGED <<member, inv, lock>>

(* Pending, in time, and sent to the e-mail of this user. *)
Addressed(w) ==
  LET i == req[w].inv IN
  inv[i].status = "pending" /\ ~inv[i].late /\ inv[i].email = req[w].user

AcceptCheck(w) ==
  /\ req[w].at = "check"
  /\ Addressed(w)
  /\ Goto(w, [req[w] EXCEPT !.at = "admit"])
  /\ UNCHANGED <<member, inv, lock>>

(* The three refusals. The mark 'expired' is rolled back with the rest, so *)
(* a late invitation stays pending and keeps its e-mail from a new one.    *)
AcceptRefused(w) ==
  /\ req[w].at = "check"
  /\ ~Addressed(w)
  /\ lock' = Released(w)
  /\ Goto(w, Idle)
  /\ UNCHANGED <<member, inv>>

(* The member is inserted, or put back as invited whatever he was, and the *)
(* invitation marked, in one commit. Its role may be any there is.         *)
AcceptCommit(w, role) ==
  LET i == req[w].inv IN
  /\ req[w].at = "admit"
  /\ member' = [member EXCEPT ![req[w].user] = [role |-> role, status |-> "active"]]
  /\ inv' = [inv EXCEPT ![i].status = "accepted"]
  /\ lock' = Released(w)
  /\ Goto(w, Idle)

-----------------------------------------------------------------------------
(* ResendInvitation and RevokeInvitation: one UPDATE each, which waits for *)
(* the row and looks at its status again.                                  *)

Manage(w, i, what) ==
  /\ req[w] = Idle
  /\ inv[i] # NoInvitation
  /\ Goto(w, [at |-> what, inv |-> i])
  /\ UNCHANGED <<member, inv, lock>>

Renewed(i) == [inv EXCEPT ![i].token = @ + 1, ![i].late = FALSE]
Resendable(i) == inv[i].status = "pending" /\ inv[i].token < MaxTokens

ResendUpdate(w) ==
  LET i == req[w].inv IN
  /\ req[w].at = "resend"
  /\ lock[i] = Free
  /\ Resendable(i)
  /\ inv' = Renewed(i)
  /\ Goto(w, Idle)
  /\ UNCHANGED <<member, lock>>

RevokeUpdate(w) ==
  LET i == req[w].inv IN
  /\ req[w].at = "revoke"
  /\ lock[i] = Free
  /\ inv[i].status = "pending"
  /\ inv' = [inv EXCEPT ![i].status = "revoked"]
  /\ Goto(w, Idle)
  /\ UNCHANGED <<member, lock>>

(* ErrInvitationNotPending, ErrInvitationNotFound: no row was updated. *)
ManageRefused(w) ==
  /\ req[w].at \in {"resend", "revoke"}
  /\ inv[req[w].inv].status # "pending"
  /\ Goto(w, Idle)
  /\ UNCHANGED <<member, inv, lock>>

(* invitationTTL passes. *)
Expire(i) ==
  /\ inv[i].status = "pending"
  /\ ~inv[i].late
  /\ inv' = [inv EXCEPT ![i].late = TRUE]
  /\ UNCHANGED <<member, lock, req>>

-----------------------------------------------------------------------------
(* UpdateMember and AssignRole. Only the word owner is refused as a role,  *)
(* not the identifier of that role.                                        *)

UpdateMember(w, caller, u, patch) ==
  /\ req[w] = Idle
  /\ caller \in Active
  /\ member[u] # NoRow
  /\ caller = u => patch.role = Same /\ patch.status = Same
  /\ member[u].role = Owner =>
       patch.role = Same /\ patch.status \notin Absences
  /\ Goto(w, [at |-> "read", user |-> u, patch |-> patch])
  /\ UNCHANGED <<member, inv, lock>>

Merged(old, patch) ==
  [role   |-> IF patch.role = Same THEN old.role ELSE patch.role,
   status |-> IF patch.status = Same THEN old.status ELSE patch.status]

(* UpdateMembership: every column is taken from this reading, ... *)
UpdateRead(w) ==
  LET u == req[w].user IN
  /\ req[w].at = "read"
  /\ Goto(w, [at |-> "write", user |-> u, row |-> Merged(member[u], req[w].patch)])
  /\ UNCHANGED <<member, inv, lock>>

(* ... and written by the row's id, whatever has been committed since. *)
UpdateWrite(w) ==
  /\ req[w].at = "write"
  /\ member' = [member EXCEPT ![req[w].user] = req[w].row]
  /\ Goto(w, Idle)
  /\ UNCHANGED <<inv, lock>>

(* Members are never deleted, so what it checks holds when it writes. *)
AssignRole(caller, u, role) ==
  /\ caller \in Active \ {u}
  /\ member[u] # NoRow
  /\ member' = [member EXCEPT ![u].role = role]
  /\ UNCHANGED <<inv, lock, req>>

(* A statement fails, the client is gone or the process dies; an open      *)
(* transaction is rolled back.                                             *)
Fail(w) ==
  /\ req[w] # Idle
  /\ lock' = Released(w)
  /\ Goto(w, Idle)
  /\ UNCHANGED <<member, inv>>

-----------------------------------------------------------------------------
Begin(w) ==
  \/ \E u \in Users : InviteMember(w, u)
  \/ \E u \in Users, i \in Invitations, t \in 1..MaxTokens : AcceptInvitation(w, u, i, t)
  \/ \E i \in Invitations, what \in {"resend", "revoke"} : Manage(w, i, what)
  \/ \E c, u \in Users, p \in Patch : UpdateMember(w, c, u, p)

(* The steps that may have to wait for an invitation's row. *)
Locking(w) == AcceptSelect(w) \/ ResendUpdate(w) \/ RevokeUpdate(w)

Server(w) ==
  \/ InviteRefused(w) \/ \E i \in Invitations : CreateInvitation(w, i)
  \/ AcceptUnknown(w) \/ AcceptCheck(w) \/ AcceptRefused(w)
  \/ \E r \in Roles : AcceptCommit(w, r)
  \/ ManageRefused(w) \/ UpdateRead(w) \/ UpdateWrite(w)

Next ==
  \/ \E w \in Requests : Begin(w) \/ Locking(w) \/ Server(w) \/ Fail(w)
  \/ \E i \in Invitations : Expire(i)
  \/ \E c, u \in Users, r \in Roles : AssignRole(c, u, r)

Spec == Init /\ [][Next]_vars

-----------------------------------------------------------------------------
(* Properties *)

(* Everybody but the founder is a member through an invitation to his own  *)
(* e-mail that was accepted, and every accepted invitation has made its    *)
(* addressee a member: the two tables never disagree, whichever request    *)
(* dies where.                                                             *)
MembersWereInvited ==
  \A u \in Users \ {Founder} :
    member[u] # NoRow <=>
      \E i \in Invitations : inv[i].status = "accepted" /\ inv[i].email = u

(* A decision about an invitation is final: once it was accepted or        *)
(* revoked, no acceptance, second mail or revocation that had already      *)
(* begun moves it again, and none admits a second time.                    *)
InvitationsSettle ==
  [][\A i \in Invitations : inv[i].status \in Settled => inv'[i] = inv[i]]_vars

(* An invitation is only accepted by a request that carries the token of   *)
(* its newest mail, and while nobody has revoked it: a mail sent again or  *)
(* a revocation locks the older letters out even of a request under way.   *)
NewestTokenAdmits ==
  [][\A i \in Invitations :
       (inv[i].status # "accepted" /\ inv'[i].status = "accepted") =>
         /\ inv[i].status = "pending"
         /\ \E w \in Requests :
              req[w].at = "admit" /\ req[w].inv = i /\ req[w].token = inv[i].token]_vars

(* Letters sent again, stale copies of a member's row, row locks and       *)
(* requests that die do not show: each person is invited, withdrawn or     *)
(* admitted in one step, and an open invitation admits him once.           *)
Invited == {u \in Users : Awaited(u)}
Members == {u \in Users : member[u] # NoRow}
Admission == INSTANCE Admissions WITH
  People <- Users, invited <- Invited, admitted <- Members
ImplementsAdmissions == Admission!Spec

(* Whoever holds an invitation's row is still at work on it, and nobody    *)
(* holds two: acceptance gives the row back on every path, so a request    *)
(* that waits for it waits only for one that will commit or roll back.     *)
LocksAreInUse ==
  \A i \in Invitations : lock[i] # Free =>
    req[lock[i]].at \in {"check", "admit"} /\ req[lock[i]].inv = i
=============================================================================
