------------------------- MODULE MembershipsProofs -------------------------
(***************************************************************************)
(* Proofs about Memberships, for any users, invitations, requests and      *)
(* seats.                                                                  *)
(*                                                                         *)
(* The inductive invariant adds to the properties what each request may    *)
(* rely on: an acceptance is of an invitation that was sent, from SELECT   *)
(* ... FOR UPDATE on it holds the row whose token it carries, and once it  *)
(* has checked the invitation that is pending and its user's; an update of *)
(* a member has found him.  The refinement of Admissions needs one thing   *)
(* more, OneOpen: one invitation at most is open for an e-mail.            *)
(***************************************************************************)
EXTENDS Memberships, TLAPS

Holds(w) ==
  req[w].at \in {"check", "admit"} =>
    /\ lock[req[w].inv] = w
    /\ inv[req[w].inv].token = req[w].token

Checked(w) ==
  req[w].at = "admit" =>
    /\ inv[req[w].inv].status = "pending"
    /\ inv[req[w].inv].email = req[w].user

Sent(w) ==
  req[w].at \in {"select", "check", "admit"} => inv[req[w].inv].status # "none"

Found(w) ==
  req[w].at \in {"read", "write"} => member[req[w].user] # NoRow

RequestOK(w) == Sent(w) /\ Holds(w) /\ Checked(w) /\ Found(w)

Inv ==
  /\ TypeOK
  /\ LocksAreInUse
  /\ MembersWereInvited
  /\ \A w \in Requests : RequestOK(w)

(* What a step must leave alone for the request v to stay as it should. *)
Undisturbed(v) ==
  /\ req'[v] = req[v]
  /\ \A i \in Invitations : lock[i] = v =>
       /\ lock'[i] = v
       /\ inv'[i].token = inv[i].token
       /\ inv'[i].status = inv[i].status
       /\ inv'[i].email = inv[i].email
  /\ \A i \in Invitations : inv[i].status # "none" => inv'[i].status # "none"
  /\ \A u \in Users : member[u] # NoRow => member'[u] # NoRow

-----------------------------------------------------------------------------
(* The variants of a request, told apart by how far it is. *)
Insertion == [at : {"insert"}, email : Users]
Acceptance ==
  [at : {"select", "check", "admit"}, user : Users, inv : Invitations, token : 1..MaxTokens]
Management == [at : {"resend", "revoke"}, inv : Invitations]
Reading == [at : {"read"}, user : Users, patch : Patch]
Writing == [at : {"write"}, user : Users, row : Row]

LEMMA RequestShape ==
  ASSUME TypeOK, NEW w \in Requests
  PROVE  /\ req[w].at = "insert" => req[w] \in Insertion
         /\ req[w].at \in {"select", "check", "admit"} => req[w] \in Acceptance
         /\ req[w].at \in {"resend", "revoke"} => req[w] \in Management
         /\ req[w].at = "read" => req[w] \in Reading
         /\ req[w].at = "write" => req[w] \in Writing
<1>1. req[w] \in Insertion \/ req[w] \in Acceptance \/ req[w] \in Management
        \/ req[w] \in Reading \/ req[w] \in Writing \/ req[w] = Idle
  BY DEF TypeOK, Request, Insertion, Acceptance, Management, Reading, Writing
<1>2. CASE req[w] \in Insertion
  BY <1>2 DEF Insertion
<1>3. CASE req[w] \in Acceptance
  BY <1>3 DEF Acceptance
<1>4. CASE req[w] \in Management
  BY <1>4 DEF Management
<1>5. CASE req[w] \in Reading
  BY <1>5 DEF Reading
<1>6. CASE req[w] \in Writing
  BY <1>6 DEF Writing
<1>7. CASE req[w] = Idle
  BY <1>7 DEF Idle
<1> QED BY <1>1, <1>2, <1>3, <1>4, <1>5, <1>6, <1>7

LEMMA RequestFields ==
  ASSUME TypeOK, NEW w \in Requests
  PROVE  /\ req[w].at \in {"select", "check", "admit"} =>
              req[w].user \in Users /\ req[w].inv \in Invitations
         /\ req[w].at \in {"resend", "revoke"} => req[w].inv \in Invitations
         /\ req[w].at \in {"read", "write"} => req[w].user \in Users
  BY RequestShape DEF Acceptance, Management, Reading, Writing

(* A row of a member is never the absent one. *)
LEMMA RowsExist == NoRow \notin Row
  BY RolesAssumption DEF NoRow, Row

LEMMA InitInv == Init => Inv
<1> SUFFICES ASSUME Init PROVE Inv
  OBVIOUS
<1>1. TypeOK
  BY RolesAssumption DEF Init, TypeOK, Row, MemberStatuses
<1>2. LocksAreInUse
  BY DEF Init, LocksAreInUse
<1>3. MembersWereInvited
  BY DEF Init, MembersWereInvited, NoInvitation
<1>4. \A w \in Requests : RequestOK(w)
  BY DEF Init, Idle, RequestOK, Sent, Holds, Checked, Found
<1> QED BY <1>1, <1>2, <1>3, <1>4 DEF Inv

(* A step that does not disturb a request keeps its part of the invariant. *)
LEMMA OthersStay ==
  ASSUME TypeOK, NEW v \in Requests, RequestOK(v), Undisturbed(v)
  PROVE  RequestOK(v)'
<1>1. Holds(v)'
  BY RequestFields DEF RequestOK, Holds, Undisturbed
<1>2. Checked(v)'
  BY RequestFields DEF RequestOK, Holds, Checked, Undisturbed
<1>3. Found(v)'
  BY RequestFields DEF RequestOK, Found, Undisturbed
<1>4. Sent(v)'
  BY RequestFields DEF RequestOK, Sent, Undisturbed
<1> QED BY <1>1, <1>2, <1>3, <1>4 DEF RequestOK

(* What is left to show of a step of the request w. *)
LEMMA StepOfOne ==
  ASSUME Inv, NEW w \in Requests,
         TypeOK', LocksAreInUse', MembersWereInvited', RequestOK(w)',
         \A v \in Requests \ {w} : Undisturbed(v)
  PROVE  Inv'
<1>1. \A v \in Requests \ {w} : RequestOK(v)'
  BY OthersStay DEF Inv
<1> QED BY <1>1 DEF Inv

(* A step that changes the request w alone and neither is nor becomes the  *)
(* holder of a row.                                                        *)
LEMMA LocalStep ==
  ASSUME Inv, NEW w \in Requests, NEW r \in Request \cup {Idle}, Goto(w, r),
         UNCHANGED <<member, inv, lock>>, RequestOK(w)',
         req[w].at \notin {"check", "admit"}
  PROVE  Inv'
<1>1. TypeOK'
  BY DEF Inv, TypeOK, Goto
<1>2. LocksAreInUse'
  BY DEF Inv, TypeOK, LocksAreInUse, Goto
<1>3. MembersWereInvited'
  BY DEF Inv, MembersWereInvited
<1>4. \A v \in Requests \ {w} : Undisturbed(v)
  BY DEF Inv, TypeOK, Goto, Undisturbed
<1> QED BY <1>1, <1>2, <1>3, <1>4, StepOfOne

(* Rows that keep their status and e-mail bear the same members out. *)
LEMMA SameAccepted ==
  ASSUME Inv, UNCHANGED member,
         \A i \in Invitations :
           /\ inv'[i].status = "accepted" <=> inv[i].status = "accepted"
           /\ inv[i].status = "accepted" => inv'[i].email = inv[i].email
  PROVE  MembersWereInvited'
  BY DEF Inv, MembersWereInvited

LEMMA InvitationFields ==
  ASSUME TypeOK, NEW i \in Invitations, inv[i].status = "pending"
  PROVE  inv[i] \in Invitation
  BY DEF TypeOK, NoInvitation

-----------------------------------------------------------------------------
(* One lemma for every action. *)

LEMMA ToIdle ==
  ASSUME Inv, NEW w \in Requests, Goto(w, Idle)
  PROVE  RequestOK(w)'
  BY DEF Inv, TypeOK, Goto, Idle, RequestOK, Sent, Holds, Checked, Found

LEMMA InviteKeeps ==
  ASSUME Inv, NEW w \in Requests, NEW u \in Users, InviteMember(w, u)
  PROVE  Inv'
<1> DEFINE r == [at |-> "insert", email |-> u]
<1>1. r \in Request /\ Goto(w, r)
  BY DEF InviteMember, Request
<1>2. RequestOK(w)'
  BY <1>1 DEF Inv, TypeOK, Goto, RequestOK, Sent, Holds, Checked, Found
<1>3. req[w].at \notin {"check", "admit"}
  BY DEF InviteMember, Idle
<1> QED BY <1>1, <1>2, <1>3, LocalStep DEF InviteMember

LEMMA CreateKeeps ==
  ASSUME Inv, NEW w \in Requests, NEW i \in Invitations, CreateInvitation(w, i)
  PROVE  Inv'
<1> DEFINE new == [status |-> "pending", email |-> req[w].email,
                   token |-> 1, late |-> FALSE]
<1>1. inv' = [inv EXCEPT ![i] = new] /\ inv[i] = NoInvitation /\ req[w].at = "insert"
  BY DEF CreateInvitation
<1>2. new \in Invitation
  BY <1>1, RequestShape, BoundsAssumption DEF Inv, Insertion, Invitation
<1>3. TypeOK'
  BY <1>1, <1>2 DEF Inv, TypeOK, CreateInvitation, Goto
<1>4. LocksAreInUse'
  BY <1>1 DEF Inv, TypeOK, LocksAreInUse, CreateInvitation, Goto
<1>5. \A j \in Invitations :
        /\ inv'[j].status = "accepted" <=> inv[j].status = "accepted"
        /\ inv[j].status = "accepted" => inv'[j].email = inv[j].email
  BY <1>1 DEF Inv, TypeOK, NoInvitation
<1>6. MembersWereInvited'
  BY <1>5, SameAccepted DEF CreateInvitation
<1>7. lock[i] = Free
  <2>1. SUFFICES ASSUME lock[i] # Free PROVE FALSE
    OBVIOUS
  <2>2. lock[i] \in Requests /\ req[lock[i]].at \in {"check", "admit"} /\ req[lock[i]].inv = i
    BY <2>1 DEF Inv, TypeOK, LocksAreInUse
  <2>3. inv[i].status # "none"
    BY <2>2 DEF Inv, RequestOK, Sent
  <2> QED BY <2>3, <1>1 DEF NoInvitation
<1>8. \A v \in Requests \ {w} : Undisturbed(v)
  BY <1>1, <1>7, FreeAssumption DEF Inv, TypeOK, CreateInvitation, Goto, Undisturbed
<1>9. RequestOK(w)'
  BY ToIdle DEF CreateInvitation
<1> QED BY <1>3, <1>4, <1>6, <1>8, <1>9, StepOfOne

LEMMA InviteRefusedKeeps ==
  ASSUME Inv, NEW w \in Requests, InviteRefused(w)
  PROVE  Inv'
  BY ToIdle, LocalStep DEF InviteRefused

LEMMA AcceptKeeps ==
  ASSUME Inv, NEW w \in Requests, NEW u \in Users, NEW i \in Invitations,
         NEW t \in 1..MaxTokens, AcceptInvitation(w, u, i, t)
  PROVE  Inv'
<1> DEFINE r == [at |-> "select", user |-> u, inv |-> i, token |-> t]
<1>1. r \in Request /\ Goto(w, r)
  BY DEF AcceptInvitation, Request
<1>2. inv[i].status # "none"
  BY DEF AcceptInvitation, Inv, TypeOK, Invitation, Settled
<1>3. RequestOK(w)'
  BY <1>1, <1>2 DEF AcceptInvitation, Inv, TypeOK, Goto, RequestOK, Sent, Holds, Checked, Found
<1>4. req[w].at \notin {"check", "admit"}
  BY DEF AcceptInvitation, Idle
<1> QED BY <1>1, <1>3, <1>4, LocalStep DEF AcceptInvitation

LEMMA SelectKeeps ==
  ASSUME Inv, NEW w \in Requests, AcceptSelect(w)
  PROVE  Inv'
<1> DEFINE i == req[w].inv
           r == [req[w] EXCEPT !.at = "check"]
<1>1. /\ req[w] \in Acceptance /\ i \in Invitations /\ req[w].at = "select"
      /\ r \in Request /\ req' = [req EXCEPT ![w] = r]
      /\ lock[i] = Free /\ lock' = [lock EXCEPT ![i] = w]
      /\ inv[i].token = req[w].token
      /\ UNCHANGED <<member, inv>>
  BY RequestShape DEF Inv, AcceptSelect, Held, Goto, Acceptance, Request
<1>2. TypeOK'
  BY <1>1 DEF Inv, TypeOK
<1>3. LocksAreInUse'
  BY <1>1 DEF Inv, TypeOK, LocksAreInUse, Acceptance
<1>4. MembersWereInvited'
  BY <1>1, SameAccepted
<1>5. RequestOK(w)'
  BY <1>1 DEF Inv, TypeOK, RequestOK, Sent, Holds, Checked, Found, Acceptance
<1>6. \A v \in Requests \ {w} : Undisturbed(v)
  BY <1>1, FreeAssumption DEF Inv, TypeOK, Undisturbed
<1> QED BY <1>2, <1>3, <1>4, <1>5, <1>6, StepOfOne

LEMMA UnknownKeeps ==
  ASSUME Inv, NEW w \in Requests, AcceptUnknown(w)
  PROVE  Inv'
  BY ToIdle, LocalStep DEF AcceptUnknown

LEMMA CheckKeeps ==
  ASSUME Inv, NEW w \in Requests, AcceptCheck(w)
  PROVE  Inv'
<1> DEFINE r == [req[w] EXCEPT !.at = "admit"]
<1>1. /\ req[w] \in Acceptance /\ req[w].at = "check"
      /\ r \in Request /\ req' = [req EXCEPT ![w] = r]
      /\ UNCHANGED <<member, inv, lock>>
  BY RequestShape DEF Inv, AcceptCheck, Goto, Acceptance, Request
<1>2. TypeOK'
  BY <1>1 DEF Inv, TypeOK
<1>3. LocksAreInUse'
  BY <1>1 DEF Inv, TypeOK, LocksAreInUse, Acceptance
<1>4. MembersWereInvited'
  BY <1>1, SameAccepted
<1>5. RequestOK(w)'
  BY <1>1 DEF Inv, TypeOK, RequestOK, Sent, Holds, Checked, Found, Acceptance,
              AcceptCheck, Addressed
<1>6. \A v \in Requests \ {w} : Undisturbed(v)
  BY <1>1 DEF Inv, TypeOK, Undisturbed
<1> QED BY <1>2, <1>3, <1>4, <1>5, <1>6, StepOfOne

(* Commit and Rollback: w gives its row back and everybody else keeps his. *)
LEMMA ReleaseKeeps ==
  ASSUME Inv, NEW w \in Requests, lock' = Released(w), Goto(w, Idle)
  PROVE  /\ lock' \in [Invitations -> Requests \cup {Free}]
         /\ LocksAreInUse'
         /\ \A v \in Requests \ {w}, i \in Invitations : lock[i] = v <=> lock'[i] = v
<1>1. lock' \in [Invitations -> Requests \cup {Free}]
  BY DEF Inv, TypeOK, Released
<1>2. \A v \in Requests \ {w}, i \in Invitations : lock[i] = v <=> lock'[i] = v
  BY FreeAssumption DEF Released
<1>3. LocksAreInUse'
  <2>1. SUFFICES ASSUME NEW i \in Invitations, lock'[i] # Free
                 PROVE  req'[lock'[i]].at \in {"check", "admit"} /\ req'[lock'[i]].inv = i
    BY DEF LocksAreInUse
  <2>2. lock'[i] = lock[i] /\ lock[i] # w /\ lock[i] # Free
    BY <2>1 DEF Released
  <2>3. req'[lock[i]] = req[lock[i]]
    BY <2>2 DEF Inv, TypeOK, Goto
  <2> QED BY <2>2, <2>3 DEF Inv, LocksAreInUse
<1> QED BY <1>1, <1>2, <1>3

LEMMA RefusedKeeps ==
  ASSUME Inv, NEW w \in Requests, AcceptRefused(w) \/ Fail(w)
  PROVE  Inv'
<1>1. lock' = Released(w) /\ Goto(w, Idle) /\ UNCHANGED <<member, inv>>
  BY DEF AcceptRefused, Fail
<1>2. TypeOK'
  BY <1>1, ReleaseKeeps DEF Inv, TypeOK, Goto
<1>3. MembersWereInvited'
  BY <1>1, SameAccepted
<1>4. \A v \in Requests \ {w} : Undisturbed(v)
  BY <1>1, ReleaseKeeps DEF Inv, TypeOK, Goto, Undisturbed
<1> QED BY <1>1, <1>2, <1>3, <1>4, ReleaseKeeps, ToIdle, StepOfOne

LEMMA CommitKeeps ==
  ASSUME Inv, NEW w \in Requests, NEW role \in Roles, AcceptCommit(w, role)
  PROVE  Inv'
<1> DEFINE i == req[w].inv
           u == req[w].user
           new == [role |-> role, status |-> "active"]
<1>1. /\ u \in Users /\ i \in Invitations /\ req[w].at = "admit"
      /\ member' = [member EXCEPT ![u] = new]
      /\ inv' = [inv EXCEPT ![i].status = "accepted"]
      /\ lock' = Released(w) /\ Goto(w, Idle)
  BY RequestFields DEF Inv, AcceptCommit
<1>2. inv[i].status = "pending" /\ inv[i].email = u /\ lock[i] = w
  BY <1>1 DEF Inv, RequestOK, Checked, Holds
<1>3. inv[i] \in Invitation
  BY <1>1, <1>2, InvitationFields DEF Inv
<1>4. /\ inv'[i].status = "accepted" /\ inv'[i].email = u
      /\ inv' \in [Invitations -> Invitation \cup {NoInvitation}]
      /\ \A j \in Invitations \ {i} : inv'[j] = inv[j]
  BY <1>1, <1>2, <1>3 DEF Inv, TypeOK, Invitation, Settled
<1>5. new \in Row /\ new # NoRow
  BY RowsExist DEF Row, MemberStatuses
<1>6. TypeOK'
  BY <1>1, <1>4, <1>5, ReleaseKeeps DEF Inv, TypeOK, Goto
<1>7. MembersWereInvited'
  <2>1. SUFFICES ASSUME NEW x \in Users \ {Founder}
                 PROVE  member'[x] # NoRow <=>
                          \E j \in Invitations : inv'[j].status = "accepted" /\ inv'[j].email = x
    BY DEF MembersWereInvited
  <2>2. CASE x = u
    BY <2>2, <1>1, <1>4, <1>5 DEF Inv, TypeOK
  <2>3. CASE x # u
    <3>1. member'[x] = member[x]
      BY <2>3, <1>1 DEF Inv, TypeOK
    <3>2. \A j \in Invitations :
            (inv'[j].status = "accepted" /\ inv'[j].email = x) <=>
              (inv[j].status = "accepted" /\ inv[j].email = x)
      BY <2>3, <1>2, <1>4
    <3>3. member[x] # NoRow <=>
            \E j \in Invitations : inv[j].status = "accepted" /\ inv[j].email = x
      BY DEF Inv, MembersWereInvited
    <3> QED BY <3>1, <3>2, <3>3
  <2> QED BY <2>2, <2>3
<1>8. ASSUME NEW v \in Requests \ {w} PROVE Undisturbed(v)
  <2>1. req'[v] = req[v]
    BY <1>1 DEF Inv, TypeOK, Goto
  <2>2. \A j \in Invitations : lock[j] = v => lock'[j] = v /\ inv'[j] = inv[j]
    BY <1>1, <1>2, <1>4, ReleaseKeeps
  <2>3. \A j \in Invitations : inv[j].status # "none" => inv'[j].status # "none"
    BY <1>4
  <2>4. \A x \in Users : member[x] # NoRow => member'[x] # NoRow
    BY <1>1, <1>5 DEF Inv, TypeOK
  <2> QED BY <2>1, <2>2, <2>3, <2>4 DEF Undisturbed
<1> QED BY <1>1, <1>6, <1>7, <1>8, ReleaseKeeps, ToIdle, StepOfOne

LEMMA ManageKeeps ==
  ASSUME Inv, NEW w \in Requests, NEW i \in Invitations, NEW what \in {"resend", "revoke"},
         Manage(w, i, what)
  PROVE  Inv'
<1> DEFINE r == [at |-> what, inv |-> i]
<1>1. r \in Request /\ Goto(w, r)
  BY DEF Manage, Request
<1>2. RequestOK(w)'
  BY <1>1 DEF Inv, TypeOK, Goto, RequestOK, Sent, Holds, Checked, Found
<1>3. req[w].at \notin {"check", "admit"}
  BY DEF Manage, Idle
<1> QED BY <1>1, <1>2, <1>3, LocalStep DEF Manage

(* A row nobody holds changes without becoming or ceasing to be accepted. *)
LEMMA FreeRowKeeps ==
  ASSUME Inv, NEW w \in Requests, NEW i \in Invitations, NEW new \in Invitation,
         lock[i] = Free, new.status # "accepted", inv[i].status # "accepted",
         req[w].at \notin {"check", "admit"}, Goto(w, Idle),
         inv' = [inv EXCEPT ![i] = new], UNCHANGED <<member, lock>>
  PROVE  Inv'
<1>1. TypeOK'
  BY DEF Inv, TypeOK, Goto
<1>2. LocksAreInUse'
  BY DEF Inv, TypeOK, LocksAreInUse, Goto
<1>3. MembersWereInvited'
  BY SameAccepted DEF Inv, TypeOK
<1>4. new.status # "none"
  BY DEF Invitation, Settled
<1>5. \A v \in Requests \ {w} : Undisturbed(v)
  BY <1>4, FreeAssumption DEF Inv, TypeOK, Goto, Undisturbed
<1> QED BY <1>1, <1>2, <1>3, <1>5, ToIdle, StepOfOne

LEMMA ResendKeeps ==
  ASSUME Inv, NEW w \in Requests, ResendUpdate(w)
  PROVE  Inv'
<1> DEFINE i == req[w].inv
           new == [inv[i] EXCEPT !.token = @ + 1, !.late = FALSE]
<1>1. i \in Invitations /\ inv[i] \in Invitation
  BY RequestFields, InvitationFields DEF Inv, ResendUpdate, Resendable
<1>2. inv' = [inv EXCEPT ![i] = new]
  BY <1>1 DEF Inv, TypeOK, ResendUpdate, Renewed, Invitation
<1>3. inv[i].token + 1 \in 1..MaxTokens
  BY <1>1, BoundsAssumption DEF ResendUpdate, Resendable, Invitation
<1>4. new \in Invitation /\ new.status = "pending"
  BY <1>1, <1>3 DEF ResendUpdate, Resendable, Invitation
<1> QED BY <1>1, <1>2, <1>4, FreeRowKeeps DEF ResendUpdate, Resendable

LEMMA RevokeKeeps ==
  ASSUME Inv, NEW w \in Requests, RevokeUpdate(w)
  PROVE  Inv'
<1> DEFINE i == req[w].inv
           new == [inv[i] EXCEPT !.status = "revoked"]
<1>1. i \in Invitations /\ inv[i] \in Invitation
  BY RequestFields, InvitationFields DEF Inv, RevokeUpdate
<1>2. inv' = [inv EXCEPT ![i] = new]
  BY <1>1 DEF Inv, TypeOK, RevokeUpdate, Invitation
<1>3. new \in Invitation /\ new.status = "revoked"
  BY <1>1 DEF Invitation, Settled
<1> QED BY <1>1, <1>2, <1>3, FreeRowKeeps DEF RevokeUpdate

LEMMA ManageRefusedKeeps ==
  ASSUME Inv, NEW w \in Requests, ManageRefused(w)
  PROVE  Inv'
  BY ToIdle, LocalStep DEF ManageRefused

LEMMA ExpireKeeps ==
  ASSUME Inv, NEW i \in Invitations, Expire(i)
  PROVE  Inv'
<1>1. inv[i] \in Invitation
  BY InvitationFields DEF Inv, Expire
<1>2. /\ inv' \in [Invitations -> Invitation \cup {NoInvitation}]
      /\ \A j \in Invitations : /\ inv'[j].status = inv[j].status
                                /\ inv'[j].token = inv[j].token
                                /\ inv'[j].email = inv[j].email
  BY <1>1 DEF Inv, TypeOK, Expire, Invitation
<1>3. TypeOK' /\ LocksAreInUse'
  BY <1>2 DEF Inv, TypeOK, LocksAreInUse, Expire
<1>4. MembersWereInvited'
  BY <1>2, SameAccepted DEF Expire
<1>5. \A v \in Requests : Undisturbed(v)
  BY <1>2 DEF Expire, Undisturbed
<1>6. \A v \in Requests : RequestOK(v)'
  BY <1>5, OthersStay DEF Inv
<1> QED BY <1>3, <1>4, <1>6 DEF Inv

-----------------------------------------------------------------------------
(* The changes of members. *)

LEMMA MergedIsRow ==
  ASSUME NEW old \in Row, NEW patch \in Patch
  PROVE  Merged(old, patch) \in Row
  BY DEF Merged, Row, Patch, MemberStatuses

LEMMA UpdateKeeps ==
  ASSUME Inv, NEW w \in Requests, NEW caller \in Users, NEW u \in Users, NEW patch \in Patch,
         UpdateMember(w, caller, u, patch)
  PROVE  Inv'
<1> DEFINE r == [at |-> "read", user |-> u, patch |-> patch]
<1>1. r \in Request /\ Goto(w, r)
  BY DEF UpdateMember, Request
<1>2. RequestOK(w)'
  BY <1>1 DEF UpdateMember, Inv, TypeOK, Goto, RequestOK, Sent, Holds, Checked, Found
<1>3. req[w].at \notin {"check", "admit"}
  BY DEF UpdateMember, Idle
<1> QED BY <1>1, <1>2, <1>3, LocalStep DEF UpdateMember

LEMMA ReadKeeps ==
  ASSUME Inv, NEW w \in Requests, UpdateRead(w)
  PROVE  Inv'
<1> DEFINE u == req[w].user
           r == [at |-> "write", user |-> u, row |-> Merged(member[u], req[w].patch)]
<1>1. u \in Users /\ req[w].patch \in Patch /\ req[w].at = "read"
  BY RequestShape DEF Inv, UpdateRead, Reading
<1>2. member[u] \in Row /\ member[u] # NoRow
  BY <1>1 DEF Inv, TypeOK, RequestOK, Found
<1>3. r \in Request /\ Goto(w, r)
  BY <1>1, <1>2, MergedIsRow DEF UpdateRead, Request
<1>4. RequestOK(w)'
  BY <1>2, <1>3 DEF UpdateRead, Inv, TypeOK, Goto, RequestOK, Sent, Holds, Checked, Found
<1> QED BY <1>1, <1>3, <1>4, LocalStep DEF UpdateRead

(* A member's row may change in any way but come or go. *)
LEMMA SameMembers ==
  ASSUME Inv, NEW u \in Users, NEW new \in Row, member[u] # NoRow,
         member' = [member EXCEPT ![u] = new], UNCHANGED inv
  PROVE  /\ member' \in [Users -> Row \cup {NoRow}]
         /\ MembersWereInvited'
         /\ \A x \in Users : member[x] # NoRow <=> member'[x] # NoRow
<1>1. \A x \in Users : member[x] # NoRow <=> member'[x] # NoRow
  BY RowsExist DEF Inv, TypeOK
<1>2. MembersWereInvited'
  BY <1>1 DEF Inv, MembersWereInvited
<1>3. member' \in [Users -> Row \cup {NoRow}]
  BY DEF Inv, TypeOK
<1> QED BY <1>1, <1>2, <1>3

LEMMA WriteKeeps ==
  ASSUME Inv, NEW w \in Requests, UpdateWrite(w)
  PROVE  Inv'
<1> DEFINE u == req[w].user
           new == req[w].row
<1>1. u \in Users /\ new \in Row /\ req[w].at = "write"
  BY RequestShape DEF Inv, UpdateWrite, Writing
<1>2. member[u] # NoRow
  BY <1>1 DEF Inv, RequestOK, Found
<1>3. member' = [member EXCEPT ![u] = new] /\ UNCHANGED <<inv, lock>> /\ Goto(w, Idle)
  BY DEF UpdateWrite
<1>4. TypeOK'
  BY <1>1, <1>2, <1>3, SameMembers DEF Inv, TypeOK, Goto
<1>5. LocksAreInUse'
  BY <1>1, <1>3 DEF Inv, TypeOK, LocksAreInUse, Goto
<1>6. \A v \in Requests \ {w} : Undisturbed(v)
  BY <1>1, <1>2, <1>3, SameMembers DEF Inv, TypeOK, Goto, Undisturbed
<1> QED BY <1>1, <1>2, <1>3, <1>4, <1>5, <1>6, SameMembers, ToIdle, StepOfOne

LEMMA AssignKeeps ==
  ASSUME Inv, NEW caller \in Users, NEW u \in Users, NEW role \in Roles,
         AssignRole(caller, u, role)
  PROVE  Inv'
<1> DEFINE new == [member[u] EXCEPT !.role = role]
<1>1. member[u] # NoRow /\ member[u] \in Row
  BY DEF Inv, TypeOK, AssignRole
<1>2. new \in Row /\ member' = [member EXCEPT ![u] = new] /\ UNCHANGED <<inv, lock, req>>
  BY <1>1 DEF Inv, TypeOK, AssignRole, Row
<1>3. TypeOK' /\ LocksAreInUse'
  BY <1>1, <1>2, SameMembers DEF Inv, TypeOK, LocksAreInUse
<1>4. \A v \in Requests : Undisturbed(v)
  BY <1>1, <1>2, SameMembers DEF Undisturbed
<1>5. \A v \in Requests : RequestOK(v)'
  BY <1>4, OthersStay DEF Inv
<1> QED BY <1>1, <1>2, <1>3, <1>5, SameMembers DEF Inv

-----------------------------------------------------------------------------
LEMMA NextInv == Inv /\ [Next]_vars => Inv'
<1> SUFFICES ASSUME Inv, [Next]_vars PROVE Inv'
  OBVIOUS
<1>1. CASE UNCHANGED vars
  <2>1. TypeOK' /\ LocksAreInUse' /\ MembersWereInvited'
    BY <1>1 DEF Inv, vars, TypeOK, LocksAreInUse, MembersWereInvited
  <2>2. \A v \in Requests : RequestOK(v)'
    BY <1>1 DEF Inv, vars, RequestOK, Sent, Holds, Checked, Found
  <2> QED BY <2>1, <2>2 DEF Inv
<1>2. ASSUME NEW w \in Requests, Begin(w) PROVE Inv'
  BY <1>2, InviteKeeps, AcceptKeeps, ManageKeeps, UpdateKeeps DEF Begin
<1>3. ASSUME NEW w \in Requests, Locking(w) PROVE Inv'
  BY <1>3, SelectKeeps, ResendKeeps, RevokeKeeps DEF Locking
<1>4. ASSUME NEW w \in Requests, Server(w) PROVE Inv'
  BY <1>4, InviteRefusedKeeps, CreateKeeps, UnknownKeeps, CheckKeeps, RefusedKeeps,
     CommitKeeps, ManageRefusedKeeps, ReadKeeps, WriteKeeps DEF Server
<1>5. ASSUME NEW w \in Requests, Fail(w) PROVE Inv'
  BY <1>5, RefusedKeeps
<1>6. ASSUME NEW i \in Invitations, Expire(i) PROVE Inv'
  BY <1>6, ExpireKeeps
<1>7. ASSUME NEW c \in Users, NEW u \in Users, NEW r \in Roles, AssignRole(c, u, r) PROVE Inv'
  BY <1>7, AssignKeeps
<1> QED BY <1>1, <1>2, <1>3, <1>4, <1>5, <1>6, <1>7 DEF Next

LEMMA AlwaysInv == Spec => []Inv
  BY InitInv, NextInv, PTL DEF Spec

(* Every reachable state is well typed, for any users, invitations and     *)
(* requests; in particular no half-filled row of a member is ever written. *)
THEOREM MembershipsTypes == Spec => []TypeOK
<1>1. Inv => TypeOK
  BY DEF Inv
<1> QED BY <1>1, AlwaysInv, PTL

(* The members and the accepted invitations agree, for any number of       *)
(* requests that accept, revoke, resend, update and die at once.           *)
THEOREM MembershipsWereInvited == Spec => []MembersWereInvited
<1>1. Inv => MembersWereInvited
  BY DEF Inv
<1> QED BY <1>1, AlwaysInv, PTL

(* No row of an invitation is ever left locked. *)
THEOREM MembershipsLocks == Spec => []LocksAreInUse
<1>1. Inv => LocksAreInUse
  BY DEF Inv
<1> QED BY <1>1, AlwaysInv, PTL

-----------------------------------------------------------------------------
(* The two action properties: only the commit of an acceptance accepts. *)

LEMMA StepsOfInvitations ==
  ASSUME Inv, [Next]_vars
  PROVE  \A i \in Invitations :
           /\ inv[i].status \in Settled => inv'[i] = inv[i]
           /\ (inv[i].status # "accepted" /\ inv'[i].status = "accepted") =>
                \E w \in Requests, r \in Roles : AcceptCommit(w, r) /\ req[w].inv = i
<1> DEFINE Good == \A i \in Invitations :
             /\ inv[i].status \in Settled => inv'[i] = inv[i]
             /\ (inv[i].status # "accepted" /\ inv'[i].status = "accepted") =>
                  \E w \in Requests, r \in Roles : AcceptCommit(w, r) /\ req[w].inv = i
<1> SUFFICES Good
  OBVIOUS
<1>1. CASE UNCHANGED inv
  BY <1>1
<1>2. ASSUME NEW w \in Requests, NEW j \in Invitations, CreateInvitation(w, j) PROVE Good
  BY <1>2 DEF Inv, TypeOK, CreateInvitation, NoInvitation, Settled
<1>3. ASSUME NEW w \in Requests, NEW r \in Roles, AcceptCommit(w, r) PROVE Good
  <2>1. req[w].inv \in Invitations /\ inv[req[w].inv].status = "pending"
    BY <1>3, RequestFields DEF Inv, AcceptCommit, RequestOK, Checked
  <2> QED BY <1>3, <2>1 DEF Inv, TypeOK, AcceptCommit, Settled
<1>4. ASSUME NEW w \in Requests, ResendUpdate(w) PROVE Good
  <2>1. req[w].inv \in Invitations /\ inv[req[w].inv] \in Invitation
    BY <1>4, RequestFields, InvitationFields DEF Inv, ResendUpdate, Resendable
  <2> QED BY <1>4, <2>1 DEF Inv, TypeOK, ResendUpdate, Resendable, Renewed, Settled, Invitation
<1>5. ASSUME NEW w \in Requests, RevokeUpdate(w) PROVE Good
  <2>1. req[w].inv \in Invitations /\ inv[req[w].inv] \in Invitation
    BY <1>5, RequestFields, InvitationFields DEF Inv, RevokeUpdate
  <2> QED BY <1>5, <2>1 DEF Inv, TypeOK, RevokeUpdate, Settled, Invitation
<1>6. ASSUME NEW j \in Invitations, Expire(j) PROVE Good
  <2>1. inv[j] \in Invitation
    BY <1>6, InvitationFields DEF Inv, Expire
  <2> QED BY <1>6, <2>1 DEF Inv, TypeOK, Expire, Settled, Invitation
<1>7. \/ UNCHANGED inv
      \/ \E w \in Requests : \/ \E j \in Invitations : CreateInvitation(w, j)
                             \/ \E r \in Roles : AcceptCommit(w, r)
                             \/ ResendUpdate(w) \/ RevokeUpdate(w)
      \/ \E j \in Invitations : Expire(j)
  BY DEF Next, vars, Begin, Locking, Server, InviteMember, InviteRefused, AcceptInvitation,
         AcceptSelect, AcceptUnknown, AcceptCheck, AcceptRefused, Manage, ManageRefused,
         UpdateMember, UpdateRead, UpdateWrite, AssignRole, Fail
<1> QED BY <1>1, <1>2, <1>3, <1>4, <1>5, <1>6, <1>7

(* What was decided about an invitation is final, whatever had begun. *)
THEOREM MembershipsSettle == Spec => InvitationsSettle
<1> DEFINE A == \A i \in Invitations : inv[i].status \in Settled => inv'[i] = inv[i]
<1>1. Inv /\ [Next]_vars => [A]_vars
  BY StepsOfInvitations
<1> QED BY <1>1, AlwaysInv, PTL DEF Spec, InvitationsSettle

(* Only a request with the newest token accepts, and only what is pending. *)
THEOREM MembershipsNewestToken == Spec => NewestTokenAdmits
<1> DEFINE A == \A i \in Invitations :
                  (inv[i].status # "accepted" /\ inv'[i].status = "accepted") =>
                    /\ inv[i].status = "pending"
                    /\ \E w \in Requests :
                         req[w].at = "admit" /\ req[w].inv = i /\ req[w].token = inv[i].token
<1>1. Inv /\ [Next]_vars => [A]_vars
  <2> SUFFICES ASSUME Inv, [Next]_vars, NEW i \in Invitations,
                      inv[i].status # "accepted", inv'[i].status = "accepted"
               PROVE  /\ inv[i].status = "pending"
                      /\ \E w \in Requests :
                           req[w].at = "admit" /\ req[w].inv = i /\ req[w].token = inv[i].token
    OBVIOUS
  <2>1. PICK w \in Requests, r \in Roles : AcceptCommit(w, r) /\ req[w].inv = i
    BY StepsOfInvitations
  <2> QED BY <2>1 DEF Inv, RequestOK, Holds, Checked, AcceptCommit
<1> QED BY <1>1, AlwaysInv, PTL DEF Spec, NewestTokenAdmits
-----------------------------------------------------------------------------
(* The refinement of Admissions.  It needs that one open invitation at     *)
(* most is for each e-mail: otherwise an acceptance or a revocation would  *)
(* leave its person invited.                                               *)
OneOpen ==
  \A i, j \in Invitations :
    inv[i].status = "pending" /\ inv[j].status = "pending" /\ inv[i].email = inv[j].email
      => i = j

Whole == Inv /\ OneOpen

(* What a step has to do for the refinement. *)
Good == OneOpen' /\ [Admission!Next]_<<Invited, Members>>

(* A step after which the same invitations are open, and the same people   *)
(* members, does not show.                                                 *)
LEMMA NothingShows ==
  ASSUME Whole, \A u \in Users : member[u] # NoRow <=> member'[u] # NoRow,
         \A i \in Invitations :
           /\ inv[i].status = "pending" <=> inv'[i].status = "pending"
           /\ inv[i].status = "pending" => inv'[i].email = inv[i].email
  PROVE  Good
<1>1. OneOpen'
  BY DEF Whole, OneOpen
<1>2. \A u \in Users : Awaited(u)' <=> Awaited(u)
  BY DEF Awaited
<1>3. Invited' = Invited /\ Members' = Members
  BY <1>2 DEF Invited, Members
<1> QED BY <1>1, <1>3 DEF Good

(* An invitation that was accepted or revoked was its person's only one.   *)
LEMMA ClosesOne ==
  ASSUME Whole, NEW i \in Invitations, inv[i].status = "pending",
         NEW s \in Settled, inv' = [inv EXCEPT ![i].status = s]
  PROVE  /\ OneOpen'
         /\ inv[i].email \in Invited
         /\ Invited' = Invited \ {inv[i].email}
<1>1. inv[i] \in Invitation
  BY InvitationFields DEF Whole, Inv
<1>2. /\ inv'[i].status # "pending"
      /\ \A j \in Invitations \ {i} : inv'[j] = inv[j]
  BY <1>1 DEF Whole, Inv, TypeOK, Invitation, Settled
<1>3. OneOpen'
  BY <1>2 DEF Whole, OneOpen
<1>4. inv[i].email \in Users /\ Awaited(inv[i].email)
  BY <1>1 DEF Awaited, Invitation
<1>5. ~Awaited(inv[i].email)'
  BY <1>2 DEF Whole, OneOpen, Awaited
<1>6. \A u \in Users : u # inv[i].email => (Awaited(u)' <=> Awaited(u))
  BY <1>2 DEF Awaited
<1> QED BY <1>3, <1>4, <1>5, <1>6 DEF Invited

LEMMA CreateInvites ==
  ASSUME Whole, NEW w \in Requests, NEW i \in Invitations, CreateInvitation(w, i)
  PROVE  Good
<1> PICK u \in Users : u = req[w].email
  BY RequestShape DEF Whole, Inv, CreateInvitation, Insertion
<1>1. /\ ~Awaited(u)
      /\ inv[i] = NoInvitation
      /\ inv'[i].status = "pending" /\ inv'[i].email = u
      /\ \A j \in Invitations \ {i} : inv'[j] = inv[j]
      /\ member' = member
  BY DEF Whole, Inv, TypeOK, CreateInvitation
<1>2. inv[i].status # "pending"
  BY <1>1 DEF NoInvitation
<1>3. OneOpen'
  BY <1>1 DEF Whole, OneOpen, Awaited
<1>4. Awaited(u)'
  BY <1>1 DEF Awaited
<1>5. \A x \in Users : x # u => (Awaited(x)' <=> Awaited(x))
  BY <1>1, <1>2 DEF Awaited
<1>6. u \notin Invited /\ Invited' = Invited \cup {u} /\ Members' = Members
  BY <1>1, <1>4, <1>5 DEF Invited, Members
<1>7. Admission!Invite(u)
  BY <1>6 DEF Admission!Invite
<1> QED BY <1>1, <1>3, <1>7 DEF Good, Admission!Next

LEMMA CommitAdmits ==
  ASSUME Whole, NEW w \in Requests, NEW role \in Roles, AcceptCommit(w, role)
  PROVE  Good
<1> DEFINE i == req[w].inv
           u == req[w].user
<1>1. /\ u \in Users /\ i \in Invitations /\ req[w].at = "admit"
      /\ member' = [member EXCEPT ![u] = [role |-> role, status |-> "active"]]
      /\ inv' = [inv EXCEPT ![i].status = "accepted"]
  BY RequestFields DEF Whole, Inv, AcceptCommit
<1>2. inv[i].status = "pending" /\ inv[i].email = u
  BY <1>1 DEF Whole, Inv, RequestOK, Checked
<1>3. OneOpen' /\ u \in Invited /\ Invited' = Invited \ {u}
  BY <1>1, <1>2, ClosesOne DEF Settled
<1>4. member'[u] # NoRow /\ \A x \in Users \ {u} : member'[x] = member[x]
  BY <1>1, RowsExist DEF Whole, Inv, TypeOK, Row, MemberStatuses
<1>5. Members' = Members \cup {u}
  BY <1>1, <1>4 DEF Members
<1>6. Admission!Admit(u)
  BY <1>3, <1>5 DEF Admission!Admit
<1> QED BY <1>1, <1>3, <1>6 DEF Good, Admission!Next

LEMMA RevokeWithdraws ==
  ASSUME Whole, NEW w \in Requests, RevokeUpdate(w)
  PROVE  Good
<1> DEFINE i == req[w].inv
<1>1. /\ i \in Invitations /\ inv[i].status = "pending"
      /\ inv' = [inv EXCEPT ![i].status = "revoked"]
      /\ member' = member
  BY RequestFields DEF Whole, Inv, RevokeUpdate
<1>2. inv[i].email \in Users
  BY <1>1, InvitationFields DEF Whole, Inv, Invitation
<1>3. OneOpen' /\ inv[i].email \in Invited /\ Invited' = Invited \ {inv[i].email}
  BY <1>1, ClosesOne DEF Settled
<1>4. Members' = Members
  BY <1>1 DEF Members
<1>5. Admission!Withdraw(inv[i].email)
  BY <1>3, <1>4 DEF Admission!Withdraw
<1> QED BY <1>2, <1>3, <1>5 DEF Good, Admission!Next

LEMMA StepAdmits ==
  ASSUME Whole, [Next]_vars
  PROVE  Good
<1>1. CASE UNCHANGED <<member, inv>>
  BY <1>1, NothingShows
<1>2. ASSUME NEW w \in Requests, ResendUpdate(w) PROVE Good
  <2>1. /\ req[w].inv \in Invitations /\ inv[req[w].inv] \in Invitation
        /\ inv' = Renewed(req[w].inv) /\ member' = member
    BY <1>2, RequestFields, InvitationFields DEF Whole, Inv, ResendUpdate, Resendable
  <2>2. \A i \in Invitations : inv'[i].status = inv[i].status /\ inv'[i].email = inv[i].email
    BY <2>1 DEF Whole, Inv, TypeOK, Renewed, Invitation
  <2> QED BY <2>1, <2>2, NothingShows
<1>3. ASSUME NEW j \in Invitations, Expire(j) PROVE Good
  <2>1. inv[j] \in Invitation /\ member' = member
    BY <1>3, InvitationFields DEF Whole, Inv, Expire
  <2>2. \A i \in Invitations : inv'[i].status = inv[i].status /\ inv'[i].email = inv[i].email
    BY <1>3, <2>1 DEF Whole, Inv, TypeOK, Expire, Invitation
  <2> QED BY <2>1, <2>2, NothingShows
<1>4. ASSUME NEW w \in Requests, UpdateWrite(w) PROVE Good
  <2>1. req[w].user \in Users /\ req[w].row \in Row /\ member[req[w].user] # NoRow
    BY <1>4, RequestShape DEF Whole, Inv, UpdateWrite, Writing, RequestOK, Found
  <2>2. inv' = inv /\ \A u \in Users : member[u] # NoRow <=> member'[u] # NoRow
    BY <1>4, <2>1, SameMembers DEF Whole, UpdateWrite
  <2> QED BY <2>2, NothingShows
<1>5. ASSUME NEW c \in Users, NEW u \in Users, NEW r \in Roles, AssignRole(c, u, r) PROVE Good
  <2>1. member[u] # NoRow /\ [member[u] EXCEPT !.role = r] \in Row
    BY <1>5 DEF Whole, Inv, TypeOK, AssignRole, Row
  <2>2. member' = [member EXCEPT ![u] = [member[u] EXCEPT !.role = r]] /\ inv' = inv
    BY <1>5 DEF Whole, Inv, TypeOK, AssignRole
  <2>3. \A x \in Users : member[x] # NoRow <=> member'[x] # NoRow
    BY <2>1, <2>2, SameMembers DEF Whole
  <2> QED BY <2>2, <2>3, NothingShows
<1>6. \/ UNCHANGED <<member, inv>>
      \/ \E w \in Requests : \/ \E i \in Invitations : CreateInvitation(w, i)
                             \/ \E r \in Roles : AcceptCommit(w, r)
                             \/ ResendUpdate(w) \/ RevokeUpdate(w) \/ UpdateWrite(w)
      \/ \E i \in Invitations : Expire(i)
      \/ \E c, u \in Users, r \in Roles : AssignRole(c, u, r)
  BY DEF Next, vars, Begin, Locking, Server, InviteMember, InviteRefused, AcceptInvitation,
         AcceptSelect, AcceptUnknown, AcceptCheck, AcceptRefused, Manage, ManageRefused,
         UpdateMember, UpdateRead, Fail
<1> QED BY <1>1, <1>2, <1>3, <1>4, <1>5, <1>6, CreateInvites, CommitAdmits, RevokeWithdraws

(* With all their locks, letters and failures the requests do what the     *)
(* organization is promised: whoever is admitted stood invited then, and   *)
(* his invitation is used up, for any number of requests at once.          *)
THEOREM MembershipsImplementAdmissions == Spec => ImplementsAdmissions
<1>1. Init => Whole /\ Admission!Init
  <2> SUFFICES ASSUME Init PROVE Whole /\ Admission!Init
    OBVIOUS
  <2>1. OneOpen /\ Invited = {}
    BY DEF Init, OneOpen, Invited, Awaited, NoInvitation
  <2>2. Members = {Founder}
    BY FounderAssumption, RolesAssumption DEF Init, Members, NoRow
  <2> QED BY <2>1, <2>2, InitInv DEF Whole, Admission!Init
<1>2. Whole /\ [Next]_vars => Whole' /\ [Admission!Next]_<<Invited, Members>>
  BY NextInv, StepAdmits DEF Whole, Good
<1> QED BY <1>1, <1>2, PTL DEF Spec, ImplementsAdmissions, Admission!Spec
=============================================================================
