--------------------------- MODULE SessionsProofs ---------------------------
(***************************************************************************)
(* Proofs about Sessions, for any number of requests, browsers and rows.   *)
(*                                                                         *)
(* The inductive invariant adds to the two properties that the first       *)
(* session of a chain is a row of its own chain (so a new login starts a   *)
(* chain nobody is in), that tokens, locks and snapshots only ever name    *)
(* rows that exist, that a rotation owns the lock of an unrevoked row, and *)
(* that a sweep holds or has seen revoked every row it is done with.       *)
(***************************************************************************)
EXTENDS Sessions, TLAPS, WellFoundedInduction

Roots == \A s \in Sessions : login[s] # 0 => login[login[s]] = login[s]

Existing ==
  /\ \A s \in Sessions : lock[s] # Free => state[s] # "none"
  /\ \A b \in Browsers : cookie[b] # 0 => state[cookie[b]] # "none"

HasToken(w) == req[w].pc \in {"lock", "commit", "granted", "denied", "revoke"}

TokenOK(w) == HasToken(w) => state[req[w].sess] # "none"

RotationOK(w) ==
  req[w].pc = "commit" =>
    lock[req[w].sess] = w /\ state[req[w].sess] \in Unrevoked

SnapshotOK(w) ==
  req[w].pc \in {"sweep", "swept"} => \A s \in req[w].saw : state[s] # "none"

SweepOK(w) ==
  req[w].pc = "sweep" =>
    \A s \in req[w].saw \ req[w].todo : lock[s] = w \/ state[s] = "revoked"

SweptOK(w) ==
  req[w].pc = "swept" => \A s \in req[w].saw : state[s] = "revoked"

RequestOK(w) ==
  TokenOK(w) /\ RotationOK(w) /\ SnapshotOK(w) /\ SweepOK(w) /\ SweptOK(w)

Inv ==
  /\ TypeOK
  /\ OneUnrevokedPerLogin
  /\ Roots
  /\ Existing
  /\ \A w \in Requests : RequestOK(w)

(* What a step must leave alone for the request v to stay as it should. *)
Undisturbed(v) ==
  /\ req'[v] = req[v]
  /\ \A s \in Sessions :
       /\ state[s] # "none" => state'[s] # "none"
       /\ state[s] = "revoked" => state'[s] = "revoked"
       /\ lock[s] = v => /\ lock'[s] = v
                         /\ state[s] \in Unrevoked => state'[s] \in Unrevoked

-----------------------------------------------------------------------------
(* The variants of a request, told apart by the program counter. *)
Rotation == [pc : {"lock", "commit", "granted", "denied"}, jar : Browsers, sess : Sessions]
Revocation == [pc : {"revoke"}, jar : Browsers, sess : Sessions]
Answer == [pc : {"out"}, jar : Browsers]
Sweep == [pc : {"sweep", "swept"}, jar : Browsers, saw : SUBSET Sessions, todo : SUBSET Sessions]

LEMMA RequestShape ==
  ASSUME TypeOK, NEW w \in Requests
  PROVE  /\ HasToken(w) => req[w].sess \in Sessions /\ req[w].jar \in Browsers
         /\ req[w].pc \in {"sweep", "swept"} =>
              /\ req[w].saw \in SUBSET Sessions
              /\ req[w].todo \in SUBSET Sessions
              /\ req[w].jar \in Browsers
         /\ req[w].pc = "out" => req[w].jar \in Browsers
         /\ req[w].pc \in {"lock", "commit", "granted", "denied"} => req[w] \in Rotation
         /\ req[w].pc \in {"sweep", "swept"} => req[w] \in Sweep
<1>1. req[w] \in Rotation \/ req[w] \in Revocation \/ req[w] \in Answer
        \/ req[w] \in Sweep \/ req[w] = Idle
  BY DEF TypeOK, Request, Rotation, Revocation, Answer, Sweep
<1>2. CASE req[w] \in Rotation
  BY <1>2 DEF Rotation, HasToken
<1>3. CASE req[w] \in Revocation
  BY <1>3 DEF Revocation, HasToken
<1>4. CASE req[w] \in Answer
  BY <1>4 DEF Answer, HasToken
<1>5. CASE req[w] \in Sweep
  BY <1>5 DEF Sweep, HasToken
<1>6. CASE req[w] = Idle
  BY <1>6 DEF Idle, HasToken
<1> QED BY <1>1, <1>2, <1>3, <1>4, <1>5, <1>6

(* A step that does not disturb a request keeps its part of the invariant. *)
LEMMA OthersStay ==
  ASSUME TypeOK, NEW v \in Requests, RequestOK(v), Undisturbed(v)
  PROVE  RequestOK(v)'
<1> USE RequestShape DEF Undisturbed
<1>1. TokenOK(v)'
  BY DEF RequestOK, TokenOK, HasToken
<1>2. RotationOK(v)'
  BY DEF RequestOK, RotationOK, HasToken
<1>3. SnapshotOK(v)'
  BY DEF RequestOK, SnapshotOK
<1>4. SweepOK(v)'
  BY DEF RequestOK, SweepOK
<1>5. SweptOK(v)'
  BY DEF RequestOK, SweptOK
<1> QED BY <1>1, <1>2, <1>3, <1>4, <1>5 DEF RequestOK

LEMMA InitInv == Init => Inv
  BY MaxSessionsAssumption, FreeAssumption
     DEF Init, Inv, TypeOK, OneUnrevokedPerLogin, Roots, Existing, RequestOK,
         TokenOK, RotationOK, SnapshotOK, SweepOK, SweptOK, HasToken, Sessions,
         Unrevoked, Idle, Request

(* What is left to show of a step of the request w. *)
LEMMA StepOfOne ==
  ASSUME Inv, NEW w \in Requests,
         TypeOK', OneUnrevokedPerLogin', Roots', Existing', RequestOK(w)',
         \A v \in Requests \ {w} : Undisturbed(v)
  PROVE  Inv'
<1>1. \A v \in Requests \ {w} : RequestOK(v)'
  BY OthersStay DEF Inv
<1> QED BY <1>1 DEF Inv

(* The same for the many steps that change no row. *)
LEMMA QuietStep ==
  ASSUME Inv, NEW w \in Requests, UNCHANGED <<state, login>>,
         TypeOK', Existing', RequestOK(w)',
         \A v \in Requests \ {w} : Undisturbed(v)
  PROVE  Inv'
<1>1. OneUnrevokedPerLogin'
  BY DEF Inv, OneUnrevokedPerLogin
<1>2. Roots'
  BY DEF Inv, Roots
<1> QED BY <1>1, <1>2, StepOfOne

(* A step that changes the request w alone. *)
LEMMA LocalStep ==
  ASSUME Inv, NEW w \in Requests, NEW r \in Request \cup {Idle}, Goto(w, r),
         UNCHANGED <<state, login, lock, cookie>>, RequestOK(w)'
  PROVE  Inv'
<1>1. TypeOK'
  BY DEF Inv, TypeOK, Goto
<1>2. Existing'
  BY DEF Inv, Existing
<1>3. \A v \in Requests \ {w} : Undisturbed(v)
  BY DEF Inv, TypeOK, Goto, Undisturbed
<1> QED BY <1>1, <1>2, <1>3, QuietStep

-----------------------------------------------------------------------------
(* One lemma per action. *)

LEMMA RefreshInv ==
  ASSUME Inv, NEW w \in Requests, NEW b \in Browsers, Refresh(w, b)
  PROVE  Inv'
<1> DEFINE r == [pc |-> "lock", jar |-> b, sess |-> cookie[b]]
<1>1. cookie[b] \in Sessions /\ state[cookie[b]] # "none"
  BY DEF Inv, TypeOK, Existing, Refresh, Sessions
<1>2. r \in Request
  BY <1>1 DEF Request
<1>3. req'[w] = r
  BY DEF Inv, TypeOK, Refresh, Goto
<1>4. RequestOK(w)'
  BY <1>1, <1>3 DEF Refresh, RequestOK, TokenOK, RotationOK, SnapshotOK, SweepOK, SweptOK
<1> QED BY <1>2, <1>4, LocalStep DEF Refresh

LEMMA LogoutInv ==
  ASSUME Inv, NEW w \in Requests, NEW b \in Browsers, Logout(w, b)
  PROVE  Inv'
<1> DEFINE r == IF state[cookie[b]] = "live"
                  THEN [pc |-> "revoke", jar |-> b, sess |-> cookie[b]]
                  ELSE [pc |-> "out", jar |-> b]
<1>0. cookie[b] # 0 /\ UNCHANGED state
  BY DEF Logout
<1>1. cookie[b] \in Sessions /\ state[cookie[b]] # "none"
  BY <1>0 DEF Inv, TypeOK, Existing, Sessions
<1>2. r \in Request
  BY <1>1 DEF Request
<1>3. req'[w] = r
  BY DEF Inv, TypeOK, Logout, Goto
<1>4. CASE state[cookie[b]] = "live"
  <2>1. req'[w].pc = "revoke" /\ req'[w].sess = cookie[b]
    BY <1>3, <1>4
  <2>2. RequestOK(w)'
    BY <1>0, <1>1, <2>1 DEF RequestOK, TokenOK, RotationOK, SnapshotOK, SweepOK, SweptOK
  <2> QED BY <1>2, <2>2, LocalStep DEF Logout
<1>5. CASE state[cookie[b]] # "live"
  <2>1. req'[w].pc = "out"
    BY <1>3, <1>5
  <2>2. RequestOK(w)'
    BY <2>1 DEF RequestOK, TokenOK, HasToken, RotationOK, SnapshotOK, SweepOK, SweptOK
  <2> QED BY <1>2, <2>2, LocalStep DEF Logout
<1> QED BY <1>4, <1>5

LEMMA LogoutAllInv ==
  ASSUME Inv, NEW w \in Requests, NEW b \in Browsers, LogoutAll(w, b)
  PROVE  Inv'
<1> DEFINE rows == {s \in Sessions : state[s] \in Unrevoked}
<1> DEFINE r == [pc |-> "sweep", jar |-> b, saw |-> rows, todo |-> rows]
<1>1. r \in Request
  BY DEF Request
<1>2. req'[w] = r
  BY DEF Inv, TypeOK, LogoutAll, Goto
<1>3. \A s \in rows : state[s] # "none"
  BY DEF Unrevoked
<1>4. RequestOK(w)'
  BY <1>2, <1>3 DEF LogoutAll, RequestOK, TokenOK, HasToken, RotationOK, SnapshotOK, SweepOK, SweptOK
<1> QED BY <1>1, <1>4, LocalStep DEF LogoutAll

LEMMA RotateRefusedInv ==
  ASSUME Inv, NEW w \in Requests, RotateRefused(w)
  PROVE  Inv'
<1> DEFINE r == [req[w] EXCEPT !.pc = "denied"]
<1>1. req[w] \in Rotation /\ state[req[w].sess] # "none"
  BY RequestShape DEF Inv, RotateRefused, RequestOK, TokenOK, HasToken
<1>2. r \in Request /\ r.pc = "denied" /\ r.sess = req[w].sess
  BY <1>1 DEF Request, Rotation
<1>3. req'[w] = r
  BY DEF Inv, TypeOK, RotateRefused, Goto
<1>4. RequestOK(w)'
  BY <1>1, <1>2, <1>3 DEF RotateRefused, RequestOK, TokenOK, RotationOK, SnapshotOK, SweepOK, SweptOK
<1> QED BY <1>2, <1>4, LocalStep DEF RotateRefused

LEMMA LogoutFailsInv ==
  ASSUME Inv, NEW w \in Requests, LogoutFails(w)
  PROVE  Inv'
<1> DEFINE r == [pc |-> "out", jar |-> req[w].jar]
<1>1. r \in Request
  BY RequestShape DEF Inv, LogoutFails, HasToken, Request
<1>2. req'[w].pc = "out"
  BY DEF Inv, TypeOK, LogoutFails, Goto
<1>3. RequestOK(w)'
  BY <1>2 DEF RequestOK, TokenOK, HasToken, RotationOK, SnapshotOK, SweepOK, SweptOK
<1> QED BY <1>1, <1>3, LocalStep DEF LogoutFails

LEMMA RotateLockInv ==
  ASSUME Inv, NEW w \in Requests, RotateLock(w)
  PROVE  Inv'
<1> DEFINE s == req[w].sess
<1>1. req[w] \in Rotation /\ s \in Sessions
  BY RequestShape DEF Inv, RotateLock, HasToken
<1>2. /\ req'[w] = [req[w] EXCEPT !.pc = "commit"]
      /\ lock' = [lock EXCEPT ![s] = w]
      /\ lock[s] = Free /\ state[s] = "live"
      /\ UNCHANGED <<state, login, cookie>>
      /\ \A v \in Requests \ {w} : req'[v] = req[v]
  BY DEF Inv, TypeOK, RotateLock, Goto
<1>3. req'[w] \in Request /\ req'[w].pc = "commit" /\ req'[w].sess = s
  BY <1>1, <1>2 DEF Request, Rotation
<1>4. TypeOK'
  BY <1>1, <1>2, <1>3 DEF Inv, TypeOK, RotateLock, Goto
<1>5. Existing'
  BY <1>1, <1>2 DEF Inv, TypeOK, Existing
<1>6. \A v \in Requests \ {w} : Undisturbed(v)
  BY <1>1, <1>2, FreeAssumption DEF Inv, TypeOK, Undisturbed
<1>7. lock'[s] = w /\ state'[s] = "live"
  BY <1>1, <1>2 DEF Inv, TypeOK
<1>8. RequestOK(w)'
  BY <1>3, <1>7 DEF RequestOK, TokenOK, RotationOK, SnapshotOK, SweepOK, SweptOK, Unrevoked
<1> QED BY <1>2, <1>4, <1>5, <1>6, <1>8, QuietStep

LEMMA SweepRowInv ==
  ASSUME Inv, NEW w \in Requests, NEW s \in Sessions, SweepRow(w, s)
  PROVE  Inv'
<1>1. req[w] \in Sweep /\ req[w].pc = "sweep"
  BY RequestShape DEF Inv, SweepRow
<1>2. /\ req'[w] = [req[w] EXCEPT !.todo = @ \ {s}]
      /\ lock[s] = Free
      /\ lock' = IF state[s] \in Unrevoked THEN [lock EXCEPT ![s] = w] ELSE lock
      /\ UNCHANGED <<state, login, cookie>>
      /\ \A v \in Requests \ {w} : req'[v] = req[v]
      /\ req' = [req EXCEPT ![w] = [req[w] EXCEPT !.todo = @ \ {s}]]
  BY DEF Inv, TypeOK, SweepRow, Goto
<1>3. /\ req'[w] \in Request /\ req'[w].pc = "sweep"
      /\ req'[w].saw = req[w].saw /\ req'[w].todo = req[w].todo \ {s}
  BY <1>1, <1>2 DEF Request, Sweep
<1>4. TypeOK'
  <2>1. lock' \in [Sessions -> Requests \cup {Free}]
    BY <1>2 DEF Inv, TypeOK
  <2>2. req' \in [Requests -> Request \cup {Idle}]
    BY <1>2, <1>3 DEF Inv, TypeOK
  <2> QED BY <1>2, <2>1, <2>2 DEF Inv, TypeOK
<1>5. Existing'
  BY <1>2 DEF Inv, TypeOK, Existing, Unrevoked
<1>6. \A v \in Requests \ {w} : Undisturbed(v)
  BY <1>2, FreeAssumption DEF Inv, TypeOK, Undisturbed
<1>7. SweepOK(w)'
  <2> SUFFICES ASSUME NEW t \in req[w].saw, t \notin req[w].todo \/ t = s
               PROVE  lock'[t] = w \/ state[t] = "revoked"
    BY <1>2, <1>3 DEF SweepOK
  <2>1. t \in Sessions /\ state[t] # "none"
    BY <1>1 DEF Inv, RequestOK, SnapshotOK, Sweep
  <2>2. CASE t = s
    BY <1>2, <2>1, <2>2 DEF Inv, TypeOK
  <2>3. CASE t # s
    <3>1. lock[t] = w \/ state[t] = "revoked"
      BY <1>1, <2>3 DEF Inv, RequestOK, SweepOK
    <3> QED BY <1>2, <2>1, <2>3, <3>1 DEF Inv, TypeOK
  <2> QED BY <2>2, <2>3
<1>8. RequestOK(w)'
  BY <1>1, <1>2, <1>3, <1>7 DEF Inv, RequestOK, TokenOK, HasToken, RotationOK, SnapshotOK, SweptOK
<1> QED BY <1>2, <1>4, <1>5, <1>6, <1>8, QuietStep

LEMMA DeliverInv ==
  ASSUME Inv, NEW w \in Requests, Deliver(w)
  PROVE  Inv'
<1> DEFINE r == req[w]
<1>1. /\ cookie' = [cookie EXCEPT ![r.jar] = IF r.pc = "granted" THEN r.sess ELSE 0]
      /\ req' = [req EXCEPT ![w] = Idle]
      /\ UNCHANGED <<state, login, lock>>
  BY DEF Deliver, Goto
<1>2. r.jar \in Browsers
  BY RequestShape DEF Inv, Deliver, HasToken
<1>3. r.pc = "granted" => r.sess \in Sessions /\ state[r.sess] # "none"
  BY RequestShape DEF Inv, HasToken, RequestOK, TokenOK
<1>4. cookie' \in [Browsers -> 0..MaxSessions]
  BY <1>1, <1>2, <1>3, MaxSessionsAssumption DEF Inv, TypeOK, Sessions
<1>5. TypeOK'
  BY <1>1, <1>4 DEF Inv, TypeOK
<1>6. Existing'
  BY <1>1, <1>2, <1>3 DEF Inv, TypeOK, Existing
<1>7. \A v \in Requests \ {w} : Undisturbed(v)
  BY <1>1 DEF Inv, TypeOK, Undisturbed
<1>8. req'[w].pc = "idle"
  BY <1>1 DEF Inv, TypeOK, Idle
<1>9. RequestOK(w)'
  BY <1>8 DEF RequestOK, TokenOK, HasToken, RotationOK, SnapshotOK, SweepOK, SweptOK
<1> QED BY <1>1, <1>5, <1>6, <1>7, <1>9, QuietStep

(* Giving back the locks of one request takes nothing from the others. *)
LEMMA ReleasedShape ==
  ASSUME Inv, NEW w \in Requests
  PROVE  /\ Released(w) \in [Sessions -> Requests \cup {Free}]
         /\ \A s \in Sessions :
              /\ Released(w)[s] # Free => state[s] # "none"
              /\ \A v \in Requests \ {w} : lock[s] = v => Released(w)[s] = v
  BY DEF Inv, TypeOK, Existing, Released

LEMMA FailInv ==
  ASSUME Inv, NEW w \in Requests, Fail(w)
  PROVE  Inv'
<1>1. /\ lock' = Released(w)
      /\ req' = [req EXCEPT ![w] = Idle]
      /\ UNCHANGED <<state, login, cookie>>
  BY DEF Fail, Goto
<1>2. TypeOK'
  BY <1>1, ReleasedShape DEF Inv, TypeOK
<1>3. Existing'
  BY <1>1, ReleasedShape DEF Inv, Existing
<1>4. \A v \in Requests \ {w} : Undisturbed(v)
  BY <1>1, ReleasedShape DEF Inv, TypeOK, Undisturbed
<1>5. req'[w].pc = "idle"
  BY <1>1 DEF Inv, TypeOK, Idle
<1>6. RequestOK(w)'
  BY <1>5 DEF RequestOK, TokenOK, HasToken, RotationOK, SnapshotOK, SweepOK, SweptOK
<1> QED BY <1>1, <1>2, <1>3, <1>4, <1>6, QuietStep

LEMMA LogoutRevokeInv ==
  ASSUME Inv, NEW w \in Requests, LogoutRevoke(w)
  PROVE  Inv'
<1> DEFINE s == req[w].sess
<1>1. s \in Sessions /\ req[w].jar \in Browsers /\ state[s] # "none"
  BY RequestShape DEF Inv, LogoutRevoke, HasToken, RequestOK, TokenOK
<1>2. /\ lock[s] = Free
      /\ state' = [state EXCEPT ![s] = "revoked"]
      /\ req' = [req EXCEPT ![w] = [pc |-> "out", jar |-> req[w].jar]]
      /\ UNCHANGED <<login, lock, cookie>>
  BY DEF LogoutRevoke, Goto
<1>3. [pc |-> "out", jar |-> req[w].jar] \in Request
  BY <1>1 DEF Request
<1>4. TypeOK'
  <2>1. state' \in [Sessions -> Unrevoked \cup {"none", "revoked"}]
    BY <1>1, <1>2 DEF Inv, TypeOK
  <2>2. \A t \in Sessions : state'[t] = "none" <=> login'[t] = 0
    BY <1>1, <1>2 DEF Inv, TypeOK
  <2> QED BY <1>2, <1>3, <2>1, <2>2 DEF Inv, TypeOK
<1>5. OneUnrevokedPerLogin'
  BY <1>1, <1>2 DEF Inv, TypeOK, OneUnrevokedPerLogin, Unrevoked
<1>6. Roots'
  BY <1>2 DEF Inv, Roots
<1>7. Existing'
  BY <1>1, <1>2 DEF Inv, TypeOK, Existing, Sessions
<1>8. \A v \in Requests \ {w} : Undisturbed(v)
  BY <1>1, <1>2, FreeAssumption DEF Inv, TypeOK, Undisturbed
<1>9. req'[w].pc = "out"
  BY <1>2 DEF Inv, TypeOK
<1>10. RequestOK(w)'
  BY <1>9 DEF RequestOK, TokenOK, HasToken, RotationOK, SnapshotOK, SweepOK, SweptOK
<1> QED BY <1>4, <1>5, <1>6, <1>7, <1>8, <1>10, StepOfOne

LEMMA LoginInv ==
  ASSUME Inv, NEW w \in Requests, NEW b \in Browsers, NEW n \in Sessions, Login(w, b, n)
  PROVE  Inv'
<1> DEFINE r == [pc |-> "granted", jar |-> b, sess |-> n]
<1>1. /\ state[n] = "none"
      /\ state' = [state EXCEPT ![n] = "live"]
      /\ login' = [login EXCEPT ![n] = n]
      /\ req' = [req EXCEPT ![w] = r]
      /\ UNCHANGED <<lock, cookie>>
  BY DEF Login, IsNext, Goto
<1>2. login[n] = 0 /\ n # 0 /\ n \in 0..MaxSessions
  BY <1>1, MaxSessionsAssumption DEF Inv, TypeOK, Sessions
<1>3. r \in Request
  BY DEF Request
<1>4. TypeOK'
  <2>1. state' \in [Sessions -> Unrevoked \cup {"none", "revoked"}]
    BY <1>1 DEF Inv, TypeOK, Unrevoked
  <2>2. login' \in [Sessions -> 0..MaxSessions]
    BY <1>1, <1>2 DEF Inv, TypeOK
  <2>3. \A t \in Sessions : state'[t] = "none" <=> login'[t] = 0
    BY <1>1, <1>2 DEF Inv, TypeOK
  <2> QED BY <1>1, <1>3, <2>1, <2>2, <2>3 DEF Inv, TypeOK
<1>5. \A t \in Sessions : login[t] # n
  <2> SUFFICES ASSUME NEW t \in Sessions, login[t] = n PROVE FALSE
    OBVIOUS
  <2> QED BY <1>2 DEF Inv, Roots
<1>6. OneUnrevokedPerLogin'
  BY <1>1, <1>2, <1>5 DEF Inv, TypeOK, OneUnrevokedPerLogin
<1>7. Roots'
  <2> SUFFICES ASSUME NEW t \in Sessions, login'[t] # 0 PROVE login'[login'[t]] = login'[t]
    BY DEF Roots
  <2>1. CASE t = n
    BY <1>1, <2>1 DEF Inv, TypeOK
  <2>2. CASE t # n
    BY <1>1, <1>2, <1>5, <2>2 DEF Inv, TypeOK, Roots
  <2> QED BY <2>1, <2>2
<1>8. Existing'
  BY <1>1 DEF Inv, TypeOK, Existing, Sessions
<1>9. \A v \in Requests \ {w} : Undisturbed(v)
  BY <1>1 DEF Inv, TypeOK, Undisturbed, Unrevoked
<1>10. req'[w].pc = "granted" /\ req'[w].sess = n /\ state'[n] = "live"
  BY <1>1 DEF Inv, TypeOK
<1>11. RequestOK(w)'
  BY <1>10 DEF RequestOK, TokenOK, HasToken, RotationOK, SnapshotOK, SweepOK, SweptOK
<1> QED BY <1>4, <1>6, <1>7, <1>8, <1>9, <1>11, StepOfOne

LEMMA SweepCommitInv ==
  ASSUME Inv, NEW w \in Requests, SweepCommit(w)
  PROVE  Inv'
<1>1. /\ req[w].pc = "sweep" /\ req[w].todo = {}
      /\ state' = [s \in Sessions |-> IF lock[s] = w THEN "revoked" ELSE state[s]]
      /\ lock' = Released(w)
      /\ req' = [req EXCEPT ![w] = [req[w] EXCEPT !.pc = "swept"]]
      /\ UNCHANGED <<login, cookie>>
  BY DEF SweepCommit, Goto
<1>2. req[w] \in Sweep
  BY <1>1, RequestShape DEF Inv
<1>3. [req[w] EXCEPT !.pc = "swept"] \in Request
  BY <1>2 DEF Request, Sweep
<1>4. req'[w].pc = "swept" /\ req'[w].saw = req[w].saw
  BY <1>1, <1>2 DEF Inv, TypeOK, Sweep
<1>5. \A s \in Sessions : lock[s] = w => state[s] # "none"
  BY FreeAssumption DEF Inv, Existing
<1>6. TypeOK'
  <2>1. state' \in [Sessions -> Unrevoked \cup {"none", "revoked"}]
    BY <1>1 DEF Inv, TypeOK
  <2>2. \A t \in Sessions : state'[t] = "none" <=> login'[t] = 0
    BY <1>1, <1>5 DEF Inv, TypeOK
  <2>3. lock' \in [Sessions -> Requests \cup {Free}]
    BY <1>1, ReleasedShape
  <2> QED BY <1>1, <1>3, <2>1, <2>2, <2>3 DEF Inv, TypeOK
<1>7. OneUnrevokedPerLogin'
  BY <1>1 DEF Inv, TypeOK, OneUnrevokedPerLogin, Unrevoked
<1>8. Roots'
  BY <1>1 DEF Inv, Roots
<1>9. Existing'
  <2>1. \A s \in Sessions : lock'[s] # Free => state'[s] # "none"
    BY <1>1, ReleasedShape
  <2>2. \A b \in Browsers : cookie'[b] # 0 => state'[cookie'[b]] # "none"
    BY <1>1 DEF Inv, TypeOK, Existing, Sessions
  <2> QED BY <2>1, <2>2 DEF Existing
<1>10. \A v \in Requests \ {w} : Undisturbed(v)
  BY <1>1, ReleasedShape DEF Inv, TypeOK, Undisturbed
<1>11. \A s \in req[w].saw : state'[s] = "revoked"
  BY <1>1, <1>2 DEF Inv, RequestOK, SweepOK, Sweep
<1>12. RequestOK(w)'
  BY <1>4, <1>11 DEF RequestOK, TokenOK, HasToken, RotationOK, SnapshotOK, SweepOK, SweptOK
<1> QED BY <1>6, <1>7, <1>8, <1>9, <1>10, <1>12, StepOfOne

(* The rotation hands the chain from the old session to the new one. *)
LEMMA RotateCommitInv ==
  ASSUME Inv, NEW w \in Requests, NEW n \in Sessions, RotateCommit(w, n)
  PROVE  Inv'
<1> DEFINE s == req[w].sess
<1>1. req[w] \in Rotation /\ s \in Sessions /\ req[w].pc = "commit"
  BY RequestShape DEF Inv, RotateCommit, HasToken
<1>2. /\ state[n] = "none"
      /\ state' = [state EXCEPT ![s] = "revoked", ![n] = "live"]
      /\ login' = [login EXCEPT ![n] = login[s]]
      /\ lock' = Released(w)
      /\ req' = [req EXCEPT ![w] = [req[w] EXCEPT !.pc = "granted", !.sess = n]]
      /\ UNCHANGED cookie
  BY DEF RotateCommit, IsNext, Goto, Rotated, Chained
<1>3. lock[s] = w /\ state[s] \in Unrevoked
  BY <1>1 DEF Inv, RequestOK, RotationOK
<1>4. s # n /\ login[n] = 0 /\ login[s] # 0 /\ login[s] \in Sessions
  BY <1>1, <1>2, <1>3, MaxSessionsAssumption DEF Inv, TypeOK, Sessions, Unrevoked
<1>5. [req[w] EXCEPT !.pc = "granted", !.sess = n] \in Request
  BY <1>1 DEF Request, Rotation
<1>6. req'[w].pc = "granted" /\ req'[w].sess = n
  BY <1>1, <1>2 DEF Inv, TypeOK, Rotation
<1>7. \A t \in Sessions :
        /\ state'[t] = IF t = n THEN "live" ELSE IF t = s THEN "revoked" ELSE state[t]
        /\ login'[t] = IF t = n THEN login[s] ELSE login[t]
  BY <1>1, <1>2 DEF Inv, TypeOK
<1>8. TypeOK'
  <2>1. state' \in [Sessions -> Unrevoked \cup {"none", "revoked"}]
    BY <1>2 DEF Inv, TypeOK, Unrevoked
  <2>2. login' \in [Sessions -> 0..MaxSessions]
    BY <1>1, <1>2 DEF Inv, TypeOK
  <2>3. \A t \in Sessions : state'[t] = "none" <=> login'[t] = 0
    BY <1>3, <1>4, <1>7 DEF Inv, TypeOK, Unrevoked
  <2>4. lock' \in [Sessions -> Requests \cup {Free}]
    BY <1>2, ReleasedShape
  <2> QED BY <1>2, <1>5, <2>1, <2>2, <2>3, <2>4 DEF Inv, TypeOK
<1>9. OneUnrevokedPerLogin'
  <2> SUFFICES ASSUME NEW t \in Sessions, NEW u \in Sessions,
                      state'[t] \in Unrevoked, state'[u] \in Unrevoked,
                      login'[t] = login'[u]
               PROVE  t = u
    BY DEF OneUnrevokedPerLogin
  <2>1. t # s /\ u # s
    BY <1>4, <1>7 DEF Unrevoked
  <2>2. CASE t # n /\ u # n
    BY <1>7, <2>1, <2>2 DEF Inv, OneUnrevokedPerLogin
  <2>3. CASE t = n /\ u # n
    <3>1. state[u] \in Unrevoked /\ login[u] = login[s]
      BY <1>7, <2>1, <2>3
    <3> QED BY <1>1, <1>3, <2>1, <3>1 DEF Inv, OneUnrevokedPerLogin
  <2>4. CASE t # n /\ u = n
    <3>1. state[t] \in Unrevoked /\ login[t] = login[s]
      BY <1>7, <2>1, <2>4
    <3> QED BY <1>1, <1>3, <2>1, <3>1 DEF Inv, OneUnrevokedPerLogin
  <2> QED BY <2>2, <2>3, <2>4
<1>10. Roots'
  <2> SUFFICES ASSUME NEW t \in Sessions, login'[t] # 0
               PROVE  login'[login'[t]] = login'[t]
    BY DEF Roots
  <2> DEFINE u == IF t = n THEN s ELSE t
  <2>1. u \in Sessions /\ login'[t] = login[u] /\ login[u] # 0
    BY <1>1, <1>7
  <2>2. login[login[u]] = login[u] /\ login[u] \in Sessions
    BY <2>1, MaxSessionsAssumption DEF Inv, TypeOK, Roots, Sessions
  <2>3. login[u] # n
    BY <1>4, <2>1, <2>2
  <2> QED BY <1>7, <2>1, <2>2, <2>3
<1>11. Existing'
  <2>1. \A t \in Sessions : state[t] # "none" => state'[t] # "none"
    BY <1>7
  <2>2. \A t \in Sessions : lock'[t] # Free => state'[t] # "none"
    BY <1>2, <2>1, ReleasedShape
  <2>3. \A b \in Browsers : cookie'[b] # 0 => state'[cookie'[b]] # "none"
    BY <1>2, <2>1 DEF Inv, TypeOK, Existing, Sessions
  <2> QED BY <2>2, <2>3 DEF Existing
<1>12. \A v \in Requests \ {w} : Undisturbed(v)
  BY <1>2, <1>3, <1>7, ReleasedShape DEF Inv, TypeOK, Undisturbed, Unrevoked
<1>13. state'[n] = "live"
  BY <1>7
<1>14. RequestOK(w)'
  BY <1>6, <1>13 DEF RequestOK, TokenOK, HasToken, RotationOK, SnapshotOK, SweepOK, SweptOK
<1> QED BY <1>8, <1>9, <1>10, <1>11, <1>12, <1>14, StepOfOne

LEMMA ExpireInv ==
  ASSUME Inv, NEW s \in Sessions, Expire(s)
  PROVE  Inv'
<1>1. /\ state[s] = "live"
      /\ state' = [state EXCEPT ![s] = "expired"]
      /\ UNCHANGED <<login, lock, cookie, req>>
  BY DEF Expire
<1>2. TypeOK'
  BY <1>1 DEF Inv, TypeOK, Unrevoked
<1>3. OneUnrevokedPerLogin'
  BY <1>1 DEF Inv, TypeOK, OneUnrevokedPerLogin, Unrevoked
<1>4. Roots'
  BY <1>1 DEF Inv, Roots
<1>5. Existing'
  BY <1>1 DEF Inv, TypeOK, Existing, Sessions
<1>6. \A v \in Requests : Undisturbed(v)
  BY <1>1 DEF Inv, TypeOK, Undisturbed, Unrevoked
<1>7. \A v \in Requests : RequestOK(v)'
  BY <1>6, OthersStay DEF Inv
<1> QED BY <1>2, <1>3, <1>4, <1>5, <1>7 DEF Inv

LEMMA NextInv == Inv /\ [Next]_vars => Inv'
<1> SUFFICES ASSUME Inv, [Next]_vars PROVE Inv'
  OBVIOUS
<1>1. CASE UNCHANGED vars
  <2>1. \A v \in Requests : Undisturbed(v)
    BY <1>1 DEF vars, Undisturbed
  <2>2. \A v \in Requests : RequestOK(v)'
    BY <2>1, OthersStay DEF Inv
  <2>3. TypeOK' /\ OneUnrevokedPerLogin' /\ Roots' /\ Existing'
    BY <1>1 DEF vars, Inv, TypeOK, OneUnrevokedPerLogin, Roots, Existing
  <2> QED BY <2>2, <2>3 DEF Inv
<1>2. ASSUME NEW w \in Requests, User(w) PROVE Inv'
  BY <1>2, RefreshInv, LogoutInv, LogoutAllInv, LoginInv DEF User
<1>3. ASSUME NEW w \in Requests, Locking(w) PROVE Inv'
  BY <1>3, RotateLockInv, RotateRefusedInv, LogoutRevokeInv, SweepRowInv DEF Locking
<1>4. ASSUME NEW w \in Requests, Server(w) PROVE Inv'
  BY <1>4, SweepCommitInv, RotateCommitInv DEF Server
<1> QED
  BY <1>1, <1>2, <1>3, <1>4, LogoutFailsInv, DeliverInv, FailInv, ExpireInv DEF Next

-----------------------------------------------------------------------------
(* The inductive invariant of the sessions, for every number of requests.  *)
THEOREM SessionsInvariant == Spec => []Inv
  BY InitInv, NextInv, PTL DEF Spec

(* Rows, locks, cookies and requests keep their types, and a session has a *)
(* chain exactly when its row exists.                                      *)
THEOREM SessionsTypes == Spec => []TypeOK
<1>1. Inv => TypeOK
  BY DEF Inv
<1> QED BY <1>1, SessionsInvariant, PTL

(* RotateSession: a login never has two unrevoked sessions, whatever       *)
(* refreshes, logouts and failures run at the same time.                   *)
THEOREM SessionsOneUnrevoked == Spec => []OneUnrevokedPerLogin
<1>1. Inv => OneUnrevokedPerLogin
  BY DEF Inv
<1> QED BY <1>1, SessionsInvariant, PTL

(* RevokeAllUserSessions: when it returns, every session it could see is   *)
(* revoked, whatever held the rows meanwhile.                              *)
THEOREM SessionsSweepReaches == Spec => []SweepReaches
<1>1. Inv => SweepReaches
  BY DEF Inv, RequestOK, SweptOK, SweepReaches
<1> QED BY <1>1, SessionsInvariant, PTL

-----------------------------------------------------------------------------
(* Seen through its logins the service is a LoginChain: what the effective *)
(* actions do to the sessions of each login.                               *)

LEMMA LoginRefines ==
  ASSUME Inv, NEW w \in Requests, NEW b \in Browsers, NEW n \in Sessions, Login(w, b, n)
  PROVE  Logins!Open(n)
<1>1. /\ state[n] = "none"
      /\ state' = [state EXCEPT ![n] = "live"]
      /\ login' = [login EXCEPT ![n] = n]
  BY DEF Login, IsNext
<1>2. \A t \in Sessions :
        /\ state'[t] = IF t = n THEN "live" ELSE state[t]
        /\ login'[t] = IF t = n THEN n ELSE login[t]
  BY <1>1 DEF Inv, TypeOK
<1>3. login[n] = 0 /\ n # 0
  BY <1>1 DEF Inv, TypeOK, Sessions
<1>4. \A t \in Sessions : login[t] # n
  BY <1>3 DEF Inv, Roots
<1>5. n \notin Issued /\ Issued' = Issued \cup {n}
  BY <1>1, <1>2 DEF Issued
<1>6. Tip' = [Tip EXCEPT ![n] = {n}]
  <2>1. ASSUME NEW l \in Sessions PROVE Tip'[l] = IF l = n THEN {n} ELSE Tip[l]
    BY <1>1, <1>2, <1>4 DEF Tip, Unrevoked
  <2> QED BY <2>1 DEF Tip
<1> QED BY <1>5, <1>6 DEF Logins!Open

(* The chain goes on from the one session of it that was not revoked. *)
LEMMA RotateCommitRefines ==
  ASSUME Inv, NEW w \in Requests, NEW n \in Sessions, RotateCommit(w, n)
  PROVE  /\ login[req[w].sess] \in Sessions
         /\ Logins!Continue(login[req[w].sess], n)
<1> DEFINE s == req[w].sess
<1>1. req[w].pc = "commit" /\ s \in Sessions
  BY RequestShape DEF Inv, RotateCommit, HasToken
<1>2. /\ state[n] = "none"
      /\ state' = [state EXCEPT ![s] = "revoked", ![n] = "live"]
      /\ login' = [login EXCEPT ![n] = login[s]]
  BY DEF RotateCommit, IsNext, Rotated, Chained
<1>3. state[s] \in Unrevoked /\ s # n
  BY <1>1, <1>2 DEF Inv, RequestOK, RotationOK, Unrevoked
<1>4. login[s] \in Sessions
  BY <1>1, <1>3, MaxSessionsAssumption DEF Inv, TypeOK, Sessions, Unrevoked
<1>5. \A t \in Sessions :
        /\ state'[t] = IF t = n THEN "live" ELSE IF t = s THEN "revoked" ELSE state[t]
        /\ login'[t] = IF t = n THEN login[s] ELSE login[t]
  BY <1>1, <1>2 DEF Inv, TypeOK
<1>6. n \notin Issued /\ Issued' = Issued \cup {n}
  <2>1. \A t \in Sessions : state'[t] # "none" <=> state[t] # "none" \/ t = n
    BY <1>1, <1>3, <1>5 DEF Unrevoked
  <2> QED BY <1>2, <2>1 DEF Issued
<1>7. s \in Tip[login[s]]
  BY <1>1, <1>3, <1>4 DEF Tip
<1>8. \A t \in Sessions : state[t] \in Unrevoked /\ login[t] = login[s] => t = s
  BY <1>1, <1>3 DEF Inv, OneUnrevokedPerLogin
<1>9. Tip' = [Tip EXCEPT ![login[s]] = {n}]
  <2>1. ASSUME NEW l \in Sessions PROVE Tip'[l] = IF l = login[s] THEN {n} ELSE Tip[l]
    <3>1. CASE l = login[s]
      BY <1>1, <1>5, <1>8, <3>1 DEF Tip, Unrevoked
    <3>2. CASE l # login[s]
      <4>1. ASSUME NEW t \in Sessions
            PROVE  state'[t] \in Unrevoked /\ login'[t] = l
                     <=> state[t] \in Unrevoked /\ login[t] = l
        BY <1>1, <1>2, <1>5, <3>2 DEF Unrevoked
      <4> QED BY <3>2, <4>1 DEF Tip
    <3> QED BY <3>1, <3>2
  <2> QED BY <2>1 DEF Tip
<1> QED BY <1>4, <1>6, <1>7, <1>9 DEF Logins!Continue

(* A statement that revokes the rows R ends the logins whose unrevoked     *)
(* session is among them.                                                  *)
LEMMA RevokingEnds ==
  ASSUME Inv, NEW R \in SUBSET Sessions, \A s \in R : state[s] # "none",
         state' = [s \in Sessions |-> IF s \in R THEN "revoked" ELSE state[s]],
         login' = login
  PROVE  \E ls \in SUBSET Sessions : Logins!End(ls)
<1> DEFINE ls == {l \in Sessions : \E s \in R : state[s] \in Unrevoked /\ login[s] = l}
<1>1. Issued' = Issued
  BY DEF Issued
<1>2. ASSUME NEW l \in Sessions PROVE Tip'[l] = IF l \in ls THEN {} ELSE Tip[l]
  <2>1. CASE l \in ls
    <3>1. PICK s \in R : state[s] \in Unrevoked /\ login[s] = l
      BY <2>1
    <3>2. \A t \in Sessions : state[t] \in Unrevoked /\ login[t] = l => t = s
      BY <3>1 DEF Inv, OneUnrevokedPerLogin
    <3> QED BY <2>1, <3>1, <3>2 DEF Tip, Unrevoked
  <2>2. CASE l \notin ls
    BY <2>2 DEF Tip, Unrevoked
  <2> QED BY <2>1, <2>2
<1>3. Tip' = [l \in Sessions |-> IF l \in ls THEN {} ELSE Tip[l]]
  BY <1>2 DEF Tip
<1>4. Logins!End(ls)
  BY <1>1, <1>3 DEF Logins!End
<1> QED BY <1>4

LEMMA LogoutRevokeRefines ==
  ASSUME Inv, NEW w \in Requests, LogoutRevoke(w)
  PROVE  \E ls \in SUBSET Sessions : Logins!End(ls)
<1> DEFINE R == {req[w].sess}
<1>1. R \in SUBSET Sessions /\ \A t \in R : state[t] # "none"
  BY RequestShape DEF Inv, LogoutRevoke, HasToken, RequestOK, TokenOK
<1>2. /\ state' = [t \in Sessions |-> IF t \in R THEN "revoked" ELSE state[t]]
      /\ login' = login
  BY <1>1 DEF LogoutRevoke, Inv, TypeOK
<1> HIDE DEF R
<1> QED BY <1>1, <1>2, RevokingEnds

LEMMA SweepCommitRefines ==
  ASSUME Inv, NEW w \in Requests, SweepCommit(w)
  PROVE  \E ls \in SUBSET Sessions : Logins!End(ls)
<1> DEFINE R == {s \in Sessions : lock[s] = w}
<1>1. \A s \in R : state[s] # "none"
  BY FreeAssumption DEF Inv, Existing
<1>2. /\ state' = [s \in Sessions |-> IF s \in R THEN "revoked" ELSE state[s]]
      /\ login' = login
  BY DEF SweepCommit
<1> QED BY <1>1, <1>2, RevokingEnds

(* A session that expires still is the one its login goes by. *)
LEMMA ExpireStutters ==
  ASSUME Inv, NEW s \in Sessions, Expire(s)
  PROVE  UNCHANGED <<Issued, Tip>>
<1>1. /\ state[s] = "live" /\ login' = login
      /\ \A t \in Sessions : state'[t] = IF t = s THEN "expired" ELSE state[t]
  BY DEF Expire, Inv, TypeOK
<1>2. \A t \in Sessions :
        /\ state'[t] \in Unrevoked <=> state[t] \in Unrevoked
        /\ state'[t] # "none" <=> state[t] # "none"
  BY <1>1 DEF Unrevoked
<1> QED BY <1>1, <1>2 DEF Issued, Tip

LEMMA StepRefines ==
  ASSUME Inv, [Next]_vars
  PROVE  [Logins!Next]_<<Issued, Tip>>
<1>1. UNCHANGED <<state, login>> => UNCHANGED <<Issued, Tip>>
  BY DEF Issued, Tip
<1>2. ASSUME NEW w \in Requests, NEW b \in Browsers, NEW n \in Sessions, Login(w, b, n)
      PROVE  Logins!Next
  BY <1>2, LoginRefines DEF Logins!Next
<1>3. ASSUME NEW w \in Requests, NEW n \in Sessions, RotateCommit(w, n)
      PROVE  Logins!Next
  BY <1>3, RotateCommitRefines DEF Logins!Next
<1>4. ASSUME NEW w \in Requests, LogoutRevoke(w) \/ SweepCommit(w)
      PROVE  Logins!Next
  BY <1>4, LogoutRevokeRefines, SweepCommitRefines DEF Logins!Next
<1>5. \/ UNCHANGED <<state, login>>
      \/ \E w \in Requests, b \in Browsers, n \in Sessions : Login(w, b, n)
      \/ \E w \in Requests, n \in Sessions : RotateCommit(w, n)
      \/ \E w \in Requests : LogoutRevoke(w) \/ SweepCommit(w)
      \/ \E s \in Sessions : Expire(s)
  <2>1. ASSUME NEW w \in Requests, User(w)
        PROVE  \/ UNCHANGED <<state, login>>
               \/ \E b \in Browsers, n \in Sessions : Login(w, b, n)
    BY <2>1 DEF User, Refresh, Logout, LogoutAll
  <2>2. ASSUME NEW w \in Requests, Locking(w)
        PROVE  UNCHANGED <<state, login>> \/ LogoutRevoke(w)
    BY <2>2 DEF Locking, RotateLock, RotateRefused, SweepRow
  <2>3. ASSUME NEW w \in Requests, LogoutFails(w) \/ Deliver(w) \/ Fail(w)
        PROVE  UNCHANGED <<state, login>>
    BY <2>3 DEF LogoutFails, Deliver, Fail
  <2> QED BY <2>1, <2>2, <2>3 DEF Next, Server, vars
<1> QED BY <1>1, <1>2, <1>3, <1>4, <1>5, ExpireStutters

(* The sessions service implements LoginChain, whatever requests run at    *)
(* the same time and wherever they fail: a login that has been ended is    *)
(* never continued, and no token is given out twice.                       *)
THEOREM SessionsImplementLogins == Spec => ImplementsLogins
<1>1. Init => Logins!Init
  BY DEF Init, Logins!Init, Issued, Tip, Unrevoked
<1>2. Inv /\ [Next]_vars => [Logins!Next]_<<Issued, Tip>>
  BY StepRefines
<1> QED BY <1>1, <1>2, SessionsInvariant, PTL DEF Spec, ImplementsLogins, Logins!Spec

-----------------------------------------------------------------------------
(* The abstract promise in the terms of the tables: a login none of whose  *)
(* sessions counts any more has ended for good, and no row is issued twice.*)
THEOREM SessionsEndForGood ==
  Spec => [][/\ \A l \in Issued : Tip[l] = {} => Tip'[l] = {}
             /\ Issued \subseteq Issued']_vars
<1>1. ASSUME Inv, [Next]_vars
      PROVE  /\ \A l \in Issued : Tip[l] = {} => Tip'[l] = {}
             /\ Issued \subseteq Issued'
  <2>1. Logins!Next \/ UNCHANGED <<Issued, Tip>>
    BY <1>1, StepRefines
  <2>2. DOMAIN Tip = Sessions /\ Issued \subseteq Sessions
    BY DEF Tip, Issued
  <2>3. Tip \in [Sessions -> SUBSET Sessions]
    BY DEF Tip
  <2>4. ASSUME NEW t \in Sessions, Logins!Open(t)
        PROVE  /\ \A l \in Issued : Tip[l] = {} => Tip'[l] = {}
               /\ Issued \subseteq Issued'
    BY <2>2, <2>3, <2>4 DEF Logins!Open
  <2>5. ASSUME NEW k \in Sessions, NEW t \in Sessions, Logins!Continue(k, t)
        PROVE  /\ \A l \in Issued : Tip[l] = {} => Tip'[l] = {}
               /\ Issued \subseteq Issued'
    BY <2>2, <2>3, <2>5 DEF Logins!Continue
  <2>6. ASSUME NEW ls \in SUBSET Sessions, Logins!End(ls)
        PROVE  /\ \A l \in Issued : Tip[l] = {} => Tip'[l] = {}
               /\ Issued \subseteq Issued'
    BY <2>2, <2>3, <2>6 DEF Logins!End
  <2> QED BY <2>1, <2>4, <2>5, <2>6 DEF Logins!Next
<1>2. Inv /\ [Next]_vars =>
        [/\ \A l \in Issued : Tip[l] = {} => Tip'[l] = {}
         /\ Issued \subseteq Issued']_vars
  BY <1>1
<1> QED BY <1>2, SessionsInvariant, PTL DEF Spec

-----------------------------------------------------------------------------
(* What is safety in RequestsFinish: a transaction that holds rows is in   *)
(* its last statement or sweeps upwards, so no two wait for each other.    *)
LocksInOrder(w) ==
  /\ \A s \in Sessions : lock[s] = w =>
       \/ req[w].pc = "commit" /\ req[w].sess = s
       \/ req[w].pc = "sweep" /\ s \in req[w].saw \ req[w].todo
  /\ req[w].pc = "sweep" =>
       /\ req[w].todo \subseteq req[w].saw
       /\ \A s \in req[w].saw \ req[w].todo, t \in req[w].todo : s < t

OrderInv == \A w \in Requests : LocksInOrder(w)

(* A request keeps its order when it and the locks it has stay put. *)
LEMMA OrderStays ==
  ASSUME OrderInv, NEW v \in Requests, req'[v] = req[v],
         \A s \in Sessions : lock'[s] = v => lock[s] = v
  PROVE  LocksInOrder(v)'
BY DEF OrderInv, LocksInOrder

(* A step of one request takes no lock for another: its own order is all. *)
LEMMA OrderOfOne ==
  ASSUME TypeOK, OrderInv, NEW w \in Requests, NEW r, Goto(w, r),
         \A s \in Sessions : lock'[s] # lock[s] => lock'[s] \in {w, Free},
         LocksInOrder(w)'
  PROVE  OrderInv'
<1>1. \A v \in Requests \ {w} : req'[v] = req[v]
  BY DEF TypeOK, Goto
<1>2. \A v \in Requests \ {w} : \A s \in Sessions : lock'[s] = v => lock[s] = v
  BY FreeAssumption
<1>3. \A v \in Requests \ {w} : LocksInOrder(v)'
  BY <1>1, <1>2, OrderStays
<1> QED BY <1>3 DEF OrderInv

(* A request that holds nothing and does not sweep is in order. *)
LEMMA OrderOfUnlocked ==
  ASSUME TypeOK, OrderInv, NEW w \in Requests, NEW r, Goto(w, r), r.pc # "sweep",
         \A s \in Sessions : lock'[s] # w /\ (lock'[s] # lock[s] => lock'[s] = Free)
  PROVE  OrderInv'
<1>1. req'[w] = r
  BY DEF TypeOK, Goto
<1>2. LocksInOrder(w)'
  BY <1>1 DEF LocksInOrder
<1> QED BY <1>2, OrderOfOne

LEMMA OrderOfHolder ==
  ASSUME OrderInv, NEW w \in Requests, req[w].pc \notin {"commit", "sweep"}
  PROVE  \A s \in Sessions : lock[s] # w
BY DEF OrderInv, LocksInOrder

LEMMA ReleasedAll ==
  ASSUME TypeOK, NEW w \in Requests, lock' = Released(w)
  PROVE  \A s \in Sessions : lock'[s] # w /\ (lock'[s] # lock[s] => lock'[s] = Free)
BY FreeAssumption DEF Released, TypeOK

LEMMA UserOrder ==
  ASSUME TypeOK, OrderInv, NEW w \in Requests, User(w) PROVE OrderInv'
<1>1. lock' = lock /\ req[w] = Idle
  BY DEF User, Refresh, Logout, LogoutAll, Login
<1>2. \A s \in Sessions : lock[s] # w
  BY <1>1, OrderOfHolder DEF Idle
<1>3. ASSUME NEW b \in Browsers, LogoutAll(w, b) PROVE OrderInv'
  <2> DEFINE found == {s \in Sessions : state[s] \in Unrevoked}
             r == [pc |-> "sweep", jar |-> b, saw |-> found, todo |-> found]
  <2>1. Goto(w, r) /\ req'[w] = r
    BY <1>3 DEF LogoutAll, Goto, TypeOK
  <2>2. LocksInOrder(w)'
    BY <1>1, <1>2, <2>1 DEF LocksInOrder
  <2> QED BY <1>1, <2>1, <2>2, OrderOfOne
<1>4. \A s \in Sessions : lock'[s] # w /\ (lock'[s] # lock[s] => lock'[s] = Free)
  BY <1>1, <1>2
<1>5. ASSUME NEW b \in Browsers, Refresh(w, b) \/ Logout(w, b) PROVE OrderInv'
  BY <1>4, <1>5, OrderOfUnlocked DEF Refresh, Logout
<1>6. ASSUME NEW b \in Browsers, NEW n \in Sessions, Login(w, b, n) PROVE OrderInv'
  BY <1>4, <1>6, OrderOfUnlocked DEF Login
<1> QED BY <1>3, <1>5, <1>6 DEF User

LEMMA SweepRowOrder ==
  ASSUME TypeOK, OrderInv, NEW w \in Requests, NEW s \in Sessions, SweepRow(w, s)
  PROVE  OrderInv'
<1> DEFINE r == [req[w] EXCEPT !.todo = @ \ {s}]
<1>1. req[w] \in Sweep /\ req[w].pc = "sweep" /\ s \in req[w].todo
  BY RequestShape DEF SweepRow
<1>2. Goto(w, r) /\ req'[w] = r /\ r.pc = "sweep" /\ r.saw = req[w].saw
      /\ r.todo = req[w].todo \ {s} /\ req[w].todo \in SUBSET Sessions
      /\ req[w].saw \in SUBSET Sessions
  BY <1>1 DEF SweepRow, Goto, TypeOK, Sweep
<1>3. \A t \in Sessions : lock'[t] = IF t = s /\ state[s] \in Unrevoked THEN w ELSE lock[t]
  BY DEF SweepRow, TypeOK
<1> HIDE DEF r
<1>4. \A p \in r.saw \ r.todo, t \in r.todo : p < t
  <2>1. \A t \in r.todo : s < t
    BY <1>1, <1>2 DEF SweepRow, Sessions
  <2>2. \A p \in req[w].saw \ req[w].todo, t \in req[w].todo : p < t
    BY <1>1 DEF OrderInv, LocksInOrder
  <2> QED BY <1>2, <2>1, <2>2
<1>5. \A t \in Sessions : lock'[t] = w /\ t # s => t \in req[w].saw \ req[w].todo
  BY <1>1, <1>3 DEF OrderInv, LocksInOrder
<1>6. r.todo \subseteq r.saw /\ s \in r.saw
  BY <1>1, <1>2 DEF OrderInv, LocksInOrder
<1>7. LocksInOrder(w)'
  BY <1>2, <1>4, <1>5, <1>6 DEF LocksInOrder
<1> QED BY <1>2, <1>3, <1>7, OrderOfOne

LEMMA RotateLockOrder ==
  ASSUME TypeOK, OrderInv, NEW w \in Requests, RotateLock(w) PROVE OrderInv'
<1> DEFINE s == req[w].sess
           r == [req[w] EXCEPT !.pc = "commit"]
<1>1. req[w] \in Rotation /\ s \in Sessions
  BY RequestShape DEF RotateLock, HasToken
<1>2. Goto(w, r) /\ req'[w] = r /\ r.pc = "commit" /\ r.sess = s
  BY <1>1 DEF RotateLock, Goto, TypeOK, Rotation
<1>3. \A t \in Sessions : lock[t] # w
  BY OrderOfHolder DEF RotateLock
<1>4. \A t \in Sessions : lock'[t] = IF t = s THEN w ELSE lock[t]
  BY <1>1 DEF RotateLock, TypeOK
<1>5. LocksInOrder(w)'
  BY <1>2, <1>3, <1>4 DEF LocksInOrder
<1> QED BY <1>2, <1>4, <1>5, OrderOfOne

LEMMA OtherOrder ==
  ASSUME TypeOK, OrderInv, NEW w \in Requests,
         \/ RotateRefused(w) \/ LogoutRevoke(w) \/ LogoutFails(w) \/ Deliver(w)
         \/ Server(w) \/ Fail(w)
  PROVE  OrderInv'
<1>1. CASE RotateRefused(w)
  <2>1. req[w] \in Rotation
    BY <1>1, RequestShape DEF RotateRefused
  <2>2. [req[w] EXCEPT !.pc = "denied"].pc # "sweep"
    BY <2>1 DEF Rotation
  <2> QED BY <1>1, <2>2, OrderOfHolder, OrderOfUnlocked DEF RotateRefused
<1>2. CASE LogoutRevoke(w) \/ LogoutFails(w)
  BY <1>2, OrderOfHolder, OrderOfUnlocked DEF LogoutRevoke, LogoutFails
<1>3. CASE Deliver(w)
  BY <1>3, OrderOfHolder, OrderOfUnlocked DEF Deliver, Idle
<1>4. CASE Fail(w)
  BY <1>4, ReleasedAll, OrderOfUnlocked DEF Fail, Idle
<1>5. CASE SweepCommit(w)
  <2>1. req[w] \in Sweep
    BY <1>5, RequestShape DEF SweepCommit
  <2>2. [req[w] EXCEPT !.pc = "swept"].pc # "sweep"
    BY <2>1 DEF Sweep
  <2> QED BY <1>5, <2>2, ReleasedAll, OrderOfUnlocked DEF SweepCommit
<1>6. ASSUME NEW n \in Sessions, RotateCommit(w, n) PROVE OrderInv'
  <2>1. req[w] \in Rotation
    BY <1>6, RequestShape DEF RotateCommit
  <2>2. [req[w] EXCEPT !.pc = "granted", !.sess = n].pc # "sweep"
    BY <2>1 DEF Rotation
  <2> QED BY <1>6, <2>2, ReleasedAll, OrderOfUnlocked DEF RotateCommit
<1> QED BY <1>1, <1>2, <1>3, <1>4, <1>5, <1>6 DEF Server

LEMMA NextOrder == Inv /\ OrderInv /\ [Next]_vars => OrderInv'
<1> SUFFICES ASSUME Inv, OrderInv, [Next]_vars PROVE OrderInv'
  OBVIOUS
<1>1. TypeOK
  BY DEF Inv
<1>2. ASSUME UNCHANGED <<lock, req>> PROVE OrderInv'
  BY <1>2, OrderStays DEF OrderInv
<1>3. ASSUME NEW w \in Requests, Locking(w) PROVE OrderInv'
  BY <1>1, <1>3, RotateLockOrder, SweepRowOrder, OtherOrder DEF Locking
<1> QED BY <1>1, <1>2, <1>3, UserOrder, OtherOrder DEF Next, Expire, vars

(* The row the next statement of a request has to lock. *)
Wants(w, s) ==
  \/ req[w].pc \in {"lock", "revoke"} /\ s = req[w].sess
  \/ req[w].pc = "sweep" /\ s \in req[w].todo /\ \A t \in req[w].todo : s <= t

(* Whoever holds a row while he waits for another waits for a later one.   *)
WaitsAscend ==
  \A w \in Requests : \A s, t \in Sessions :
    lock[s] = w /\ Wants(w, t) => s < t

(* Some transaction that holds a row waits for none. *)
SomebodyMoves ==
  (\E s \in Sessions : lock[s] # Free) =>
    \E v \in Requests :
      /\ \E s \in Sessions : lock[s] = v
      /\ \A t \in Sessions : Wants(v, t) => lock[t] = Free

LEMMA OrderAscends == ASSUME OrderInv PROVE WaitsAscend
BY DEF OrderInv, LocksInOrder, WaitsAscend, Wants

(* The natural numbers are well-founded: a set of them has a least one.    *)
LEMMA LeastNumber ==
  ASSUME NEW N \in SUBSET Nat, N # {}
  PROVE  \E x \in N : \A y \in N : x <= y
<1> DEFINE Below == {p \in Nat \X Nat : p[1] < p[2]}
<1>1. IsWellFoundedOn(Below, Nat)
  BY NatLessThanWellFounded DEF OpToRel
<1>2. PICK x \in N : \A y \in N : <<y, x>> \notin Below
  BY <1>1, WFMin
<1>3. ASSUME NEW y \in N PROVE x <= y
  <2>1. ~ (y < x)
    BY <1>2
  <2> QED BY <2>1
<1> QED BY <1>3

(* The holder of the last row that is locked is the one. *)
LEMMA LastHolderMoves ==
  ASSUME TypeOK, WaitsAscend PROVE SomebodyMoves
<1> SUFFICES ASSUME NEW k \in Sessions, lock[k] # Free
             PROVE  \E v \in Requests :
                      /\ \E s \in Sessions : lock[s] = v
                      /\ \A t \in Sessions : Wants(v, t) => lock[t] = Free
  BY DEF SomebodyMoves
<1> DEFINE Held == {s \in Sessions : lock[s] # Free}
           Gaps == {MaxSessions - s : s \in Held}
<1>1. Gaps \in SUBSET Nat /\ MaxSessions - k \in Gaps
  BY MaxSessionsAssumption DEF Sessions
<1>2. PICK g \in Gaps : \A h \in Gaps : g <= h
  BY <1>1, LeastNumber
<1>3. PICK m \in Held : g = MaxSessions - m
  OBVIOUS
<1>4. ASSUME NEW s \in Held PROVE s <= m
  <2>1. MaxSessions - m <= MaxSessions - s
    BY <1>2, <1>3
  <2> QED BY <2>1, MaxSessionsAssumption DEF Sessions
<1>5. lock[m] \in Requests
  BY DEF TypeOK
<1>6. \A t \in Sessions : Wants(lock[m], t) => lock[t] = Free
  BY <1>4, <1>5 DEF WaitsAscend, Sessions
<1> QED BY <1>5, <1>6

(* RotateSession, RevokeSession and RevokeAllUserSessions never lock each  *)
(* other out: whatever refreshes and logouts meet on the rows of a user,   *)
(* locks are waited for in the order of the rows, which every sweep takes  *)
(* as SweepRow has it, and one of the transactions that hold any can take  *)
(* its next statement.                                                     *)
THEOREM SessionsNoDeadlock == Spec => [](WaitsAscend /\ SomebodyMoves)
<1>1. Init => OrderInv
  BY FreeAssumption DEF Init, OrderInv, LocksInOrder, Idle
<1>2. Inv /\ OrderInv => WaitsAscend /\ SomebodyMoves
  BY OrderAscends, LastHolderMoves DEF Inv
<1> QED BY <1>1, <1>2, NextOrder, SessionsInvariant, PTL DEF Spec
=============================================================================
