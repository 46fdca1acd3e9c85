------------------------------ MODULE Sessions ------------------------------
(***************************************************************************)
(* Refresh sessions of one user, internal/auth, and the browsers that hold *)
(* their tokens.                                                           *)
(*                                                                         *)
(* A login starts a chain of sessions; every refresh revokes the session   *)
(* whose token was sent and opens the next one, under a row lock, in one   *)
(* READ COMMITTED transaction. A browser sends several requests at once    *)
(* with the one cookie it has and takes the answers in any order.          *)
(* LogoutAll is a single UPDATE: it sees the rows committed when it        *)
(* starts, waits for the locks of those and looks at each again.           *)
(***************************************************************************)
EXTENDS Integers

CONSTANTS MaxSessions,   \* bound: sessions ever created
          Browsers,      \* cookie jars, each of one device of the user
          Requests       \* requests in flight at the same time

Free == "free"                             \* no transaction holds the row

ASSUME MaxSessionsAssumption == MaxSessions \in Nat \ {0}
ASSUME FreeAssumption == Free \notin Requests

VARIABLES state,         \* each row of sessions, by order of insertion
          login,         \* the first session of its chain; 0 for no row
          lock,          \* the transaction that holds the row's lock
          cookie,        \* the session whose token the jar holds; 0 for none
          req            \* program counter and local variables of each request

vars == <<state, login, lock, cookie, req>>

Sessions == 1..MaxSessions
Unrevoked == {"live", "expired"}           \* revoked_at IS NULL

Idle == [pc |-> "idle"]
Request ==
  [pc : {"lock", "commit", "granted", "denied"}, jar : Browsers, sess : Sessions] \cup
  [pc : {"revoke"}, jar : Browsers, sess : Sessions] \cup
  [pc : {"out"}, jar : Browsers] \cup
  [pc : {"sweep", "swept"}, jar : Browsers, saw : SUBSET Sessions, todo : SUBSET Sessions]

TypeOK ==
  /\ state \in [Sessions -> Unrevoked \cup {"none", "revoked"}]
  /\ login \in [Sessions -> 0..MaxSessions]
  /\ lock \in [Sessions -> Requests \cup {Free}]
  /\ cookie \in [Browsers -> 0..MaxSessions]
  /\ req \in [Requests -> Request \cup {Idle}]
  /\ \A s \in Sessions : state[s] = "none" <=> login[s] = 0

Init ==
  /\ state = [s \in Sessions |-> "none"]
  /\ login = [s \in Sessions |-> 0]
  /\ lock = [s \in Sessions |-> Free]
  /\ cookie = [b \in Browsers |-> 0]
  /\ req = [w \in Requests |-> Idle]

(* The identifier of the row that is inserted next. *)
IsNext(n) ==
  /\ state[n] = "none"
  /\ \A s \in 1..n - 1 : state[s] # "none"

Goto(w, r) == req' = [req EXCEPT ![w] = r]

(* The lock column with everything w holds given back. *)
Released(w) == [s \in Sessions |-> IF lock[s] = w THEN Free ELSE lock[s]]

(* Faulty variants of the operators below, each a plausible slip in the    *)
(* code; a checked property has to tell it from the real one.              *)
RotatedKeepsOld(s, n) == [state EXCEPT ![n] = "live"]    \* the old one lives on
ChainedNot(s, n) == login                  \* the new row has no owner
RotateRefusedLeaks(w) ==                   \* no deferred Rollback on refusal
  LET s == req[w].sess IN
  /\ req[w].pc = "lock"
  /\ lock[s] = Free
  /\ state[s] # "live"
  /\ lock' = [lock EXCEPT ![s] = w]
  /\ Goto(w, [req[w] EXCEPT !.pc = "denied"])
  /\ UNCHANGED <<state, login, cookie>>
RotateLockNot(w) ==                        \* SELECT without FOR UPDATE
  /\ req[w].pc = "lock"
  /\ state[req[w].sess] = "live"
  /\ Goto(w, [req[w] EXCEPT !.pc = "commit"])
  /\ UNCHANGED <<state, login, lock, cookie>>
SweepRowSkipsLocked(w, s) ==               \* FOR UPDATE SKIP LOCKED
  /\ req[w].pc = "sweep"
  /\ s \in req[w].todo
  /\ \A t \in req[w].todo : s <= t
  /\ lock' = IF lock[s] = Free /\ state[s] \in Unrevoked
               THEN [lock EXCEPT ![s] = w] ELSE lock
  /\ Goto(w, [req[w] EXCEPT !.todo = @ \ {s}])
  /\ UNCHANGED <<state, login, cookie>>

-----------------------------------------------------------------------------
(* Login and OAuthSync: CreateSession, the first of a chain. *)
Login(w, b, n) ==
  /\ req[w] = Idle
  /\ IsNext(n)
  /\ state' = [state EXCEPT ![n] = "live"]
  /\ login' = [login EXCEPT ![n] = n]
  /\ Goto(w, [pc |-> "granted", jar |-> b, sess |-> n])
  /\ UNCHANGED <<lock, cookie>>

(* Refresh: the request carries the token in the jar. *)
Refresh(w, b) ==
  /\ req[w] = Idle
  /\ cookie[b] # 0
  /\ Goto(w, [pc |-> "lock", jar |-> b, sess |-> cookie[b]])
  /\ UNCHANGED <<state, login, lock, cookie>>

(* RotateSession: SELECT ... FOR UPDATE returns the row as it is once the  *)
(* lock is granted.                                                        *)
RotateLock(w) ==
  LET s == req[w].sess IN
  /\ req[w].pc = "lock"
  /\ lock[s] = Free
  /\ state[s] = "live"
  /\ lock' = [lock EXCEPT ![s] = w]
  /\ Goto(w, [req[w] EXCEPT !.pc = "commit"])
  /\ UNCHANGED <<state, login, cookie>>

(* RotateSession: ErrSessionRevoked or ErrSessionExpired, and Rollback. *)
RotateRefused(w) ==
  LET s == req[w].sess IN
  /\ req[w].pc = "lock"
  /\ lock[s] = Free
  /\ state[s] # "live"
  /\ Goto(w, [req[w] EXCEPT !.pc = "denied"])
  /\ UNCHANGED <<state, login, lock, cookie>>

(* RotateSession: the old row is revoked, the new one inserted. *)
Rotated(s, n) == [state EXCEPT ![s] = "revoked", ![n] = "live"]
Chained(s, n) == [login EXCEPT ![n] = login[s]]

(* RotateSession: Commit. The test of RowsAffected cannot fail while the   *)
(* row is locked.                                                          *)
RotateCommit(w, n) ==
  LET s == req[w].sess IN
  /\ req[w].pc = "commit"
  /\ IsNext(n)
  /\ state' = Rotated(s, n)
  /\ login' = Chained(s, n)
  /\ lock' = Released(w)
  /\ Goto(w, [req[w] EXCEPT !.pc = "granted", !.sess = n])
  /\ UNCHANGED cookie

(* Logout: GetSessionByTokenHash finds live sessions only. *)
Logout(w, b) ==
  /\ req[w] = Idle
  /\ cookie[b] # 0
  /\ Goto(w, IF state[cookie[b]] = "live"
               THEN [pc |-> "revoke", jar |-> b, sess |-> cookie[b]]
               ELSE [pc |-> "out", jar |-> b])
  /\ UNCHANGED <<state, login, lock, cookie>>

(* RevokeSession waits for the row's lock too. *)
LogoutRevoke(w) ==
  LET s == req[w].sess IN
  /\ req[w].pc = "revoke"
  /\ lock[s] = Free
  /\ state' = [state EXCEPT ![s] = "revoked"]
  /\ Goto(w, [pc |-> "out", jar |-> req[w].jar])
  /\ UNCHANGED <<login, lock, cookie>>

(* The handler answers 204 and clears the cookie when Logout failed, too. *)
LogoutFails(w) ==
  /\ req[w].pc = "revoke"
  /\ Goto(w, [pc |-> "out", jar |-> req[w].jar])
  /\ UNCHANGED <<state, login, lock, cookie>>

(* LogoutAll: RevokeAllUserSessions takes its snapshot. It needs an access *)
(* token, not a cookie. ResetMemberPassword runs the same UPDATE.          *)
LogoutAll(w, b) ==
  LET rows == {s \in Sessions : state[s] \in Unrevoked} IN
  /\ req[w] = Idle
  /\ Goto(w, [pc |-> "sweep", jar |-> b, saw |-> rows, todo |-> rows])
  /\ UNCHANGED <<state, login, lock, cookie>>

(* RevokeAllUserSessions: the next row in order of insertion is locked,    *)
(* looked at again, and changed unless somebody revoked it meanwhile.      *)
SweepRow(w, s) ==
  /\ req[w].pc = "sweep"
  /\ s \in req[w].todo
  /\ \A t \in req[w].todo : s <= t
  /\ lock[s] = Free
  /\ lock' = IF state[s] \in Unrevoked THEN [lock EXCEPT ![s] = w] ELSE lock
  /\ Goto(w, [req[w] EXCEPT !.todo = @ \ {s}])
  /\ UNCHANGED <<state, login, cookie>>

SweepCommit(w) ==
  /\ req[w].pc = "sweep"
  /\ req[w].todo = {}
  /\ state' = [s \in Sessions |-> IF lock[s] = w THEN "revoked" ELSE state[s]]
  /\ lock' = Released(w)
  /\ Goto(w, [req[w] EXCEPT !.pc = "swept"])
  /\ UNCHANGED <<login, cookie>>

(* The answer reaches the browser: Set-Cookie with the new token, or with  *)
(* none after a 401 and after either logout.                               *)
Deliver(w) ==
  LET r == req[w] IN
  /\ r.pc \in {"granted", "denied", "out", "swept"}
  /\ cookie' = [cookie EXCEPT ![r.jar] = IF r.pc = "granted" THEN r.sess ELSE 0]
  /\ Goto(w, Idle)
  /\ UNCHANGED <<state, login, lock>>

(* A statement fails and the handler answers 500 without a cookie, as it   *)
(* does when FindByID finds no active user after the rotation; the process *)
(* dies; or the answer is lost. An open transaction is rolled back.        *)
Fail(w) ==
  /\ req[w] # Idle
  /\ lock' = Released(w)
  /\ Goto(w, Idle)
  /\ UNCHANGED <<state, login, cookie>>

(* RefreshTokenTTL passes. *)
Expire(s) ==
  /\ state[s] = "live"
  /\ state' = [state EXCEPT ![s] = "expired"]
  /\ UNCHANGED <<login, lock, cookie, req>>

-----------------------------------------------------------------------------
(* The steps that may have to wait for a row. *)
Locking(w) ==
  \/ RotateLock(w) \/ RotateRefused(w) \/ LogoutRevoke(w)
  \/ \E s \in Sessions : SweepRow(w, s)

Server(w) == SweepCommit(w) \/ \E n \in Sessions : RotateCommit(w, n)

User(w) ==
  \E b \in Browsers :
    \/ Refresh(w, b) \/ Logout(w, b) \/ LogoutAll(w, b)
    \/ \E n \in Sessions : Login(w, b, n)

Next ==
  \/ \E w \in Requests :
       User(w) \/ Locking(w) \/ Server(w) \/ LogoutFails(w) \/ Deliver(w) \/ Fail(w)
  \/ \E s \in Sessions : Expire(s)

Spec == Init /\ [][Next]_vars

(* A request the server works on goes on, an answer arrives or is lost,    *)
(* and PostgreSQL serves the waiters for a row first come, first served,   *)
(* which is stronger than SF. The bound on sessions must not count as a    *)
(* stuck request, so a rotation at the bound may fail instead.             *)
Fairness ==
  \A w \in Requests :
    /\ SF_vars(Locking(w))
    /\ WF_vars(Server(w) \/ Deliver(w))
    /\ WF_vars(req[w].pc = "commit" /\ Fail(w) /\ \A s \in Sessions : state[s] # "none")

FairSpec == Spec /\ Fairness

-----------------------------------------------------------------------------
(* Properties *)

(* However many refreshes carry the same token, and wherever they fail, a  *)
(* login never has two sessions that are not revoked.                      *)
OneUnrevokedPerLogin ==
  \A s, t \in Sessions :
    (state[s] \in Unrevoked /\ state[t] \in Unrevoked /\ login[s] = login[t]) => s = t

(* When LogoutAll answers, no session that was committed before its UPDATE *)
(* began is left, whatever transactions were holding those rows. (A        *)
(* rotation that committed meanwhile has put a later one in its place.)    *)
SweepReaches ==
  \A w \in Requests : req[w].pc = "swept" =>
    \A s \in req[w].saw : state[s] = "revoked"

(* No request waits for ever for a row: every path through the transaction *)
(* gives its locks back, and no two wait for each other.                   *)
RequestsFinish ==
  \A w \in Requests : (req[w] # Idle) ~> (req[w] = Idle)

(* Seen through its logins the service is a LoginChain: a login that a     *)
(* logout has ended is never continued, neither by a refresh that was      *)
(* under way nor by one that comes later with the old token; no token is   *)
(* given out twice; and a failure in between changes nothing.              *)
Issued == {s \in Sessions : state[s] # "none"}
Tip == [l \in Sessions |-> {s \in Sessions : state[s] \in Unrevoked /\ login[s] = l}]

Logins == INSTANCE LoginChain WITH Tokens <- Sessions, issued <- Issued, tip <- Tip

ImplementsLogins == Logins!Spec

(* What AuthProvider takes a failed refresh to mean: the login is over. *)
RefusedMeansOver ==
  \A w \in Requests : req[w].pc = "denied" =>
    \A s \in Sessions : login[s] = login[req[w].sess] => state[s] # "live"
=============================================================================
