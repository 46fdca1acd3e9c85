----------------------------- MODULE Workspace -----------------------------
(* One tab of the web client between the login page, the page that lists the *)
(* user's workspaces and the workspaces themselves: the access token and the *)
(* stores it keeps in memory, and the asynchronous functions that fill them. *)
(*                                                                           *)
(* OrgProvider hydrates the workspace of the URL: it has the token switched  *)
(* to the organization unless it is already there, then fetches the          *)
(* organization and the membership, whose permissions are those of the       *)
(* organization in the token.  Leaving the page cancels it, but what has     *)
(* been sent is answered all the same, and the new token is kept even then.  *)
(* The list of workspaces does the same before it enters one, and nothing    *)
(* cancels that.                                                             *)
EXTENDS Integers

CONSTANTS Users, Orgs,
          Jobs           \* bound: asynchronous functions under way

None == "none"
Login == "login"
Select == "select"
Start == "start"         \* the list of workspaces enters one
Hydrate == "hydrate"     \* OrgProvider

ASSUME OrgsAssumption == Orgs \cap {None, Login, Select} = {} /\ None \notin Users

VARIABLES
  place,     \* the URL: the login page, the list of workspaces, or a workspace
  user,      \* whose refresh cookie the browser holds
  token,     \* the access token in memory: its user and its organization
  store,     \* the current organization, and whose permissions in which
  ready,     \* OrgProvider shows the pages of the workspace
  job,       \* the functions under way
  outlived   \* a request was under way when its user signed out

vars == <<place, user, token, store, ready, job, outlived>>

Token(u, o) == [user |-> u, org |-> o]
NoToken == Token(None, None)
NoStore == [org |-> None, perms |-> Token(None, None)]
Idle == [pc |-> "idle"]

\* A function with its request on the way, and the token that carries it.
Sends(what, o, t) ==
  [pc |-> IF t.org = o THEN "fetch" ELSE "switch", what |-> what, org |-> o,
   carries |-> t, live |-> TRUE]

\* Faulty variants of the operators below, each a plausible slip in the code.
KeepsLive(jobs) == jobs                        \* no cleanup of the effect
EntersBlind(o, j, jobs, t, s) ==               \* the first case forgets setReady
  IF s.org = o THEN place' = o /\ ready' = FALSE /\ job' = jobs
  ELSE IF t = NoToken THEN place' = Login /\ ready' = FALSE /\ job' = jobs
  ELSE place' = o /\ ready' = FALSE /\ job' = [jobs EXCEPT ![j] = Sends(Hydrate, o, t)]
ForgetsToken == token' = NoToken /\ UNCHANGED store   \* the stores are not reset
KeepsReady(p) == place' = p /\ UNCHANGED <<ready, job>>   \* nor a reset

\* The page is left: its hydration is cancelled, a start from the list is not.
Cancelled(jobs) ==
  [j \in Jobs |-> IF jobs[j] # Idle /\ jobs[j].what = Hydrate
                    THEN [jobs[j] EXCEPT !.live = FALSE] ELSE jobs[j]]

Goto(p) == place' = p /\ ready' = FALSE /\ job' = Cancelled(job)

\* OrgProvider mounts at the URL of workspace o, with job j free, token t and
\* store s: it is ready at once when the store is o's already.
Enters(o, j, jobs, t, s) ==
  IF s.org = o THEN place' = o /\ ready' = TRUE /\ job' = jobs
  ELSE IF t = NoToken THEN place' = Login /\ ready' = FALSE /\ job' = jobs
  ELSE place' = o /\ ready' = FALSE /\ job' = [jobs EXCEPT ![j] = Sends(Hydrate, o, t)]

\* The token and the stores are given up.
Forgets == token' = NoToken /\ store' = NoStore

Init ==
  /\ place = Login
  /\ user = None
  /\ token = NoToken
  /\ store = NoStore
  /\ ready = FALSE
  /\ job = [j \in Jobs |-> Idle]
  /\ outlived = FALSE

(* ------------------------------- the user -------------------------------- *)
\* The form of the login page.
SignIn(u) ==
  /\ place = Login
  /\ user' = u
  /\ token' = Token(u, None)
  /\ Goto(Select)
  /\ UNCHANGED <<store, outlived>>

\* The login page finds a token in memory, or the refresh cookie gets it one.
SignedInAlready ==
  /\ place = Login
  /\ token # NoToken \/ user # None
  /\ token' = IF token # NoToken THEN token ELSE Token(user, None)
  /\ Goto(Select)
  /\ UNCHANGED <<user, store, outlived>>

\* A link, the history or the address bar leads to a workspace.
Visit(o, j) ==
  /\ place \in (Orgs \cup {Select}) \ {o}
  /\ job[j] = Idle
  /\ Enters(o, j, Cancelled(job), token, store)
  /\ UNCHANGED <<user, token, store, outlived>>

\* The way back to the list of workspaces.
Leave ==
  /\ place \in Orgs
  /\ Goto(Select)
  /\ UNCHANGED <<user, token, store, outlived>>

\* A workspace of the list is chosen: its token is switched first.
StartAt(o, j) ==
  /\ place = Select
  /\ token # NoToken
  /\ job[j] = Idle
  /\ job' = [job EXCEPT ![j] = [Sends(Start, o, token) EXCEPT !.pc = "switch"]]
  /\ UNCHANGED <<place, user, token, store, ready, outlived>>

\* The page is loaded anew: nothing in memory is left, and AuthProvider gets a
\* token with the refresh cookie or leads to the login page.  A page that is
\* still loading would only start over (bound).
Reload(j) ==
  /\ place \in Orgs /\ ready
  /\ token' = IF user = None THEN NoToken ELSE Token(user, None)
  /\ store' = NoStore
  /\ outlived' = FALSE
  /\ Enters(place, j, [i \in Jobs |-> Idle], token', NoStore)
  /\ UNCHANGED user

\* Either menu: the call may fail, which leaves the cookie where it is.
SignOut ==
  /\ place = Select \/ ready
  /\ user' \in {None, user}
  /\ Forgets
  /\ Goto(Login)
  /\ outlived' = (outlived \/ \E j \in Jobs : job[j] # Idle)

(* ------------------------------ the answers ------------------------------ *)
\* switchOrganization is answered.  The token is kept even when the hydration
\* has been cancelled, and carries the membership's request in the same turn.
SwitchAnswered(j) ==
  /\ job[j].pc = "switch"
  /\ token' = Token(job[j].carries.user, job[j].org)
  /\ job' = [job EXCEPT ![j].pc = "fetch", ![j].carries = token']
  /\ UNCHANGED <<place, user, store, ready, outlived>>

\* The organization and the membership are in.
Fetched(j) ==
  LET r == job[j] IN
  /\ r.pc = "fetch"
  /\ r.carries.org # None
  /\ store' = IF r.live THEN [org |-> r.org, perms |-> r.carries] ELSE store
  /\ ready' = (ready \/ (r.live /\ r.what = Hydrate))
  /\ job' = [job EXCEPT ![j] = IF r.what = Start THEN [r EXCEPT !.pc = "push"] ELSE Idle]
  /\ UNCHANGED <<place, user, token, outlived>>

\* The router gets to the workspace the list has started.
Pushed(j) ==
  /\ job[j].pc = "push"
  /\ Enters(job[j].org, j, [Cancelled(job) EXCEPT ![j] = Idle], token, store)
  /\ UNCHANGED <<user, token, store, outlived>>

\* One of the requests fails: OrgProvider leads to the list of workspaces, the
\* list reports it and stays.
Fails(j) ==
  LET r == job[j]
      rest == [job EXCEPT ![j] = Idle] IN
  /\ r.pc \in {"switch", "fetch"}
  /\ IF r.what = Hydrate /\ r.live
       THEN place' = Select /\ ready' = FALSE /\ job' = Cancelled(rest)
       ELSE UNCHANGED <<place, ready>> /\ job' = rest
  /\ UNCHANGED <<user, token, store, outlived>>

\* Some requests are answered 401: the new token names no organization, and a
\* membership asked for anew with it is refused.
Renewed(late) ==
  /\ place # Login
  /\ user # None /\ token # NoToken
  /\ \A j \in late : job[j].pc = "fetch" /\ job[j].carries = token
  /\ token' = Token(user, None)
  /\ job' = [j \in Jobs |-> IF j \in late THEN [job[j] EXCEPT !.carries = token']
                                         ELSE job[j]]
  /\ UNCHANGED <<place, user, store, ready, outlived>>

\* The refresh is refused: the browser itself goes to the login page.
Expelled ==
  /\ place # Login
  /\ user' \in {None, user}
  /\ place' = Login /\ ready' = FALSE /\ job' = [j \in Jobs |-> Idle]
  /\ Forgets
  /\ outlived' = FALSE

Answer(j) == SwitchAnswered(j) \/ Fetched(j) \/ Pushed(j) \/ Fails(j)

Next ==
  \/ \E u \in Users : SignIn(u)
  \/ SignedInAlready \/ Leave \/ SignOut \/ Expelled
  \/ \E late \in SUBSET Jobs : Renewed(late)
  \/ \E j \in Jobs :
       \/ Answer(j) \/ Reload(j)
       \/ \E o \in Orgs : Visit(o, j) \/ StartAt(o, j)

Spec == Init /\ [][Next]_vars

\* A request is answered or fails, and the router gets where it is sent.
Fairness == \A j \in Jobs : WF_vars(Answer(j))
FairSpec == Spec /\ Fairness

(* ------------------------------ properties ------------------------------- *)
Tokens == [user : Users \cup {None}, org : Orgs \cup {None}]
TypeOK ==
  /\ place \in Orgs \cup {Login, Select}
  /\ user \in Users \cup {None}
  /\ token \in Tokens
  /\ store \in [org : Orgs \cup {None}, perms : Tokens]
  /\ ready \in BOOLEAN /\ (ready => place \in Orgs)
  /\ job \in [Jobs -> {Idle} \cup
       [pc : {"switch", "fetch", "push"}, what : {Start, Hydrate}, org : Orgs,
        carries : Tokens, live : BOOLEAN]]
  /\ outlived \in BOOLEAN

\* The pages of a workspace are shown with that workspace's organization and
\* permissions, however the answers for the workspaces visited before it
\* arrive; but while the router is still on its way to one chosen from the
\* list, the stores are that one's already.
Coherent ==
  ready /\ (\A j \in Jobs : job[j].pc # "push") =>
    store.org = place /\ store.perms.org = place

\* They are the permissions of the user who is signed in, unless one who
\* signed out before in this tab had a request on the way.
PermissionsAreOwn ==
  ready /\ ~outlived => store.perms.user = user

\* OrgProvider does not keep the user waiting: the workspace is shown, or
\* another page is.
LoadingEnds ==
  \A o \in Orgs : place = o /\ ~ready ~> ready \/ place # o
=============================================================================
