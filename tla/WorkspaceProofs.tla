-------------------------- MODULE WorkspaceProofs --------------------------
(***************************************************************************)
(* Proofs about Workspace, for any users, organizations and number of      *)
(* functions under way.  Coherent rests on what a function knows when its  *)
(* answer arrives: its token was that of its organization when it was      *)
(* sent, and its page is still on the screen unless it was cancelled.      *)
(* PermissionsAreOwn rests on the way to the login page: unless a request  *)
(* is left behind, nothing of the user before is there any more.           *)
(***************************************************************************)
EXTENDS Workspace, TLAPS

Running ==
  [pc : {"switch", "fetch", "push"}, what : {Start, Hydrate}, org : Orgs,
   carries : Tokens, live : BOOLEAN]

(* The permissions are kept with the organization they hold in. *)
StoreMatches ==
  /\ store.org = store.perms.org
  /\ ready => store.org \in Orgs

(* A membership is asked for with the token of its own organization, or with
   a renewed one that names none and is refused. *)
CarriesOwn ==
  \A j \in Jobs : job[j].pc = "fetch" => job[j].carries.org \in {job[j].org, None}

(* A hydration that was not cancelled belongs to the page shown. *)
LiveIsHere ==
  \A j \in Jobs : job[j] # Idle /\ job[j].what = Hydrate /\ job[j].live
                    => job[j].org = place

(* Whose everything is, unless a request outlived its user. *)
OneUser ==
  /\ token # NoToken => token.user = user
  /\ \A j \in Jobs : job[j] # Idle => job[j].carries.user = user
  /\ store.org # None => store.perms.user = user

(* The login page finds nothing; every other page has a token. *)
CleanLogin ==
  /\ place = Login =>
       /\ token = NoToken
       /\ store.org = None
       /\ \A j \in Jobs : job[j] = Idle
  /\ place # Login => token # NoToken

Placed == TypeOK /\ StoreMatches /\ CarriesOwn /\ LiveIsHere /\ Coherent
Owned == ~ outlived => OneUser /\ CleanLogin
Inv == Placed /\ Owned

JobMaps == [Jobs -> {Idle} \cup Running]
Stores == [org : Orgs \cup {None}, perms : Tokens]

-----------------------------------------------------------------------------
(* The shape of the functions under way. *)

LEMMA JobShape ==
  ASSUME NEW jobs \in JobMaps, NEW j \in Jobs
  PROVE  /\ jobs[j] = Idle \/ jobs[j] \in Running
         /\ jobs[j] # Idle <=> jobs[j].pc # "idle"
<1>1. jobs[j] = Idle \/ jobs[j] \in Running
  BY DEF JobMaps
<1>2. jobs[j] \in Running => jobs[j].pc # "idle" /\ jobs[j] # Idle
  BY DEF Running, Idle
<1>3. jobs[j] = Idle => jobs[j].pc = "idle"
  BY DEF Idle
<1> QED BY <1>1, <1>2, <1>3

LEMMA TypedJobs ==
  ASSUME TypeOK
  PROVE  job \in JobMaps /\ store \in Stores /\ token \in Tokens
BY DEF TypeOK, JobMaps, Running, Stores

(* Cancelling takes nothing away but the right to answer. *)
LEMMA CancelledShape ==
  ASSUME NEW jobs \in JobMaps
  PROVE  /\ Cancelled(jobs) \in JobMaps
         /\ \A j \in Jobs :
              /\ Cancelled(jobs)[j] = Idle <=> jobs[j] = Idle
              /\ Cancelled(jobs)[j].pc = jobs[j].pc
              /\ jobs[j] # Idle =>
                   /\ Cancelled(jobs)[j].carries = jobs[j].carries
                   /\ Cancelled(jobs)[j].org = jobs[j].org
                   /\ ~ (Cancelled(jobs)[j].what = Hydrate /\ Cancelled(jobs)[j].live)
<1> SUFFICES ASSUME NEW j \in Jobs
             PROVE  /\ Cancelled(jobs)[j] \in {Idle} \cup Running
                    /\ Cancelled(jobs)[j] = Idle <=> jobs[j] = Idle
                    /\ Cancelled(jobs)[j].pc = jobs[j].pc
                    /\ jobs[j] # Idle =>
                         /\ Cancelled(jobs)[j].carries = jobs[j].carries
                         /\ Cancelled(jobs)[j].org = jobs[j].org
                         /\ ~ (Cancelled(jobs)[j].what = Hydrate /\ Cancelled(jobs)[j].live)
  BY DEF Cancelled, JobMaps
<1>1. CASE jobs[j] = Idle
  BY <1>1 DEF Cancelled
<1>2. CASE jobs[j] # Idle /\ jobs[j].what # Hydrate
  BY <1>2, JobShape DEF Cancelled
<1>3. CASE jobs[j] # Idle /\ jobs[j].what = Hydrate
  <2>1. jobs[j] \in Running
    BY <1>3, JobShape
  <2>2. Cancelled(jobs)[j] = [jobs[j] EXCEPT !.live = FALSE]
    BY <1>3 DEF Cancelled
  <2>3. [jobs[j] EXCEPT !.live = FALSE] \in Running
    BY <2>1 DEF Running
  <2>4. [jobs[j] EXCEPT !.live = FALSE] # Idle
    BY <2>3 DEF Running, Idle
  <2> QED BY <1>3, <2>1, <2>2, <2>3, <2>4 DEF Running
<1> QED BY <1>1, <1>2, <1>3

(* What a mounting OrgProvider makes of the page and of the functions under
   way, none of which is a hydration that still counts. *)
LEMMA EntersShape ==
  ASSUME NEW o \in Orgs, NEW j \in Jobs, NEW jobs \in JobMaps,
         NEW t \in Tokens, NEW s \in Stores, jobs[j] = Idle,
         \A i \in Jobs : jobs[i].pc = "fetch" => jobs[i].carries.org \in {jobs[i].org, None},
         \A i \in Jobs : jobs[i] # Idle => ~ (jobs[i].what = Hydrate /\ jobs[i].live),
         Enters(o, j, jobs, t, s)
  PROVE  /\ place' \in Orgs \cup {Login, Select}
         /\ ready' \in BOOLEAN
         /\ job' \in JobMaps
         /\ ready' => place' = o /\ s.org = o
         /\ CarriesOwn' /\ LiveIsHere'
         /\ \A i \in Jobs : job'[i] # Idle =>
              (job'[i] = jobs[i]) \/ (t # NoToken /\ job'[i].carries = t)
         /\ place' = Login => t = NoToken /\ job' = jobs
<1>1. CASE s.org = o
  <2>1. place' = o /\ ready' = TRUE /\ job' = jobs
    BY <1>1 DEF Enters
  <2>2. o # Login
    BY OrgsAssumption
  <2> QED BY <1>1, <2>1, <2>2 DEF CarriesOwn, LiveIsHere
<1>2. CASE s.org # o /\ t = NoToken
  <2>1. place' = Login /\ ready' = FALSE /\ job' = jobs
    BY <1>2 DEF Enters
  <2> QED BY <1>2, <2>1 DEF CarriesOwn, LiveIsHere
<1>3. CASE s.org # o /\ t # NoToken
  <2> DEFINE r == Sends(Hydrate, o, t)
  <2>1. place' = o /\ ready' = FALSE /\ job' = [jobs EXCEPT ![j] = r]
    BY <1>3 DEF Enters
  <2>2. r \in Running /\ r.carries = t /\ r.org = o /\ (r.pc = "fetch" => t.org = o)
    BY DEF Sends, Running, Hydrate
  <2>3. job' \in JobMaps
    BY <2>1, <2>2 DEF JobMaps
  <2>4. job'[j] = r /\ \A i \in Jobs : i # j => job'[i] = jobs[i]
    BY <2>1 DEF JobMaps
  <2>5. CarriesOwn'
    BY <2>2, <2>4 DEF CarriesOwn
  <2>6. LiveIsHere'
    BY <2>1, <2>2, <2>4 DEF LiveIsHere
  <2>7. o # Login
    BY OrgsAssumption
  <2> HIDE DEF r
  <2> QED BY <1>3, <2>1, <2>2, <2>3, <2>4, <2>5, <2>6, <2>7
<1> QED BY <1>1, <1>2, <1>3

-----------------------------------------------------------------------------
(* One lemma per kind of step. *)

(* A step to another page that keeps or clears the stores. *)
LEMMA GotoPlaced ==
  ASSUME Placed, NEW p \in {Login, Select}, Goto(p),
         user' \in Users \cup {None}, token' \in Tokens, outlived' \in BOOLEAN,
         store' \in {store, NoStore}
  PROVE  Placed'
<1>1. job' \in JobMaps
  BY TypedJobs, CancelledShape DEF Placed, Goto
<1>2. store' \in Stores /\ store'.org = store'.perms.org
  BY TypedJobs DEF Placed, StoreMatches, NoStore, Token, Stores, Tokens
<1>3. TypeOK'
  BY <1>1, <1>2 DEF Goto, TypeOK, JobMaps, Running, Stores
<1>4. CarriesOwn'
  <2> SUFFICES ASSUME NEW j \in Jobs, job'[j].pc = "fetch"
               PROVE  job'[j].carries.org \in {job'[j].org, None}
    BY DEF CarriesOwn
  <2>1. job[j].pc = "fetch" /\ job[j] # Idle
    BY TypedJobs, CancelledShape, JobShape DEF Placed, Goto, Idle
  <2> QED BY <2>1, TypedJobs, CancelledShape DEF Placed, Goto, CarriesOwn
<1>5. LiveIsHere'
  BY TypedJobs, CancelledShape DEF Placed, Goto, LiveIsHere
<1>6. ~ ready'
  BY DEF Goto
<1> QED BY <1>2, <1>3, <1>4, <1>5, <1>6 DEF Placed, StoreMatches, Coherent

LEMMA SignInInv ==
  ASSUME Inv, NEW u \in Users, SignIn(u)
  PROVE  Inv'
<1>1. Placed'
  BY GotoPlaced DEF Inv, Placed, TypeOK, SignIn, Token, Tokens
<1>2. Owned'
  <2> SUFFICES ASSUME ~ outlived
               PROVE  (OneUser /\ CleanLogin)'
    BY DEF SignIn, Owned
  <2>1. store'.org = None /\ place' = Select /\ token'.user = u /\ user' = u
    BY DEF Inv, Owned, CleanLogin, SignIn, Goto, Token
  <2>2. \A j \in Jobs : job'[j] = Idle
    BY TypedJobs, CancelledShape DEF Inv, Placed, Owned, CleanLogin, SignIn, Goto
  <2>3. token' # NoToken
    BY <2>1, OrgsAssumption DEF NoToken, Token
  <2> QED BY <2>1, <2>2, <2>3 DEF OneUser, CleanLogin, Login, Select
<1> QED BY <1>1, <1>2 DEF Inv

LEMMA SignedInAlreadyInv ==
  ASSUME Inv, SignedInAlready
  PROVE  Inv'
<1>1. token' \in Tokens
  BY DEF Inv, Placed, TypeOK, SignedInAlready, Token, Tokens
<1>2. Placed'
  BY <1>1, GotoPlaced DEF Inv, Placed, TypeOK, SignedInAlready
<1>3. Owned'
  <2> SUFFICES ASSUME ~ outlived
               PROVE  (OneUser /\ CleanLogin)'
    BY DEF SignedInAlready, Owned
  <2>1. token = NoToken /\ store'.org = None /\ place' = Select
    BY DEF Inv, Owned, CleanLogin, SignedInAlready, Goto
  <2>2. \A j \in Jobs : job'[j] = Idle
    BY TypedJobs, CancelledShape DEF Inv, Placed, Owned, CleanLogin, SignedInAlready, Goto
  <2>3. token'.user = user' /\ user' # None
    BY <2>1 DEF SignedInAlready, Token
  <2>4. token' # NoToken
    BY <2>3 DEF NoToken, Token
  <2> QED BY <2>1, <2>2, <2>3, <2>4 DEF OneUser, CleanLogin, Login, Select
<1> QED BY <1>2, <1>3 DEF Inv

LEMMA LeaveInv ==
  ASSUME Inv, Leave
  PROVE  Inv'
<1>1. Placed'
  BY GotoPlaced DEF Inv, Placed, TypeOK, Leave
<1>2. Owned'
  <2> SUFFICES ASSUME ~ outlived
               PROVE  (OneUser /\ CleanLogin)'
    BY DEF Leave, Owned
  <2>1. place # Login
    BY OrgsAssumption DEF Leave
  <2>2. \A j \in Jobs : job'[j] # Idle => job'[j].carries.user = user
    BY TypedJobs, CancelledShape DEF Inv, Placed, Owned, OneUser, Leave, Goto
  <2> QED BY <2>1, <2>2 DEF Inv, Owned, OneUser, CleanLogin, Leave, Goto, Login, Select
<1> QED BY <1>1, <1>2 DEF Inv

LEMMA SignOutInv ==
  ASSUME Inv, SignOut
  PROVE  Inv'
<1>1. Placed'
  BY GotoPlaced DEF Inv, Placed, TypeOK, SignOut, Forgets, NoToken, Token, Tokens
<1>2. Owned'
  <2> SUFFICES ASSUME \A j \in Jobs : job[j] = Idle
               PROVE  (OneUser /\ CleanLogin)'
    BY DEF SignOut, Owned
  <2>1. \A j \in Jobs : job'[j] = Idle
    BY TypedJobs, CancelledShape DEF Inv, Placed, SignOut, Goto
  <2> QED BY <2>1 DEF OneUser, CleanLogin, SignOut, Forgets, Goto, NoStore
<1> QED BY <1>1, <1>2 DEF Inv

LEMMA ExpelledInv ==
  ASSUME Inv, Expelled
  PROVE  Inv'
<1>1. TypeOK'
  BY DEF Inv, Placed, TypeOK, Expelled, Forgets, NoStore, NoToken, Token, Tokens
<1>2. \A j \in Jobs : job'[j] = Idle
  BY DEF Expelled
<1>3. CarriesOwn' /\ LiveIsHere'
  BY <1>2 DEF CarriesOwn, LiveIsHere, Idle
<1>4. StoreMatches' /\ Coherent'
  BY DEF StoreMatches, Coherent, Expelled, Forgets, NoStore, Token
<1>5. Owned'
  BY <1>2 DEF Owned, OneUser, CleanLogin, Expelled, Forgets, NoStore
<1> QED BY <1>1, <1>3, <1>4, <1>5 DEF Inv, Placed

(* OrgProvider mounts, from functions that are those of before or fewer. *)
LEMMA EntersPlaced ==
  ASSUME Placed, NEW o \in Orgs, NEW j \in Jobs, NEW jobs \in JobMaps, jobs[j] = Idle,
         \A i \in Jobs : jobs[i].pc = "fetch" => jobs[i].carries.org \in {jobs[i].org, None},
         \A i \in Jobs : jobs[i] # Idle => ~ (jobs[i].what = Hydrate /\ jobs[i].live),
         user' = user, token' \in Tokens, store' \in {store, NoStore}, outlived' \in BOOLEAN,
         Enters(o, j, jobs, token', store')
  PROVE  Placed'
<1>1. store' \in Stores /\ store'.org = store'.perms.org
  BY TypedJobs DEF Placed, StoreMatches, NoStore, Token, Stores, Tokens
<1> HIDE DEF Placed
<1>2. /\ place' \in Orgs \cup {Login, Select} /\ ready' \in BOOLEAN /\ job' \in JobMaps
      /\ ready' => place' = o /\ store'.org = o
      /\ CarriesOwn' /\ LiveIsHere'
  BY <1>1, EntersShape
<1>3. TypeOK'
  BY <1>1, <1>2 DEF Placed, TypeOK, JobMaps, Running, Stores
<1> QED BY <1>1, <1>2, <1>3 DEF Placed, StoreMatches, Coherent

(* The functions left when a page is left meet what EntersShape asks. *)
LEMMA CancelledJobs ==
  ASSUME Placed, NEW jobs \in JobMaps, NEW j \in Jobs, jobs[j] = Idle,
         \A i \in Jobs : jobs[i] = Cancelled(job)[i] \/ jobs[i] = Idle
  PROVE  /\ \A i \in Jobs : jobs[i].pc = "fetch" =>
                jobs[i].carries.org \in {jobs[i].org, None}
         /\ \A i \in Jobs : jobs[i] # Idle =>
                /\ ~ (jobs[i].what = Hydrate /\ jobs[i].live)
                /\ job[i] # Idle /\ jobs[i].carries = job[i].carries
<1> SUFFICES ASSUME NEW i \in Jobs
             PROVE  /\ jobs[i].pc = "fetch" => jobs[i].carries.org \in {jobs[i].org, None}
                    /\ jobs[i] # Idle =>
                         /\ ~ (jobs[i].what = Hydrate /\ jobs[i].live)
                         /\ job[i] # Idle /\ jobs[i].carries = job[i].carries
  OBVIOUS
<1>1. CASE jobs[i] = Idle
  BY <1>1 DEF Idle
<1>2. CASE jobs[i] # Idle
  <2>1. jobs[i] = Cancelled(job)[i] /\ job[i] # Idle
    BY <1>2, TypedJobs, CancelledShape DEF Placed
  <2> QED BY <2>1, TypedJobs, CancelledShape DEF Placed, CarriesOwn
<1> QED BY <1>1, <1>2

LEMMA VisitInv ==
  ASSUME Inv, NEW o \in Orgs, NEW j \in Jobs, Visit(o, j)
  PROVE  Inv'
<1> DEFINE jobs == Cancelled(job)
<1>1. jobs \in JobMaps /\ jobs[j] = Idle
  BY TypedJobs, CancelledShape DEF Inv, Placed, Visit
<1>2. /\ \A i \in Jobs : jobs[i].pc = "fetch" => jobs[i].carries.org \in {jobs[i].org, None}
      /\ \A i \in Jobs : jobs[i] # Idle =>
           /\ ~ (jobs[i].what = Hydrate /\ jobs[i].live)
           /\ job[i] # Idle /\ jobs[i].carries = job[i].carries
  BY <1>1, CancelledJobs DEF Inv
<1>3. user' = user /\ token' = token /\ store' = store /\ outlived' = outlived
  BY DEF Visit
<1>4. token \in Tokens /\ store \in Stores
  BY TypedJobs DEF Inv, Placed
<1>5. Enters(o, j, jobs, token, store)
  BY DEF Visit
<1> HIDE DEF jobs
<1>6. Placed'
  <2>1. Enters(o, j, jobs, token', store') /\ outlived' \in BOOLEAN
    BY <1>3, <1>5 DEF Inv, Placed, TypeOK
  <2> QED BY <1>1, <1>2, <1>3, <1>4, <2>1, EntersPlaced DEF Inv
<1>7. Owned'
  <2> SUFFICES ASSUME ~ outlived
               PROVE  (OneUser /\ CleanLogin)'
    BY <1>3 DEF Owned
  <2>1. OneUser /\ token # NoToken
    BY OrgsAssumption DEF Inv, Owned, CleanLogin, Visit, Login, Select
  <2>2. /\ \A i \in Jobs : job'[i] # Idle =>
             (job'[i] = jobs[i]) \/ (token # NoToken /\ job'[i].carries = token)
        /\ place' # Login
    BY <1>1, <1>2, <1>4, <1>5, <2>1, EntersShape
  <2>3. \A i \in Jobs : job'[i] # Idle => job'[i].carries.user = user'
    BY <1>2, <1>3, <2>1, <2>2 DEF OneUser
  <2> QED BY <1>3, <2>1, <2>2, <2>3 DEF OneUser, CleanLogin
<1> QED BY <1>6, <1>7 DEF Inv

LEMMA PushedInv ==
  ASSUME Inv, NEW j \in Jobs, Pushed(j)
  PROVE  Inv'
<1> DEFINE jobs == [Cancelled(job) EXCEPT ![j] = Idle]
           o == job[j].org
<1>1. jobs \in JobMaps /\ jobs[j] = Idle
      /\ \A i \in Jobs : jobs[i] = Cancelled(job)[i] \/ jobs[i] = Idle
  BY TypedJobs, CancelledShape DEF Inv, Placed, JobMaps
<1>2. job[j] # Idle /\ o \in Orgs
  BY TypedJobs, JobShape DEF Inv, Placed, Pushed, Running
<1>3. user' = user /\ token' = token /\ store' = store /\ outlived' = outlived
  BY DEF Pushed
<1>4. token \in Tokens /\ store \in Stores
  BY TypedJobs DEF Inv, Placed
<1>5. Enters(o, j, jobs, token, store)
  BY DEF Pushed
<1> HIDE DEF jobs, o
<1>6. /\ \A i \in Jobs : jobs[i].pc = "fetch" => jobs[i].carries.org \in {jobs[i].org, None}
      /\ \A i \in Jobs : jobs[i] # Idle =>
           /\ ~ (jobs[i].what = Hydrate /\ jobs[i].live)
           /\ job[i] # Idle /\ jobs[i].carries = job[i].carries
  BY <1>1, CancelledJobs DEF Inv
<1>7. Placed'
  <2>1. Enters(o, j, jobs, token', store') /\ outlived' \in BOOLEAN
    BY <1>3, <1>5 DEF Inv, Placed, TypeOK
  <2> QED BY <1>1, <1>2, <1>3, <1>4, <1>6, <2>1, EntersPlaced DEF Inv
<1>8. Owned'
  <2> SUFFICES ASSUME ~ outlived
               PROVE  (OneUser /\ CleanLogin)'
    BY <1>3 DEF Owned
  <2>1. OneUser /\ token # NoToken
    BY <1>2 DEF Inv, Owned, CleanLogin
  <2>2. /\ \A i \in Jobs : job'[i] # Idle =>
             (job'[i] = jobs[i]) \/ (token # NoToken /\ job'[i].carries = token)
        /\ place' # Login
    BY <1>1, <1>2, <1>4, <1>5, <1>6, <2>1, EntersShape
  <2>3. \A i \in Jobs : job'[i] # Idle => job'[i].carries.user = user'
    BY <1>3, <1>6, <2>1, <2>2 DEF OneUser
  <2> QED BY <1>3, <2>1, <2>2, <2>3 DEF OneUser, CleanLogin
<1> QED BY <1>7, <1>8 DEF Inv

LEMMA ReloadInv ==
  ASSUME Inv, NEW j \in Jobs, Reload(j)
  PROVE  Inv'
<1> DEFINE jobs == [i \in Jobs |-> Idle]
<1>1. /\ jobs \in JobMaps /\ \A i \in Jobs : jobs[i] = Idle
      /\ \A i \in Jobs : jobs[i].pc # "fetch"
  BY DEF JobMaps, Idle
<1>2. /\ place \in Orgs /\ user' = user /\ store' = NoStore /\ outlived' = FALSE
      /\ token' = IF user = None THEN NoToken ELSE Token(user, None)
  BY DEF Reload
<1>3. token' \in Tokens /\ store' \in Stores
  BY <1>2 DEF Inv, Placed, TypeOK, Tokens, Stores, Token, NoToken, NoStore
<1>4. Enters(place, j, jobs, token', store')
  BY <1>2 DEF Reload
<1> HIDE DEF jobs
<1>5. Placed'
  BY <1>1, <1>2, <1>3, <1>4, EntersPlaced DEF Inv
<1>6. Owned'
  <2>1. /\ \A i \in Jobs : job'[i] # Idle => token' # NoToken /\ job'[i].carries = token'
        /\ place' = Login => token' = NoToken /\ job' = jobs
    BY <1>1, <1>2, <1>3, <1>4, EntersShape
  <2>2. token' # NoToken => token'.user = user'
    BY <1>2 DEF Token
  <2>3. store'.org = None
    BY <1>2 DEF NoStore
  <2>4. place' # Login => token' # NoToken
    BY <1>2, <1>4, <2>3, OrgsAssumption DEF Enters
  <2> QED BY <1>1, <2>1, <2>2, <2>3, <2>4 DEF Owned, OneUser, CleanLogin
<1> QED BY <1>5, <1>6 DEF Inv

(* One function goes on while the page and the stores stay as they are. *)
LEMMA JobStep ==
  ASSUME Placed, NEW j \in Jobs, NEW r \in {Idle} \cup Running,
         job' = [job EXCEPT ![j] = r],
         r.pc = "fetch" => r.carries.org \in {r.org, None},
         r # Idle /\ r.what = Hydrate /\ r.live => r.org = place,
         job[j].pc # "push",
         UNCHANGED <<place, store, ready>>,
         user' \in Users \cup {None}, token' \in Tokens, outlived' \in BOOLEAN
  PROVE  Placed'
<1>1. job'[j] = r /\ \A i \in Jobs : i # j => job'[i] = job[i]
  BY TypedJobs DEF Placed, JobMaps
<1>2. TypeOK'
  BY DEF Placed, TypeOK, Running
<1>3. StoreMatches' /\ CarriesOwn' /\ LiveIsHere'
  BY <1>1 DEF Placed, StoreMatches, CarriesOwn, LiveIsHere
<1>4. Coherent'
  BY <1>1 DEF Placed, Coherent
<1> QED BY <1>2, <1>3, <1>4 DEF Placed

LEMMA StartAtInv ==
  ASSUME Inv, NEW o \in Orgs, NEW j \in Jobs, StartAt(o, j)
  PROVE  Inv'
<1> DEFINE r == [Sends(Start, o, token) EXCEPT !.pc = "switch"]
<1>1. /\ r \in Running /\ r.pc = "switch" /\ r.carries = token
      /\ r.what # Hydrate
  BY TypedJobs DEF Inv, Placed, Sends, Running, Start, Hydrate
<1>2. /\ job' = [job EXCEPT ![j] = r]
      /\ UNCHANGED <<place, user, token, store, ready, outlived>>
  BY DEF StartAt
<1> HIDE DEF r
<1>3. Placed'
  <2>1. job[j].pc # "push"
    BY DEF StartAt, Idle
  <2> QED BY <1>1, <1>2, <2>1, JobStep DEF Inv, Placed, TypeOK
<1>4. Owned'
  <2>1. job'[j] = r /\ \A i \in Jobs : i # j => job'[i] = job[i]
    BY <1>2, TypedJobs DEF Inv, Placed, JobMaps
  <2>2. place # Login /\ token # NoToken
    BY DEF StartAt, Login, Select
  <2> QED BY <1>1, <1>2, <2>1, <2>2 DEF Inv, Owned, OneUser, CleanLogin
<1> QED BY <1>3, <1>4 DEF Inv

LEMMA SwitchAnsweredInv ==
  ASSUME Inv, NEW j \in Jobs, SwitchAnswered(j)
  PROVE  Inv'
<1> DEFINE t == Token(job[j].carries.user, job[j].org)
           r == [job[j] EXCEPT !.pc = "fetch", !.carries = t]
<1>1. job[j] # Idle /\ job[j] \in Running
  BY TypedJobs, JobShape DEF Inv, Placed, SwitchAnswered
<1>2. t \in Tokens /\ t.org = job[j].org /\ t.user = job[j].carries.user
  BY <1>1 DEF Token, Tokens, Running
<1>3. /\ r \in Running /\ r.carries = t /\ r.org = job[j].org
      /\ r.what = job[j].what /\ r.live = job[j].live
  BY <1>1, <1>2 DEF Running
<1>4. /\ token' = t
      /\ job' = [job EXCEPT ![j] = r]
      /\ UNCHANGED <<place, user, store, ready, outlived>>
  BY <1>1, TypedJobs DEF Inv, Placed, SwitchAnswered, JobMaps, Running
<1> HIDE DEF r, t
<1>5. Placed'
  <2>1. job[j].pc # "push"
    BY DEF SwitchAnswered
  <2>2. r.what = Hydrate /\ r.live => r.org = place
    BY <1>1, <1>3 DEF Inv, Placed, LiveIsHere
  <2> QED BY <1>2, <1>3, <1>4, <2>1, <2>2, JobStep DEF Inv, Placed, TypeOK
<1>6. Owned'
  <2> SUFFICES ASSUME ~ outlived
               PROVE  (OneUser /\ CleanLogin)'
    BY <1>4 DEF Owned
  <2>1. place # Login /\ t.user = user
    BY <1>1, <1>2 DEF Inv, Owned, OneUser, CleanLogin
  <2>2. t # NoToken
    BY <1>1, <1>2, OrgsAssumption DEF NoToken, Token, Running
  <2>3. job'[j] = r /\ \A i \in Jobs : i # j => job'[i] = job[i]
    BY <1>4, TypedJobs DEF Inv, Placed, JobMaps
  <2> QED BY <1>3, <1>4, <2>1, <2>2, <2>3 DEF Inv, Owned, OneUser, CleanLogin
<1> QED BY <1>5, <1>6 DEF Inv

LEMMA FailsInv ==
  ASSUME Inv, NEW j \in Jobs, Fails(j)
  PROVE  Inv'
<1> DEFINE rest == [job EXCEPT ![j] = Idle]
<1>1. job[j] # Idle /\ job[j].pc # "push"
  BY DEF Fails, Idle
<1>2. UNCHANGED <<user, token, store, outlived>>
  BY DEF Fails
<1>3. \A i \in Jobs : rest[i] = IF i = j THEN Idle ELSE job[i]
  BY TypedJobs DEF Inv, Placed, JobMaps
<1>4. rest \in JobMaps
  BY TypedJobs DEF Inv, Placed, JobMaps
<1> HIDE DEF rest
<1>5. CASE place' = Select /\ ready' = FALSE /\ job' = Cancelled(rest)
  <2>1. job' \in JobMaps
    BY <1>4, <1>5, CancelledShape
  <2>2. TypeOK'
    BY <1>2, <1>5, <2>1 DEF Inv, Placed, TypeOK, JobMaps, Running
  <2>3. CarriesOwn'
    <3> SUFFICES ASSUME NEW i \in Jobs, job'[i].pc = "fetch"
                 PROVE  job'[i].carries.org \in {job'[i].org, None}
      BY DEF CarriesOwn
    <3>1. rest[i].pc = "fetch" /\ rest[i] # Idle
      BY <1>4, <1>5, CancelledShape DEF Idle
    <3>2. rest[i] = job[i]
      BY <1>3, <3>1
    <3> QED BY <1>4, <1>5, <3>1, <3>2, CancelledShape DEF Inv, Placed, CarriesOwn
  <2>4. LiveIsHere'
    BY <1>4, <1>5, CancelledShape DEF LiveIsHere
  <2>5. StoreMatches' /\ Coherent'
    BY <1>2, <1>5 DEF Inv, Placed, StoreMatches, Coherent
  <2>6. Owned'
    <3> SUFFICES ASSUME ~ outlived
                 PROVE  (OneUser /\ CleanLogin)'
      BY <1>2 DEF Owned
    <3>1. \A i \in Jobs : job'[i] # Idle =>
             job[i] # Idle /\ job'[i].carries = job[i].carries
      BY <1>3, <1>4, <1>5, CancelledShape
    <3>2. place # Login /\ place' # Login
      BY <1>1, <1>5 DEF Inv, Owned, CleanLogin, Login, Select
    <3> QED BY <1>2, <3>1, <3>2 DEF Inv, Owned, OneUser, CleanLogin
  <2> QED BY <2>2, <2>3, <2>4, <2>5, <2>6 DEF Inv, Placed
<1>6. CASE UNCHANGED <<place, ready>> /\ job' = rest
  <2>1. Placed'
    <3>1. Idle.pc # "fetch"
      BY DEF Idle
    <3> QED BY <1>1, <1>2, <1>6, <3>1, JobStep DEF Inv, Placed, TypeOK, rest
  <2>2. Owned'
    BY <1>2, <1>3, <1>6 DEF Inv, Owned, OneUser, CleanLogin
  <2> QED BY <2>1, <2>2 DEF Inv
<1> QED BY <1>5, <1>6 DEF Fails, rest

LEMMA RenewedInv ==
  ASSUME Inv, NEW late \in SUBSET Jobs, Renewed(late)
  PROVE  Inv'
<1>1. /\ token' = Token(user, None) /\ user # None /\ place # Login
      /\ UNCHANGED <<place, user, store, ready, outlived>>
  BY DEF Renewed
<1>2. token' \in Tokens /\ token'.org = None /\ token'.user = user /\ token' # NoToken
  BY <1>1 DEF Inv, Placed, TypeOK, Token, Tokens, NoToken
<1>3. ASSUME NEW i \in Jobs, i \in late
      PROVE  /\ job'[i] \in Running /\ job'[i].pc = "fetch" /\ job[i].pc = "fetch"
             /\ job'[i].carries = token' /\ job'[i].org = job[i].org /\ job[i] # Idle
             /\ job'[i].what = job[i].what /\ job'[i].live = job[i].live
  <2>1. job[i].pc = "fetch" /\ job'[i] = [job[i] EXCEPT !.carries = token']
    BY <1>3 DEF Renewed
  <2>2. job[i] \in Running /\ job[i] # Idle
    BY <2>1, TypedJobs, JobShape DEF Inv, Placed
  <2> QED BY <1>2, <2>1, <2>2 DEF Running
<1>4. \A i \in Jobs : i \notin late => job'[i] = job[i]
  BY DEF Renewed
<1>5. job' \in JobMaps
  <2>1. \A i \in Jobs : job'[i] \in {Idle} \cup Running
    BY <1>3, <1>4, TypedJobs DEF Inv, Placed, JobMaps
  <2>2. job' = [i \in Jobs |-> job'[i]]
    BY DEF Renewed
  <2> QED BY <2>1, <2>2 DEF JobMaps
<1>6. TypeOK'
  BY <1>1, <1>2, <1>5 DEF Inv, Placed, TypeOK, JobMaps, Running
<1>7. CarriesOwn' /\ LiveIsHere'
  BY <1>1, <1>2, <1>3, <1>4 DEF Inv, Placed, CarriesOwn, LiveIsHere
<1>8. StoreMatches' /\ Coherent'
  BY <1>1, <1>3, <1>4 DEF Inv, Placed, StoreMatches, Coherent
<1>9. Owned'
  BY <1>1, <1>2, <1>3, <1>4 DEF Inv, Owned, OneUser, CleanLogin
<1> QED BY <1>6, <1>7, <1>8, <1>9 DEF Inv, Placed

LEMMA FetchedInv ==
  ASSUME Inv, NEW j \in Jobs, Fetched(j)
  PROVE  Inv'
<1> DEFINE r == job[j]
           next == IF r.what = Start THEN [r EXCEPT !.pc = "push"] ELSE Idle
<1>1. r # Idle /\ r \in Running /\ r.pc = "fetch"
  BY TypedJobs, JobShape DEF Inv, Placed, Fetched, Idle
<1>2. /\ store' = IF r.live THEN [org |-> r.org, perms |-> r.carries] ELSE store
      /\ ready' = (ready \/ (r.live /\ r.what = Hydrate))
      /\ job' = [job EXCEPT ![j] = next]
      /\ UNCHANGED <<place, user, token, outlived>>
  BY DEF Fetched
<1>3. /\ next \in {Idle} \cup Running /\ next.pc # "fetch"
      /\ r.what = Start => next.pc = "push"
      /\ next # Idle => next.what = Start /\ next.carries = r.carries
  BY <1>1 DEF Running, Idle
<1>4. r.carries.org = r.org
  <2>1. r.carries.org # None /\ r.carries.org \in {r.org, None}
    BY <1>1 DEF Fetched, Inv, Placed, CarriesOwn
  <2> QED BY <2>1
<1>5. r.what = Start \/ (r.what = Hydrate /\ (r.live => r.org = place))
  BY <1>1 DEF Inv, Placed, LiveIsHere, Running
<1>6. r.org \in Orgs /\ r.carries \in Tokens /\ r.live \in BOOLEAN
  BY <1>1 DEF Running
<1>7. job'[j] = next /\ \A i \in Jobs : i # j => job'[i] = job[i]
  BY <1>2, TypedJobs DEF Inv, Placed, JobMaps
<1> HIDE DEF r, next
<1>8. store' \in Stores /\ ready' \in BOOLEAN
  BY <1>2, <1>6, TypedJobs DEF Inv, Placed, TypeOK, Stores
<1>9. StoreMatches'
  <2>1. store'.org = store'.perms.org
    BY <1>2, <1>4, <1>6 DEF Inv, Placed, StoreMatches
  <2>2. ready' => store'.org \in Orgs
    BY <1>2, <1>6 DEF Inv, Placed, StoreMatches
  <2> QED BY <2>1, <2>2 DEF StoreMatches
<1>10. TypeOK'
  <2>1. job' \in [Jobs -> {Idle} \cup Running]
    BY <1>2, <1>3, TypedJobs DEF Inv, Placed, JobMaps
  <2>2. ready' => place' \in Orgs
    BY <1>2, <1>5, <1>6 DEF Inv, Placed, TypeOK, Start, Hydrate
  <2> QED BY <1>2, <1>8, <2>1, <2>2 DEF Inv, Placed, TypeOK, Running, Stores
<1>11. CarriesOwn' /\ LiveIsHere'
  BY <1>2, <1>3, <1>7 DEF Inv, Placed, CarriesOwn, LiveIsHere, Start, Hydrate
<1>12. Coherent'
  <2> SUFFICES ASSUME ready', \A i \in Jobs : job'[i].pc # "push"
               PROVE  store'.org = place'
    BY <1>9 DEF Coherent, StoreMatches
  <2>1. r.what = Hydrate /\ (r.live => r.org = place)
    BY <1>3, <1>5, <1>7
  <2>2. CASE r.live
    BY <1>2, <2>1, <2>2
  <2>3. CASE ~ r.live
    <3>1. ready /\ \A i \in Jobs : job[i].pc # "push"
      BY <1>1, <1>2, <1>7, <2>3 DEF r
    <3> QED BY <1>2, <2>3, <3>1 DEF Inv, Placed, Coherent
  <2> QED BY <2>2, <2>3
<1>13. Owned'
  <2> SUFFICES ASSUME ~ outlived
               PROVE  (OneUser /\ CleanLogin)'
    BY <1>2 DEF Owned
  <2>1. place # Login /\ token # NoToken /\ r.carries.user = user /\ token.user = user
    BY <1>1 DEF Inv, Owned, OneUser, CleanLogin, r
  <2>2. store'.org # None => store'.perms.user = user
    BY <1>2, <2>1 DEF Inv, Owned, OneUser
  <2>3. \A i \in Jobs : job'[i] # Idle => job'[i].carries.user = user
    BY <1>3, <1>7, <2>1 DEF Inv, Owned, OneUser
  <2> QED BY <1>2, <2>1, <2>2, <2>3 DEF OneUser, CleanLogin
<1> QED BY <1>9, <1>10, <1>11, <1>12, <1>13 DEF Inv, Placed

-----------------------------------------------------------------------------
LEMMA InitInv == Init => Inv
<1> SUFFICES ASSUME Init PROVE Inv
  OBVIOUS
<1>1. TypeOK
  BY DEF Init, TypeOK, Tokens, Token, NoToken, NoStore
<1>2. \A j \in Jobs : job[j] = Idle
  BY DEF Init
<1>3. CarriesOwn /\ LiveIsHere
  BY <1>2 DEF CarriesOwn, LiveIsHere, Idle
<1>4. StoreMatches /\ Coherent
  BY DEF Init, StoreMatches, Coherent, NoStore, Token
<1>5. OneUser /\ CleanLogin
  BY <1>2 DEF Init, OneUser, CleanLogin, NoStore
<1> QED BY <1>1, <1>3, <1>4, <1>5 DEF Inv, Placed, Owned

LEMMA NextInv == Inv /\ [Next]_vars => Inv'
<1> SUFFICES ASSUME Inv, [Next]_vars PROVE Inv'
  OBVIOUS
<1>1. CASE \E u \in Users : SignIn(u)
  BY <1>1, SignInInv
<1>2. CASE SignedInAlready
  BY <1>2, SignedInAlreadyInv
<1>3. CASE Leave
  BY <1>3, LeaveInv
<1>4. CASE SignOut
  BY <1>4, SignOutInv
<1>5. CASE Expelled
  BY <1>5, ExpelledInv
<1>6. CASE \E late \in SUBSET Jobs : Renewed(late)
  BY <1>6, RenewedInv
<1>7. CASE \E j \in Jobs : Answer(j)
  BY <1>7, SwitchAnsweredInv, FetchedInv, PushedInv, FailsInv DEF Answer
<1>8. CASE \E j \in Jobs : Reload(j)
  BY <1>8, ReloadInv
<1>9. CASE \E j \in Jobs, o \in Orgs : Visit(o, j) \/ StartAt(o, j)
  BY <1>9, VisitInv, StartAtInv
<1>10. CASE UNCHANGED vars
  BY <1>10 DEF vars, Inv, Placed, Owned, TypeOK, StoreMatches, CarriesOwn, LiveIsHere,
               Coherent, OneUser, CleanLogin
<1> QED BY <1>1, <1>2, <1>3, <1>4, <1>5, <1>6, <1>7, <1>8, <1>9, <1>10 DEF Next

LEMMA SpecInv == Spec => []Inv
<1> QED BY InitInv, NextInv, PTL DEF Spec

(* Every reachable state is well typed: the pages of a workspace are shown
   only at its URL, and a function under way knows its organization. *)
THEOREM WorkspaceTypes == Spec => []TypeOK
<1>1. Inv => TypeOK
  BY DEF Inv, Placed
<1> QED BY <1>1, SpecInv, PTL

(* However many functions are under way and however late they are answered,
   the pages shown are those of the organization and of the permissions in
   the stores. *)
THEOREM WorkspaceCoherent == Spec => []Coherent
<1>1. Inv => Coherent
  BY DEF Inv, Placed
<1> QED BY <1>1, SpecInv, PTL

(* Unless a request outlives its user, the permissions a page is shown with
   are those of the user who is signed in. *)
THEOREM WorkspacePermissionsAreOwn == Spec => []PermissionsAreOwn
<1>1. Inv => PermissionsAreOwn
  BY OrgsAssumption DEF Inv, Placed, StoreMatches, Owned, OneUser, PermissionsAreOwn
<1> QED BY <1>1, SpecInv, PTL

-----------------------------------------------------------------------------
(* The spinner of a workspace is always somebody's: the safety half of       *)
(* LoadingEnds.                                                              *)

Serving(j) ==
  /\ job[j].pc \in {"switch", "fetch"}
  /\ job[j].what = Hydrate /\ job[j].live /\ job[j].org = place

(* A page that is still loading has a hydration under way for it. *)
SpinnerIsServed == place \in Orgs /\ ~ ready => \E j \in Jobs : Serving(j)

(* OrgProvider leaves a workspace loading only with its own request sent. *)
LEMMA EntersServed ==
  ASSUME NEW o \in Orgs, NEW j \in Jobs, NEW jobs \in JobMaps,
         NEW t \in Tokens, NEW s \in Stores, Enters(o, j, jobs, t, s)
  PROVE  SpinnerIsServed'
<1>1. CASE s.org = o \/ t = NoToken
  BY <1>1, OrgsAssumption DEF Enters, SpinnerIsServed
<1>2. CASE s.org # o /\ t # NoToken
  <2>1. place' = o /\ job' = [jobs EXCEPT ![j] = Sends(Hydrate, o, t)]
    BY <1>2 DEF Enters
  <2>2. job'[j] = Sends(Hydrate, o, t)
    BY <2>1 DEF JobMaps
  <2>3. Serving(j)'
    BY <2>1, <2>2 DEF Serving, Sends
  <2> QED BY <2>3 DEF SpinnerIsServed
<1> QED BY <1>1, <1>2

(* A step that leaves the page alone and spoils no hydration for it. *)
LEMMA StillServed ==
  ASSUME SpinnerIsServed, place' = place,
         \/ ready'
         \/ ~ ready /\ \A j \in Jobs : Serving(j) => Serving(j)'
  PROVE  SpinnerIsServed'
BY DEF SpinnerIsServed

(* A renewal changes nothing of a function but the token it carries. *)
LEMMA RenewedShape ==
  ASSUME Placed, NEW late \in SUBSET Jobs, Renewed(late), NEW j \in Jobs
  PROVE  /\ job'[j].pc = job[j].pc
         /\ Serving(j) => Serving(j)'
<1>1. CASE j \notin late
  BY <1>1 DEF Renewed, Serving
<1>2. CASE j \in late
  <2>1. job[j].pc = "fetch" /\ job'[j] = [job[j] EXCEPT !.carries = token'] /\ place' = place
    BY <1>2 DEF Renewed
  <2>2. job[j] \in Running
    BY <2>1, TypedJobs, JobShape DEF Placed, Idle
  <2> QED BY <2>1, <2>2 DEF Running, Serving
<1> QED BY <1>1, <1>2

LEMMA InitServed == Init => SpinnerIsServed
BY OrgsAssumption DEF Init, SpinnerIsServed

LEMMA NextServed == Inv /\ SpinnerIsServed /\ [Next]_vars => SpinnerIsServed'
<1> SUFFICES ASSUME Inv, SpinnerIsServed, [Next]_vars
             PROVE  SpinnerIsServed'
  OBVIOUS
<1> USE DEF Placed, Inv
<1>1. CASE \E u \in Users : SignIn(u)
  BY <1>1, OrgsAssumption DEF SignIn, Goto, SpinnerIsServed
<1>2. CASE SignedInAlready \/ Leave \/ SignOut \/ Expelled
  BY <1>2, OrgsAssumption
     DEF SignedInAlready, Leave, SignOut, Expelled, Goto, SpinnerIsServed
<1>3. ASSUME NEW late \in SUBSET Jobs, Renewed(late)
      PROVE  SpinnerIsServed'
  <2>1. \A j \in Jobs : Serving(j) => Serving(j)'
    BY <1>3, RenewedShape
  <2> QED BY <1>3, <2>1, StillServed DEF Renewed, SpinnerIsServed
<1>4. ASSUME NEW j \in Jobs, Reload(j)
      PROVE  SpinnerIsServed'
  <2>1. [i \in Jobs |-> Idle] \in JobMaps /\ NoStore \in Stores
    BY DEF JobMaps, NoStore, Stores, Token, Tokens
  <2>2. token' \in Tokens
    BY <1>4 DEF Reload, TypeOK, Token, NoToken, Tokens
  <2> QED BY <1>4, <2>1, <2>2, EntersServed DEF Reload
<1>5. ASSUME NEW j \in Jobs, NEW o \in Orgs, Visit(o, j)
      PROVE  SpinnerIsServed'
  BY <1>5, TypedJobs, CancelledShape, EntersServed DEF Visit
<1>6. ASSUME NEW j \in Jobs, NEW o \in Orgs, StartAt(o, j)
      PROVE  SpinnerIsServed'
  BY <1>6, OrgsAssumption DEF StartAt, SpinnerIsServed
<1>7. ASSUME NEW j \in Jobs, SwitchAnswered(j)
      PROVE  SpinnerIsServed'
  <2>1. job[j] \in Running
    BY <1>7, TypedJobs, JobShape DEF SwitchAnswered, Idle
  <2>2. job' = [job EXCEPT ![j] = [job[j] EXCEPT !.pc = "fetch", !.carries = token']]
        /\ place' = place /\ ready' = ready
    BY <1>7, <2>1, TypedJobs DEF SwitchAnswered, JobMaps, Running
  <2>3. \A i \in Jobs :
          job'[i] = IF i = j THEN [job[j] EXCEPT !.pc = "fetch", !.carries = token']
                             ELSE job[i]
    BY <2>2, TypedJobs DEF JobMaps
  <2>4. \A i \in Jobs : Serving(i) => Serving(i)'
    BY <2>1, <2>2, <2>3 DEF Serving, Running
  <2> QED BY <2>2, <2>4, StillServed DEF SpinnerIsServed
<1>8. ASSUME NEW j \in Jobs, Fetched(j)
      PROVE  SpinnerIsServed'
  <2>1. place' = place
    BY <1>8 DEF Fetched
  <2>2. ready \/ Serving(j) => ready'
    BY <1>8 DEF Fetched, Serving
  <2>3. \A i \in Jobs : i # j => job'[i] = job[i]
    BY <1>8, TypedJobs DEF Fetched, JobMaps
  <2>4. ready' \/ (~ ready /\ \A i \in Jobs : Serving(i) => Serving(i)')
    BY <2>1, <2>2, <2>3 DEF Serving
  <2> QED BY <2>1, <2>4, StillServed
<1>9. ASSUME NEW j \in Jobs, Pushed(j)
      PROVE  SpinnerIsServed'
  <2>1. job[j].org \in Orgs
    BY <1>9, TypedJobs, JobShape DEF Pushed, Running, Idle
  <2>2. [Cancelled(job) EXCEPT ![j] = Idle] \in JobMaps
    BY TypedJobs, CancelledShape DEF JobMaps
  <2> QED BY <1>9, <2>1, <2>2, TypedJobs, EntersServed DEF Pushed
<1>10. ASSUME NEW j \in Jobs, Fails(j)
       PROVE  SpinnerIsServed'
  <2>1. CASE Serving(j)
    BY <1>10, <2>1, OrgsAssumption DEF Fails, Serving, SpinnerIsServed
  <2>2. CASE ~ Serving(j) /\ job[j].what = Hydrate /\ job[j].live
    BY <1>10, <2>2, OrgsAssumption DEF Fails, SpinnerIsServed
  <2>3. CASE ~ Serving(j) /\ ~ (job[j].what = Hydrate /\ job[j].live)
    <3>1. place' = place /\ ready' = ready /\ \A i \in Jobs : i # j => job'[i] = job[i]
      BY <1>10, <2>3, TypedJobs DEF Fails, JobMaps
    <3>2. \A i \in Jobs : Serving(i) => Serving(i)'
      BY <2>3, <3>1 DEF Serving
    <3> QED BY <3>1, <3>2, StillServed DEF SpinnerIsServed
  <2> QED BY <2>1, <2>2, <2>3
<1>11. CASE UNCHANGED vars
  BY <1>11 DEF vars, SpinnerIsServed, Serving
<1> QED BY <1>1, <1>2, <1>3, <1>4, <1>5, <1>6, <1>7, <1>8, <1>9, <1>10, <1>11
       DEF Next, Answer

(* Whatever is cancelled, renewed, answered late or failed in between, a
   workspace whose page is not shown yet has a hydration under way for it that
   was not cancelled: no answer can be lost in a way that leaves the spinner
   to nobody, which is what LoadingEnds needs of every state. *)
THEOREM WorkspaceSpinnerIsServed == Spec => []SpinnerIsServed
<1> QED BY InitServed, NextServed, SpecInv, PTL DEF Spec
=============================================================================
