# A verification project for BusinessSAAS

TLA+ models of the parts of this repository whose correctness depends on the
order in which requests, callbacks, answers and failures interleave, or on two
programs agreeing about the same rules, the TLC configurations that check them,
and TLAPS proofs of what matters most for every value of the constants.

BusinessSAAS is a multi-tenant SaaS backend (Go, Fiber, PostgreSQL, Redis) with
a Next.js frontend. Every HTTP request runs in its own goroutine; handlers call
services, services call repositories, and almost every repository method is one
SQL statement in its own implicit transaction. Two requests therefore interleave
between any two statements, and a request may end between any two (an error, a
cancelled context, a restart). Only a few methods open an explicit transaction.
In the browser, asynchronous functions interleave at every `await`, and their
answers arrive in any order or not at all. That is the concurrency the models
are about.

## 1. Inventory

Paths are relative to `src/backend/internal/` unless they say otherwise;
`frontend/` stands for `src/frontend/src/`.

| Component | State | Operations | What is hard |
|---|---|---|---|
| Approval engine, `hrm/approvals` | `hrm_approval_instances` (status, current level, frozen chain), `hrm_approval_decisions` | CreateInstance, Decide (Approve, Reject), CancelInstance, callbacks by entity type, template CRUD | `Decide` is three statements without a transaction; the unique key (instance, level) is its only protection; callbacks run after the commit and are not retried |
| Personnel actions, `hrm/promotions`, `hrm/transfers`, `hrm/terminations` | status and link of each record, the employee | Create, Update, Submit, Cancel, Apply, HandleApprovalDecision | every write is by id, whatever the status has become; Submit creates the instance before it links the record; Cancel leaves the chain running |
| Further engine clients, `hrm/warnings`, `hrm/awards`, `hrm/resignations` | status of each record | Issue, Acknowledge, Withdraw, Accept, Reject | as above, and Issue skips an open chain |
| Sessions, `auth` | `sessions` (token hash, expiry, revocation), the browser's cookie | login, refresh with rotation, logout, logout-all, password reset | refreshes with one token, row locks, a sweep over rows other transactions hold, answers in any order |
| Users, `user` | failed-login counter, lock, password hash | RecordFailedLogin, RecordSuccessfulLogin, Update | lock tested before the slow comparison; rehash writes a stale row |
| Members and invitations, `authz` | `organization_members`, `organization_invitations` | InviteMember, AcceptInvitation, Resend, Revoke, UpdateMember, AssignRole | acceptance, second mail and revocation meet at one row; seats counted too early; stale whole-row updates; the mark of a late invitation is rolled back |
| Permission cache, `authz` | permission sets in Redis | Can, invalidation after every change of members and roles | cache-aside race, best-effort invalidation |
| Rate limiter, `middleware` | a Redis counter per address | INCR, EXPIRE | two commands |
| Payroll, `hrm/payslips` | runs, payslips | ComputeRun, ApproveRun, MarkPaid, CancelRun | a long computation between read and unconditional write |
| Attendance, `hrm/attendance` | records, periods | Record, Regularize, Approve, FinalizePeriod, LockPeriod | period tested, then written |
| Leave, `hrm/leave` | requests | Approve, Reject, Cancel | status tested, then whole row written |
| CRM, `crm`, `platform/contacts` | leads, deals, stages, pipelines, contacts, companies | CRUD, ConvertLead, MoveDealStage, won, lost | conversion tested outside its transaction; stale whole-row updates |
| Set-up data: salary, shifts, holidays, templates, roles, keys | independent rows | CRUD | what the schema, the service and the form each check of a row |
| Web client: sign-in and workspaces, `frontend/components/providers`, `select-organization`, login | access token, organization store, permissions, all in memory | sign in, choose, visit, leave, reload, sign out, renew a token | asynchronous fills for one workspace answered after the user has moved to another, or signed out |
| Web client: pages and query cache, `frontend/app/(dashboard)` | one cached list per page | some 160 buttons, each a call and a patch of the cached list | the pages repeat, in TypeScript, permissions and status rules the routes and services keep in Go, and mend their lists by hand |

How they interact: the HRM modules call `approvals.CreateInstance`, and the
engine calls them back through functions `main.go` registers by entity type.
`auth` is called by the frontend's interceptor whenever a request meets a 401.
`authz.Can` runs before nearly every handler, over what members and roles say.
A workspace hands its pages the permissions by which they show buttons; every
button ends in one route, one permission test and one service method. Payroll
reads attendance periods and salary records, which promotions write. Lead
capture and conversion join `capture`, `crm` and `platform`.

What makes each correct, in a sentence:

* engine: one decision per level, levels in order, a completed instance never
  changes, and its outcome reaches the record once;
* personnel actions: nothing takes effect that was not approved, exactly once,
  and one active termination per employee;
* sessions: one unrevoked session per login however refreshes race, and a
  logout-all that leaves nothing it saw;
* permission cache: a revoked permission stops working within the cache's
  lifetime and a held one is not refused;
* members: nobody is in without an invitation that was his, was not revoked and
  was used once, with its newest letter;
* workspaces: the pages of one are never shown with the organization, the
  permissions or the user of another, and the spinner goes away;
* pages: a button that is shown works, a form asks what will be insisted on, a
  list shows what the database holds, and no record is left with no way on;
* users: a locked account stays locked for its time;
* payroll and attendance: a run counts every employee once, from a period that
  no longer changes; a cancelled run stays cancelled;
* leave, leads: a decision is taken once, a lead converted once.

`PROJECT.json` lists every component with its status and every hazard with the
line at which it bites and the properties that would catch it.

## 2. Modules

| Module | Models | Uses |
|---|---|---|
| `ApprovalChain` | what the engine promises: an atomic chain of levels | |
| `ApprovalEngine` | `hrm/approvals`, statement by statement | `ApprovalChain` as a refinement target |
| `PersonnelActions` | promotions, transfers, terminations and their employee | `ApprovalEngine` as an instance, sharing its variables |
| `LoginChain` | what sessions promise: each login goes on from token to token, and ends for good | |
| `Sessions` | refresh sessions, PostgreSQL's row locks, the cookie | `LoginChain` as a refinement target |
| `PermissionCache` | `authz.Can`, its sets in Redis and their invalidation | |
| `Admissions` | what members and invitations promise: who is admitted stood invited, once | |
| `Memberships` | members and invitations of one organization | `Admissions` as a refinement target |
| `Workspace` | one tab of the web client between login, the list of workspaces and the workspaces | |
| `RecordPages` | one tab on one list page, its query cache, its buttons, and the service behind | `RecordKinds` |
| `RecordKinds` | the vocabulary of the tables that describe a page | |
| `LifecyclePages`, `CompliancePages`, `RecognitionPages`, `TimePages`, `PeoplePages`, `SetupPages`, `CustomerPages`, `SettingsPages` | the tables of 50 kinds of record | `RecordKinds` |
| `Navigation` | the permissions without which no link leads to a page | |
| `ApprovalEngineProofs`, `PersonnelProofs`, `SessionsProofs`, `PermissionCacheProofs`, `MembershipsProofs`, `WorkspaceProofs`, `RecordPagesProofs` | theorems about the module they name | TLAPS |
| `MC...` | what TLC needs to run the module they name: symmetry, the union of the tables | |

### ApprovalEngine

`rows` is the instance table (with the length of the frozen chain, the only part
of the snapshot `Decide` looks at), `decisions` the decision table, `notified`
what each callback was run with, `req` the program counter and the local copy of
every request. `Decide` is cut at its statements:

| Code | Action |
|---|---|
| `CreateInstance` | `CreateInstance` |
| `FindInstanceByRef`, `ErrAlreadyCompleted` | `DecideRead` |
| `CreateDecision`, and the computation of the next level in memory | `DecideInsert`, `DecideConflict` when the unique key refuses it |
| `UpdateInstance`, by id | `DecideUpdate` |
| the callback | `Notify` |
| an error, a cancellation or a crash anywhere | `Abort` |

`CancelInstance` is `Decide` with the verdict `cancelled`, which has no callback.
Approvers are not modelled: the code does not check who decides. `sla_hours`,
breach actions and `condition_expression` are stored by the code and never acted
on, so no action stands for them.

`ApprovalChain` is the same engine with each verdict in one step. The
refinement is `chain <- rows, told <- notified`: inserting a decision is a
stutter, `DecideUpdate` is the abstract verdict, and the decisions and the
requests' local copies disappear.

### PersonnelActions

The three packages have one life cycle and differ in two places, which `Kind`
selects: only terminations allow one active record per employee
(`FindActiveByEmployee` and the partial unique index), and only their `Apply`
runs a statement that cannot succeed. `clerk` holds the requests of HR staff,
`handling` the callbacks, `entity` the engine's reference to the record. `Write`
is an UPDATE by id, with no condition on the old status, that the partial unique
index may refuse. `effects` counts how often `Apply` has changed the employee
and `ungated` the records `Submit` approved because it found no template (or
failed to look): the code keeps neither, the properties need both. The verdict
`cancelled` is absent here because nothing calls `CancelInstance`.

### Sessions

Rows of `sessions` are numbered in order of insertion. `login` is the first
session of the chain a row continues: the table does not keep it, but `Rotated`
decides it. `lock` is PostgreSQL's row lock: `RotateSession` takes it with
`SELECT ... FOR UPDATE` and keeps it to the end of its transaction,
`RevokeSession` waits for it, and `LogoutAll`, one UPDATE under READ COMMITTED,
takes its snapshot first (`LogoutAll`), waits row by row and looks at each row
again once it has it (`SweepRow`), then commits (`SweepCommit`). Its order over
the rows is that of insertion, one of the orders a scan may take. A transaction's writes appear
at its commit; nobody can see them before. `cookie` is the browser's jar;
answers arrive in any order (`Deliver`) or not at all (`Fail`). `Fail` is also the
500 of `Refresh` when no active user is found after the rotation has
committed: the answer carries no cookie. Access tokens and their lifetime are not
modelled; `LogoutAll` needs only one of those, so it is always possible.

A session rotated in after the snapshot of `LogoutAll` escapes it, as it does in
PostgreSQL; `SweepReaches` is about the rows the snapshot saw.

`LoginChain` says the same of logins, with nothing of rows or locks: a login is opened
with a new token, goes on with a new token as long as it has not ended, and is ended
for good, several at once by `LogoutAll`. The refinement is `issued <- Issued`, the
numbers of the rows there are, and `tip <- Tip`, the unrevoked rows of the login: a
rotation is one step at its commit, although it revokes one row and inserts another;
a sweep is one step at its commit, whatever it waited for; a logout of a row that is
already replaced, a refusal and a lost answer are stutters. What expires is not
refreshed, but counts until it is revoked.

### PermissionCache

One organization. `held` is what `GetUserPermissions` would return for each
member at this moment, `cache` the set at `perm:<user>:<org>` (`{}` is no key:
Redis has no empty sets) and `ttl` whether the key has a time to live. Every
Redis command and SQL statement is a step:

| Code | Action |
|---|---|
| `Can`: EXISTS | `CheckExists` |
| SISMEMBER | `CheckMember` |
| the query, and the test of `len(perms)` | `CheckRead`, `Fetched` |
| SADD, EXPIRE, the failing pipeline | `CheckAdd`, `CheckExpire`, `CheckAddFails` |
| what `RequirePermission` makes of the answer | `CheckAnswer` |
| AssignRole, UpdateMember, UpdateMemberPermissions, AcceptInvitation: the commit | `ChangeMember` |
| UpdateRole, UpdateRolePermissions, DeleteRole: the commit | `ChangeRole` |
| SCAN, key by key, and its end or error | `Scan`, `ScanEnds` |
| DEL, or its failure, or a crash before it | `Invalidate`, `InvalidateFails` |
| the TTL of five minutes | `KeyExpires` |

A failing Redis command sends `Can` to the database, as in the code. A change may
leave a member with any set: roles, grants and denials are not modelled,
only what the query makes of them. One assumption is not in the code: the two commands of the
pipeline go to Redis in one write, so they arrive both or not at all. A
connection cut in the middle of that write could leave a set without a time to
live.

### Memberships

One organization. A user stands for his e-mail address, since each account has
one of its own; the founder is a member from the start. `member` is the row of
`organization_members`, `inv` the invitations with the number of the newest
letter (`token`) and whether the letter is past its time (`late`), `lock` the
row lock of an acceptance.

| Code | Action |
|---|---|
| `InviteMember`: the seats counted; the INSERT or what the partial unique index says | `InviteMember`; `CreateInvitation`, `InviteRefused` |
| `AcceptInvitation`: the token looked up `FOR UPDATE`, the tests, the commit, the rollback | `AcceptSelect`, `AcceptUnknown`; `AcceptCheck`; `AcceptCommit`; `AcceptRefused` |
| `ResendInvitation`, `RevokeInvitation`: one conditional UPDATE each | `ResendUpdate`, `RevokeUpdate`, `ManageRefused` |
| `UpdateMember` and its repository's read and write of the whole row | `UpdateMember`, `UpdateRead`, `UpdateWrite` |
| `AssignRole` | `AssignRole` |
| `invitationTTL` | `Expire` |
| an error, a cancelled context, a crash | `Fail` |

The code treats `inactive` and `suspended` alike, so `Absences` may hold either
or both. The role of an admitted member is left open. `UpdateMember` refuses the
word `owner` as a role but not the identifier of the role so named, so every
role is a possible patch.

`Admissions` says the same of people: somebody is invited, one invitation at a time;
it is withdrawn, or admits him and is used up; and who was admitted stays. The
refinement is `invited <- Invited`, the people a pending invitation is addressed to, and
`admitted <- Members`, those who have a row. Letters, second mails, the seats, the
statuses and roles of members disappear; an acceptance is one step at its commit, and a
stale whole-row update is a stutter, because it never makes or unmakes a row.

### Workspace

`place` is the URL, `token` the access token in memory with its user and its
organization, `store` the organization and permission stores, `ready` whether
OrgProvider shows the pages under it, and `job` the asynchronous functions under
way: a hydration by OrgProvider or a start from the list of workspaces. A job
switches the token, fetches organization and membership with the token it was
sent with, and either fills the stores or pushes the router.

| Code | Action |
|---|---|
| the login form; the login page with a token or a refresh cookie | `SignIn`, `SignedInAlready` |
| OrgProvider's effect at a new URL, its three cases, its cleanup | `Visit` with `Enters` and `Cancelled` |
| `handleStart` of the list of workspaces | `StartAt`, `Pushed` |
| `switchOrganization` answered, and `setToken` | `SwitchAnswered` |
| organization and `members/me` answered | `Fetched` |
| a request failing, with the redirect | `Fails` |
| the interceptor: a refresh that succeeds or is refused | `Renewed`, `Expelled` |
| sign-out from either menu; a reload; the way back | `SignOut`, `Reload`, `Leave` |

`outlived` is the one variable the code does not keep: a request was under way
when its user signed out.

### RecordPages and its tables

The list pages of the web client are built alike, so there is one machine and a
table per kind of record. The machine has one record of the business in the
database (`row`), its copies in the cached list (`shown`), the query (`fetch`) and
the calls of the page (`call`). The table says what is particular:

| Table | Translated from |
|---|---|
| `api` | the functions under `frontend/lib` |
| `routes` | `routes.go`: the permission `RequirePermission` gets |
| `rules` | the service: the statuses it accepts and those it writes |
| `menu` | the page: who sees a button, at which statuses |
| `list` | the page: how it patches its cached list |
| `form` | the form: what it asks for, which order of two dates it lets through |
| `checks` | the service and the migrations: what is refused of a new record |
| `ends` | the statuses a record rests at, and those nothing leaves |

`Press` is a button, `Check` the route's permission, the service's read of the
row and its tests, `Write` its UPDATE by id, `Answered` the page's patch.
`PressOptimistic` and `PutBack` are the two pages that patch first: the board of
deals and the switch of a task. `Refetch`, `Fetched`, `Loaded` and `FetchFails`
are the query; `Elsewhere` is any call of another session; `Fails` a request or
an answer that is lost, or a service that fails. `doubt` and `refusal` are for the
properties: the first says that something has crossed since the list was
fetched, the second what the service has just refused.

Splitting a status tells rules apart that depend on more than the status: a
pending acknowledgement that needs a signature, an employee not yet hired, a deal
in one of two stages, an attendance record of a month that is closed, a payroll run
whose attendance period is still open. A status written to a record of a closed month
leaves it in the closed month (`Lands`), also when the month was closed between the
test and the write.

Refusals that depend on other records (a name or a day taken, a second active
contract, a circle of departments, the seats) are outside a model with one record, and
so are those that depend on what an edit changes. `Navigation` is the sidebar and the tabs; the users of a page are those
who are shown the way to it and lack at most one of its other permissions, since
each test of a permission is of one alone.

## 3. Runs

| Run | Question | Bounds | Result |
|---|---|---|---|
| `approval_engine` | Do the unguarded statements of `Decide` behave like an atomic chain? | 2 instances, 3 requests, chains of 1 and 2 levels, aborts anywhere | holds |
| `approval_engine_crash` | Does every recorded decision take effect when a request may die? | 1 instance, 3 requests, up to 3 levels | violated: the instance is stuck behind its unique key |
| `terminations` | Is every outcome backed by a chain, and one termination active at most? | 2 records, 2 clerks, 2 instances, 2 deciders, 1 level, aborts anywhere | holds |
| `promotions` | Does `Apply` change the employee once, and exactly when it marks the record applied? Does every recorded decision take effect, and is the record told? | 1 record, 1 clerk, 1 instance, 3 deciders, up to 3 levels, no aborts | holds |
| `terminations_apply` | Does applying a termination take effect? | 1 of everything | violated: dropped column |
| `transfers_outcome` | Does an outcome reach the record? | 1 of everything | violated: the callback overtakes the link |
| `sessions` | One unrevoked session per login? Does logout-all leave nothing it saw? Does every request get its row in the end? Is it a `LoginChain`? | 3 sessions, 2 requests, 1 browser, failures, lost answers, expiry | holds |
| `sessions_two_tabs` | Is a refused refresh the end of the login? | 2 sessions, 2 requests | violated: the loser of two refreshes is refused |
| `permission_cache` | Does every set expire, every stale set go away and every revocation take hold, for good? | 2 members, 2 permissions of which one is asked for, 2 checks, 1 change in flight, Redis and the database failing anywhere | holds |
| `memberships` | Is an invitation used once, by its newest letter, and do members and invitations agree? Is it an `Admissions`? | 2 users, 2 invitations sent twice at most, 2 requests, 2 seats, dying anywhere | holds |
| `workspace` | Are the pages of a workspace ever shown with another's organization, permissions or user? Does the spinner go away? | 2 users, 2 workspaces, 2 functions under way | holds |
| `record_pages` | Do the pages offer what the service honours, ask what it insists on and show what it keeps? Is a record ever stuck? | 50 kinds, 1 record each, every user that lacks at most one permission, 2 copies in a list | holds, but for the exceptions named below |

Why the bounds are enough. Two concurrent requests suffice for each race on a
row; the third request of the engine is the observer between two others (a stale
reader while one writes and another calls back). Two levels distinguish first and
last level of a chain, and chains of length 1; `promotions` takes three, which adds an
inner one. Two instances show that nothing leaks from one to another and let two
Submits of one record open two chains. Three sessions are a login, its successor
and one more, which belongs to the same login or to another; the proofs hold for
any number of requests. Two members are what SCAN can find one of and miss the
other; two checks are one that fills and one that answers from what it filled,
or two that fill one key. One member passes between two permissions, so that two fills
may leave a set that is the union of an old and a new one; the other, with whom he may
share a role, has one permission or none. What the checks ask for is
only looked up in the answer, and the two permissions are alike, so it is enough to ask
for one. The number of changes one after another
is not bounded. Two invitations are two for one e-mail, one after the other, or
one each for both users; sent twice, an invitation has an older letter and a newer one.
Two workspaces and two functions under way are the one left and
the one entered, with the answers of the first still out. One record of a page is
enough, since the pages find the copy to patch by its identifier; two copies are one and
the duplicate a wrong patch would add. One call per tab is in flight in
`record_pages`; what other requests do to the row between its test and its write is
`Elsewhere`, and `FinalIsFinal` and `StoredInOrder` are proved for any number of calls.
`terminations` uses chains of one level: the engine's own runs
cover longer ones, and `PersonnelActions` sees an instance only through its status.
`promotions` has one clerk and no request that dies: two clerks may apply one promotion
twice, and a request that dies may lose the callback, so its properties say nothing of
those two hazards.

Deadlock checking is off where the system may rest: nobody has to send a request,
and identifiers are bounded. Symmetry is used only without liveness properties and
not for sessions or levels, which are ordered.

The operators called faulty variants in the modules are slips a bug could
introduce; for every property that holds there is one that breaks it, so the property
does depend on what the code does.

### Fairness

A handler the runtime has started keeps running: weak fairness of the steps of
each request, clerk or decider, and none of `Begin`, `Create`, `Login` or any
other step a user has to take. The runs of `PersonnelActions` with liveness use a
next-state relation without aborts, which is the
assumption they state: on days when no request dies. In `Sessions` a step may
wait for a row; PostgreSQL queues waiters for a row lock in order of arrival, so
each is served in the end, which strong fairness of `Locking` says (it is weaker
than the queue). The bound `MaxSessions` must not look like a stuck
request, so a rotation that finds no number left may fail, fairly.

In `PermissionCache` a check that runs goes on, and a key with a time to live
expires. Nobody has to make a change, and no invalidation has to arrive. A fill may renew
the time to live of a key that exists, which puts its expiry off; that
takes a check that found no key, or whose EXISTS Redis failed to answer.
The first kind is limited by the checks in flight, so what the fairness of
`KeyExpires` assumes is that Redis does not go on for ever, at least every five minutes, to
fail the EXISTS of a check and then to accept its pipeline.

In `Workspace` every function under way goes on: its request is answered or
fails (the browser gives up at last), and the router arrives. Nothing is assumed
of the user. `Memberships` and `RecordPages` are checked for safety only; that
nobody waits for ever for an invitation's row is the invariant `LocksAreInUse`: a
lock is always held by a request with steps of its own left, none of which waits.

### What the violations show

* `approval_engine_crash`: `hrm/approvals/service.go:176` and `:193` are separate
  statements. A request that ends between them leaves the decision of the current
  level on record and the instance pending on it, and every later `Decide`
  fails on the unique key.
* `terminations_apply`: `hrm/terminations/service.go:204` names
  `hrm_employees.status`, which migration 00053 drops.
* `transfers_outcome`: `hrm/transfers/service.go:105` creates the instance before
  `:109` marks the record; a chain completed in between calls back into a draft
  and is ignored.
* `sessions_two_tabs`: two refreshes with one cookie, which the frontend's
  interceptor sends whenever two requests meet a 401 together; one is refused and
  clears the cookie although the login goes on.

### What the exceptions of `record_pages` are

`ButtonsAreHonoured`, `FilingsAreTaken` and `NothingStuck` hold of every page but for
these, which `RecordPages` names one by one (`KnownRefusals`, `KnownUnasked`,
`KnownDeadEnds`, `KnownCopies`). Of the refusals a user who has every permission meets
only those marked (*). He also meets three buttons the service accepts and then fails,
each time, at a column that is no longer there: apply of a termination, accept of a
resignation and compute of a payroll run (further observations).

| Page | What it offers | What the service asks |
|---|---|---|
| warnings: cancel | `hrm.warnings.manage` | `hrm.warnings.close` |
| acknowledgements: acknowledge (*) | every pending one | a signature, where one is required; the page never sends any |
| employees: terminate (*) | every employee | the hire date to have come |
| attendance: request correction (*) | every approved record (`page.tsx:435`) | its month to be open (`service.go:190`) |
| attendance: record (*) | a form for any date | the month of the date to be open (`service.go:64`) |
| payroll runs: compute (*) | every draft | its attendance period, if it has one, to be finalized (`payslips/service.go:123-130`) |
| stages: edit, delete; pipelines: delete | `crm.deals.create` | `crm.deals.update`, `crm.deals.delete` |
| message templates: create, delete | `crm.templates.update` | `crm.templates.create`, `crm.templates.delete` |
| members: remove | `members.remove` | `members.update` |
| deals: edit, delete, won, lost, move to | no permission | `crm.deals.update`, `.delete`, `.move_stage` |
| API keys: list, create, revoke | `settings.view` | `capture.apikeys.view`, `.create`, `.delete` |
| documents, acknowledgements; announcements, calendar, milestones; approvals; employees' salaries; a company's contacts: the list | a tab or a page the first tab's permission opens | the permission of the list itself |

A warning the employee has acknowledged has no button: the service would accept its
closing, the page offers that only of an issued or appealed one. Creating a lead whose
e-mail is known is answered with the lead there is, which the page lists again.

### Further observations

Met while modelling, and either modelled as they are or left out of a property on purpose:

* Calls that always fail: `hrm_employees.status`, dropped by migration 00053, is also
  named by the acceptance of a resignation and the application of a termination
  (`Breaks` in the tables), by the generation of milestones (no row comes of it) and
  by the computation of a payroll run (`hrm/payslips/service.go:157`), which answers with an error and
  takes the run back to draft. The status `computing` is written to keep a
  second computation out, but nothing tests it.
* `hrm/attendance`: `checkPeriodOpen` takes a failed query for an open month. The test
  and the write are two statements, so a record may be filed or corrected in a month that
  is finalized in between, and approving or rejecting a correction does not ask at all:
  a closed month may still change.
* The form of a shift assignment has an optional end date nothing compares with the
  start; only the CHECK `chk_hrm_wsa_dates` refuses the wrong order. The table has the
  assignment's dates with that CHECK.
* `hrm/warnings`: an appeal asks `CanEmployeeRespond`, which no later call changes; the
  page asks it too, so the table leaves both out.
* `hrm/warnings`: Issue of a warning that waits for approval issues it and leaves its
  chain open; the decision then meets a warning that is issued and is ignored.
* Scheduled announcements: nothing publishes one when its time comes; it waits until
  somebody archives it.
* Edit forms send an emptied field as `undefined` (for example
  `frontend/app/(dashboard)/[orgId]/hrm/departments/page.tsx:125-130`), which the
  service reads as no change, so a value cannot be cleared.
* `OrgProvider.tsx:65` keeps the token of a switch even when the hydration has been
  cancelled. A request that outlives its user thus puts his token back after the sign-out, which is why
  `PermissionsAreOwn` excepts `outlived`. The sign-out of the list of workspaces
  leaves the query cache, which the one of the top bar clears.
* A renewed token names no organization, so a `members/me` that is retried with it is
  refused and OrgProvider leads to the list of workspaces. The other routes take the
  organization from the URL.
* The cap on active members (the comment of migration 00052) is counted when an
  invitation is sent: acceptances and reactivations do not count, nor do invitations
  under way. So it is no invariant.
* A late invitation stays pending, because the transaction that marks it expired is
  rolled back, and its address cannot be invited again until somebody revokes or
  resends it. `UpdateMembership` writes back a whole row it has read before, so of two
  updates one is lost. An acceptance puts back a member who was suspended; `AssignRole` does
  not ask whether the member is the owner.



## 4. Proofs

All are checked by TLAPS for arbitrary sets of instances, requests, browsers, users
and records and any bound on levels, sessions and tokens.

`ApprovalEngineProofs`, from `MaxLevels \in Nat \ {0}`. None of the properties
is inductive alone: that a writer is alone depends on the key it holds, that key
on the level it read, and the callback on what the writer wrote. The inductive
invariant `IInv` adds

* `FreshRows`: nothing refers to an instance that was never created;
* `LevelInChain`: only an approved instance has passed its last level;
* `ReaderBehind`, `ReaderPending`: a request that has not inserted holds a level
  the instance has reached, maybe long ago;
* `WriterCurrent`, `WriterAlone`: a request about to update holds exactly the
  successor of the row, and no other does for the same instance;
* `CallerCurrent`, `CallerAlone`, `ToldOutcome`: the same for the callback.

The heart is `FreeKeyIsCurrent`: if the key (instance, level) is free for a
reader, its level is the instance's current one and nobody is about to update:
`AuditTrail` gives every lower level its decision, so a stale reader meets the
unique key. `TypeOK` says of a level that it is in the chain of its own
instance, or one past its end. That is not inductive by itself, as a request computes the next
level from what it read before, so `IInv` has the plain types (`Shapes`) and the bound
comes of `LevelInChain` (`InvariantTypes`). From `IInv` follow `EngineTypes`,
`EngineSingleWriter`, `EngineAuditTrail`, `EngineToldTheTruthOnce`, the action
property `EngineCompletedIsFinal` and `EngineRefinesChain`, that the engine
implements `ApprovalChain` step by step.

`SessionsProofs`, from `MaxSessions \in Nat \ {0}` and that `Free` is no request.
`Inv` adds `Roots` (the first session of a chain is its own first, so a new
login cannot join an old chain), `Existing` (locks and cookies name rows that
exist) and, per request, that a token or a snapshot names existing rows, that a
rotation about to commit holds the lock of an unrevoked row, and that a sweep
holds or has seen revoked each row it is done with. A step of one request
disturbs no other (`Undisturbed`, `OthersStay`): locks are kept by their owner,
and rows never come back from revoked. From it follow `SessionsTypes`,
`SessionsOneUnrevoked`, `SessionsSweepReaches` and the refinement
`SessionsImplementLogins`. A rotation commits what it found when it took the lock, so
that the login has not ended meanwhile is what the lock is for: the row is still
unrevoked (`Inv`), hence the login's one token, and the new number is used by no
row, hence a token never issued before. Revoking ends exactly the logins whose
unrevoked row is among those revoked, which needs that each has one only.
`SessionsEndForGood` says in the terms of the table what the refinement promises: an
ended login stays ended and no row is issued twice.

`SessionsNoDeadlock` is about the waits. `OrderInv` says what a holder is doing: a
rotation with its row is at its last statement, and a sweep holds rows it has been to,
all before those it still has to lock. So whoever holds a row waits for a later one only
(`WaitsAscend`), and the holder of the last row that is locked waits for nothing
(`SomebodyMoves`); that there is a last one comes from the well-foundedness of the
natural numbers (`LeastNumber`). It rests on every sweep taking the rows in one order,
which is how `SweepRow` models the UPDATE; a planner that gave two such statements
different orders would need PostgreSQL's own deadlock detection.

`PermissionCacheProofs`, from what the constants are: `GrantsAssumption` (the sets a
change may leave a member with are sets of permissions) and `AskedAssumption` (what is
asked for is one). Its invariant
`Inv` is `TypeOK` and `EveryKeyExpires`: the check that owes a key its time to
live is at `expire` for that member, and a step of another check or an eviction
leaves it there (`LocalStep`, `EvictStep`); types alone would not tell that a key with
a time to live exists. From it follow `CacheTypes` and `CacheEveryKeyExpires`.
`permCacheTTL` gives a stale set five minutes, and a change of members or roles is meant
to end it at once. What is safety in that is proved action by action: a permission gone from the database, the set
and the checks in flight stays gone until it is granted again (`CacheGoneStaysGone`); a
DEL that meets no check that still holds it completes the revocation at once
(`CacheRevocationIsPrompt`), so those checks are the whole window; and a set that
agrees with the database goes on agreeing (`CacheHealedStays`).

`PersonnelProofs`, from the same assumption on the levels. A step of
`PersonnelActions` is a step of its engine or none, so the engine's `IInv` is lifted
through the instance and with it that a completed instance never changes. `Inv` adds
that an instance is about a record from its first moment, and that a clerk about
to apply and a callback about to write hold a backed outcome: since outcomes never
change, they may write as late as they like. From it follow `PersonnelTypes`,
`PersonnelOutcomesAreBacked` and `PersonnelOneActive`, and that the engine as these
handlers use it still implements `ApprovalChain` (`PersonnelEngineImplementsChain`): what
is proved of the engine alone holds of it here, `EngineImplementsChain` needs no
run of its own. `PersonnelEffectMatchesMark` needs
more and holds of less: for one clerk (`Alone`) and no request that dies
(`CalmSpec`), with the further invariants that a record has one instance at most
(`OneInstance`), that what the clerk has read is still so (`ClerkCurrent`), and that a callback about
to write is the only one there will ever be (`CallbackAlone`).
`PersonnelTerminationsNeverApply` makes the finding of `terminations_apply` general: no
record is ever marked applied where `Kind` is a termination, whatever is done with it.

`MembershipsProofs`, for any users, invitations, requests and seats. `Inv` adds, per
request, that an acceptance is of an invitation that was sent (`Sent`), that from its
SELECT on it holds the row whose token it carries (`Holds`), that once it has looked
the invitation is pending and its user's (`Checked`), and that an update of a member has
found one (`Found`). A step of one request leaves the others' claims standing
(`Undisturbed`, `OthersStay`) because nobody writes a row somebody else holds. From
it follow `MembershipsTypes`, `MembershipsWereInvited`, `MembershipsLocks` and the
action properties `MembershipsSettle` and `MembershipsNewestToken`.
`MembershipsImplementAdmissions`, that `Memberships` implements `Admissions`, needs
also that one invitation at most is open for an e-mail (`OneOpen`, which the partial
unique index keeps): with two, an acceptance or a revocation would leave its person
invited.

`WorkspaceProofs`, from `OrgsAssumption` (no workspace is called login). `Placed` ties a
function to what it knows when its answer arrives: the stores belong together
(`StoreMatches`), a membership is asked for with its own organization's token or a
renewed one (`CarriesOwn`), and a hydration that was not cancelled is of the page
shown (`LiveIsHere`). `Owned` says that unless a request was left behind everything
in the tab is one user's (`OneUser`) and the login page starts with nothing
(`CleanLogin`). From both follow `WorkspaceTypes`, `WorkspaceCoherent` and
`WorkspacePermissionsAreOwn`, and with them `WorkspaceSpinnerIsServed`: a workspace
still loading has a hydration of its own under way that nobody has cancelled. The
case to see is an answer to the hydration of a workspace left before, or to a start from
the list, which neither shows the page nor takes its hydration away.

`RecordPagesProofs`, for any tables that meet the named assumptions of `RecordPages`,
any number of calls and any length of lists. The assumptions are facts about each
table by itself, with no step in them, and TLC evaluates all of them on the 50 tables:
the orders of dates a form and a service let through together (`OrdersAssumption`), that
calls have rules (`RulesAssumption`) and final statuses none that lead on
(`FinalAssumption`), that a table is complete (`ShapeAssumption`), what a button asks
for and is shown at against what its route and its service ask for, but for the
`KnownRefusals` (`ButtonsAssumption`), that what a page does to its list fits
what the call does to the record (`PatchAssumption`), that rules keep a record in its
closed month (`MonthAssumption`), and that there is a way on from each
status a record does not rest at, which a service takes when what is filed is complete and
in order (`WaysAssumption`). What the theorems add is that this
is enough: through any sequence of buttons, answers, losses, refetches and changes by
other sessions. The inductive invariant is `Whole`:

* `Inv`: as long as nothing is in doubt a call is alone and what it has checked still
  stands (`Undoubted`, `Allowed`);
* `Typed`: the types, with what a call carries at each of its phases;
* `Current`: as long as nothing is in doubt the list tells the status of the record,
  or will once the call in flight has ended, whether it is answered, refused or lost:
  a page that patched first can put back what it replaced;
* `ButtonsAreHonoured` itself. This needs the other three, since a button is shown for
  the copy in the list and refused for the row (`VerdictExpected`).

From it follow `PagesTypes`, `PagesStoredInOrder`, `PagesLoneCurrent`,
`PagesHonourButtons` and the action property `PagesFinalIsFinal`.
`PagesNothingStuck` joins them: the tables have a way on from every status, the record is
never at any other (`Typed`), the list tells the status it is at (`Current`), so the
button is shown, and to one who has every permission the service says yes.

### What is proved of liveness

A liveness property here says of each state of some kind that it ends. It has three
parts, and the prover reaches two.

1. *Somebody is at it.* In every reachable state of that kind there is a request whose
   next steps end it. This is an invariant, and where a real mistake would be: a request
   that ends early, a lock that is not given back, a hydration cancelled by the wrong page.
   Proved as `EngineNothingStranded` and `PersonnelNothingStranded` (a decision that is
   ahead of its instance, an outcome nobody was told of), `SessionsNoDeadlock` (a
   row that is waited for), `CacheEveryKeyExpires` (a set without a time to live) and
   `WorkspaceSpinnerIsServed` (the spinner). The first two need that no request dies, as
   the runs do: `approval_engine_crash` shows why.
2. *He gets there.* When that request keeps running it reaches its end, however the
   others interfere. Proved as `~>` for any one request:
   `EngineVerdictLands`, `EngineOutcomeIsTold`, their
   counterparts among the handlers `PersonnelVerdictLands`, `PersonnelOutcomeIsTold`,
   `PersonnelApplyTakesEffect` for promotions and transfers, and `CacheKeyGoesAway`. They
   assume the weak fairness of that one request in the form
   `[]<>~Guard \/ []<><<Step>>_vars`, where `Guard` names the states in which the step can
   be taken: a request that is not idle (`KeepsRunning`, `GoesOn`), at a statement of
   `Decide` (`DecideGoesOn`), at a callback (`CallbackGoesOn`), a clerk at work
   (`ClerkGoesOn`), a key with a time to live (`TimePasses`).
3. *Therefore.* From 1 and 2 the property as the runs state it takes two steps that are
   not in the prover's reach: that `Guard` is `ENABLED Step`, and that the request of 1,
   which is a different one in each behaviour, may be put for the one of 2 (a
   quantifier moved across `[]`). TLC checks the property itself, with `WF_` as defined,
   on the bounded instance.

Four properties have less. `RequestsFinish` also needs that PostgreSQL serves its waiters,
which is strong fairness of `Locking`. `LoadingEnds` has no single hydration to follow:
a start from the list that arrives at the workspace shown takes the place of the one
before. Both are proved up to part 1. And the two of the cache need more than that a key
goes away: the checks in flight, any of which may fill the set again, have to end as well.

Only model-checked: the liveness properties as stated, for all requests and with `WF_`
and `SF_` (`DecisionTakesEffect`, `SourceIsTold`, `ApplyTakesEffect`, `RequestsFinish`,
`RevocationTakesHold`, `CacheHeals`, `LoadingEnds`), and `FilingsAreTaken`, which for
arbitrary tables would have to be assumed of them almost as it stands. Every other
invariant and every action property that the passing runs check is a theorem too, and so
is every refinement.

## 5. Plan

Done, in the order of what the system depends on most: the engine and what it
promises; personnel actions over it; sessions; the permission cache; the web client's
workspaces and pages, with the services' rules behind them; memberships; proofs of
the safety properties of each and of what is safety in their liveness; and what the
engine, the sessions and the memberships promise, as specifications they are proved to
implement. No module has a RECURSIVE operator.

Left:

1. `Payroll`, composed with attendance periods: two computations of one run writing
   payslips, a finalized period's totals.
2. `Leads`: assignment, update, conversion, with the rows a conversion creates.
3. `LoginLockout` and the rate limiter: guesses in flight against a counter.
4. The deletion of a custom role while members and invitations refer to it, with
   permission lists, composing `Memberships` and `PermissionCache`.
5. Resignations, awards and warnings with the engine as an instance, as
   `PersonnelActions` has it; their statuses alone are in the tables.

## 6. Not modelled, and why

Read-only pages (dashboard, reports, agenda, visitors, audit log) change nothing;
creation and settings of an organization and the rules that route leads are single forms
over single rows. The
landing page, the type declarations and the look of the pages have no state. Formula
and slab arithmetic of salaries is over floating point. Balances of leave and hours of attendance are sums
over rows the models do not have; of these components the life cycle of a record is
modelled. The contents of records (names, amounts, lists of permissions) are left out
unless a rule looks at them. E-mail, file storage, OAuth at the networks and wiring in
`cmd/server` are calls to services or configuration. The mobile application repeats a
few of the web client's calls and was left aside. The login's counter and
lock, the rate limiter, lead conversion and contracts are in the plan or are rows
without a protocol. Tests in `tests/integration` cover tenant isolation,
which is a filter in every query and not a protocol.
