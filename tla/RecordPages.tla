---------------------------- MODULE RecordPages ----------------------------
(* One browser tab on one page of the web client, with one record of the     *)
(* business on it, and the service that keeps the record.                    *)
(*                                                                           *)
(* The pages are all built alike (RecordKinds): a list is fetched into the   *)
(* query cache, its rows offer buttons by the permissions of the user and    *)
(* the status shown, a button calls the service, and when the call succeeds  *)
(* the page writes the answer into the cached list itself.  The service      *)
(* reads the row, tests its status and writes the new status by id, which    *)
(* are two statements.  Other sessions change the same record meanwhile.     *)
EXTENDS RecordKinds, Integers, Sequences, FiniteSets, Functions

CONSTANTS
  Table,    \* the tables of every kind of record: name |-> Kind(...)
  Way,      \* name |-> the permissions without which no link leads to its page
  Calls,    \* the calls one tab may have in flight at once
  MaxShown  \* bound: the copies of the record a cached list may hold

\* Buttons, and lists behind a link, that the service refuses although the
\* page offers them (README, findings).
KnownRefusals ==
  {<<"warnings", "cancel">>, <<"acknowledgements", "acknowledge">>,
   <<"employees", "terminate">>, <<"stages", "update">>, <<"stages", "delete">>,
   <<"pipelines", "delete">>, <<"crm_templates", "create">>,
   <<"crm_templates", "delete">>, <<"members", "remove">>,
   <<"attendance", "regularize">>, <<"payroll", "compute">>}
    \cup {"documents", "acknowledgements", "announcements", "calendar", "milestones",
          "instances", "salaries", "company_contacts"} \X {"list"}
    \cup {"deals"} \X {"update", "delete", "won", "lost", "move"}
    \cup {"apikeys"} \X {"list", "create", "revoke"}
\* What a service insists on and no form makes sure of: an attendance record is
\* filed for any date, and refused when the month of the date is closed.
KnownUnasked == {<<"attendance", "open_month">>}
\* Statuses the pages offer no way out of (README, findings).
KnownDeadEnds == {<<"warnings", "acknowledged">>}
\* The service answers the creation of a lead it knows by its e-mail address
\* with that lead, which the page lists again.
KnownCopies == {"leads"}

\* Every form, with the service and the table behind it, lets through dates in
\* order only; every call a button makes that has a route has its rules, and no
\* call leads from a final status to another.
ASSUME OrdersAssumption ==
  \A k \in DOMAIN Table : Table[k].form.orders \cap Table[k].checks.orders \subseteq InOrder
ASSUME RulesAssumption ==
  \A k \in DOMAIN Table : \A o \in DOMAIN Table[k].menu :
    Table[k].api[o] \in DOMAIN Table[k].routes => Table[k].api[o] \in DOMAIN Table[k].rules
ASSUME FinalAssumption ==
  \A k \in DOMAIN Table : \A p \in DOMAIN Table[k].rules :
    \A s \in DOMAIN Table[k].rules[p] \cap Table[k].ends.final :
      Table[k].rules[p][s] \subseteq {s, Same, Gone}
\* Every button of a page has its call and its way to patch the list, every
\* record can be created, and the pages that show a new status at once know
\* which one it will be.
ASSUME ShapeAssumption ==
  \A k \in DOMAIN Table :
    LET T == Table[k] IN
    /\ DOMAIN T.menu \subseteq DOMAIN T.list \cap DOMAIN T.api
    /\ \E p \in DOMAIN T.rules : Gone \in DOMAIN T.rules[p]
    /\ \A p \in DOMAIN T.rules : Same \notin DOMAIN T.rules[p]
    /\ \A o \in DOMAIN T.menu : T.list[o] \in Patches
    /\ \A o \in DOMAIN T.menu : T.list[o] \in Optimistic =>
         /\ T.api[o] \in DOMAIN T.rules
         /\ \A s \in T.menu[o].at :
              s \in DOMAIN T.rules[T.api[o]] /\ Same \notin T.rules[T.api[o]][s]

\* But for the known refusals a button's call has a route, which asks for
\* nothing the page has not asked for, and rules for every status the button
\* is shown at; and whoever finds the way to a page may see its list.
ASSUME ButtonsAssumption ==
  \A k \in DOMAIN Table :
    LET T == Table[k] IN
    /\ \A o \in DOMAIN T.menu : <<k, o>> \notin KnownRefusals =>
         /\ T.api[o] \in DOMAIN T.routes
         /\ T.routes[T.api[o]] \in {T.menu[o].perm, Anyone} \cup Way[k]
         /\ T.menu[o].at \subseteq DOMAIN T.rules[T.api[o]]
    /\ <<k, "list">> \notin KnownRefusals =>
         T.routes[T.api["list"]] \in {Anyone} \cup Way[k]

\* What a page does to its list fits a call that brings the record of kind k
\* from status s to r.
Fits(k, how, s, r) ==
  CASE how = "add" -> r # Gone /\ (s = Gone \/ (k \in KnownCopies /\ r = s))
    [] how \in {"replace"} \cup Optimistic -> s # Gone /\ r # Gone
    [] how = "upsert" -> r # Gone
    [] how = "drop" -> r = Gone
    [] how = "none" -> r = s
    [] how = "refetch" -> TRUE

\* Every page patches its list the way its calls change the record.
ASSUME PatchAssumption ==
  \A k \in DOMAIN Table : \A o \in DOMAIN Table[k].menu :
    LET T == Table[k]
        p == T.api[o] IN
    p \in DOMAIN T.rules =>
      \A s \in T.menu[o].at \cap DOMAIN T.rules[p] : \A r \in T.rules[p][s] :
        Fits(k, T.list[o], s, IF r = Same THEN s ELSE r)

\* The statuses a record of kind k can be in by its rules.
StatusesOf(k) ==
  LET rules == {Table[k].rules[p] : p \in DOMAIN Table[k].rules} IN
  (UNION {DOMAIN r \cup UNION {r[s] : s \in DOMAIN r} : r \in rules}) \ {Same}

\* A record of a closed month stays one, and every rule says so of what it
\* writes there.
ASSUME MonthAssumption ==
  \A k \in DOMAIN Table :
    /\ \A s, t \in StatusesOf(k) : Lands(s, t) \in StatusesOf(k)
    /\ \A p \in DOMAIN Table[k].rules : \A s \in DOMAIN Table[k].rules[p] :
         \A t \in Table[k].rules[p][s] \ {Same} : Lands(s, t) = t

\* An approval chain decides on a record of kind k at status s; a button of its
\* page moves it on from there.
Awaited(k, s) == "decision" \in DOMAIN Table[k].rules /\ s \in DOMAIN Table[k].rules["decision"]
LeadsOn(k, o, s) ==
  LET T == Table[k]
      p == T.api[o] IN
  /\ s \in T.menu[o].at /\ Gone \notin T.menu[o].at
  /\ p \in DOMAIN T.routes /\ s \in DOMAIN T.rules[p]
  /\ ~ (T.rules[p][s] \subseteq {s, Same})

\* But for the known dead ends a table has a way on from every status a record
\* does not rest at, and its service takes what is complete and in order.
ASSUME WaysAssumption ==
  \A k \in DOMAIN Table :
    /\ "after" \in Table[k].checks.orders /\ "nothing" \notin Table[k].checks.asks
    /\ \A s \in StatusesOf(k) \ (Table[k].ends.resting \cup {Gone}) :
         \/ Awaited(k, s)
         \/ \E o \in DOMAIN Table[k].menu : LeadsOn(k, o, s)
         \/ <<k, s>> \in KnownDeadEnds
ASSUME CallsAssumption == Calls # {} /\ MaxShown \in Nat \ {0}

VARIABLES
  kind,     \* the page the tab is on
  held,     \* the permissions of its user
  row,      \* the status of the record in the database, or Gone
  order,    \* the order of its two dates
  shown,    \* the statuses of its copies in the cached list
  fetch,    \* the query for the list
  call,     \* the calls in flight
  doubt,    \* another session, or two requests that crossed, may have left
            \* the list behind the database
  refusal   \* what the service has just refused, and why

vars == <<kind, held, row, order, shown, fetch, call, doubt, refusal>>

\* The table of the page the tab is on.
K == Table[kind]
Operations == DOMAIN K.menu
Statuses == StatusesOf(kind)

Permissions(k) ==
  Way[k] \cup {Table[k].menu[o].perm : o \in DOMAIN Table[k].menu}
    \cup {Table[k].routes[p] : p \in DOMAIN Table[k].routes}
\* The user is shown the way to the page, and lacks at most one of the other
\* permissions it is about.
Users(k) == {Permissions(k)} \cup {Permissions(k) \ {p} : p \in Permissions(k) \ Way[k]}
Holds(perm) == perm \in held \cup {Anyone}

Idle == [phase |-> "idle"]
NotRefused == [op |-> "none", why |-> "none"]
Quiet(c) == call[c].phase = "idle"
NothingAsked == fetch.phase = "idle" /\ \A c \in Calls : Quiet(c)

\* Faulty variants of the operators below, each a plausible slip in the code.
OfferedToAll(o) ==                \* the button forgets the permission
  LET b == K.menu[o] IN
  IF Gone \in b.at THEN row = Gone ELSE \E i \in 1 .. Len(shown) : shown[i] \in b.at
FilingsUnchecked ==               \* the form has no schema
  {[missing |-> f, order |-> d] : f \in {"nothing"} \cup K.checks.asks, d \in K.form.orders}
VerdictOnAnyOrder(o, v) ==        \* the table has no CHECK on the two dates
  LET p == K.api[o] IN
  IF p \notin DOMAIN K.routes THEN "no route"
  ELSE IF ~Holds(K.routes[p]) THEN "forbidden"
  ELSE IF row \notin DOMAIN K.rules[p] THEN IF doubt THEN "stale" ELSE "conflict"
  ELSE "none"
BecomesAsSent(o, s) == IF row = Gone /\ Gone \notin K.menu[o].at THEN Gone ELSE s
BecomesAnew(o, s) ==              \* an update writes the whole row, status and all, as new
  IF row = Gone /\ Gone \notin K.menu[o].at THEN Gone
  ELSE IF s = Same
         THEN CHOOSE t \in Statuses : \E p \in DOMAIN K.rules :
                Gone \in DOMAIN K.rules[p] /\ t \in K.rules[p][Gone]
         ELSE s
PatchedLate(how, s) ==            \* the page leaves the copy as it is
  CASE how = "add" -> <<s>> \o shown
    [] how = "drop" -> <<>>
    [] OTHER -> shown

\* What a fetch finds.
Listed(s) == IF s = Gone THEN <<>> ELSE <<s>>

(* ------------------------------- the page -------------------------------- *)
Init ==
  /\ kind \in DOMAIN Table
  /\ held \in Users(kind)
  /\ row = Gone
  /\ order = "after"
  /\ shown = <<>>
  /\ fetch = Idle
  /\ call = [c \in Calls |-> Idle]
  /\ doubt = TRUE                    \* nothing has been fetched yet
  /\ refusal = NotRefused

\* The window regains the focus, or the list has gone stale: the query asks
\* again.  What was in doubt is settled unless a call is under way.
Refetch ==
  /\ fetch = Idle
  /\ fetch' = [phase |-> "asked"]
  /\ doubt' = \E c \in Calls : ~Quiet(c)
  /\ refusal' = NotRefused
  /\ UNCHANGED <<kind, held, row, order, shown, call>>

\* The database answers the query.
Fetched ==
  /\ fetch.phase = "asked"
  /\ IF Holds(K.routes[K.api["list"]])
       THEN /\ fetch' = [phase |-> "answered", found |-> Listed(row)]
            /\ UNCHANGED doubt
            /\ refusal' = NotRefused
       ELSE /\ fetch' = Idle
            /\ doubt' = TRUE
            /\ refusal' = [op |-> "list", why |-> "forbidden"]
  /\ UNCHANGED <<kind, held, row, order, shown, call>>

\* The answer replaces the cached list, whatever the page wrote there since.
Loaded ==
  /\ fetch.phase = "answered"
  /\ shown' = fetch.found
  /\ fetch' = Idle
  /\ refusal' = NotRefused
  /\ UNCHANGED <<kind, held, row, order, call, doubt>>

Offered(o) ==
  LET b == K.menu[o] IN
  /\ Holds(b.perm)
  /\ IF Gone \in b.at THEN row = Gone  \* bound: one record
     ELSE \E i \in 1 .. Len(shown) : shown[i] \in b.at

\* What the form lets the user file: every field it asks for is filled in, a
\* field it does not ask for may be left empty.
Filings ==
  {[missing |-> f, order |-> d] : f \in {"nothing"} \cup (K.checks.asks \ K.form.asks),
                                  d \in K.form.orders}

\* A button is pressed; the row's menu stays open until the answer is in, so
\* another may be pressed meanwhile.
Press(c, o) ==
  /\ K.list[o] \notin Optimistic
  /\ Quiet(c) /\ Offered(o)
  /\ row = Gone => \A d \in Calls : Quiet(d)  \* bound: one record
  /\ \E v \in IF Gone \in K.menu[o].at THEN Filings ELSE {Complete} :
       call' = [call EXCEPT ![c] = [phase |-> "sent", op |-> o, filed |-> v]]
  /\ doubt' = (doubt \/ ~NothingAsked)
  /\ refusal' = NotRefused
  /\ UNCHANGED <<kind, held, row, order, shown, fetch>>

\* A card is dragged to another column, a task switched in its row: every copy
\* shows what the user wants at once, and the call keeps what to put back.
PressOptimistic(c, o) ==
  /\ K.list[o] \in Optimistic
  /\ Quiet(c) /\ Offered(o)
  /\ \E i \in 1 .. Len(shown) :
       /\ shown[i] \in K.menu[o].at
       /\ \E w \in K.rules[K.api[o]][shown[i]] \ {shown[i]} :
            /\ shown' = [j \in 1 .. Len(shown) |-> w]
            /\ call' = [call EXCEPT ![c] =
                 [phase |-> "sent", op |-> o, filed |-> Complete, wants |-> w, was |->
                    IF K.list[o] = "drag" THEN shown ELSE <<shown[i]>>]]
  /\ fetch' = IF K.list[o] = "drag" THEN Idle ELSE fetch
  /\ doubt' = (doubt \/ ~NothingAsked)
  /\ refusal' = NotRefused
  /\ UNCHANGED <<kind, held, row, order>>

\* What the list shows once call c has failed.
PutBack(c) ==
  CASE K.list[call[c].op] = "drag" -> call[c].was
    [] K.list[call[c].op] = "inline" -> [j \in 1 .. Len(shown) |-> call[c].was[1]]
    [] OTHER -> shown

(* ------------------------------ the service ------------------------------ *)
Verdict(o, v) ==
  LET p == K.api[o] IN
  IF p \notin DOMAIN K.routes THEN "no route"
  ELSE IF ~Holds(K.routes[p]) THEN "forbidden"
  ELSE IF row \notin DOMAIN K.rules[p] THEN IF doubt THEN "stale" ELSE "conflict"
  ELSE IF v.missing \in K.checks.asks THEN "incomplete"
  ELSE IF v.order \notin K.checks.orders THEN "misordered"
  ELSE "none"

\* What call c may write over the row as it is now.
Writable(c) ==
  LET to == K.rules[K.api[call[c].op]][row] IN
  IF K.list[call[c].op] \in Optimistic /\ call[c].wants \in to THEN {call[c].wants} ELSE to

\* The route tests the permission, the service reads the row and refuses the
\* call, which the page reports and leaves at that, or settles what to write.
Check(c) ==
  /\ call[c].phase = "sent"
  /\ LET o == call[c].op
         v == Verdict(o, call[c].filed) IN
       \/ /\ v = "none"
          /\ \E s \in Writable(c) :
               call' = [call EXCEPT ![c] = [phase |-> "checked", op |-> o, writes |-> s,
                          was |-> IF K.list[o] \in Optimistic THEN call[c].was ELSE <<>>]]
          /\ order' = IF row = Gone THEN call[c].filed.order ELSE order
          /\ refusal' = NotRefused
          /\ UNCHANGED shown
       \/ /\ v # "none"
          /\ shown' = PutBack(c)
          /\ call' = [call EXCEPT ![c] = Idle]
          /\ refusal' = [op |-> o, why |-> v]
          /\ UNCHANGED order
  /\ UNCHANGED <<kind, held, row, fetch, doubt>>

\* The service writes by id, whatever the row holds by then.  A row deleted
\* meanwhile matches no id: the service answers as if it had written.
Becomes(o, s) ==
  IF row = Gone /\ Gone \notin K.menu[o].at THEN Gone
  ELSE IF s = Same THEN row ELSE Lands(row, s)
Write(c) ==
  /\ call[c].phase = "checked"
  /\ LET s == Becomes(call[c].op, call[c].writes) IN
       /\ row' = s
       /\ call' = [call EXCEPT ![c] =
            [phase |-> "answered", op |-> call[c].op, was |-> call[c].was,
             answer |-> IF call[c].writes = Same THEN s ELSE call[c].writes]]
  /\ refusal' = NotRefused
  /\ UNCHANGED <<kind, held, order, shown, fetch, doubt>>

\* Another session calls the service, from a page, a script or an approval.
Elsewhere(p) ==
  /\ row \in DOMAIN K.rules[p]
  /\ row = Gone => \A c \in Calls : Quiet(c)  \* bound: one record
  /\ row' \in IF Same \in K.rules[p][row] THEN {row} ELSE K.rules[p][row]
  /\ order' = IF row = Gone THEN "after" ELSE order
  /\ doubt' = TRUE
  /\ refusal' = NotRefused
  /\ UNCHANGED <<kind, held, shown, fetch, call>>

(* --------------------------- the page, again ----------------------------- *)
Patched(how, s) ==
  CASE how = "add" -> IF Len(shown) < MaxShown THEN <<s>> \o shown ELSE shown
    [] how \in {"replace"} \cup Optimistic -> [i \in 1 .. Len(shown) |-> s]
    [] how = "upsert" -> IF shown = <<>> THEN <<s>> ELSE [i \in 1 .. Len(shown) |-> s]
    [] how = "drop" -> <<>>
    [] how \in {"refetch", "none"} -> shown

\* The answer is in: the page writes it into the cached list, or has the
\* query ask again.
Answered(c) ==
  /\ call[c].phase = "answered"
  /\ LET how == K.list[call[c].op] IN
       /\ shown' = Patched(how, call[c].answer)
       /\ IF how = "refetch"
            THEN /\ fetch' = [phase |-> "asked"]
                 /\ doubt' = \E d \in Calls \ {c} : ~Quiet(d)
            ELSE UNCHANGED <<fetch, doubt>>
  /\ call' = [call EXCEPT ![c] = Idle]
  /\ refusal' = NotRefused
  /\ UNCHANGED <<kind, held, row, order>>

\* The request or its answer is lost, or the service fails before it writes:
\* the page takes the call as failed, though it may have been carried out.
Fails(c) ==
  /\ ~Quiet(c)
  /\ shown' = PutBack(c)
  /\ call' = [call EXCEPT ![c] = Idle]
  /\ doubt' = (doubt \/ call[c].phase = "answered")
  /\ refusal' = NotRefused
  /\ UNCHANGED <<kind, held, row, order, fetch>>

\* The query fails as well; the list stays as it is.
FetchFails ==
  /\ fetch # Idle
  /\ fetch' = Idle
  /\ doubt' = TRUE
  /\ refusal' = NotRefused
  /\ UNCHANGED <<kind, held, row, order, shown, call>>

Next ==
  \/ Refetch \/ Fetched \/ Loaded \/ FetchFails
  \/ \E c \in Calls, o \in Operations : Press(c, o) \/ PressOptimistic(c, o)
  \/ \E c \in Calls : Check(c) \/ Write(c) \/ Answered(c) \/ Fails(c)
  \/ \E p \in DOMAIN K.rules : Elsewhere(p)

Spec == Init /\ [][Next]_vars

(* ------------------------------ properties ------------------------------- *)
TypeOK ==
  /\ kind \in DOMAIN Table
  /\ held \subseteq Permissions(kind)
  /\ row \in Statuses
  /\ order \in Orders
  /\ shown \in Seq(Statuses) /\ Len(shown) <= MaxShown
  /\ fetch \in {Idle, [phase |-> "asked"]}
       \cup {[phase |-> "answered", found |-> Listed(s)] : s \in Statuses}
  /\ \A c \in Calls :
       \/ Quiet(c)
       \/ /\ call[c].phase \in {"sent", "checked", "answered"}
          /\ call[c].op \in Operations
  /\ doubt \in BOOLEAN

\* A button the page shows is one the service honours: unless another session
\* or a second request came between, no call is refused for the status of the
\* record, for a permission the page did not ask about, or because no route
\* answers it.  It ties every menu to the routes and the rules behind it.
ButtonsAreHonoured ==
  refusal.why \in {"conflict", "forbidden", "no route"}
    => <<kind, refusal.op>> \in KnownRefusals

\* What a form lets a user file, the service takes: as long as nothing has come
\* between, it has nothing to say against a filing but the order of its dates,
\* and what a form is known not to ask.  It ties the schema of every form and
\* the button above it to the tests of the handler and the guards of the route.
FilingsAreTaken ==
  \A c \in Calls :
    /\ call[c].phase = "sent" /\ ~doubt
    /\ Gone \in K.menu[call[c].op].at /\ <<kind, call[c].op>> \notin KnownRefusals
    => \/ Verdict(call[c].op, call[c].filed) \in {"none", "misordered"}
       \/ /\ Verdict(call[c].op, call[c].filed) = "incomplete"
          /\ <<kind, call[c].filed.missing>> \in KnownUnasked

\* A record is never stored with its second date before its first, whichever
\* of the form, the service and the table has to see to it.
StoredInOrder == row # Gone => order \in InOrder

\* A page nothing has crossed shows what the database holds: when no request
\* is under way and none overlapped another since the last fetch, the list
\* the page has patched by hand is the one a fetch would return.
LonePageIsCurrent ==
  NothingAsked /\ ~doubt =>
    IF kind \in KnownCopies THEN Range(shown) = Range(Listed(row)) ELSE shown = Listed(row)

\* A record at a final status leaves it only by being deleted, or by a call
\* that had been checked before another session brought it there.
FinalIsFinal ==
  [][/\ row \in K.ends.final
     /\ row' \notin {row, Gone}
     => doubt /\ \E c \in Calls : call[c].phase = "checked"]_vars

\* No record is stuck: at every status a record can reach and is not meant to
\* rest at, a decision is under way or some button leads on, and on a page that
\* nothing has crossed a user who has every permission is shown that button
\* and the service accepts it.
NothingStuck ==
  row \notin K.ends.resting \cup {Gone} /\ <<kind, row>> \notin KnownDeadEnds =>
    \/ Awaited(kind, row)
    \/ \E o \in Operations :
         /\ LeadsOn(kind, o, row)
         /\ held = Permissions(kind) /\ NothingAsked /\ ~doubt =>
              Offered(o) /\ Verdict(o, Complete) = "none"

=============================================================================
