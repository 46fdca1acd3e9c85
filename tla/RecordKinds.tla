---------------------------- MODULE RecordKinds ----------------------------
(* The vocabulary of the tables that describe the pages of the web client:   *)
(* one record of the business (a promotion, a leave request, a holiday ...), *)
(* the page that lists it, the form that files it and the service behind.    *)
(* Every kind of record is a record of eight tables:                         *)
(*   api     operation |-> the call its function under src/frontend/src/lib  *)
(*           makes, named by its HTTP method and the end of its path         *)
(*   routes  call |-> the permission its route asks for                      *)
(*   rules   call |-> the statuses the service accepts |-> those it writes   *)
(*   menu    operation |-> the button of the page: who sees it, at which     *)
(*           statuses                                                        *)
(*   list    operation |-> what the page does to its cached list when the    *)
(*           call has succeeded                                              *)
(*   form    what the form asks for and which order of its two dates it      *)
(*           lets through                                                    *)
(*   checks  what the service and the table refuse of a new record           *)
(*   ends    the statuses a record is meant to rest at, and among them those *)
(*           the service never leaves                                        *)
EXTENDS TLC

\* No row: not created yet, or deleted.
Gone == "gone"
\* A permission nobody has to hold.
Anyone == "anyone"

Button(perm, at) == [perm |-> perm, at |-> at]
\* From each of these statuses to one of those; a rule of several clauses is
\* their union (@@).
Rule(from, to) == [s \in from |-> to]
Creates(to) == Rule({Gone}, to)
Deletes(from) == Rule(from, {Gone})
\* The call writes other columns and leaves the status as it finds it.
Same == "same"
Keeps(from) == Rule(from, {Same})
\* The service accepts these, and then a statement of it always fails: it sets
\* hrm_employees.status, a column migration 00053 has dropped.
Breaks(from) == Rule(from, {})
\* The call writes the whole row back as it was read.
Rewrites(from) == [s \in from |-> {s}]

\* Once its month is closed an attendance record is told apart from one of an
\* open month.  The month is a row of another table, so a status written to the
\* record does not open it again.
InClosedMonth ==
  [pending |-> "pending_closed", approved |-> "approved_closed",
   rejected |-> "rejected_closed"]
OpenMonth == DOMAIN InClosedMonth
ClosedMonth == {InClosedMonth[s] : s \in OpenMonth}
Lands(was, s) ==
  IF was \in ClosedMonth /\ s \in OpenMonth THEN InClosedMonth[s] ELSE s

\* Most records of the set-up pages are switched on and off by their form.
Switch == {"active", "inactive"}

\* The permission the routes of these calls ask for.
Under(perm, calls) == [p \in calls |-> perm]

\* What a handler does to the cached list when its call has succeeded: add the
\* answer, put it in the place of the copy, drop the copy or fetch again.
Adds(ops) == [o \in ops |-> "add"]
Replaces(ops) == [o \in ops |-> "replace"]
Upserts(ops) == [o \in ops |-> "upsert"]
Drops(ops) == [o \in ops |-> "drop"]
Refetches(ops) == [o \in ops |-> "refetch"]
Leaves(ops) == [o \in ops |-> "none"]
\* Two pages show the new status before the service has agreed.  The board of
\* deals cancels its query first and on failure restores the list it had; the
\* list of tasks puts back the task that was changed.
Drags(ops) == [o \in ops |-> "drag"]
Inlines(ops) == [o \in ops |-> "inline"]
Optimistic == {"drag", "inline"}
Patches == {"add", "replace", "upsert", "drop", "refetch", "none"} \cup Optimistic

\* The order of the second date of a pair against the first.
Orders == {"before", "same", "after"}
InOrder == {"same", "after"}
\* What is asked for, and which orders of the dates are let through.
Form(asks, orders) == [asks |-> asks, orders |-> orders]
NoForm == Form({}, {"after"})
\* What a record that says everything, in order, looks like.
Complete == [missing |-> "nothing", order |-> "after"]

Ends(final, resting) == [final |-> final, resting |-> final \cup resting]

Kind(api, routes, rules, menu, list, form, checks, ends) ==
  [api |-> api, routes |-> routes, rules |-> rules, menu |-> menu,
   list |-> list, form |-> form, checks |-> checks, ends |-> ends]
=============================================================================
