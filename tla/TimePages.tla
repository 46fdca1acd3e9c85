----------------------------- MODULE TimePages ------------------------------
(* Leave requests and leave types (hrm/leave), attendance records and their  *)
(* monthly periods (hrm/attendance).                                         *)
EXTENDS RecordKinds

(* -- leave requests: the first and the last day ----------------------------- *)
\* A type that needs no approval has the request start as approved.
LeaveRequestApi ==
  [list |-> "GET", create |-> "POST", approve |-> "POST approve",
   reject |-> "POST reject", cancel |-> "POST cancel", delete |-> "DELETE"]
LeaveRequestRoutes ==
  Under("hrm.leave.view", {"GET"})
  @@ Under("hrm.leave.request", {"POST", "POST cancel"})
  @@ Under("hrm.leave.approve", {"POST approve", "POST reject"})
  @@ Under("hrm.leave.delete", {"DELETE"})
LeaveRequestRules ==
  "POST" :> Creates({"pending", "approved"})
  @@ "POST approve" :> Rule({"pending"}, {"approved"})
  @@ "POST reject" :> Rule({"pending"}, {"rejected"})
  @@ "POST cancel" :> Rule({"pending", "approved", "rejected"}, {"cancelled"})
  @@ "DELETE" :> Deletes({"pending", "approved", "rejected", "cancelled"})
LeaveRequestMenu ==
  [create |-> Button("hrm.leave.request", {Gone}),
   approve |-> Button("hrm.leave.approve", {"pending"}),
   reject |-> Button("hrm.leave.approve", {"pending"}),
   cancel |-> Button("hrm.leave.request", {"pending", "approved"}),
   delete |-> Button("hrm.leave.delete",
                     {"pending", "approved", "rejected", "cancelled"})]
LeaveRequestList ==
  Adds({"create"}) @@ Replaces({"approve", "reject", "cancel"})
  @@ Drops({"delete"})
LeaveRequestForm ==
  Form({"employee", "leave_type", "start_date", "end_date"}, Orders)
LeaveRequestChecks ==
  Form({"employee", "leave_type", "start_date", "end_date"}, InOrder)
LeaveRequest ==
  Kind(LeaveRequestApi, LeaveRequestRoutes, LeaveRequestRules,
       LeaveRequestMenu, LeaveRequestList, LeaveRequestForm,
       LeaveRequestChecks, Ends({"cancelled"}, {"approved", "rejected"}))

(* -- leave types ------------------------------------------------------------ *)
LeaveTypeApi ==
  [list |-> "GET", create |-> "POST", update |-> "PATCH", delete |-> "DELETE"]
LeaveTypeRoutes ==
  Under("hrm.leave.view", {"GET"}) @@ Under("hrm.leave.create", {"POST"})
  @@ Under("hrm.leave.update", {"PATCH"})
  @@ Under("hrm.leave.delete", {"DELETE"})
LeaveTypeRules ==
  "POST" :> Creates({"active"}) @@ "PATCH" :> Rule(Switch, Switch)
  @@ "DELETE" :> Deletes(Switch)
LeaveTypeMenu ==
  [create |-> Button("hrm.leave.create", {Gone}),
   update |-> Button("hrm.leave.update", {"active", "inactive"}),
   delete |-> Button("hrm.leave.delete", {"active", "inactive"})]
LeaveTypeList ==
  Adds({"create"}) @@ Replaces({"update"}) @@ Drops({"delete"})
LeaveTypeForm == Form({"name", "max_days"}, {"after"})
LeaveTypeChecks == Form({"name"}, {"after"})
LeaveType ==
  Kind(LeaveTypeApi, LeaveTypeRoutes, LeaveTypeRules, LeaveTypeMenu,
       LeaveTypeList, LeaveTypeForm, LeaveTypeChecks,
       Ends({}, {"active", "inactive"}))

\* Approving and rejecting a correction do not ask whether the month is closed,
\* filing one does, unless the query for its period fails: the service takes
\* that for an open month.
Decides(to) ==
  Rule({"pending"}, {to}) @@ Rule({"pending_closed"}, {InClosedMonth[to]})
Corrects == Rule(OpenMonth, {"pending"})
MonthFinalized == [s \in OpenMonth |-> {InClosedMonth[s]}]
MonthUnread == Creates({"approved_closed"}) @@ Rule(ClosedMonth, {"pending_closed"})

(* -- attendance records ----------------------------------------------------- *)
\* The page does not tell whether the month of a record is closed, and offers a
\* correction of every approved one; its form lets any date be filed.
AttendanceApi ==
  [list |-> "GET", create |-> "POST", approve |-> "POST approve",
   reject |-> "POST reject", regularize |-> "POST regularize"]
AttendanceRoutes ==
  Under("hrm.attendance.view", {"GET"})
  @@ Under("hrm.attendance.manage", {"POST", "POST regularize"})
  @@ Under("hrm.attendance.approve", {"POST approve", "POST reject"})
AttendanceRules ==
  "POST" :> Creates({"approved"}) @@ "POST approve" :> Decides("approved")
  @@ "POST reject" :> Decides("rejected") @@ "POST regularize" :> Corrects
  @@ "POST finalize" :> MonthFinalized @@ "failed lookup" :> MonthUnread
AttendanceMenu ==
  [create |-> Button("hrm.attendance.manage", {Gone}),
   approve |-> Button("hrm.attendance.approve", {"pending", "pending_closed"}),
   reject |-> Button("hrm.attendance.approve", {"pending", "pending_closed"}),
   regularize |-> Button("hrm.attendance.manage",
                         {"approved", "approved_closed"})]
AttendanceList ==
  Adds({"create"}) @@ Replaces({"approve", "reject", "regularize"})
AttendanceForm == Form({"employee", "date", "day_type"}, {"after"})
AttendanceChecks ==
  Form({"employee", "date", "day_type", "open_month"}, {"after"})
Attendance ==
  Kind(AttendanceApi, AttendanceRoutes, AttendanceRules, AttendanceMenu,
       AttendanceList, AttendanceForm, AttendanceChecks,
       Ends({}, {"approved", "rejected", "approved_closed", "rejected_closed"}))

(* -- attendance periods: opened once for a month ---------------------------- *)
PeriodApi ==
  [list |-> "GET periods", open |-> "POST periods",
   finalize |-> "POST finalize", lock |-> "POST lock"]
PeriodRoutes ==
  Under("hrm.attendance.view", {"GET periods"})
  @@ Under("hrm.attendance.manage", {"POST periods"})
  @@ Under("hrm.attendance.finalize", {"POST finalize", "POST lock"})
PeriodRules ==
  "POST periods" :> Creates({"open"})
  @@ "POST finalize" :> Rule({"open"}, {"finalized"})
  @@ "POST lock" :> Rule({"finalized"}, {"locked"})
PeriodMenu ==
  [open |-> Button("hrm.attendance.manage", {Gone}),
   finalize |-> Button("hrm.attendance.finalize", {"open"}),
   lock |-> Button("hrm.attendance.finalize", {"finalized"})]
PeriodList ==
  Upserts({"open"}) @@ Replaces({"finalize", "lock"})
PeriodForm == NoForm
PeriodChecks == NoForm
Period ==
  Kind(PeriodApi, PeriodRoutes, PeriodRules, PeriodMenu, PeriodList,
       PeriodForm, PeriodChecks, Ends({"locked"}, {}))

\* The kinds of record of these pages.
TimeKinds ==
  [leave_requests |-> LeaveRequest, leave_types |-> LeaveType,
   attendance |-> Attendance, periods |-> Period]
=============================================================================
