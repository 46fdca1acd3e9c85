---------------------------- MODULE PeoplePages -----------------------------
(* Employees, their statuses, departments and positions, payroll runs, and   *)
(* the drawer in which a record's approval is decided.                       *)
EXTENDS RecordKinds

(* -- employees -------------------------------------------------------------- *)
\* An employee is expected until the hire date: the service terminates nobody
\* before it, the page offers to and sends today.
EmployeeApi ==
  [list |-> "GET", create |-> "POST", update |-> "PATCH",
   terminate |-> "POST terminate", delete |-> "DELETE"]
EmployeeRoutes ==
  Under("hrm.employees.view", {"GET"})
  @@ Under("hrm.employees.create", {"POST"})
  @@ Under("hrm.employees.update", {"PATCH"})
  @@ Under("hrm.employees.terminate", {"POST terminate"})
  @@ Under("hrm.employees.delete", {"DELETE"})
EmployeeRules ==
  "POST" :> Creates({"expected", "active", "terminated"})
  @@ "PATCH" :> Rule({"expected", "active", "terminated"},
                     {"expected", "active", "terminated"})
  @@ "POST terminate" :> Rule({"active"}, {"terminated"})
  @@ "DELETE" :> Deletes({"expected", "active", "terminated"})
  @@ "the day comes" :> Rule({"expected"}, {"active"})
EmployeeMenu ==
  [create |-> Button("hrm.employees.create", {Gone}),
   update |-> Button("hrm.employees.update",
                     {"expected", "active", "terminated"}),
   terminate |-> Button("hrm.employees.terminate", {"expected", "active"}),
   delete |-> Button("hrm.employees.delete",
                     {"expected", "active", "terminated"})]
EmployeeList ==
  Adds({"create"}) @@ Replaces({"update", "terminate"}) @@ Drops({"delete"})
EmployeeForm == Form({"first_name", "hire_date"}, {"after"})
EmployeeChecks == Form({"first_name", "hire_date"}, {"after"})
Employee ==
  Kind(EmployeeApi, EmployeeRoutes, EmployeeRules, EmployeeMenu, EmployeeList,
       EmployeeForm, EmployeeChecks, Ends({}, {"active", "terminated"}))

(* -- statuses of employees; the seeded ones keep their names ---------------- *)
StatusApi ==
  [list |-> "GET", create |-> "POST", update |-> "PATCH", delete |-> "DELETE"]
StatusRoutes ==
  Under("hrm.employees.view", {"GET"})
  @@ Under("hrm.employees.update", {"POST", "PATCH", "DELETE"})
StatusRules ==
  "POST" :> Creates({"own"}) @@ "PATCH" :> Keeps({"seeded", "own"})
  @@ "DELETE" :> Deletes({"own"}) @@ "seeding" :> Creates({"seeded"})
StatusMenu ==
  [create |-> Button("hrm.employees.update", {Gone}),
   update |-> Button("hrm.employees.update", {"seeded", "own"}),
   delete |-> Button("hrm.employees.update", {"own"})]
StatusList ==
  Adds({"create"}) @@ Replaces({"update"}) @@ Drops({"delete"})
StatusForm == Form({"name", "category", "color"}, {"after"})
StatusChecks == Form({"name", "category", "color"}, {"after"})
Status ==
  Kind(StatusApi, StatusRoutes, StatusRules, StatusMenu, StatusList,
       StatusForm, StatusChecks, Ends({"seeded"}, {"own"}))

(* -- departments ------------------------------------------------------------ *)
DepartmentApi ==
  [list |-> "GET", create |-> "POST", update |-> "PATCH", delete |-> "DELETE"]
DepartmentRoutes ==
  Under("hrm.departments.view", {"GET"})
  @@ Under("hrm.departments.create", {"POST"})
  @@ Under("hrm.departments.update", {"PATCH"})
  @@ Under("hrm.departments.delete", {"DELETE"})
DepartmentRules ==
  "POST" :> Creates({"active"}) @@ "PATCH" :> Rule(Switch, Switch)
  @@ "DELETE" :> Deletes(Switch)
DepartmentMenu ==
  [create |-> Button("hrm.departments.create", {Gone}),
   update |-> Button("hrm.departments.update", {"active", "inactive"}),
   delete |-> Button("hrm.departments.delete", {"active", "inactive"})]
DepartmentList ==
  Adds({"create"}) @@ Replaces({"update"}) @@ Drops({"delete"})
DepartmentForm == Form({"name"}, {"after"})
DepartmentChecks == Form({"name"}, {"after"})
Department ==
  Kind(DepartmentApi, DepartmentRoutes, DepartmentRules, DepartmentMenu,
       DepartmentList, DepartmentForm, DepartmentChecks,
       Ends({}, {"active", "inactive"}))

(* -- positions -------------------------------------------------------------- *)
PositionApi ==
  [list |-> "GET", create |-> "POST", update |-> "PATCH", delete |-> "DELETE"]
PositionRoutes ==
  Under("hrm.positions.view", {"GET"})
  @@ Under("hrm.positions.create", {"POST"})
  @@ Under("hrm.positions.update", {"PATCH"})
  @@ Under("hrm.positions.delete", {"DELETE"})
PositionRules ==
  "POST" :> Creates({"active"}) @@ "PATCH" :> Rule(Switch, Switch)
  @@ "DELETE" :> Deletes(Switch)
PositionMenu ==
  [create |-> Button("hrm.positions.create", {Gone}),
   update |-> Button("hrm.positions.update", {"active", "inactive"}),
   delete |-> Button("hrm.positions.delete", {"active", "inactive"})]
PositionList ==
  Adds({"create"}) @@ Replaces({"update"}) @@ Drops({"delete"})
PositionForm == Form({"title"}, {"after"})
PositionChecks == Form({"title"}, {"after"})
Position ==
  Kind(PositionApi, PositionRoutes, PositionRules, PositionMenu, PositionList,
       PositionForm, PositionChecks, Ends({}, {"active", "inactive"}))

\* A computation asks for the status of the employees, a column the table no
\* longer has: it takes the run back to draft and answers with an error.  One
\* that breaks off leaves it computing, where the service lets it be computed
\* again and the page only cancelled.  A run linked to an attendance period that
\* is still open is not computed until somebody finalizes the period.
ComputeRun == Rule({"draft", "computing"}, {"draft"})
BrokenOff == Rule({"draft", "computing"}, {"computing"})
PeriodFinalized == Rule({"draft_unready"}, {"draft"})

(* -- payroll runs ----------------------------------------------------------- *)
PayrollRunApi ==
  [list |-> "GET", create |-> "POST", compute |-> "POST compute",
   approve |-> "POST approve", pay |-> "POST pay", cancel |-> "POST cancel"]
PayrollRunRoutes ==
  Under("hrm.payroll.view", {"GET"})
  @@ Under("hrm.payroll.manage", {"POST", "POST cancel"})
  @@ Under("hrm.payroll.compute", {"POST compute"})
  @@ Under("hrm.payroll.approve", {"POST approve"})
  @@ Under("hrm.payroll.pay", {"POST pay"})
PayrollRunRules ==
  "POST" :> Creates({"draft", "draft_unready"})
  @@ "POST compute" :> ComputeRun @@ "failed compute" :> BrokenOff
  @@ "POST finalize" :> PeriodFinalized
  @@ "POST approve" :> Rule({"computed"}, {"approved"})
  @@ "POST pay" :> Rule({"approved"}, {"paid"})
  @@ "POST cancel" :> Rule({"draft", "draft_unready", "computing", "computed",
                            "approved"},
                           {"cancelled"})
PayrollRunMenu ==
  [create |-> Button("hrm.payroll.manage", {Gone}),
   compute |-> Button("hrm.payroll.compute", {"draft", "draft_unready"}),
   approve |-> Button("hrm.payroll.approve", {"computed"}),
   pay |-> Button("hrm.payroll.pay", {"approved"}),
   cancel |-> Button("hrm.payroll.manage",
                     {"draft", "draft_unready", "computing", "computed",
                      "approved"})]
PayrollRunList ==
  Adds({"create"}) @@ Replaces({"approve", "pay", "cancel"})
  @@ Leaves({"compute"})
PayrollRunForm == Form({"year", "month"}, {"after"})
PayrollRunChecks == Form({"year", "month"}, {"after"})
PayrollRun ==
  Kind(PayrollRunApi, PayrollRunRoutes, PayrollRunRules, PayrollRunMenu,
       PayrollRunList, PayrollRunForm, PayrollRunChecks,
       Ends({"paid", "cancelled"}, {}))

(* -- approvals: the drawer that shows the steps of one ---------------------- *)
\* The service creates one with the record it decides about.
InstanceApi ==
  [list |-> "GET", approve |-> "POST approve", reject |-> "POST reject"]
InstanceRoutes ==
  Under("hrm.approvals.view", {"GET"})
  @@ Under("hrm.approvals.action", {"POST approve", "POST reject"})
InstanceRules ==
  "POST" :> Creates({"pending"})
  @@ "POST approve" :> Rule({"pending"}, {"pending", "approved"})
  @@ "POST reject" :> Rule({"pending"}, {"rejected"})
  @@ "cancel" :> Rule({"pending"}, {"cancelled"})
InstanceMenu ==
  [approve |-> Button("hrm.approvals.action", {"pending"}),
   reject |-> Button("hrm.approvals.action", {"pending"})]
InstanceList ==
  Replaces({"approve", "reject"})
InstanceForm == NoForm
InstanceChecks == NoForm
Instance ==
  Kind(InstanceApi, InstanceRoutes, InstanceRules, InstanceMenu, InstanceList,
       InstanceForm, InstanceChecks,
       Ends({"approved", "rejected", "cancelled"}, {}))

\* The kinds of record of these pages.
PeopleKinds ==
  [employees |-> Employee, statuses |-> Status, departments |-> Department,
   positions |-> Position, payroll |-> PayrollRun, instances |-> Instance]
=============================================================================
