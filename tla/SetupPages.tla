----------------------------- MODULE SetupPages -----------------------------
(* The pages under hrm/setup: what the other pages choose from.              *)
EXTENDS RecordKinds

(* -- shifts ----------------------------------------------------------------- *)
\* "times": both ends of a fixed shift, the weekly hours of a flexible one.
ShiftApi ==
  [list |-> "GET", create |-> "POST", update |-> "PATCH", delete |-> "DELETE"]
ShiftRoutes ==
  Under("hrm.shifts.view", {"GET"})
  @@ Under("hrm.shifts.manage", {"POST", "PATCH", "DELETE"})
ShiftRules ==
  "POST" :> Creates({"active"}) @@ "PATCH" :> Rule(Switch, Switch)
  @@ "DELETE" :> Deletes(Switch)
ShiftMenu ==
  [create |-> Button("hrm.shifts.manage", {Gone}),
   update |-> Button("hrm.shifts.manage", {"active", "inactive"}),
   delete |-> Button("hrm.shifts.manage", {"active", "inactive"})]
ShiftList ==
  Adds({"create"}) @@ Replaces({"update"}) @@ Drops({"delete"})
ShiftForm == Form({"name", "shift_type", "times"}, {"after"})
ShiftChecks == Form({"name", "shift_type", "times"}, {"after"})
Shift ==
  Kind(ShiftApi, ShiftRoutes, ShiftRules, ShiftMenu, ShiftList, ShiftForm,
       ShiftChecks, Ends({}, {"active", "inactive"}))

(* -- assignments of shifts -------------------------------------------------- *)
\* The form compares the first day and the last with nothing, nor does the
\* service; chk_hrm_wsa_dates refuses an assignment that ends before it starts.
ShiftAssignmentApi ==
  [list |-> "GET", create |-> "POST", delete |-> "DELETE"]
ShiftAssignmentRoutes ==
  Under("hrm.shifts.view", {"GET"})
  @@ Under("hrm.shifts.manage", {"POST", "DELETE"})
ShiftAssignmentRules ==
  "POST" :> Creates({"assigned"}) @@ "DELETE" :> Deletes({"assigned"})
ShiftAssignmentMenu ==
  [create |-> Button("hrm.shifts.manage", {Gone}),
   delete |-> Button("hrm.shifts.manage", {"assigned"})]
ShiftAssignmentList ==
  Adds({"create"}) @@ Drops({"delete"})
ShiftAssignmentForm ==
  Form({"shift", "assignee_type", "assignee", "effective_date"}, Orders)
ShiftAssignmentChecks ==
  Form({"shift", "assignee_type", "assignee", "effective_date"}, InOrder)
ShiftAssignment ==
  Kind(ShiftAssignmentApi, ShiftAssignmentRoutes, ShiftAssignmentRules,
       ShiftAssignmentMenu, ShiftAssignmentList, ShiftAssignmentForm,
       ShiftAssignmentChecks, Ends({}, {"assigned"}))

(* -- holiday calendars ------------------------------------------------------ *)
HolidayCalendarApi ==
  [list |-> "GET", create |-> "POST", delete |-> "DELETE"]
HolidayCalendarRoutes ==
  Under("hrm.holidays.view", {"GET"})
  @@ Under("hrm.holidays.manage", {"POST", "PATCH", "DELETE"})
HolidayCalendarRules ==
  "POST" :> Creates({"active"}) @@ "PATCH" :> Rule(Switch, Switch)
  @@ "DELETE" :> Deletes(Switch)
HolidayCalendarMenu ==
  [create |-> Button("hrm.holidays.manage", {Gone}),
   delete |-> Button("hrm.holidays.manage", {"active", "inactive"})]
HolidayCalendarList ==
  Adds({"create"}) @@ Drops({"delete"})
HolidayCalendarForm == Form({"name", "year"}, {"after"})
HolidayCalendarChecks == Form({"name", "year"}, {"after"})
HolidayCalendar ==
  Kind(HolidayCalendarApi, HolidayCalendarRoutes, HolidayCalendarRules,
       HolidayCalendarMenu, HolidayCalendarList, HolidayCalendarForm,
       HolidayCalendarChecks, Ends({}, {"active", "inactive"}))

(* -- the holidays of a calendar, in its drawer ------------------------------ *)
HolidayApi ==
  [list |-> "GET", add |-> "POST", remove |-> "DELETE"]
HolidayRoutes ==
  Under("hrm.holidays.view", {"GET"})
  @@ Under("hrm.holidays.manage", {"POST", "DELETE"})
HolidayRules ==
  "POST" :> Creates({"listed"}) @@ "DELETE" :> Deletes({"listed"})
HolidayMenu ==
  [add |-> Button("hrm.holidays.manage", {Gone}),
   remove |-> Button("hrm.holidays.manage", {"listed"})]
HolidayList ==
  Refetches({"add", "remove"})
HolidayForm == Form({"name", "date"}, {"after"})
HolidayChecks == Form({"name", "date"}, {"after"})
Holiday ==
  Kind(HolidayApi, HolidayRoutes, HolidayRules, HolidayMenu, HolidayList,
       HolidayForm, HolidayChecks, Ends({}, {"listed"}))

(* -- salary components ------------------------------------------------------ *)
\* "amounts": what the method computes from, a formula or the slabs.
SalaryComponentApi ==
  [list |-> "GET", create |-> "POST", update |-> "PATCH", delete |-> "DELETE"]
SalaryComponentRoutes ==
  Under("hrm.salary.view", {"GET"})
  @@ Under("hrm.salary.manage", {"POST", "PATCH", "DELETE"})
SalaryComponentRules ==
  "POST" :> Creates({"active"}) @@ "PATCH" :> Rule(Switch, Switch)
  @@ "DELETE" :> Deletes(Switch)
SalaryComponentMenu ==
  [create |-> Button("hrm.salary.manage", {Gone}),
   update |-> Button("hrm.salary.manage", {"active", "inactive"}),
   delete |-> Button("hrm.salary.manage", {"active", "inactive"})]
SalaryComponentList ==
  Adds({"create"}) @@ Replaces({"update"}) @@ Drops({"delete"})
SalaryComponentForm ==
  Form({"name", "component_type", "calc_method", "amounts"}, {"after"})
SalaryComponentChecks ==
  Form({"name", "component_type", "calc_method", "amounts"}, {"after"})
SalaryComponent ==
  Kind(SalaryComponentApi, SalaryComponentRoutes, SalaryComponentRules,
       SalaryComponentMenu, SalaryComponentList, SalaryComponentForm,
       SalaryComponentChecks, Ends({}, {"active", "inactive"}))

(* -- salary structures ------------------------------------------------------ *)
SalaryStructureApi ==
  [list |-> "GET", create |-> "POST", delete |-> "DELETE"]
SalaryStructureRoutes ==
  Under("hrm.salary.view", {"GET"})
  @@ Under("hrm.salary.manage", {"POST", "PATCH", "DELETE"})
SalaryStructureRules ==
  "POST" :> Creates({"active"}) @@ "PATCH" :> Rule(Switch, Switch)
  @@ "DELETE" :> Deletes(Switch)
SalaryStructureMenu ==
  [create |-> Button("hrm.salary.manage", {Gone}),
   delete |-> Button("hrm.salary.manage", {"active", "inactive"})]
SalaryStructureList ==
  Adds({"create"}) @@ Drops({"delete"})
SalaryStructureForm == Form({"name"}, {"after"})
SalaryStructureChecks == Form({"name"}, {"after"})
SalaryStructure ==
  Kind(SalaryStructureApi, SalaryStructureRoutes, SalaryStructureRules,
       SalaryStructureMenu, SalaryStructureList, SalaryStructureForm,
       SalaryStructureChecks, Ends({}, {"active", "inactive"}))

(* -- the components of a structure, in its drawer --------------------------- *)
StructureComponentApi ==
  [list |-> "GET", add |-> "POST", remove |-> "DELETE"]
StructureComponentRoutes ==
  Under("hrm.salary.view", {"GET"})
  @@ Under("hrm.salary.manage", {"POST", "DELETE"})
StructureComponentRules ==
  "POST" :> Creates({"listed"}) @@ "DELETE" :> Deletes({"listed"})
StructureComponentMenu ==
  [add |-> Button("hrm.salary.manage", {Gone}),
   remove |-> Button("hrm.salary.manage", {"listed"})]
StructureComponentList ==
  Refetches({"add", "remove"})
StructureComponentForm == Form({"component"}, {"after"})
StructureComponentChecks == Form({"component"}, {"after"})
StructureComponent ==
  Kind(StructureComponentApi, StructureComponentRoutes,
       StructureComponentRules, StructureComponentMenu,
       StructureComponentList, StructureComponentForm,
       StructureComponentChecks, Ends({}, {"listed"}))

(* -- the salary of an employee: a new one takes the place of the one in force  *)
SalaryApi ==
  [list |-> "GET", assign |-> "POST", update |-> "POST"]
SalaryRoutes ==
  Under("hrm.salary.employee.view", {"GET"})
  @@ Under("hrm.salary.employee.manage", {"POST"})
SalaryRules ==
  "POST" :> Rule({Gone, "in force"}, {"in force"})
SalaryMenu ==
  [assign |-> Button("hrm.salary.employee.manage", {Gone}),
   update |-> Button("hrm.salary.employee.manage", {"in force"})]
SalaryList ==
  Refetches({"assign", "update"})
SalaryForm ==
  Form({"basic_pay", "effective_date", "change_reason"}, {"after"})
SalaryChecks ==
  Form({"basic_pay", "effective_date", "change_reason"}, {"after"})
Salary ==
  Kind(SalaryApi, SalaryRoutes, SalaryRules, SalaryMenu, SalaryList,
       SalaryForm, SalaryChecks, Ends({}, {"in force"}))

(* -- types of warnings ------------------------------------------------------ *)
WarningTypeApi ==
  [list |-> "GET", create |-> "POST", update |-> "PATCH", delete |-> "DELETE"]
WarningTypeRoutes ==
  Under("hrm.warning_types.view", {"GET"})
  @@ Under("hrm.warning_types.manage", {"POST", "PATCH", "DELETE"})
WarningTypeRules ==
  "POST" :> Creates({"active"}) @@ "PATCH" :> Rule(Switch, Switch)
  @@ "DELETE" :> Deletes(Switch)
WarningTypeMenu ==
  [create |-> Button("hrm.warning_types.manage", {Gone}),
   update |-> Button("hrm.warning_types.manage", {"active", "inactive"}),
   delete |-> Button("hrm.warning_types.manage", {"active", "inactive"})]
WarningTypeList ==
  Adds({"create"}) @@ Replaces({"update"}) @@ Drops({"delete"})
WarningTypeForm == Form({"name"}, {"after"})
WarningTypeChecks == Form({"name"}, {"after"})
WarningType ==
  Kind(WarningTypeApi, WarningTypeRoutes, WarningTypeRules, WarningTypeMenu,
       WarningTypeList, WarningTypeForm, WarningTypeChecks,
       Ends({}, {"active", "inactive"}))

(* -- escalation rules ------------------------------------------------------- *)
EscalationApi ==
  [list |-> "GET", create |-> "POST", delete |-> "DELETE"]
EscalationRoutes ==
  Under("hrm.warning_types.view", {"GET"})
  @@ Under("hrm.warning_types.manage", {"POST", "PATCH", "DELETE"})
EscalationRules ==
  "POST" :> Creates({"active"}) @@ "PATCH" :> Rule(Switch, Switch)
  @@ "DELETE" :> Deletes(Switch)
EscalationMenu ==
  [create |-> Button("hrm.warning_types.manage", {Gone}),
   delete |-> Button("hrm.warning_types.manage", {"active", "inactive"})]
EscalationList ==
  Adds({"create"}) @@ Drops({"delete"})
EscalationForm == Form({"trigger_type", "trigger_count", "action"}, {"after"})
EscalationChecks ==
  Form({"trigger_type", "trigger_count", "action"}, {"after"})
Escalation ==
  Kind(EscalationApi, EscalationRoutes, EscalationRules, EscalationMenu,
       EscalationList, EscalationForm, EscalationChecks,
       Ends({}, {"active", "inactive"}))

(* -- document templates ----------------------------------------------------- *)
DocumentTemplateApi ==
  [list |-> "GET", create |-> "POST", update |-> "PATCH", delete |-> "DELETE"]
DocumentTemplateRoutes ==
  Under("hrm.doc_templates.view", {"GET"})
  @@ Under("hrm.doc_templates.manage", {"POST", "PATCH", "DELETE"})
DocumentTemplateRules ==
  "POST" :> Creates({"active"}) @@ "PATCH" :> Rule(Switch, Switch)
  @@ "DELETE" :> Deletes(Switch)
DocumentTemplateMenu ==
  [create |-> Button("hrm.doc_templates.manage", {Gone}),
   update |-> Button("hrm.doc_templates.manage", {"active", "inactive"}),
   delete |-> Button("hrm.doc_templates.manage", {"active", "inactive"})]
DocumentTemplateList ==
  Adds({"create"}) @@ Replaces({"update"}) @@ Drops({"delete"})
DocumentTemplateForm ==
  Form({"name", "document_type", "body_markdown"}, {"after"})
DocumentTemplateChecks ==
  Form({"name", "document_type", "body_markdown"}, {"after"})
DocumentTemplate ==
  Kind(DocumentTemplateApi, DocumentTemplateRoutes, DocumentTemplateRules,
       DocumentTemplateMenu, DocumentTemplateList, DocumentTemplateForm,
       DocumentTemplateChecks, Ends({}, {"active", "inactive"}))

(* -- approval templates ----------------------------------------------------- *)
ApprovalTemplateApi ==
  [list |-> "GET", create |-> "POST", delete |-> "DELETE"]
ApprovalTemplateRoutes ==
  Under("hrm.approvals.view", {"GET"})
  @@ Under("hrm.approvals.manage", {"POST", "PATCH", "DELETE"})
ApprovalTemplateRules ==
  "POST" :> Creates({"active"}) @@ "PATCH" :> Rule(Switch, Switch)
  @@ "DELETE" :> Deletes(Switch)
ApprovalTemplateMenu ==
  [create |-> Button("hrm.approvals.manage", {Gone}),
   delete |-> Button("hrm.approvals.manage", {"active", "inactive"})]
ApprovalTemplateList ==
  Adds({"create"}) @@ Drops({"delete"})
ApprovalTemplateForm == Form({"name", "action_type", "levels"}, {"after"})
ApprovalTemplateChecks == Form({"name", "action_type", "levels"}, {"after"})
ApprovalTemplate ==
  Kind(ApprovalTemplateApi, ApprovalTemplateRoutes, ApprovalTemplateRules,
       ApprovalTemplateMenu, ApprovalTemplateList, ApprovalTemplateForm,
       ApprovalTemplateChecks, Ends({}, {"active", "inactive"}))

\* The kinds of record of these pages.
SetupKinds ==
  [shifts |-> Shift, shift_assignments |-> ShiftAssignment,
   calendars |-> HolidayCalendar, holidays |-> Holiday,
   components |-> SalaryComponent, structures |-> SalaryStructure,
   structure_components |-> StructureComponent, salaries |-> Salary,
   warning_types |-> WarningType, escalations |-> Escalation,
   document_templates |-> DocumentTemplate,
   approval_templates |-> ApprovalTemplate]
=============================================================================
