-------------------------------- MODULE Navigation ---------------------------
(* The way to every page: the permissions without which the sidebar, or the  *)
(* tab or the menu on the page before, does not show the link to it.         *)
EXTENDS TLC

Behind(perms, kinds) == [k \in kinds |-> perms]
SidebarWays ==
  Behind({"hrm.promotions.view"},
      {"promotions", "instances"})
  @@ Behind({"hrm.promotions.view", "hrm.transfers.view"},
      {"transfers"})
  @@ Behind({"hrm.promotions.view", "hrm.resignations.view"},
      {"resignations"})
  @@ Behind({"hrm.promotions.view", "hrm.terminations.view"},
      {"terminations"})
  @@ Behind({"hrm.complaints.view"},
      {"complaints", "documents", "acknowledgements"})
  @@ Behind({"hrm.warnings.view"},
      {"warnings"})
  @@ Behind({"hrm.awards.view"},
      {"awards", "announcements", "calendar", "milestones"})
  @@ Behind({"hrm.leave.view"},
      {"leave_requests", "leave_types"})
  @@ Behind({"hrm.attendance.view"},
      {"attendance", "periods"})
  @@ Behind({"hrm.employees.view"},
      {"employees", "statuses"})
  @@ Behind({"hrm.departments.view"},
      {"departments"})
  @@ Behind({"hrm.positions.view"},
      {"positions"})
  @@ Behind({"hrm.payroll.view"},
      {"payroll"})
  @@ Behind({"hrm.shifts.view"},
      {"shifts", "shift_assignments"})
  @@ Behind({"hrm.holidays.view"},
      {"calendars", "holidays"})
  @@ Behind({"hrm.salary.view"},
      {"components", "structures", "structure_components", "salaries"})
  @@ Behind({"hrm.warning_types.view"},
      {"warning_types", "escalations"})
  @@ Behind({"hrm.doc_templates.view"},
      {"document_templates"})
  @@ Behind({"hrm.approvals.view"},
      {"approval_templates"})
  @@ Behind({"crm.contacts.view"},
      {"contacts"})
  @@ Behind({"crm.companies.view"},
      {"companies", "company_contacts"})
  @@ Behind({"crm.leads.view"},
      {"leads"})
  @@ Behind({"crm.deals.view"},
      {"deals", "stages", "pipelines"})
  @@ Behind({"crm.templates.view"},
      {"crm_templates"})
  @@ Behind({"tasks.view"},
      {"tasks"})
  @@ Behind({"members.view"},
      {"members"})
  @@ Behind({"roles.view"},
      {"roles"})
  @@ Behind({"settings.view"},
      {"apikeys", "inbound_emails", "social_accounts"})
  @@ Behind({"security.sessions.view"},
      {"org_sessions"})
  @@ Behind({},
      {"avatars"})
=============================================================================
