--------------------------- MODULE CustomerPages ----------------------------
(* Contacts, companies, leads, the board of deals with its pipelines and     *)
(* stages, and the templates of messages.                                    *)
EXTENDS RecordKinds

(* -- contacts --------------------------------------------------------------- *)
ContactApi ==
  [list |-> "GET", create |-> "POST", update |-> "PATCH", delete |-> "DELETE"]
ContactRoutes ==
  Under("crm.contacts.view", {"GET"})
  @@ Under("crm.contacts.create", {"POST"})
  @@ Under("crm.contacts.update", {"PATCH"})
  @@ Under("crm.contacts.delete", {"DELETE"})
ContactRules ==
  "POST" :> Creates({"active"})
  @@ "PATCH" :> Rule({"active", "inactive", "archived"},
                     {"active", "inactive", "archived"})
  @@ "DELETE" :> Deletes({"active", "inactive", "archived"})
ContactMenu ==
  [create |-> Button("crm.contacts.create", {Gone}),
   update |-> Button("crm.contacts.update", {"active", "inactive", "archived"}),
   delete |-> Button("crm.contacts.delete", {"active", "inactive", "archived"})]
ContactList ==
  Adds({"create"}) @@ Replaces({"update"}) @@ Drops({"delete"})
ContactForm == Form({"first_name"}, {"after"})
ContactChecks == Form({"first_name"}, {"after"})
Contact ==
  Kind(ContactApi, ContactRoutes, ContactRules, ContactMenu, ContactList,
       ContactForm, ContactChecks,
       Ends({}, {"active", "inactive", "archived"}))

(* -- companies -------------------------------------------------------------- *)
CompanyApi ==
  [list |-> "GET", create |-> "POST", update |-> "PATCH", delete |-> "DELETE"]
CompanyRoutes ==
  Under("crm.companies.view", {"GET"})
  @@ Under("crm.companies.create", {"POST"})
  @@ Under("crm.companies.update", {"PATCH"})
  @@ Under("crm.companies.delete", {"DELETE"})
CompanyRules ==
  "POST" :> Creates({"active"})
  @@ "PATCH" :> Rule({"active", "inactive", "archived"},
                     {"active", "inactive", "archived"})
  @@ "DELETE" :> Deletes({"active", "inactive", "archived"})
CompanyMenu ==
  [create |-> Button("crm.companies.create", {Gone}),
   update |-> Button("crm.companies.update",
                     {"active", "inactive", "archived"}),
   delete |-> Button("crm.companies.delete",
                     {"active", "inactive", "archived"})]
CompanyList ==
  Adds({"create"}) @@ Replaces({"update"}) @@ Drops({"delete"})
CompanyForm == Form({"name"}, {"after"})
CompanyChecks == Form({"name"}, {"after"})
Company ==
  Kind(CompanyApi, CompanyRoutes, CompanyRules, CompanyMenu, CompanyList,
       CompanyForm, CompanyChecks,
       Ends({}, {"active", "inactive", "archived"}))

(* -- the contacts of a company, on the company's page ----------------------- *)
CompanyContactApi ==
  [list |-> "GET", create |-> "POST", update |-> "PATCH", delete |-> "DELETE"]
CompanyContactRoutes ==
  Under("crm.contacts.view", {"GET"})
  @@ Under("crm.contacts.create", {"POST"})
  @@ Under("crm.contacts.update", {"PATCH"})
  @@ Under("crm.contacts.delete", {"DELETE"})
CompanyContactRules ==
  "POST" :> Creates({"active"})
  @@ "PATCH" :> Rule({"active", "inactive", "archived"},
                     {"active", "inactive", "archived"})
  @@ "DELETE" :> Deletes({"active", "inactive", "archived"})
CompanyContactMenu ==
  [create |-> Button("crm.contacts.create", {Gone}),
   update |-> Button("crm.contacts.update", {"active", "inactive", "archived"}),
   delete |-> Button("crm.contacts.delete", {"active", "inactive", "archived"})]
CompanyContactList ==
  Adds({"create"}) @@ Replaces({"update"}) @@ Drops({"delete"})
CompanyContactForm == Form({"first_name"}, {"after"})
CompanyContactChecks == Form({"first_name"}, {"after"})
CompanyContact ==
  Kind(CompanyContactApi, CompanyContactRoutes, CompanyContactRules,
       CompanyContactMenu, CompanyContactList, CompanyContactForm,
       CompanyContactChecks, Ends({}, {"active", "inactive", "archived"}))

(* -- leads ------------------------------------------------------------------ *)
\* "again": a lead filed under an e-mail address the service knows.
LeadApi ==
  [list |-> "GET", create |-> "POST", again |-> "POST", update |-> "PATCH",
   convert |-> "POST convert", delete |-> "DELETE"]
LeadRoutes ==
  Under("crm.leads.view", {"GET"}) @@ Under("crm.leads.create", {"POST"})
  @@ Under("crm.leads.update", {"PATCH"})
  @@ Under("crm.leads.convert", {"POST convert"})
  @@ Under("crm.leads.delete", {"DELETE"})
LeadRules ==
  "POST" :> (Creates({"new"})
             @@ Keeps({"new", "contacted", "qualified", "unqualified", "converted"}))
  @@ "PATCH" :> Rule({"new", "contacted", "qualified", "unqualified", "converted"},
                     {"new", "contacted", "qualified", "unqualified", "converted"})
  @@ "POST convert" :> Rule({"new", "contacted", "qualified", "unqualified"},
                            {"converted"})
  @@ "DELETE" :> Deletes({"new", "contacted", "qualified", "unqualified", "converted"})
LeadMenu ==
  [create |-> Button("crm.leads.create", {Gone}),
   again |-> Button("crm.leads.create",
                    {"new", "contacted", "qualified", "unqualified", "converted"}),
   update |-> Button("crm.leads.update",
                     {"new", "contacted", "qualified", "unqualified"}),
   convert |-> Button("crm.leads.convert",
                      {"new", "contacted", "qualified", "unqualified"}),
   delete |-> Button("crm.leads.delete",
                     {"new", "contacted", "qualified", "unqualified", "converted"})]
LeadList ==
  Adds({"create", "again"}) @@ Replaces({"update", "convert"})
  @@ Drops({"delete"})
LeadForm == Form({"first_name"}, {"after"})
LeadChecks == Form({"first_name"}, {"after"})
Lead ==
  Kind(LeadApi, LeadRoutes, LeadRules, LeadMenu, LeadList, LeadForm,
       LeadChecks, Ends({}, {"unqualified", "converted"}))

(* -- the board of deals ----------------------------------------------------- *)
\* An open deal is in one of two stages; the service keeps the status and the
\* stage in one row, which every call but the deletion reads and writes whole.
DealApi ==
  [list |-> "GET", create |-> "POST", drag |-> "POST move",
   move |-> "POST move", update |-> "PATCH", won |-> "POST won",
   lost |-> "POST lost", delete |-> "DELETE"]
DealRoutes ==
  Under("crm.deals.view", {"GET"}) @@ Under("crm.deals.create", {"POST"})
  @@ Under("crm.deals.move_stage", {"POST move"})
  @@ Under("crm.deals.update", {"PATCH", "POST won", "POST lost"})
  @@ Under("crm.deals.delete", {"DELETE"})
DealRules ==
  "POST" :> Creates({"open 1", "open 2"})
  @@ "PATCH" :> Rewrites({"open 1", "open 2", "won", "lost"})
  @@ "POST move" :> (Rule({"open 1", "open 2"},
                     {"open 1", "open 2"}) @@ Rewrites({"won", "lost"}))
  @@ "POST won" :> Rule({"open 1", "open 2", "won", "lost"}, {"won"})
  @@ "POST lost" :> Rule({"open 1", "open 2", "won", "lost"}, {"lost"})
  @@ "DELETE" :> Deletes({"open 1", "open 2", "won", "lost"})
DealMenu ==
  [create |-> Button("crm.deals.create", {Gone}),
   drag |-> Button("crm.deals.move_stage", {"open 1", "open 2"}),
   move |-> Button(Anyone, {"open 1", "open 2"}),
   update |-> Button(Anyone, {"open 1", "open 2", "won", "lost"}),
   won |-> Button(Anyone, {"open 1", "open 2"}),
   lost |-> Button(Anyone, {"open 1", "open 2"}),
   delete |-> Button(Anyone, {"open 1", "open 2", "won", "lost"})]
DealList ==
  Adds({"create"}) @@ Drags({"drag", "move"})
  @@ Replaces({"update", "won", "lost"}) @@ Drops({"delete"})
DealForm == Form({"pipeline", "stage"}, {"after"})
DealChecks == Form({"pipeline", "stage"}, {"after"})
Deal ==
  Kind(DealApi, DealRoutes, DealRules, DealMenu, DealList, DealForm,
       DealChecks, Ends({}, {"won", "lost"}))

(* -- the stages of a pipeline ----------------------------------------------- *)
StageApi ==
  [list |-> "GET", create |-> "POST", update |-> "PATCH", delete |-> "DELETE"]
StageRoutes ==
  Under("crm.deals.view", {"GET"}) @@ Under("crm.deals.create", {"POST"})
  @@ Under("crm.deals.update", {"PATCH"})
  @@ Under("crm.deals.delete", {"DELETE"})
StageRules ==
  "POST" :> Creates({"listed"}) @@ "PATCH" :> Keeps({"listed"})
  @@ "DELETE" :> Deletes({"listed"})
StageMenu ==
  [create |-> Button("crm.deals.create", {Gone}),
   update |-> Button("crm.deals.create", {"listed"}),
   delete |-> Button("crm.deals.create", {"listed"})]
StageList ==
  Refetches({"create", "update", "delete"})
StageForm == Form({"name"}, {"after"})
StageChecks == Form({"name"}, {"after"})
Stage ==
  Kind(StageApi, StageRoutes, StageRules, StageMenu, StageList, StageForm,
       StageChecks, Ends({}, {"listed"}))

(* -- pipelines, on the same page -------------------------------------------- *)
PipelineApi ==
  [list |-> "GET", delete |-> "DELETE"]
PipelineRoutes ==
  Under("crm.deals.view", {"GET"}) @@ Under("crm.deals.create", {"POST"})
  @@ Under("crm.deals.delete", {"DELETE"})
PipelineRules ==
  "POST" :> Creates({"listed"}) @@ "DELETE" :> Deletes({"listed"})
PipelineMenu ==
  [delete |-> Button("crm.deals.create", {"listed"})]
PipelineList ==
  Refetches({"delete"})
PipelineForm == NoForm
PipelineChecks == NoForm
Pipeline ==
  Kind(PipelineApi, PipelineRoutes, PipelineRules, PipelineMenu, PipelineList,
       PipelineForm, PipelineChecks, Ends({}, {"listed"}))

(* -- templates of e-mails and notes ----------------------------------------- *)
CRMTemplateApi ==
  [list |-> "GET", create |-> "POST", update |-> "PATCH", delete |-> "DELETE"]
CRMTemplateRoutes ==
  Under("crm.templates.view", {"GET"})
  @@ Under("crm.templates.create", {"POST"})
  @@ Under("crm.templates.update", {"PATCH"})
  @@ Under("crm.templates.delete", {"DELETE"})
CRMTemplateRules ==
  "POST" :> Creates({"listed"}) @@ "PATCH" :> Keeps({"listed"})
  @@ "DELETE" :> Deletes({"listed"})
CRMTemplateMenu ==
  [create |-> Button("crm.templates.update", {Gone}),
   update |-> Button("crm.templates.update", {"listed"}),
   delete |-> Button("crm.templates.update", {"listed"})]
CRMTemplateList ==
  Adds({"create"}) @@ Replaces({"update"}) @@ Drops({"delete"})
CRMTemplateForm == Form({"name", "type", "body"}, {"after"})
CRMTemplateChecks == Form({"name", "type", "body"}, {"after"})
CRMTemplate ==
  Kind(CRMTemplateApi, CRMTemplateRoutes, CRMTemplateRules, CRMTemplateMenu,
       CRMTemplateList, CRMTemplateForm, CRMTemplateChecks,
       Ends({}, {"listed"}))

\* The kinds of record of these pages.
CustomerKinds ==
  [contacts |-> Contact, companies |-> Company,
   company_contacts |-> CompanyContact, leads |-> Lead, deals |-> Deal,
   stages |-> Stage, pipelines |-> Pipeline, crm_templates |-> CRMTemplate]
=============================================================================
