-------------------------- MODULE CompliancePages ---------------------------
(* The tabs of hrm/compliance - complaints, documents sent to employees and  *)
(* acknowledgements - and the warnings page.                                 *)
EXTENDS RecordKinds

(* -- complaints ------------------------------------------------------------- *)
Open == {"submitted", "under_review", "investigating"}
ComplaintApi ==
  [list |-> "GET", create |-> "POST", startReview |-> "POST start-review",
   assign |-> "POST assign", resolve |-> "POST resolve",
   dismiss |-> "POST dismiss", withdraw |-> "POST withdraw"]
ComplaintRoutes ==
  Under("hrm.complaints.view", {"GET"})
  @@ Under("hrm.complaints.manage", {"POST", "POST withdraw"})
  @@ Under("hrm.complaints.process",
           {"POST start-review", "POST assign", "POST resolve", "POST dismiss"})
ComplaintRules ==
  "POST" :> Creates({"submitted"})
  @@ "POST start-review" :> Rule({"submitted"}, {"under_review"})
  @@ "POST assign" :> Rule(Open, {"investigating"})
  @@ "POST resolve" :> Rule(Open, {"resolved"})
  @@ "POST dismiss" :> Rule(Open, {"dismissed"})
  @@ "POST withdraw" :> Rule(Open \cup {"withdrawn"}, {"withdrawn"})
ComplaintMenu ==
  [create |-> Button("hrm.complaints.manage", {Gone}),
   startReview |-> Button("hrm.complaints.process", {"submitted"}),
   assign |-> Button("hrm.complaints.process",
                     {"under_review", "investigating"}),
   resolve |-> Button("hrm.complaints.process",
                      {"under_review", "investigating"}),
   dismiss |-> Button("hrm.complaints.process",
                      {"submitted", "under_review", "investigating"}),
   withdraw |-> Button("hrm.complaints.manage", {"submitted"})]
ComplaintList ==
  Adds({"create"})
  @@ Replaces({"startReview", "assign", "resolve", "dismiss", "withdraw"})
ComplaintForm ==
  Form({"employee", "complaint_type", "title", "description"}, {"after"})
ComplaintChecks == Form({"title", "description"}, {"after"})
Complaint ==
  Kind(ComplaintApi, ComplaintRoutes, ComplaintRules, ComplaintMenu,
       ComplaintList, ComplaintForm, ComplaintChecks,
       Ends({"resolved", "dismissed", "withdrawn"}, {}))

(* -- documents: the employee answers through the API ------------------------ *)
DocumentApi ==
  [list |-> "GET", create |-> "POST", send |-> "POST send",
   withdraw |-> "POST withdraw"]
DocumentRoutes ==
  Under("hrm.documents.view", {"GET"})
  @@ Under("hrm.documents.manage", {"POST", "POST send", "POST withdraw"})
  @@ Under("hrm.documents.acknowledge", {"POST acknowledge", "POST decline"})
DocumentRules ==
  "POST" :> Creates({"draft"}) @@ "POST send" :> Rule({"draft"}, {"sent"})
  @@ "POST acknowledge" :> Rule({"sent"}, {"acknowledged"})
  @@ "POST decline" :> Rule({"sent"}, {"declined"})
  @@ "POST withdraw" :> Rule({"draft", "sent", "declined"}, {"withdrawn"})
DocumentMenu ==
  [create |-> Button("hrm.documents.manage", {Gone}),
   send |-> Button("hrm.documents.manage", {"draft"}),
   withdraw |-> Button("hrm.documents.manage", {"draft", "sent"})]
DocumentList ==
  Adds({"create"}) @@ Replaces({"send", "withdraw"})
DocumentForm ==
  Form({"employee", "title", "document_type", "file_url", "file_name"}, {"after"})
DocumentChecks ==
  Form({"title", "document_type", "file_url", "file_name"}, {"after"})
Document ==
  Kind(DocumentApi, DocumentRoutes, DocumentRules, DocumentMenu, DocumentList,
       DocumentForm, DocumentChecks,
       Ends({"acknowledged", "withdrawn"}, {"declined"}))

(* -- acknowledgements ------------------------------------------------------- *)
\* A pending acknowledgement that requires a signature is told apart: the form
\* can ask for one, the page never sends one, and the service then refuses;
\* "POST sign" is the same call with the signature in it.
AcknowledgementApi ==
  [list |-> "GET", create |-> "POST", acknowledge |-> "POST acknowledge",
   decline |-> "POST decline"]
AcknowledgementRoutes ==
  Under("hrm.acknowledgements.view", {"GET"})
  @@ Under("hrm.acknowledgements.manage", {"POST"})
  @@ Under("hrm.acknowledgements.respond", {"POST acknowledge", "POST decline"})
AcknowledgementRules ==
  "POST" :> Creates({"pending", "pending_signature"})
  @@ "POST acknowledge" :> Rule({"pending"}, {"acknowledged"})
  @@ "POST sign" :> Rule({"pending_signature"}, {"acknowledged"})
  @@ "POST decline" :> Rule({"pending", "pending_signature"}, {"declined"})
AcknowledgementMenu ==
  [create |-> Button("hrm.acknowledgements.manage", {Gone}),
   acknowledge |-> Button("hrm.acknowledgements.respond",
                          {"pending", "pending_signature"}),
   decline |-> Button("hrm.acknowledgements.respond",
                      {"pending", "pending_signature"})]
AcknowledgementList ==
  Adds({"create"}) @@ Replaces({"acknowledge", "decline"})
AcknowledgementForm ==
  Form({"employee", "type", "reference", "title"}, {"after"})
AcknowledgementChecks ==
  Form({"employee", "type", "reference", "title"}, {"after"})
Acknowledgement ==
  Kind(AcknowledgementApi, AcknowledgementRoutes, AcknowledgementRules,
       AcknowledgementMenu, AcknowledgementList, AcknowledgementForm,
       AcknowledgementChecks, Ends({"acknowledged", "declined"}, {}))

\* Issue asks for approval once; a warning that waits for it is issued.
Issue ==
  Rule({"draft"}, {"pending_approval", "issued"})
  @@ Rule({"pending_approval"}, {"issued"})
WarningOpen == {"draft", "pending_approval", "issued", "acknowledged", "appealed"}

(* -- warnings --------------------------------------------------------------- *)
\* Cancelling is offered to those who may manage warnings, and its route asks
\* for the permission to close them.  An acknowledged warning has no button.
\* The record here is one whose employee may respond, which is settled when it
\* is created; of any other, page and service both refuse the appeal.
WarningApi ==
  [list |-> "GET", create |-> "POST", issue |-> "POST issue",
   acknowledge |-> "POST acknowledge", appeal |-> "POST appeal",
   close |-> "POST close", cancel |-> "POST cancel"]
WarningRoutes ==
  Under("hrm.warnings.view", {"GET"})
  @@ Under("hrm.warnings.manage", {"POST"})
  @@ Under("hrm.warnings.issue", {"POST issue"})
  @@ Under("hrm.warnings.acknowledge", {"POST acknowledge", "POST appeal"})
  @@ Under("hrm.warnings.close", {"POST close", "POST cancel"})
WarningRules ==
  "POST" :> Creates({"draft"}) @@ "POST issue" :> Issue
  @@ "POST acknowledge" :> Rule({"issued"}, {"acknowledged"})
  @@ "POST appeal" :> Rule({"issued", "acknowledged"}, {"appealed"})
  @@ "POST close" :> Rule(WarningOpen \ {"draft"}, {"closed"})
  @@ "POST cancel" :> Rule(WarningOpen, {"cancelled"})
  @@ "decision" :> Rule({"pending_approval"}, {"issued", "cancelled"})
WarningMenu ==
  [create |-> Button("hrm.warnings.manage", {Gone}),
   issue |-> Button("hrm.warnings.issue", {"draft", "pending_approval"}),
   acknowledge |-> Button("hrm.warnings.acknowledge", {"issued"}),
   appeal |-> Button("hrm.warnings.acknowledge", {"issued"}),
   close |-> Button("hrm.warnings.close", {"issued", "appealed"}),
   cancel |-> Button("hrm.warnings.manage", {"draft", "issued"})]
WarningList ==
  Adds({"create"})
  @@ Replaces({"issue", "acknowledge", "appeal", "close", "cancel"})
WarningForm ==
  Form({"employee", "warning_type", "title", "description", "incident_date"}, {"after"})
WarningChecks ==
  Form({"warning_type", "title", "description", "incident_date"}, {"after"})
Warning ==
  Kind(WarningApi, WarningRoutes, WarningRules, WarningMenu, WarningList,
       WarningForm, WarningChecks, Ends({"closed", "cancelled"}, {}))

\* The kinds of record of these pages.
ComplianceKinds ==
  [complaints |-> Complaint, documents |-> Document,
   acknowledgements |-> Acknowledgement, warnings |-> Warning]
=============================================================================
