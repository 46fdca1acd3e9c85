--------------------------- MODULE LifecyclePages ---------------------------
(* The four tabs of hrm/lifecycle: promotions, transfers, resignations and   *)
(* terminations (RecordKinds says how to read the tables).  The decision of  *)
(* an approval reaches the record through the approvals service: the list    *)
(* has no button for it, so it appears among the rules only.                 *)
EXTENDS RecordKinds

Decided == Rule({"pending_approval"}, {"approved", "rejected"})

(* -- promotions ------------------------------------------------------------- *)
PromotionApi ==
  [list |-> "GET", create |-> "POST", submit |-> "POST submit",
   apply |-> "POST apply", cancel |-> "POST cancel"]
PromotionRoutes ==
  Under("hrm.promotions.view", {"GET"})
  @@ Under("hrm.promotions.manage", {"POST", "POST submit", "POST cancel"})
  @@ Under("hrm.promotions.apply", {"POST apply"})
PromotionRules ==
  "POST" :> Creates({"draft"})
  @@ "POST submit" :> Rule({"draft"}, {"pending_approval", "approved"})
  @@ "POST cancel" :> Rule({"draft", "pending_approval", "approved", "rejected"},
                           {"cancelled"})
  @@ "POST apply" :> Rule({"approved"}, {"applied"}) @@ "decision" :> Decided
PromotionMenu ==
  [create |-> Button("hrm.promotions.manage", {Gone}),
   submit |-> Button("hrm.promotions.manage", {"draft"}),
   apply |-> Button("hrm.promotions.apply", {"approved"}),
   cancel |-> Button("hrm.promotions.manage",
                     {"draft", "pending_approval", "approved"})]
PromotionList ==
  Adds({"create"}) @@ Replaces({"submit", "apply", "cancel"})
PromotionForm ==
  Form({"employee", "to_position", "effective_date"}, {"after"})
PromotionChecks == Form({"to_position", "effective_date"}, {"after"})
Promotion ==
  Kind(PromotionApi, PromotionRoutes, PromotionRules, PromotionMenu,
       PromotionList, PromotionForm, PromotionChecks,
       Ends({"applied", "cancelled"}, {"rejected"}))

(* -- transfers -------------------------------------------------------------- *)
TransferApi ==
  [list |-> "GET", create |-> "POST", submit |-> "POST submit",
   apply |-> "POST apply", cancel |-> "POST cancel"]
TransferRoutes ==
  Under("hrm.transfers.view", {"GET"})
  @@ Under("hrm.transfers.manage", {"POST", "POST submit", "POST cancel"})
  @@ Under("hrm.transfers.apply", {"POST apply"})
TransferRules ==
  "POST" :> Creates({"draft"})
  @@ "POST submit" :> Rule({"draft"}, {"pending_approval", "approved"})
  @@ "POST cancel" :> Rule({"draft", "pending_approval", "approved", "rejected"},
                           {"cancelled"})
  @@ "POST apply" :> Rule({"approved"}, {"applied"}) @@ "decision" :> Decided
TransferMenu ==
  [create |-> Button("hrm.transfers.manage", {Gone}),
   submit |-> Button("hrm.transfers.manage", {"draft"}),
   apply |-> Button("hrm.transfers.apply", {"approved"}),
   cancel |-> Button("hrm.transfers.manage",
                     {"draft", "pending_approval", "approved"})]
TransferList ==
  Adds({"create"}) @@ Replaces({"submit", "apply", "cancel"})
TransferForm ==
  Form({"employee", "transfer_type", "effective_date"}, {"after"})
TransferChecks == Form({"transfer_type", "effective_date"}, {"after"})
Transfer ==
  Kind(TransferApi, TransferRoutes, TransferRules, TransferMenu, TransferList,
       TransferForm, TransferChecks,
       Ends({"applied", "cancelled"}, {"rejected"}))

(* -- resignations: the form files them as submitted ------------------------- *)
\* The last working day may be given, and the form does not compare it with
\* the day of the resignation: the table refuses an earlier one.
ResignationApi ==
  [list |-> "GET", create |-> "POST", withdraw |-> "POST withdraw",
   accept |-> "POST accept", reject |-> "POST reject"]
ResignationRoutes ==
  Under("hrm.resignations.view", {"GET"})
  @@ Under("hrm.resignations.manage", {"POST", "POST withdraw"})
  @@ Under("hrm.resignations.process", {"POST accept", "POST reject"})
ResignationRules ==
  "POST" :> Creates({"submitted"})
  @@ "POST withdraw" :> Rule({"submitted"}, {"withdrawn"})
  @@ "POST accept" :> Breaks({"submitted"})
  @@ "POST reject" :> Rule({"submitted"}, {"rejected"})
ResignationMenu ==
  [create |-> Button("hrm.resignations.manage", {Gone}),
   withdraw |-> Button("hrm.resignations.manage", {"submitted"}),
   accept |-> Button("hrm.resignations.process", {"submitted"}),
   reject |-> Button("hrm.resignations.process", {"submitted"})]
ResignationList ==
  Adds({"create"}) @@ Replaces({"withdraw", "accept", "reject"})
ResignationForm ==
  Form({"employee", "resignation_date", "reason_category"}, Orders)
ResignationChecks == Form({"resignation_date"}, InOrder)
Resignation ==
  Kind(ResignationApi, ResignationRoutes, ResignationRules, ResignationMenu,
       ResignationList, ResignationForm, ResignationChecks,
       Ends({"withdrawn", "accepted", "rejected"}, {}))

(* -- terminations: the last working day, then the termination --------------- *)
TerminationApi ==
  [list |-> "GET", create |-> "POST", submit |-> "POST submit",
   apply |-> "POST apply", cancel |-> "POST cancel"]
TerminationRoutes ==
  Under("hrm.terminations.view", {"GET"})
  @@ Under("hrm.terminations.manage", {"POST", "POST submit", "POST cancel"})
  @@ Under("hrm.terminations.apply", {"POST apply"})
TerminationRules ==
  "POST" :> Creates({"draft"})
  @@ "POST submit" :> Rule({"draft"}, {"pending_approval", "approved"})
  @@ "POST cancel" :> Rule({"draft", "pending_approval", "approved", "rejected"},
                           {"cancelled"})
  @@ "POST apply" :> Breaks({"approved"}) @@ "decision" :> Decided
TerminationMenu ==
  [create |-> Button("hrm.terminations.manage", {Gone}),
   submit |-> Button("hrm.terminations.manage", {"draft"}),
   apply |-> Button("hrm.terminations.apply", {"approved"}),
   cancel |-> Button("hrm.terminations.manage",
                     {"draft", "pending_approval", "approved"})]
TerminationList ==
  Adds({"create"}) @@ Replaces({"submit", "apply", "cancel"})
TerminationForm ==
  Form({"employee", "termination_type", "termination_date", "last_working_date"}, Orders)
TerminationChecks ==
  Form({"termination_type", "termination_date", "last_working_date"}, InOrder)
Termination ==
  Kind(TerminationApi, TerminationRoutes, TerminationRules, TerminationMenu,
       TerminationList, TerminationForm, TerminationChecks,
       Ends({"applied", "cancelled"}, {"rejected"}))

\* The kinds of record of these pages.
LifecycleKinds ==
  [promotions |-> Promotion, transfers |-> Transfer,
   resignations |-> Resignation, terminations |-> Termination]
=============================================================================
