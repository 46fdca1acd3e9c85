-------------------------- MODULE RecognitionPages --------------------------
(* The tabs of hrm/recognition: awards, announcements, the calendar and the  *)
(* milestones.                                                               *)
EXTENDS RecordKinds

(* -- awards ----------------------------------------------------------------- *)
AwardApi ==
  [list |-> "GET", create |-> "POST", submit |-> "POST submit",
   issue |-> "POST issue", cancel |-> "POST cancel"]
AwardRoutes ==
  Under("hrm.awards.view", {"GET"})
  @@ Under("hrm.awards.manage", {"POST", "POST cancel"})
  @@ Under("hrm.awards.approve", {"POST submit"})
  @@ Under("hrm.awards.issue", {"POST issue"})
AwardRules ==
  "POST" :> Creates({"draft"})
  @@ "POST submit" :> Rule({"draft"}, {"pending_approval", "approved"})
  @@ "POST issue" :> Rule({"draft", "approved"}, {"issued"})
  @@ "POST cancel" :> Rule({"draft", "pending_approval", "approved"},
                           {"cancelled"})
  @@ "decision" :> Rule({"pending_approval"}, {"approved", "cancelled"})
AwardMenu ==
  [create |-> Button("hrm.awards.manage", {Gone}),
   submit |-> Button("hrm.awards.approve", {"draft"}),
   issue |-> Button("hrm.awards.issue", {"draft", "approved"}),
   cancel |-> Button("hrm.awards.manage", {"draft"})]
AwardList ==
  Adds({"create"}) @@ Replaces({"submit", "issue", "cancel"})
AwardForm ==
  Form({"employee", "award_type", "title", "description"}, {"after"})
AwardChecks ==
  Form({"employee", "award_type", "title", "description"}, {"after"})
Award ==
  Kind(AwardApi, AwardRoutes, AwardRules, AwardMenu, AwardList, AwardForm,
       AwardChecks, Ends({"issued", "cancelled"}, {}))

(* -- announcements: a scheduled one waits for somebody to archive it -------- *)
AnnouncementApi ==
  [list |-> "GET", create |-> "POST", publish |-> "POST publish",
   schedule |-> "POST schedule", archive |-> "POST archive"]
AnnouncementRoutes ==
  Under("hrm.announcements.view", {"GET"})
  @@ Under("hrm.announcements.manage", {"POST"})
  @@ Under("hrm.announcements.publish",
           {"POST publish", "POST schedule", "POST archive"})
AnnouncementRules ==
  "POST" :> Creates({"draft"})
  @@ "POST publish" :> Rule({"draft", "scheduled"}, {"published"})
  @@ "POST schedule" :> Rule({"draft"}, {"scheduled"})
  @@ "POST archive" :> Rule({"draft", "scheduled", "published"}, {"archived"})
AnnouncementMenu ==
  [create |-> Button("hrm.announcements.manage", {Gone}),
   publish |-> Button("hrm.announcements.publish", {"draft"}),
   schedule |-> Button("hrm.announcements.publish", {"draft"}),
   archive |-> Button("hrm.announcements.publish", {"published", "scheduled"})]
AnnouncementList ==
  Adds({"create"}) @@ Replaces({"publish", "schedule", "archive"})
AnnouncementForm == Form({"title", "content", "category", "scope"}, {"after"})
AnnouncementChecks == Form({"title", "content"}, {"after"})
Announcement ==
  Kind(AnnouncementApi, AnnouncementRoutes, AnnouncementRules,
       AnnouncementMenu, AnnouncementList, AnnouncementForm,
       AnnouncementChecks, Ends({"archived"}, {"published"}))

(* -- the calendar: the first and the last day of an event ------------------- *)
CalendarEventApi ==
  [list |-> "GET", create |-> "POST", rsvp |-> "POST rsvp",
   cancel |-> "POST cancel"]
CalendarEventRoutes ==
  Under("hrm.calendar.view", {"GET"})
  @@ Under("hrm.calendar.manage", {"POST", "POST rsvp", "POST cancel"})
CalendarEventRules ==
  "POST" :> Creates({"upcoming"})
  @@ "POST rsvp" :> Keeps({"upcoming", "cancelled"})
  @@ "POST cancel" :> Rule({"upcoming"}, {"cancelled"})
CalendarEventMenu ==
  [create |-> Button("hrm.calendar.manage", {Gone}),
   rsvp |-> Button("hrm.calendar.manage", {"upcoming"}),
   cancel |-> Button("hrm.calendar.manage", {"upcoming"})]
CalendarEventList ==
  Adds({"create"}) @@ Replaces({"rsvp", "cancel"})
CalendarEventForm ==
  Form({"title", "event_type", "start_date", "end_date", "scope"}, Orders)
CalendarEventChecks ==
  Form({"title", "event_type", "start_date", "end_date"}, InOrder)
CalendarEvent ==
  Kind(CalendarEventApi, CalendarEventRoutes, CalendarEventRules,
       CalendarEventMenu, CalendarEventList, CalendarEventForm,
       CalendarEventChecks, Ends({"cancelled"}, {"upcoming"}))

(* -- milestones, filed by hand or generated for a month --------------------- *)
MilestoneApi ==
  [list |-> "GET", create |-> "POST", acknowledge |-> "POST acknowledge",
   generate |-> "POST generate"]
MilestoneRoutes ==
  Under("hrm.milestones.view", {"GET"})
  @@ Under("hrm.milestones.manage", {"POST", "POST acknowledge"})
  @@ Under("hrm.milestones.generate", {"POST generate"})
MilestoneRules ==
  "POST" :> Creates({"noted"})
  @@ "POST acknowledge" :> Rule({"noted"}, {"acknowledged"})
  @@ "POST generate" :> Creates({Gone})
MilestoneMenu ==
  [create |-> Button("hrm.milestones.manage", {Gone}),
   acknowledge |-> Button("hrm.milestones.manage", {"noted"}),
   generate |-> Button("hrm.milestones.generate", {Gone})]
MilestoneList ==
  Adds({"create"}) @@ Replaces({"acknowledge"}) @@ Refetches({"generate"})
MilestoneForm ==
  Form({"employee", "milestone_type", "title", "milestone_date"}, {"after"})
MilestoneChecks ==
  Form({"employee", "milestone_type", "title", "milestone_date"}, {"after"})
Milestone ==
  Kind(MilestoneApi, MilestoneRoutes, MilestoneRules, MilestoneMenu,
       MilestoneList, MilestoneForm, MilestoneChecks,
       Ends({"acknowledged"}, {}))

\* The kinds of record of these pages.
RecognitionKinds ==
  [awards |-> Award, announcements |-> Announcement,
   calendar |-> CalendarEvent, milestones |-> Milestone]
=============================================================================
