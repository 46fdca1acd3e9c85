--------------------------- MODULE SettingsPages ----------------------------
(* Tasks, and the pages under settings and security: members, roles, API     *)
(* keys, inbound addresses, social accounts, sessions, logins and avatars.   *)
EXTENDS RecordKinds

(* -- tasks ------------------------------------------------------------------ *)
TaskApi ==
  [list |-> "GET", create |-> "POST", switch |-> "PATCH", update |-> "PATCH",
   delete |-> "DELETE"]
TaskRoutes ==
  Under("tasks.view", {"GET"}) @@ Under("tasks.create", {"POST"})
  @@ Under("tasks.update", {"PATCH"}) @@ Under("tasks.delete", {"DELETE"})
TaskRules ==
  "POST" :> Creates({"todo", "in_progress", "done", "cancelled"})
  @@ "PATCH" :> Rule({"todo", "in_progress", "done", "cancelled"},
                     {"todo", "in_progress", "done", "cancelled"})
  @@ "DELETE" :> Deletes({"todo", "in_progress", "done", "cancelled"})
TaskMenu ==
  [create |-> Button("tasks.create", {Gone}),
   switch |-> Button("tasks.update",
                     {"todo", "in_progress", "done", "cancelled"}),
   update |-> Button("tasks.update",
                     {"todo", "in_progress", "done", "cancelled"}),
   delete |-> Button("tasks.delete",
                     {"todo", "in_progress", "done", "cancelled"})]
TaskList ==
  Adds({"create"}) @@ Inlines({"switch"}) @@ Replaces({"update"})
  @@ Drops({"delete"})
TaskForm == Form({"title"}, {"after"})
TaskChecks == Form({"title"}, {"after"})
Task ==
  Kind(TaskApi, TaskRoutes, TaskRules, TaskMenu, TaskList, TaskForm,
       TaskChecks, Ends({}, {"done", "cancelled"}))

(* -- members of the organization -------------------------------------------- *)
\* The page shows the members that are not removed; an invitation makes a
\* member only when it is accepted.
MemberApi ==
  [list |-> "GET", invite |-> "POST invite", assign |-> "PATCH role",
   reset |-> "POST reset-password", permissions |-> "PATCH permissions",
   remove |-> "PATCH status"]
MemberRoutes ==
  Under("members.view", {"GET"}) @@ Under("members.invite", {"POST invite"})
  @@ Under("members.update", {"PATCH role", "PATCH status"})
  @@ Under("members.password_reset", {"POST reset-password"})
  @@ Under("members.permissions.update", {"PATCH permissions"})
MemberRules ==
  "POST invite" :> Rule({Gone}, {Gone}) @@ "accepts" :> Creates({"active"})
  @@ "reactivates" :> Creates({"active"}) @@ "PATCH role" :> Keeps({"active"})
  @@ "POST reset-password" :> Keeps({"active"})
  @@ "PATCH permissions" :> Keeps({"active"})
  @@ "PATCH status" :> Rule({"active", Gone}, {Gone})
MemberMenu ==
  [invite |-> Button("members.invite", {Gone}),
   assign |-> Button("members.update", {"active"}),
   reset |-> Button("members.password_reset", {"active"}),
   permissions |-> Button("members.permissions.update", {"active"}),
   remove |-> Button("members.remove", {"active"})]
MemberList ==
  Refetches({"invite"}) @@ Replaces({"assign"})
  @@ Leaves({"reset", "permissions"}) @@ Drops({"remove"})
MemberForm == Form({"email", "role"}, {"after"})
MemberChecks == Form({"email", "role"}, {"after"})
Member ==
  Kind(MemberApi, MemberRoutes, MemberRules, MemberMenu, MemberList,
       MemberForm, MemberChecks, Ends({}, {"active"}))

(* -- roles ------------------------------------------------------------------ *)
RoleApi ==
  [list |-> "GET", create |-> "POST", clone |-> "POST clone",
   update |-> "PATCH permissions", delete |-> "DELETE"]
RoleRoutes ==
  Under("roles.view", {"GET"}) @@ Under("roles.create", {"POST"})
  @@ Under("roles.clone", {"POST clone"})
  @@ Under("roles.permissions.update", {"PATCH permissions"})
  @@ Under("roles.delete", {"DELETE"})
RoleRules ==
  "POST" :> Creates({"own"}) @@ "seeds" :> Creates({"system"})
  @@ "POST clone" :> Keeps({"system", "own"})
  @@ "PATCH permissions" :> Keeps({"own"}) @@ "DELETE" :> Deletes({"own"})
RoleMenu ==
  [create |-> Button("roles.create", {Gone}),
   clone |-> Button("roles.clone", {"system", "own"}),
   update |-> Button("roles.permissions.update", {"own"}),
   delete |-> Button("roles.delete", {"own"})]
RoleList ==
  Refetches({"create", "clone"}) @@ Replaces({"update"}) @@ Drops({"delete"})
RoleForm == Form({"name"}, {"after"})
RoleChecks == Form({"name"}, {"after"})
Role ==
  Kind(RoleApi, RoleRoutes, RoleRules, RoleMenu, RoleList, RoleForm,
       RoleChecks, Ends({}, {"system", "own"}))

(* -- API keys --------------------------------------------------------------- *)
ApiKeyApi ==
  [list |-> "GET", create |-> "POST", revoke |-> "DELETE"]
ApiKeyRoutes ==
  Under("capture.apikeys.view", {"GET"})
  @@ Under("capture.apikeys.create", {"POST"})
  @@ Under("capture.apikeys.delete", {"DELETE"})
ApiKeyRules ==
  "POST" :> Creates({"active"})
  @@ "DELETE" :> Rule({"active", "inactive"}, {"inactive"})
ApiKeyMenu ==
  [create |-> Button("settings.view", {Gone}),
   revoke |-> Button("settings.view", {"active"})]
ApiKeyList ==
  Refetches({"create"}) @@ Replaces({"revoke"})
ApiKeyForm == Form({"name", "scopes"}, {"after"})
ApiKeyChecks == Form({"name"}, {"after"})
ApiKey ==
  Kind(ApiKeyApi, ApiKeyRoutes, ApiKeyRules, ApiKeyMenu, ApiKeyList,
       ApiKeyForm, ApiKeyChecks, Ends({"inactive"}, {"active"}))

(* -- inbound addresses ------------------------------------------------------ *)
InboundEmailApi ==
  [list |-> "GET", create |-> "POST", delete |-> "DELETE"]
InboundEmailRoutes ==
  Under("settings.view", {"GET", "POST", "DELETE"})
InboundEmailRules ==
  "POST" :> Creates({"listed"}) @@ "DELETE" :> Deletes({"listed"})
InboundEmailMenu ==
  [create |-> Button("settings.view", {Gone}),
   delete |-> Button("settings.view", {"listed"})]
InboundEmailList ==
  Refetches({"create"}) @@ Drops({"delete"})
InboundEmailForm == Form({"address"}, {"after"})
InboundEmailChecks == Form({"address"}, {"after"})
InboundEmail ==
  Kind(InboundEmailApi, InboundEmailRoutes, InboundEmailRules,
       InboundEmailMenu, InboundEmailList, InboundEmailForm,
       InboundEmailChecks, Ends({}, {"listed"}))

(* -- social accounts, connected at the network itself ----------------------- *)
SocialAccountApi ==
  [list |-> "GET", delete |-> "DELETE"]
SocialAccountRoutes ==
  Under("settings.view", {"GET", "POST", "DELETE"})
SocialAccountRules ==
  "connects" :> Creates({"listed"}) @@ "DELETE" :> Deletes({"listed"})
SocialAccountMenu ==
  [delete |-> Button("settings.view", {"listed"})]
SocialAccountList ==
  Drops({"delete"})
SocialAccountForm == NoForm
SocialAccountChecks == NoForm
SocialAccount ==
  Kind(SocialAccountApi, SocialAccountRoutes, SocialAccountRules,
       SocialAccountMenu, SocialAccountList, SocialAccountForm,
       SocialAccountChecks, Ends({}, {"listed"}))

(* -- the sessions of the organization's users ------------------------------- *)
OrgSessionApi ==
  [list |-> "GET", revoke |-> "DELETE"]
OrgSessionRoutes ==
  Under("security.sessions.view", {"GET"})
  @@ Under("security.sessions.revoke", {"DELETE"})
OrgSessionRules ==
  "logs in" :> Creates({"active"})
  @@ "expires" :> Rule({"active"}, {"expired"})
  @@ "DELETE" :> Rule({"active", "expired"}, {"revoked"})
OrgSessionMenu ==
  [revoke |-> Button("security.sessions.revoke", {"active"})]
OrgSessionList ==
  Replaces({"revoke"})
OrgSessionForm == NoForm
OrgSessionChecks == NoForm
OrgSession ==
  Kind(OrgSessionApi, OrgSessionRoutes, OrgSessionRules, OrgSessionMenu,
       OrgSessionList, OrgSessionForm, OrgSessionChecks,
       Ends({"revoked"}, {"active", "expired"}))

(* -- the pictures of a user ------------------------------------------------- *)
AvatarApi ==
  [list |-> "GET", upload |-> "POST avatar", activate |-> "POST activate",
   delete |-> "DELETE"]
AvatarRoutes ==
  Under(Anyone, {"GET", "POST avatar", "POST activate", "DELETE"})
AvatarRules ==
  "POST avatar" :> Creates({"active"})
  @@ "POST another" :> Rule({"active"}, {"idle"})
  @@ "POST activate" :> Rule({"active", "idle"}, {"active"})
  @@ "DELETE" :> Deletes({"active", "idle"})
AvatarMenu ==
  [upload |-> Button(Anyone, {Gone}), activate |-> Button(Anyone, {"idle"}),
   delete |-> Button(Anyone, {"active", "idle"})]
AvatarList ==
  Refetches({"upload", "activate", "delete"})
AvatarForm == NoForm
AvatarChecks == NoForm
Avatar ==
  Kind(AvatarApi, AvatarRoutes, AvatarRules, AvatarMenu, AvatarList,
       AvatarForm, AvatarChecks, Ends({}, {"active", "idle"}))

\* The kinds of record of these pages.
SettingsKinds ==
  [tasks |-> Task, members |-> Member, roles |-> Role, apikeys |-> ApiKey,
   inbound_emails |-> InboundEmail, social_accounts |-> SocialAccount,
   org_sessions |-> OrgSession, avatars |-> Avatar]
=============================================================================
