-------------------------- MODULE PersonnelActions --------------------------
(***************************************************************************)
(* The records that change an employee once approved: promotions,          *)
(* transfers and terminations, three packages with one life cycle, and the *)
(* approval engine that decides them.                                      *)
(*                                                                         *)
(* Every operation reads the record, checks its status in memory and later *)
(* writes it by id with no condition on the status it read, so requests of *)
(* HR clerks and callbacks of the engine overwrite each other. The engine  *)
(* knows the record by entity_id; the record points back to an instance    *)
(* only after a second statement of Submit.                                *)
(***************************************************************************)
EXTENDS Integers, Sequences

CONSTANTS Records,     \* records about one employee, all of kind Kind
          Kind,        \* which package: the machines differ in two places
          Clerks,      \* Submit, Cancel and Apply requests in flight at once
          Instances,   \* identifiers of approval instances
          Deciders,    \* Decide requests in flight at once
          MaxLevels    \* the longest chain an organization configures

ASSUME KindAssumption == Kind \in {"promotion", "transfer", "termination"}
ASSUME LevelsAssumption == MaxLevels \in Nat \ {0}

VARIABLES status,      \* the status column of each record
          effects,     \* times Apply has changed the employee for a record
          ungated,     \* records Submit approved without asking anyone
          clerk,       \* program counter and local variables of each clerk
          entity,      \* entity_id of each approval instance
          handling,    \* local variables of each running callback
          rows, decisions, notified, req      \* of the approval engine

engineVars == <<rows, decisions, notified, req>>
recordVars == <<status, effects, ungated>>
vars == <<recordVars, clerk, entity, handling, engineVars>>

Engine == INSTANCE ApprovalEngine

Nobody == "none"
ASSUME RecordsAssumption == Nobody \notin Records

Active == {"draft", "pending_approval", "approved"}
Statuses == Active \cup {Nobody, "rejected", "cancelled", "applied"}
Idle == [pc |-> "idle"]
Job == [pc : {"create", "fallback", "cancel", "apply"}, rec : Records] \cup
       [pc : {"link"}, rec : Records, inst : Instances]
Callback == [pc : {"write"}, rec : Records, outcome : {"approved", "rejected"}]

TypeOK ==
  /\ Engine!TypeOK
  /\ status \in [Records -> Statuses]
  /\ effects \in [Records -> Nat]
  /\ ungated \subseteq Records
  /\ clerk \in [Clerks -> Job \cup {Idle}]
  /\ entity \in [Instances -> Records \cup {Nobody}]
  /\ handling \in [Deciders -> Callback \cup {Idle}]

Init ==
  /\ Engine!Init
  /\ status = [r \in Records |-> Nobody]
  /\ effects = [r \in Records |-> 0]
  /\ ungated = {}
  /\ clerk = [c \in Clerks |-> Idle]
  /\ entity = [i \in Instances |-> Nobody]
  /\ handling = [w \in Deciders |-> Idle]

(* Faulty variants of the operators below, each a plausible slip in the    *)
(* code; a checked property has to tell it from the real one.              *)
AnswerWrongId(w) ==                        \* the instance's id for its entity's
  [pc |-> "write", rec |-> req[w].inst, outcome |-> req[w].status]
AnswerDeaf(w) ==                           \* the flag approved is not looked at
  [pc |-> "write", rec |-> entity[req[w].inst], outcome |-> "approved"]
ClashNever(r) == FALSE                     \* no unique index behind the check
AppliedFirst(r) ==                         \* the mark commits before the effect
  /\ status' = [status EXCEPT ![r] = "applied"]
  /\ UNCHANGED effects
AppliedForgotten(r) == UNCHANGED <<status, effects>>   \* no tx.Commit

(* FindActiveByEmployee, which only terminations have. *)
HasActive(r) ==
  Kind = "termination" /\ \E q \in Records \ {r} : status[q] \in Active

(* The partial unique index idx_hrm_term_active_employee refuses a row.    *)
Clash(r) ==
  Kind = "termination" /\ \E q \in Records \ {r} : status[q] \in Active

(* UPDATE ... SET status WHERE id = r: no condition on the old status. *)
Write(r, s) ==
  status' = [status EXCEPT ![r] = IF s \in Active /\ Clash(r) THEN @ ELSE s]

Begin(c, job) ==
  /\ clerk[c] = Idle
  /\ clerk' = [clerk EXCEPT ![c] = job]

Finish(c) == clerk' = [clerk EXCEPT ![c] = Idle]

-----------------------------------------------------------------------------
(* Create. Terminations look for an active one first, then meet the index. *)
Create(r) ==
  /\ status[r] = Nobody
  /\ ~ HasActive(r) /\ ~ Clash(r)
  /\ status' = [status EXCEPT ![r] = "draft"]
  /\ UNCHANGED <<effects, ungated, clerk, entity, handling, engineVars>>

(* Submit: reads a draft and asks for the default template. With none, or  *)
(* with an error from FindDefault, it takes the fallback.                  *)
SubmitRead(c, r) ==
  /\ status[r] = "draft"
  /\ \E pc \in {"create", "fallback"} : Begin(c, [pc |-> pc, rec |-> r])
  /\ UNCHANGED <<recordVars, entity, handling, engineVars>>

(* Submit: CreateInstance commits on its own. *)
SubmitCreate(c, i) ==
  /\ clerk[c].pc = "create"
  /\ \E n \in 1..MaxLevels : Engine!CreateInstance(i, n)
  /\ entity' = [entity EXCEPT ![i] = clerk[c].rec]
  /\ clerk' = [clerk EXCEPT
                 ![c] = [pc |-> "link", rec |-> clerk[c].rec, inst |-> i]]
  /\ UNCHANGED <<recordVars, handling>>

(* Submit: SetApprovalInstance writes the link and the status. *)
SubmitLink(c) ==
  /\ clerk[c].pc = "link"
  /\ Write(clerk[c].rec, "pending_approval")
  /\ Finish(c)
  /\ UNCHANGED <<effects, ungated, entity, handling, engineVars>>

(* Submit: no chain is configured, the record is approved on the spot. *)
SubmitFallback(c) ==
  /\ clerk[c].pc = "fallback"
  /\ Write(clerk[c].rec, "approved")
  /\ ungated' = IF Clash(clerk[c].rec) THEN ungated ELSE ungated \cup {clerk[c].rec}
  /\ Finish(c)
  /\ UNCHANGED <<effects, entity, handling, engineVars>>

(* Cancel: a rejected record may be cancelled, an applied one may not. *)
CancelRead(c, r) ==
  /\ status[r] \notin {Nobody, "applied", "cancelled"}
  /\ Begin(c, [pc |-> "cancel", rec |-> r])
  /\ UNCHANGED <<recordVars, entity, handling, engineVars>>

(* Cancel: the record alone; its approval instance is not cancelled. *)
CancelWrite(c) ==
  /\ clerk[c].pc = "cancel"
  /\ Write(clerk[c].rec, "cancelled")
  /\ Finish(c)
  /\ UNCHANGED <<effects, ungated, entity, handling, engineVars>>

ApplyRead(c, r) ==
  /\ status[r] = "approved"
  /\ Begin(c, [pc |-> "apply", rec |-> r])
  /\ UNCHANGED <<recordVars, entity, handling, engineVars>>

(* Apply: the record's mark and the employee's change, in one transaction. *)
Applied(r) ==
  /\ status' = [status EXCEPT ![r] = "applied"]
  /\ effects' = [effects EXCEPT ![r] = @ + 1]

ApplyCommit(c) ==
  /\ clerk[c].pc = "apply"
  /\ Kind # "termination"
  /\ Applied(clerk[c].rec)
  /\ Finish(c)
  /\ UNCHANGED <<ungated, entity, handling, engineVars>>

(* Apply of a termination sets hrm_employees.status, a column migration    *)
(* 00053 dropped: the statement fails and the transaction rolls back.      *)
ApplyRollback(c) ==
  /\ clerk[c].pc = "apply"
  /\ Kind = "termination"
  /\ Finish(c)
  /\ UNCHANGED <<recordVars, entity, handling, engineVars>>

-----------------------------------------------------------------------------
(* Approve and Reject, the only handlers that reach Decide: they fix the   *)
(* verdict, and no module calls CancelInstance. The request goes on        *)
(* running while the callback does.                                        *)
Decide(w) ==
  /\ handling[w] = Idle
  /\ \/ \E i \in Instances, a \in Engine!Outcomes : Engine!DecideRead(w, i, a)
     \/ Engine!DecideInsert(w)
     \/ Engine!DecideConflict(w)
     \/ Engine!DecideUpdate(w)
  /\ UNCHANGED <<recordVars, clerk, entity, handling>>

(* What the callback is passed: the entity's id and the outcome. *)
Answer(w) ==
  [pc |-> "write", rec |-> entity[req[w].inst], outcome |-> req[w].status]

(* HandleApprovalDecision: finds the record by id alone and leaves it be   *)
(* unless it is pending.                                                   *)
HandleRead(w) ==
  /\ Engine!Notify(w)
  /\ handling' = [handling EXCEPT
       ![w] = IF status[entity[req[w].inst]] = "pending_approval"
                THEN Answer(w) ELSE Idle]
  /\ UNCHANGED <<recordVars, clerk, entity>>

(* HandleApprovalDecision: UpdateStatus. *)
HandleWrite(w) ==
  /\ handling[w] # Idle
  /\ Write(handling[w].rec, handling[w].outcome)
  /\ handling' = [handling EXCEPT ![w] = Idle]
  /\ UNCHANGED <<effects, ungated, clerk, entity, engineVars>>

(* A request dies between two statements. *)
AbortClerk(c) ==
  /\ clerk[c] # Idle
  /\ Finish(c)
  /\ UNCHANGED <<recordVars, entity, handling, engineVars>>

AbortDecide(w) ==
  /\ Engine!Abort(w)
  /\ UNCHANGED <<recordVars, clerk, entity, handling>>

AbortHandle(w) ==
  /\ handling[w] # Idle
  /\ handling' = [handling EXCEPT ![w] = Idle]
  /\ UNCHANGED <<recordVars, clerk, entity, engineVars>>

-----------------------------------------------------------------------------
ClerkStep(c) ==
  \/ \E i \in Instances : SubmitCreate(c, i)
  \/ SubmitLink(c) \/ SubmitFallback(c) \/ CancelWrite(c)
  \/ ApplyCommit(c) \/ ApplyRollback(c)

DeciderStep(w) == HandleRead(w) \/ HandleWrite(w)

NextNoAbort ==
  \/ \E r \in Records : Create(r)
  \/ \E c \in Clerks :
       \/ ClerkStep(c)
       \/ \E r \in Records : SubmitRead(c, r) \/ CancelRead(c, r) \/ ApplyRead(c, r)
  \/ \E w \in Deciders : Decide(w) \/ DeciderStep(w)

Next ==
  \/ NextNoAbort
  \/ \E c \in Clerks : AbortClerk(c)
  \/ \E w \in Deciders : AbortDecide(w) \/ AbortHandle(w)

Spec == Init /\ [][Next]_vars

(* A handler that has started goes on; nobody has to start one. *)
FairSpecNoAbort ==
  /\ Init /\ [][NextNoAbort]_vars
  /\ \A c \in Clerks : WF_vars(ClerkStep(c))
  /\ \A w \in Deciders : WF_vars(DeciderStep(w)) /\ WF_vars(req[w].pc # "idle" /\ Decide(w))

-----------------------------------------------------------------------------
(* Properties *)

(* Some approval instance about the record ended with this outcome. *)
Decided(r, outcome) ==
  \E i \in Instances : entity[i] = r /\ rows[i].status = outcome

(* No record is approved, takes effect or is rejected unless its chain     *)
(* said so, except that a Submit without a template approves; and that     *)
(* stays true however the stale writes of clerks and callbacks land.       *)
OutcomesAreBacked ==
  \A r \in Records :
    /\ (status[r] \in {"approved", "applied"} \/ effects[r] > 0) =>
         r \in ungated \/ Decided(r, "approved")
    /\ status[r] = "rejected" => Decided(r, "rejected")

(* An employee has one active termination at most, although a stale write  *)
(* may bring a cancelled one back to life.                                 *)
OneActive ==
  Kind = "termination" =>
    \A q, r \in Records : {status[q], status[r]} \subseteq Active => q = r

(* As long as one clerk at a time works on a record and no request dies,   *)
(* a record is marked applied exactly when the employee was changed once.  *)
EffectMatchesMark ==
  \A r \in Records : effects[r] = IF status[r] = "applied" THEN 1 ELSE 0

(* A clerk that applies an approved record changes the employee. *)
ApplyTakesEffect ==
  \A c \in Clerks, r \in Records :
    (clerk[c].pc = "apply" /\ clerk[c].rec = r) ~> effects[r] > 0

(* The outcome of a chain reaches the record that waits for it. *)
OutcomeReachesRecord ==
  \A r \in Records :
    (status[r] = "pending_approval" /\ Decided(r, "approved"))
      ~> (status[r] # "pending_approval")

(* A decision on record moves its instance on, and a completed instance    *)
(* calls back, although callbacks hold their requests up.                  *)
DecisionTakesEffect == Engine!DecisionTakesEffect
SourceIsTold == Engine!SourceIsTold

(* What these handlers do with the engine keeps its promise: nothing but a *)
(* level's verdict moves an instance, and it answers a callback once.      *)
EngineImplementsChain == Engine!ImplementsChain
=============================================================================
