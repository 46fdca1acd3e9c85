--------------------------- MODULE ApprovalEngine ---------------------------
(***************************************************************************)
(* The shared approval engine, internal/hrm/approvals.                     *)
(*                                                                         *)
(* Decide is not a transaction. A request reads the instance, inserts its  *)
(* decision, updates the instance from the copy it read and then calls the *)
(* source module back; other requests run between any two of these and the *)
(* request may die between any two. The only thing that orders concurrent  *)
(* verdicts is the constraint UNIQUE (instance_id, level) on the decision  *)
(* table. Each action below is one statement together with the in-memory   *)
(* work up to the next one.                                                *)
(***************************************************************************)
EXTENDS Integers, Sequences

CONSTANTS Instances,   \* identifiers of approval instances
          Deciders,    \* requests in flight at the same time
          MaxLevels    \* the longest chain an organization configures

ASSUME MaxLevelsAssumption == MaxLevels \in Nat \ {0}

VARIABLES rows,        \* hrm_approval_instances, one record per identifier
          decisions,   \* hrm_approval_decisions
          notified,    \* outcomes each instance's callback was run with
          req          \* program counter and local variables of each request

vars == <<rows, decisions, notified, req>>

Outcomes == {"approved", "rejected"}
Verdicts == Outcomes \cup {"cancelled"}
Statuses == Verdicts \cup {"pending"}

NoRow == [status |-> "none", level |-> 0, len |-> 0]
Row == [status : Statuses, level : 1..MaxLevels + 1, len : 1..MaxLevels]
Decision == [inst : Instances, level : 1..MaxLevels + 1, action : Verdicts]

(* The local copy of the instance a request works on; len never changes in *)
(* the table, so the copy of it is not kept apart.                         *)
Idle == [pc |-> "idle"]
Request == [pc : {"insert", "update", "callback"}, inst : Instances,
            action : Verdicts, level : 1..MaxLevels + 1, status : Statuses]

(* An instance stands at a level of its chain; only its approval takes it  *)
(* past the last one.                                                      *)
InChain(row) ==
  row.level \in 1 .. IF row.status = "approved" THEN row.len + 1 ELSE row.len

Shapes ==
  /\ rows \in [Instances -> Row \cup {NoRow}]
  /\ decisions \subseteq Decision
  /\ notified \in [Instances -> Seq(Outcomes)]
  /\ req \in [Deciders -> Request \cup {Idle}]

TypeOK == Shapes /\ \A i \in Instances : rows[i] # NoRow => InChain(rows[i])

Init ==
  /\ rows = [i \in Instances |-> NoRow]
  /\ decisions = {}
  /\ notified = [i \in Instances |-> <<>>]
  /\ req = [w \in Deciders |-> Idle]

(* Faulty variants of the operators below, each a plausible slip in the    *)
(* code; a checked property has to tell it from the real one.              *)
TakenNever(i, l) == FALSE                  \* no UNIQUE (instance_id, level)
AdvancedNeverDone(r) ==                    \* the completion test is missing
  [r EXCEPT !.pc = "update",
            !.level = IF r.action = "approved" THEN r.level + 1 ELSE r.level,
            !.status = IF r.action = "approved" THEN "pending" ELSE r.action]
AdvancedEarly(r) ==                        \* >= for > in the completion test
  [r EXCEPT !.pc = "update",
            !.level = IF r.action = "approved" THEN r.level + 1 ELSE r.level,
            !.status = IF r.action # "approved" THEN r.action
                       ELSE IF r.level + 1 >= rows[r.inst].len
                       THEN "approved" ELSE "pending"]
AdvancedUnsaved(r) ==                      \* returns before UpdateInstance
  [r EXCEPT !.pc = "callback",
            !.status = IF r.action = "rejected" THEN "rejected" ELSE "approved"]
AfterUpdateSilent(r) == Idle               \* the callback is forgotten

(* The unique index uq_hrm_ad_instance_level already holds this key. *)
Taken(i, l) == \E d \in decisions : d.inst = i /\ d.level = l

-----------------------------------------------------------------------------
(* CreateInstance: the n levels of the template are frozen into the row.   *)
(* CreateTemplate refuses an empty chain, and a template deleted meanwhile *)
(* makes the INSERT fail on its foreign key, so n is never 0.              *)
CreateInstance(i, n) ==
  /\ rows[i] = NoRow
  /\ rows' = [rows EXCEPT ![i] = [status |-> "pending", level |-> 1, len |-> n]]
  /\ UNCHANGED <<decisions, notified, req>>

(* Decide: FindInstanceByRef; anything but pending is ErrAlreadyCompleted. *)
DecideRead(w, i, action) ==
  /\ req[w] = Idle
  /\ rows[i].status = "pending"
  /\ req' = [req EXCEPT ![w] = [pc |-> "insert", inst |-> i, action |-> action,
                                level |-> rows[i].level, status |-> "pending"]]
  /\ UNCHANGED <<rows, decisions, notified>>

(* Decide: the instance as the request is going to write it back. *)
Advanced(r) ==
  IF r.action # "approved"
  THEN [r EXCEPT !.pc = "update", !.status = r.action]
  ELSE [r EXCEPT !.pc = "update", !.level = r.level + 1,
                 !.status = IF r.level + 1 > rows[r.inst].len
                              THEN "approved" ELSE "pending"]

(* Decide: CreateDecision for the level that was read. *)
DecideInsert(w) ==
  LET r == req[w] IN
  /\ r.pc = "insert"
  /\ ~ Taken(r.inst, r.level)
  /\ decisions' = decisions \cup
       {[inst |-> r.inst, level |-> r.level, action |-> r.action]}
  /\ req' = [req EXCEPT ![w] = Advanced(r)]
  /\ UNCHANGED <<rows, notified>>

(* Decide: the INSERT hits uq_hrm_ad_instance_level and Decide returns. *)
DecideConflict(w) ==
  /\ req[w].pc = "insert"
  /\ Taken(req[w].inst, req[w].level)
  /\ req' = [req EXCEPT ![w] = Idle]
  /\ UNCHANGED <<rows, decisions, notified>>

(* Decide: only an approved or rejected instance has a callback to run. *)
AfterUpdate(r) ==
  IF r.status \in Outcomes THEN [r EXCEPT !.pc = "callback"] ELSE Idle

(* Decide: UpdateInstance, keyed by id alone, from the local copy. *)
DecideUpdate(w) ==
  LET r == req[w] IN
  /\ r.pc = "update"
  /\ rows' = [rows EXCEPT ![r.inst].level = r.level,
                          ![r.inst].status = r.status]
  /\ req' = [req EXCEPT ![w] = AfterUpdate(r)]
  /\ UNCHANGED <<decisions, notified>>

(* Decide: the callback registered for the entity type runs. *)
Notify(w) ==
  LET r == req[w] IN
  /\ r.pc = "callback"
  /\ notified' = [notified EXCEPT ![r.inst] = Append(@, r.status)]
  /\ req' = [req EXCEPT ![w] = Idle]
  /\ UNCHANGED <<rows, decisions>>

(* A statement or the callback fails, the request is cancelled or the      *)
(* process dies: what was committed stays, the rest is never executed.     *)
Abort(w) ==
  /\ req[w] # Idle
  /\ req' = [req EXCEPT ![w] = Idle]
  /\ UNCHANGED <<rows, decisions, notified>>

-----------------------------------------------------------------------------
Step(w) ==
  DecideInsert(w) \/ DecideConflict(w) \/ DecideUpdate(w) \/ Notify(w)

Create == \E i \in Instances, n \in 1..MaxLevels : CreateInstance(i, n)

Begin(w) == \E i \in Instances, a \in Verdicts : DecideRead(w, i, a)

NextNoAbort == Create \/ \E w \in Deciders : Begin(w) \/ Step(w)

Next == NextNoAbort \/ \E w \in Deciders : Abort(w)

Spec == Init /\ [][Next]_vars

(* The runtime keeps executing a handler it has started; nobody has to     *)
(* create an instance or send a verdict.                                   *)
Fairness == \A w \in Deciders : WF_vars(Step(w))

FairSpec == Spec /\ Fairness

(* The same engine on days when no request dies half-way. *)
FairSpecNoAbort == Init /\ [][NextNoAbort]_vars /\ Fairness

-----------------------------------------------------------------------------
(* Properties *)

(* Of all the requests deciding one instance, at most one is between its   *)
(* INSERT and its UPDATE, and nobody has moved the row it read: the unique *)
(* index works as a lock although the code takes none.                     *)
SingleWriter ==
  \A w \in Deciders : req[w].pc = "update" =>
    /\ rows[req[w].inst].status = "pending"
    /\ Taken(req[w].inst, rows[req[w].inst].level)
    /\ \A v \in Deciders \ {w} :
         ~ (req[v].pc = "update" /\ req[v].inst = req[w].inst)

(* The decision rows explain the instance: every level below the current   *)
(* one was approved, an approved instance was approved on all its levels,  *)
(* and the last decision of a rejected or cancelled one says so.           *)
Explained(i) ==
  /\ \A l \in 1..rows[i].level - 1 :
       [inst |-> i, level |-> l, action |-> "approved"] \in decisions
  /\ rows[i].status = "approved" => rows[i].level = rows[i].len + 1
  /\ rows[i].status \in {"rejected", "cancelled"} =>
       [inst |-> i, level |-> rows[i].level, action |-> rows[i].status] \in decisions
  /\ \A d \in decisions : d.inst = i => d.level <= rows[i].level

AuditTrail == \A i \in Instances : rows[i] # NoRow => Explained(i)

(* A source module is told one outcome at most, and it is the one the      *)
(* instance ended with, whatever order the verdicts arrive in.             *)
ToldTheTruthOnce ==
  \A i \in Instances :
    notified[i] = <<>> \/ notified[i] = <<rows[i].status>>

(* No request, however stale its copy, moves a completed instance. *)
CompletedIsFinal ==
  [][\A i \in Instances : rows[i].status \in Verdicts => rows'[i] = rows[i]]_vars

(* The three unguarded statements of Decide behave like the atomic chain:  *)
(* the row is where the instance stands, a decision inserted ahead of its  *)
(* update has not happened yet, and neither has one whose update is lost.  *)
Chain == INSTANCE ApprovalChain WITH chain <- rows, told <- notified
ImplementsChain == Chain!Spec

(* A decision recorded for the current level moves the instance off it. *)
DecisionTakesEffect ==
  \A i \in Instances, l \in 1..MaxLevels :
    (Taken(i, l) /\ rows[i].level = l /\ rows[i].status = "pending")
      ~> (rows[i].level # l \/ rows[i].status # "pending")

(* A completed instance reaches the module that asked for it. *)
SourceIsTold ==
  \A i \in Instances :
    (rows[i].status \in Outcomes) ~> (notified[i] # <<>>)
=============================================================================
