-------------------------- MODULE PersonnelProofs --------------------------
(***************************************************************************)
(* Proofs about PersonnelActions, for any records, clerks, instances,      *)
(* deciders and levels.  What is proved of the engine alone is lifted: a   *)
(* step here is a step of the engine or none.  OutcomesAreBacked rests on  *)
(* the completed instance never changing, so that a clerk or a callback    *)
(* that holds a backed outcome may write it as late as it likes.           *)
(* EffectMatchesMark holds when one clerk works at a time and no request   *)
(* dies: a record has one instance then, and a callback that is about to   *)
(* write is the only one there will ever be.                               *)
(***************************************************************************)
EXTENDS PersonnelActions, TLAPS

(* The theorems about the engine, whose variables are shared. *)
EngineProofs == INSTANCE ApprovalEngineProofs

LocalTypes ==
  /\ status \in [Records -> Statuses]
  /\ effects \in [Records -> Nat]
  /\ ungated \subseteq Records
  /\ clerk \in [Clerks -> Job \cup {Idle}]
  /\ entity \in [Instances -> Records \cup {Nobody}]
  /\ handling \in [Deciders -> Callback \cup {Idle}]

(* An instance is about a record from its first moment. *)
EntityKnown == \A i \in Instances : rows[i] # Engine!NoRow => entity[i] \in Records

Backed(r) == r \in ungated \/ Decided(r, "approved")

(* A clerk about to apply and a callback about to write hold an outcome. *)
ApplierBacked == \A c \in Clerks : clerk[c].pc = "apply" => Backed(clerk[c].rec)
CallbackBacked ==
  \A w \in Deciders : handling[w] # Idle => Decided(handling[w].rec, handling[w].outcome)

Inv ==
  /\ EngineProofs!IInv
  /\ LocalTypes /\ EntityKnown /\ ApplierBacked /\ CallbackBacked
  /\ OutcomesAreBacked /\ OneActive

(* ------------- one clerk at a time, and no request that dies ------------ *)
(* A record has one instance at most, and none while it is a draft, except
   from CreateInstance to SetApprovalInstance. *)
OneInstance ==
  /\ \A i, k \in Instances : entity[i] \in Records /\ entity[i] = entity[k] => i = k
  /\ \A i \in Instances : entity[i] \in Records => status[entity[i]] # Nobody
  /\ \A i \in Instances : entity[i] \in Records /\ status[entity[i]] = "draft" =>
       \E c \in Clerks : clerk[c].pc = "link" /\ clerk[c].rec = entity[i]

(* What the clerk has read is still so. *)
ClerkCurrent ==
  \A c \in Clerks :
    /\ clerk[c].pc \in {"create", "fallback"} =>
         /\ status[clerk[c].rec] = "draft"
         /\ \A i \in Instances : entity[i] # clerk[c].rec
    /\ clerk[c].pc = "link" => status[clerk[c].rec] = "draft"
    /\ clerk[c].pc = "cancel" => status[clerk[c].rec] \notin {Nobody, "applied"}
    /\ clerk[c].pc = "apply" => status[clerk[c].rec] = "approved"

(* A callback is the one its instance ever gets, and nobody has gone on with
   the record but to cancel it. *)
CallbackAlone ==
  /\ \A w \in Deciders : handling[w] # Idle =>
       /\ status[handling[w].rec] \in {"pending_approval", "cancelled"}
       /\ \E i \in Instances : entity[i] = handling[w].rec /\ notified[i] # <<>>
  /\ \A v, w \in Deciders :
       handling[v] # Idle /\ handling[w] # Idle /\ handling[v].rec = handling[w].rec
         => v = w

CalmInv == Inv /\ OneInstance /\ ClerkCurrent /\ CallbackAlone /\ EffectMatchesMark
CalmSpec == Init /\ [][NextNoAbort]_vars

-----------------------------------------------------------------------------
(* What holds of the engine alone. *)

LEMMA EngineTypes ==
  ASSUME EngineProofs!IInv PROVE Engine!TypeOK /\ Engine!Shapes
<1>1. EngineProofs!TypeOK
  BY EngineProofs!InvariantTypes, LevelsAssumption
<1>2. Engine!Shapes
  BY DEF EngineProofs!IInv, EngineProofs!Shapes, Engine!Shapes, EngineProofs!Row, Engine!Row,
    EngineProofs!NoRow, Engine!NoRow, EngineProofs!Decision, Engine!Decision,
    EngineProofs!Outcomes, Engine!Outcomes, EngineProofs!Request, Engine!Request,
    EngineProofs!Verdicts, Engine!Verdicts, EngineProofs!Statuses, Engine!Statuses,
    EngineProofs!Idle, Engine!Idle
<1> QED BY <1>1, <1>2 DEF EngineProofs!TypeOK, Engine!TypeOK, EngineProofs!InChain,
    Engine!InChain, EngineProofs!NoRow, Engine!NoRow

LEMMA EngineInit ==
  ASSUME Init PROVE EngineProofs!IInv
<1>1. EngineProofs!Init
  BY DEF Init, Engine!Init, EngineProofs!Init, Engine!NoRow, EngineProofs!NoRow,
    Engine!Idle, EngineProofs!Idle
<1> QED BY <1>1, EngineProofs!InitInvariant, LevelsAssumption

(* The two names of the engine's steps. *)
LEMMA EngineNext ==
  ASSUME [Engine!Next]_engineVars
  PROVE  [EngineProofs!Next]_(EngineProofs!vars)
BY DEF engineVars, EngineProofs!vars, Engine!Next, EngineProofs!Next,
  Engine!NextNoAbort, EngineProofs!NextNoAbort, Engine!Create, EngineProofs!Create,
  Engine!Begin, EngineProofs!Begin, Engine!Step, EngineProofs!Step,
  Engine!CreateInstance, EngineProofs!CreateInstance, Engine!DecideRead,
  EngineProofs!DecideRead, Engine!DecideInsert, EngineProofs!DecideInsert,
  Engine!DecideConflict, EngineProofs!DecideConflict, Engine!DecideUpdate,
  EngineProofs!DecideUpdate, Engine!Notify, EngineProofs!Notify, Engine!Abort,
  EngineProofs!Abort, Engine!Advanced, EngineProofs!Advanced, Engine!AfterUpdate,
  EngineProofs!AfterUpdate, Engine!Taken, EngineProofs!Taken, Engine!NoRow,
  EngineProofs!NoRow, Engine!Idle, EngineProofs!Idle, Engine!Verdicts,
  EngineProofs!Verdicts, Engine!Outcomes, EngineProofs!Outcomes

LEMMA EngineStep ==
  ASSUME EngineProofs!IInv, [Engine!Next]_engineVars
  PROVE  /\ EngineProofs!IInv'
         /\ \A i \in Instances :
              /\ rows[i].status \in Engine!Verdicts => rows'[i] = rows[i]
              /\ rows[i] # Engine!NoRow => rows'[i] # Engine!NoRow
              /\ notified[i] # <<>> => notified'[i] # <<>>
<1>1. [EngineProofs!Next]_(EngineProofs!vars)
  BY EngineNext
<1>2. EngineProofs!IInv'
  BY <1>1, EngineProofs!StepKeeps, LevelsAssumption
<1>3. \A i \in Instances :
        /\ rows[i].status \in EngineProofs!Verdicts => rows'[i] = rows[i]
        /\ rows[i] # EngineProofs!NoRow => rows'[i] # EngineProofs!NoRow
        /\ notified[i] # <<>> => notified'[i] # <<>>
  BY <1>1, EngineProofs!StepKeepsHistory, LevelsAssumption
<1> QED BY <1>2, <1>3 DEF EngineProofs!Verdicts, Engine!Verdicts, EngineProofs!Outcomes,
      Engine!Outcomes, EngineProofs!NoRow, Engine!NoRow

(* A request of the engine is about an instance that exists, and one about to
   call back holds its outcome and is the first to. *)
LEMMA Caller ==
  ASSUME EngineProofs!IInv, NEW w \in Deciders, req[w].pc = "callback"
  PROVE  /\ req[w].inst \in Instances
         /\ rows[req[w].inst] # Engine!NoRow
         /\ req[w].status \in {"approved", "rejected"}
         /\ rows[req[w].inst].status = req[w].status
         /\ notified[req[w].inst] = <<>>
<1>1. req[w].inst \in Instances /\ req[w] # EngineProofs!Idle
  <2>1. req[w] \in EngineProofs!Request \cup {EngineProofs!Idle}
    BY DEF EngineProofs!IInv, EngineProofs!Shapes
  <2>2. req[w] # EngineProofs!Idle
    BY DEF EngineProofs!Idle
  <2> QED BY <2>1, <2>2 DEF EngineProofs!Request
<1>2. EngineProofs!HoldsOutcome(w)
  BY DEF EngineProofs!IInv, EngineProofs!CallerCurrent
<1>3. rows[req[w].inst] # EngineProofs!NoRow
  BY <1>1 DEF EngineProofs!IInv, EngineProofs!FreshRows
<1> QED BY <1>1, <1>2, <1>3 DEF EngineProofs!HoldsOutcome, EngineProofs!Outcomes,
      EngineProofs!NoRow, Engine!NoRow

-----------------------------------------------------------------------------
(* An outcome stays backed, whatever the engine does next. *)
LEMMA DecidedStays ==
  ASSUME EngineProofs!IInv, [Engine!Next]_engineVars,
         \A i \in Instances : rows[i] # Engine!NoRow => entity'[i] = entity[i],
         NEW r, NEW o \in {"approved", "rejected"}, Decided(r, o)
  PROVE  Decided(r, o)'
<1>1. PICK i \in Instances : entity[i] = r /\ rows[i].status = o
  BY DEF Decided
<1>2. rows[i] # Engine!NoRow /\ rows[i].status \in Engine!Verdicts
  BY <1>1 DEF Engine!NoRow, Engine!Verdicts, Engine!Outcomes
<1>3. rows'[i] = rows[i] /\ entity'[i] = entity[i]
  BY <1>2, EngineStep
<1> QED BY <1>1, <1>3 DEF Decided

-----------------------------------------------------------------------------
(* What a step has to leave alone for outcomes to stay backed: whoever comes
   to hold an outcome finds it backed when he does. *)
LEMMA StaysBacked ==
  ASSUME Inv, [Engine!Next]_engineVars, LocalTypes', EntityKnown', OneActive',
         ungated \subseteq ungated',
         \A i \in Instances : rows[i] # Engine!NoRow => entity'[i] = entity[i],
         \A c \in Clerks : clerk'[c].pc = "apply" =>
           clerk'[c] = clerk[c] \/ Backed(clerk'[c].rec),
         \A w \in Deciders : handling'[w] # Idle =>
           handling'[w] = handling[w] \/ Decided(handling'[w].rec, handling'[w].outcome),
         \A r \in Records :
           /\ status'[r] \in {"approved", "applied"} =>
                status[r] = status'[r] \/ Backed(r) \/ r \in ungated'
           /\ effects'[r] > 0 => effects[r] > 0 \/ Backed(r)
           /\ status'[r] = "rejected" => status[r] = status'[r] \/ Decided(r, "rejected")
  PROVE  Inv'
<1>1. EngineProofs!IInv'
  BY EngineStep DEF Inv
<1>2. \A r : Decided(r, "approved") => Decided(r, "approved")'
  BY DecidedStays DEF Inv
<1>3. \A r : Decided(r, "rejected") => Decided(r, "rejected")'
  BY DecidedStays DEF Inv
<1>4. \A r : Backed(r) => Backed(r)'
  BY <1>2 DEF Backed
<1>5. ApplierBacked'
  <2> SUFFICES ASSUME NEW c \in Clerks, NEW r, clerk'[c].pc = "apply", clerk'[c].rec = r
               PROVE  Backed(r)'
    BY DEF ApplierBacked, Backed, Decided
  <2>1. Backed(r)
    BY DEF Inv, ApplierBacked
  <2> QED BY <1>4, <2>1
<1>6. CallbackBacked'
  <2> SUFFICES ASSUME NEW w \in Deciders, NEW r, NEW o,
                      handling'[w] # Idle, handling'[w].rec = r, handling'[w].outcome = o
               PROVE  Decided(r, o)'
    BY DEF CallbackBacked, Decided
  <2>1. Decided(r, o)
    BY DEF Inv, CallbackBacked
  <2>2. handling'[w] \in Callback
    BY DEF LocalTypes
  <2>3. o \in {"approved", "rejected"}
    BY <2>2 DEF Callback
  <2> QED BY <1>2, <1>3, <2>1, <2>3
<1>7. OutcomesAreBacked'
  <2> SUFFICES ASSUME NEW r \in Records
               PROVE  /\ (status'[r] \in {"approved", "applied"} \/ effects'[r] > 0) => Backed(r)'
                      /\ status'[r] = "rejected" => Decided(r, "rejected")'
    BY DEF OutcomesAreBacked, Backed, Decided
  <2>1. (status'[r] \in {"approved", "applied"} \/ effects'[r] > 0) => Backed(r) \/ r \in ungated'
    BY DEF Inv, OutcomesAreBacked, Backed
  <2>2. status'[r] = "rejected" => Decided(r, "rejected")
    BY DEF Inv, OutcomesAreBacked
  <2> QED BY <1>3, <1>4, <2>1, <2>2 DEF Backed
<1> QED BY <1>1, <1>5, <1>6, <1>7 DEF Inv

(* An UPDATE by id never makes a second active termination. *)
LEMMA WriteShape ==
  ASSUME Inv, NEW r \in Records, NEW s \in Statuses, Write(r, s)
  PROVE  /\ status' \in [Records -> Statuses]
         /\ \A q \in Records : q # r => status'[q] = status[q]
         /\ status'[r] = s \/ (status'[r] = status[r] /\ Clash(r) /\ s \in Active)
         /\ OneActive'
<1>1. /\ status' \in [Records -> Statuses]
      /\ \A q \in Records : q # r => status'[q] = status[q]
      /\ status'[r] = IF s \in Active /\ Clash(r) THEN status[r] ELSE s
  BY DEF Inv, LocalTypes, Write
<1>2. OneActive'
  <2> SUFFICES ASSUME Kind = "termination", NEW p \in Records, NEW q \in Records,
                      status'[p] \in Active, status'[q] \in Active, p # q
               PROVE  FALSE
    BY DEF OneActive
  <2>1. \A x, y \in Records : status[x] \in Active /\ status[y] \in Active => x = y
    BY DEF Inv, OneActive
  <2>2. CASE s \in Active /\ ~ Clash(r)
    BY <1>1, <2>1, <2>2 DEF Clash
  <2>3. CASE s \notin Active \/ Clash(r)
    BY <1>1, <2>1, <2>3
  <2> QED BY <2>2, <2>3
<1> QED BY <1>1, <1>2

LEMMA JobShape ==
  ASSUME LocalTypes, NEW c \in Clerks, clerk[c] # Idle
  PROVE  /\ clerk[c] \in Job /\ clerk[c].rec \in Records
         /\ clerk[c].pc = "link" => clerk[c].inst \in Instances
BY DEF LocalTypes, Job, Idle

LEMMA ClerkMoves ==
  ASSUME LocalTypes, NEW c \in Clerks, NEW x \in Job \cup {Idle},
         clerk' = [clerk EXCEPT ![c] = x]
  PROVE  /\ clerk' \in [Clerks -> Job \cup {Idle}]
         /\ clerk'[c] = x /\ \A d \in Clerks : d # c => clerk'[d] = clerk[d]
BY DEF LocalTypes

-----------------------------------------------------------------------------
(* One lemma per operation. *)

LEMMA CreateInv ==
  ASSUME Inv, NEW r \in Records, Create(r)
  PROVE  Inv'
<1>1. /\ status' = [status EXCEPT ![r] = "draft"] /\ ~ Clash(r)
      /\ UNCHANGED <<effects, ungated, clerk, entity, handling, engineVars>>
  BY DEF Create
<1>2. LocalTypes' /\ EntityKnown'
  BY <1>1 DEF Inv, LocalTypes, EntityKnown, engineVars, Statuses, Active
<1>3. OneActive'
  <2>1. Write(r, "draft")
    BY <1>1 DEF Write
  <2> QED BY <2>1, WriteShape DEF Statuses, Active
<1>4. \A q \in Records : status'[q] = status[q] \/ status'[q] = "draft"
  BY <1>1 DEF Inv, LocalTypes
<1> QED BY <1>1, <1>2, <1>3, <1>4, StaysBacked DEF Inv

(* A clerk reads a record, or gives up: nothing is written. *)
LEMMA ClerkOnlyInv ==
  ASSUME Inv, NEW c \in Clerks, NEW x \in Job \cup {Idle},
         clerk' = [clerk EXCEPT ![c] = x], x.pc = "apply" => Backed(x.rec),
         UNCHANGED <<recordVars, entity, handling, engineVars>>
  PROVE  Inv'
<1>1. LocalTypes' /\ EntityKnown' /\ OneActive'
  BY ClerkMoves DEF Inv, LocalTypes, EntityKnown, OneActive, recordVars, engineVars
<1>2. \A d \in Clerks : clerk'[d].pc = "apply" =>
        clerk'[d] = clerk[d] \/ Backed(clerk'[d].rec)
  BY ClerkMoves DEF Inv
<1> QED BY <1>1, <1>2, StaysBacked DEF recordVars

LEMMA ReadsInv ==
  ASSUME Inv, NEW c \in Clerks, NEW r \in Records,
         SubmitRead(c, r) \/ CancelRead(c, r) \/ ApplyRead(c, r)
  PROVE  Inv'
<1>1. ASSUME NEW pc \in {"create", "fallback", "cancel", "apply"},
             clerk' = [clerk EXCEPT ![c] = [pc |-> pc, rec |-> r]],
             pc = "apply" => status[r] = "approved",
             UNCHANGED <<recordVars, entity, handling, engineVars>>
      PROVE  Inv'
  <2>1. [pc |-> pc, rec |-> r] \in Job
    BY DEF Job
  <2>2. pc = "apply" => Backed(r)
    BY <1>1 DEF Inv, OutcomesAreBacked, Backed
  <2> QED BY <1>1, <2>1, <2>2, ClerkOnlyInv
<1>2. CASE SubmitRead(c, r)
  BY <1>1, <1>2 DEF SubmitRead, Begin
<1>3. CASE CancelRead(c, r)
  BY <1>1, <1>3 DEF CancelRead, Begin
<1>4. CASE ApplyRead(c, r)
  BY <1>1, <1>4 DEF ApplyRead, Begin
<1> QED BY <1>2, <1>3, <1>4

LEMMA GivesUpInv ==
  ASSUME Inv, NEW c \in Clerks, AbortClerk(c) \/ ApplyRollback(c)
  PROVE  Inv'
<1>1. Idle.pc # "apply"
  BY DEF Idle
<1> QED BY <1>1, ClerkOnlyInv DEF AbortClerk, ApplyRollback, Finish

LEMMA SubmitCreateInv ==
  ASSUME Inv, NEW c \in Clerks, NEW i \in Instances, SubmitCreate(c, i)
  PROVE  Inv'
<1> DEFINE r == clerk[c].rec
           x == [pc |-> "link", rec |-> r, inst |-> i]
<1>1. PICK n \in 1..MaxLevels : Engine!CreateInstance(i, n)
  BY DEF SubmitCreate
<1>2. /\ entity' = [entity EXCEPT ![i] = r] /\ clerk' = [clerk EXCEPT ![c] = x]
      /\ UNCHANGED <<status, effects, ungated, handling>>
  BY DEF SubmitCreate, recordVars
<1>3. r \in Records /\ x \in Job
  BY JobShape DEF Inv, SubmitCreate, Job, Idle
<1>4. Engine!Next
  BY <1>1 DEF Engine!Next, Engine!NextNoAbort, Engine!Create
<1>5. /\ rows[i] = Engine!NoRow /\ \A k \in Instances : k # i => rows'[k] = rows[k]
  BY <1>1, EngineTypes DEF Inv, Engine!CreateInstance, Engine!Shapes
<1>6. LocalTypes'
  BY <1>2, <1>3, ClerkMoves DEF Inv, LocalTypes
<1>7. EntityKnown'
  BY <1>2, <1>3, <1>5 DEF Inv, LocalTypes, EntityKnown
<1>8. \A k \in Instances : rows[k] # Engine!NoRow => entity'[k] = entity[k]
  BY <1>2, <1>5 DEF Inv, LocalTypes
<1>9. \A d \in Clerks : clerk'[d].pc = "apply" => clerk'[d] = clerk[d]
  BY <1>2, <1>3, ClerkMoves DEF Inv
<1>10. OneActive'
  BY <1>2 DEF Inv, OneActive
<1> QED BY <1>2, <1>4, <1>6, <1>7, <1>8, <1>9, <1>10, StaysBacked

(* A clerk writes a status nobody has to approve. *)
LEMMA ClerkWritesInv ==
  ASSUME Inv, NEW c \in Clerks, SubmitLink(c) \/ SubmitFallback(c) \/ CancelWrite(c)
  PROVE  Inv'
<1> DEFINE r == clerk[c].rec
<1>1. PICK s \in {"pending_approval", "approved", "cancelled"} :
        /\ Write(r, s)
        /\ ungated \subseteq ungated' /\ ungated' \subseteq ungated \cup {r}
        /\ s = "approved" => Clash(r) \/ r \in ungated'
  BY DEF SubmitLink, SubmitFallback, CancelWrite, recordVars
<1>2. /\ clerk' = [clerk EXCEPT ![c] = Idle] /\ clerk[c] # Idle
      /\ UNCHANGED <<effects, entity, handling, engineVars>>
  BY DEF SubmitLink, SubmitFallback, CancelWrite, Finish, Idle
<1>3. r \in Records /\ s \in Statuses
  BY <1>2, JobShape DEF Inv, Statuses, Active
<1> HIDE DEF r
<1>4. /\ status' \in [Records -> Statuses] /\ OneActive'
      /\ \A q \in Records : q # r => status'[q] = status[q]
      /\ status'[r] = s \/ (status'[r] = status[r] /\ Clash(r) /\ s \in Active)
  BY <1>1, <1>3, WriteShape
<1>5. LocalTypes' /\ EntityKnown'
  BY <1>1, <1>2, <1>3, <1>4, ClerkMoves DEF Inv, LocalTypes, EntityKnown, engineVars
<1>6. \A d \in Clerks : clerk'[d].pc = "apply" => clerk'[d] = clerk[d]
  BY <1>2, ClerkMoves DEF Inv, Idle
<1>7. \A q \in Records :
        /\ status'[q] \in {"approved", "applied"} => status[q] = status'[q] \/ q \in ungated'
        /\ status'[q] = "rejected" => status[q] = status'[q]
  <2>1. s = "approved" /\ status'[r] # status[r] => r \in ungated'
    BY <1>1, <1>3, <1>4 DEF Inv, LocalTypes, Write, Active
  <2> QED BY <1>1, <1>3, <1>4, <2>1
<1> QED BY <1>1, <1>2, <1>4, <1>5, <1>6, <1>7, StaysBacked

LEMMA ApplyCommitInv ==
  ASSUME Inv, NEW c \in Clerks, ApplyCommit(c)
  PROVE  Inv'
<1> DEFINE r == clerk[c].rec
<1>1. /\ status' = [status EXCEPT ![r] = "applied"]
      /\ effects' = [effects EXCEPT ![r] = @ + 1]
      /\ clerk' = [clerk EXCEPT ![c] = Idle] /\ clerk[c] # Idle /\ clerk[c].pc = "apply"
      /\ Kind # "termination"
      /\ UNCHANGED <<ungated, entity, handling, engineVars>>
  BY DEF ApplyCommit, Applied, Finish, Idle
<1>2. r \in Records /\ Backed(r)
  BY <1>1, JobShape DEF Inv, ApplierBacked
<1> HIDE DEF r
<1>3. LocalTypes' /\ EntityKnown' /\ OneActive'
  BY <1>1, <1>2, ClerkMoves
  DEF Inv, LocalTypes, EntityKnown, OneActive, engineVars, Statuses
<1>4. \A d \in Clerks : clerk'[d].pc = "apply" => clerk'[d] = clerk[d]
  BY <1>1, ClerkMoves DEF Inv, Idle
<1>5. \A q \in Records : q # r => status'[q] = status[q] /\ effects'[q] = effects[q]
  BY <1>1 DEF Inv, LocalTypes
<1>6. status'[r] = "applied"
  BY <1>1, <1>2 DEF Inv, LocalTypes
<1> QED BY <1>1, <1>2, <1>3, <1>4, <1>5, <1>6, StaysBacked

(* A decider gives or drops a verdict: records and clerks are not concerned. *)
LEMMA DecideInv ==
  ASSUME Inv, NEW w \in Deciders, Decide(w) \/ AbortDecide(w)
  PROVE  Inv'
<1>1. UNCHANGED <<recordVars, clerk, entity, handling>>
  BY DEF Decide, AbortDecide
<1>2. Engine!Next
  <2>1. \A i \in Instances, a \in Engine!Outcomes : Engine!DecideRead(w, i, a) => Engine!Begin(w)
    BY DEF Engine!Begin, Engine!Verdicts
  <2> QED BY <2>1 DEF Decide, AbortDecide, Engine!Next, Engine!NextNoAbort, Engine!Step
<1>3. \A i \in Instances : rows'[i] # Engine!NoRow => rows[i] # Engine!NoRow
  <2>1. CASE Engine!DecideUpdate(w)
    <3>1. req[w] # EngineProofs!Idle
      BY <2>1 DEF Engine!DecideUpdate, EngineProofs!Idle
    <3>2. \A i \in Instances : req[w].inst = i => rows[i] # Engine!NoRow
      BY <3>1 DEF Inv, EngineProofs!IInv, EngineProofs!FreshRows, EngineProofs!NoRow,
        Engine!NoRow
    <3>3. \A i \in Instances : req[w].inst # i => rows'[i] = rows[i]
      BY <2>1, EngineTypes DEF Inv, Engine!DecideUpdate, Engine!Shapes
    <3> QED BY <3>2, <3>3
  <2>2. CASE ~ Engine!DecideUpdate(w)
    BY <1>1, <2>2 DEF Decide, AbortDecide, Engine!DecideRead, Engine!DecideInsert,
      Engine!DecideConflict, Engine!Abort
  <2> QED BY <2>1, <2>2
<1>4. LocalTypes' /\ EntityKnown' /\ OneActive'
  BY <1>1, <1>3 DEF Inv, LocalTypes, EntityKnown, OneActive, recordVars
<1> QED BY <1>1, <1>2, <1>4, StaysBacked DEF recordVars

(* A callback starts: the outcome it is passed is the instance's. *)
LEMMA HandleReadInv ==
  ASSUME Inv, NEW w \in Deciders, HandleRead(w)
  PROVE  Inv'
<1> DEFINE i == req[w].inst
<1>1. /\ req[w].pc = "callback" /\ rows' = rows
      /\ UNCHANGED <<recordVars, clerk, entity>>
      /\ handling' = [handling EXCEPT ![w] =
           IF status[entity[i]] = "pending_approval" THEN Answer(w) ELSE Idle]
  BY DEF HandleRead, Engine!Notify
<1>2. Engine!Next
  BY DEF HandleRead, Engine!Next, Engine!NextNoAbort, Engine!Step
<1>3. /\ i \in Instances /\ entity[i] \in Records /\ rows[i].status = req[w].status
      /\ req[w].status \in {"approved", "rejected"}
  BY <1>1, Caller DEF Inv, EntityKnown
<1>4. Answer(w) \in Callback /\ Decided(Answer(w).rec, Answer(w).outcome)
  BY <1>3 DEF Answer, Callback, Decided
<1>5. LocalTypes' /\ EntityKnown' /\ OneActive'
  BY <1>1, <1>4 DEF Inv, LocalTypes, EntityKnown, OneActive, recordVars
<1>6. \A v \in Deciders : handling'[v] # Idle =>
        handling'[v] = handling[v] \/ Decided(handling'[v].rec, handling'[v].outcome)
  BY <1>1, <1>4 DEF Inv, LocalTypes
<1> QED BY <1>1, <1>2, <1>5, <1>6, StaysBacked DEF recordVars

(* It writes the outcome, or dies before that. *)
LEMMA HandleEndsInv ==
  ASSUME Inv, NEW w \in Deciders, HandleWrite(w) \/ AbortHandle(w)
  PROVE  Inv'
<1> DEFINE r == handling[w].rec
           o == handling[w].outcome
<1>1. /\ handling[w] # Idle /\ handling' = [handling EXCEPT ![w] = Idle]
      /\ UNCHANGED <<effects, ungated, clerk, entity, engineVars>>
      /\ Write(r, o) \/ UNCHANGED status
  BY DEF HandleWrite, AbortHandle, recordVars
<1>2. r \in Records /\ o \in {"approved", "rejected"} /\ Decided(r, o)
  <2>1. handling[w] \in Callback
    BY <1>1 DEF Inv, LocalTypes
  <2> QED BY <1>1, <2>1 DEF Inv, CallbackBacked, Callback
<1> HIDE DEF r, o
<1>3. /\ status' \in [Records -> Statuses] /\ OneActive'
      /\ \A q \in Records : status'[q] = status[q] \/ (q = r /\ status'[q] = o)
  <2>1. CASE Write(r, o)
    BY <1>2, <2>1, WriteShape DEF Statuses, Active
  <2>2. CASE UNCHANGED status
    BY <2>2 DEF Inv, LocalTypes, OneActive
  <2> QED BY <1>1, <2>1, <2>2
<1>4. LocalTypes' /\ EntityKnown'
  BY <1>1, <1>3 DEF Inv, LocalTypes, EntityKnown, engineVars
<1>5. \A v \in Deciders : handling'[v] # Idle => handling'[v] = handling[v]
  BY <1>1 DEF Inv, LocalTypes
<1>6. \A q \in Records :
        /\ status'[q] \in {"approved", "applied"} => status[q] = status'[q] \/ Backed(q)
        /\ status'[q] = "rejected" => status[q] = status'[q] \/ Decided(q, "rejected")
  BY <1>2, <1>3 DEF Backed
<1> QED BY <1>1, <1>3, <1>4, <1>5, <1>6, StaysBacked

LEMMA InitInv ==
  ASSUME Init PROVE Inv
<1>1. EngineProofs!IInv
  BY EngineInit
<1>2. LocalTypes /\ EntityKnown /\ ApplierBacked /\ CallbackBacked
  BY DEF Init, LocalTypes, EntityKnown, ApplierBacked, CallbackBacked, Statuses, Idle,
    Engine!Init
<1>3. OutcomesAreBacked /\ OneActive
  BY DEF Init, OutcomesAreBacked, OneActive, Nobody, Active
<1> QED BY <1>1, <1>2, <1>3 DEF Inv

LEMMA NextInv ==
  ASSUME Inv, [Next]_vars PROVE Inv'
<1>1. CASE UNCHANGED vars
  <2>1. LocalTypes' /\ EntityKnown' /\ OneActive'
    BY <1>1 DEF Inv, LocalTypes, EntityKnown, OneActive, vars, recordVars, engineVars
  <2> QED BY <1>1, <2>1, StaysBacked DEF vars, recordVars
<1>2. ASSUME NEW r \in Records, Create(r) PROVE Inv'
  BY <1>2, CreateInv
<1>3. ASSUME NEW c \in Clerks, ClerkStep(c) PROVE Inv'
  BY <1>3, SubmitCreateInv, ClerkWritesInv, ApplyCommitInv, GivesUpInv DEF ClerkStep
<1>4. ASSUME NEW c \in Clerks, NEW r \in Records,
             SubmitRead(c, r) \/ CancelRead(c, r) \/ ApplyRead(c, r)
      PROVE  Inv'
  BY <1>4, ReadsInv
<1>5. ASSUME NEW w \in Deciders, Decide(w) \/ DeciderStep(w) PROVE Inv'
  BY <1>5, DecideInv, HandleReadInv, HandleEndsInv DEF DeciderStep
<1>6. ASSUME NEW c \in Clerks, AbortClerk(c) PROVE Inv'
  BY <1>6, GivesUpInv
<1>7. ASSUME NEW w \in Deciders, AbortDecide(w) \/ AbortHandle(w) PROVE Inv'
  BY <1>7, DecideInv, HandleEndsInv
<1> QED BY <1>1, <1>2, <1>3, <1>4, <1>5, <1>6, <1>7 DEF Next, NextNoAbort

LEMMA SpecInv == Spec => []Inv
BY InitInv, NextInv, PTL DEF Spec

-----------------------------------------------------------------------------
(* Every variable keeps its shape, the engine's among them. *)
THEOREM PersonnelTypes == Spec => []TypeOK
<1>1. Inv => TypeOK
  BY EngineTypes DEF Inv, LocalTypes, TypeOK
<1> QED BY <1>1, SpecInv, PTL

(* No record is approved, applied or rejected unless its chain said so, or
   Submit found no chain to ask: for any number of clerks and verdicts at
   once, and wherever a request dies. *)
THEOREM PersonnelOutcomesAreBacked == Spec => []OutcomesAreBacked
<1>1. Inv => OutcomesAreBacked
  BY DEF Inv
<1> QED BY <1>1, SpecInv, PTL

(* An employee never has two active terminations, although the writes of
   Submit, Cancel and the callback are conditional on nothing. *)
THEOREM PersonnelOneActive == Spec => []OneActive
<1>1. Inv => OneActive
  BY DEF Inv
<1> QED BY <1>1, SpecInv, PTL

-----------------------------------------------------------------------------
(* A step of these handlers is a step of the engine or leaves it alone. *)
LEMMA StepOfEngine ==
  ASSUME [Next]_vars PROVE [Engine!Next]_engineVars
<1>1. CASE UNCHANGED vars
  BY <1>1 DEF vars
<1>2. ASSUME NEW r \in Records, Create(r) PROVE UNCHANGED engineVars
  BY <1>2 DEF Create
<1>3. ASSUME NEW c \in Clerks, NEW i \in Instances, SubmitCreate(c, i)
      PROVE  Engine!Next
  BY <1>3 DEF SubmitCreate, Engine!Next, Engine!NextNoAbort, Engine!Create
<1>4. ASSUME NEW c \in Clerks, NEW r \in Records,
             SubmitRead(c, r) \/ CancelRead(c, r) \/ ApplyRead(c, r)
      PROVE  UNCHANGED engineVars
  BY <1>4 DEF SubmitRead, CancelRead, ApplyRead
<1>5. ASSUME NEW w \in Deciders, Decide(w) \/ HandleRead(w) \/ AbortDecide(w)
      PROVE  Engine!Next
  BY <1>5 DEF Decide, HandleRead, AbortDecide, Engine!Next, Engine!NextNoAbort,
    Engine!Begin, Engine!Step, Engine!Verdicts
<1>6. ASSUME NEW w \in Deciders, HandleWrite(w) \/ AbortHandle(w)
      PROVE  UNCHANGED engineVars
  BY <1>6 DEF HandleWrite, AbortHandle
<1>7. ASSUME NEW c \in Clerks,
             \/ SubmitLink(c) \/ SubmitFallback(c) \/ CancelWrite(c)
             \/ ApplyCommit(c) \/ ApplyRollback(c) \/ AbortClerk(c)
      PROVE  UNCHANGED engineVars
  BY <1>7 DEF SubmitLink, SubmitFallback, CancelWrite, ApplyCommit, ApplyRollback,
    AbortClerk
<1> QED
  BY <1>1, <1>2, <1>3, <1>4, <1>5, <1>6, <1>7
  DEF Next, NextNoAbort, ClerkStep, DeciderStep

(* The engine keeps its promise under the records' handlers: whatever clerks
   and callbacks do, and wherever a request dies, it is still the chain. *)
THEOREM PersonnelEngineImplementsChain == Spec => EngineImplementsChain
<1>1. Init => Engine!Chain!Init
  BY DEF Init, Engine!Init, Engine!Chain!Init, Engine!NoRow, Engine!Chain!NoRow
<1>2. Inv /\ [Next]_vars => [Engine!Chain!Next]_<<rows, notified>>
  <2> SUFFICES ASSUME Inv, [Next]_vars
               PROVE  [Engine!Chain!Next]_<<rows, notified>>
    OBVIOUS
  <2>1. [EngineProofs!Next]_(EngineProofs!vars)
    BY StepOfEngine, EngineNext
  <2>2. [EngineProofs!Chain!Next]_<<rows, notified>>
    BY <2>1, EngineProofs!StepRefines, LevelsAssumption DEF Inv
  <2> QED
    BY <2>2 DEF EngineProofs!Chain!Next, Engine!Chain!Next, EngineProofs!Chain!Open,
      Engine!Chain!Open, EngineProofs!Chain!Approve, Engine!Chain!Approve,
      EngineProofs!Chain!Stop, Engine!Chain!Stop, EngineProofs!Chain!Tell,
      Engine!Chain!Tell, EngineProofs!Chain!NoRow, Engine!Chain!NoRow,
      EngineProofs!Chain!Outcomes, Engine!Chain!Outcomes
<1> QED
  BY <1>1, <1>2, SpecInv, PTL
  DEF Spec, EngineImplementsChain, Engine!ImplementsChain, Engine!Chain!Spec

-----------------------------------------------------------------------------
(* One clerk at a time, and no request that dies. *)

Alone == \A c, d \in Clerks : c = d

LEMMA CalmCreate ==
  ASSUME CalmInv, NEW r \in Records, Create(r)
  PROVE  OneInstance' /\ ClerkCurrent' /\ CallbackAlone' /\ EffectMatchesMark'
<1>1. /\ status[r] = Nobody /\ status'[r] = "draft"
      /\ \A q \in Records : q # r => status'[q] = status[q]
      /\ UNCHANGED <<effects, clerk, entity, handling, notified>>
  BY DEF Create, CalmInv, Inv, LocalTypes, engineVars
<1>2. \A c \in Clerks : clerk[c] # Idle => clerk[c].rec \in Records
  BY JobShape DEF CalmInv, Inv
<1>3. \A w \in Deciders : handling[w] # Idle => handling[w].rec \in Records
  BY DEF CalmInv, Inv, LocalTypes, Callback
<1>4. OneInstance'
  BY <1>1 DEF CalmInv, OneInstance, Nobody
<1>5. ClerkCurrent'
  BY <1>1, <1>2 DEF CalmInv, ClerkCurrent, Nobody, Idle
<1>6. CallbackAlone'
  BY <1>1, <1>3 DEF CalmInv, CallbackAlone, Nobody
<1>7. EffectMatchesMark'
  BY <1>1 DEF CalmInv, EffectMatchesMark, Nobody
<1> QED BY <1>4, <1>5, <1>6, <1>7

(* The one clerk begins: nobody else is between two statements of Submit. *)
LEMMA CalmReads ==
  ASSUME Alone, CalmInv, NEW c \in Clerks, NEW r \in Records,
         SubmitRead(c, r) \/ CancelRead(c, r) \/ ApplyRead(c, r)
  PROVE  OneInstance' /\ ClerkCurrent' /\ CallbackAlone' /\ EffectMatchesMark'
<1>1. PICK pc \in {"create", "fallback", "cancel", "apply"} :
        /\ clerk[c] = Idle /\ clerk' = [clerk EXCEPT ![c] = [pc |-> pc, rec |-> r]]
        /\ pc \in {"create", "fallback"} => status[r] = "draft"
        /\ pc = "cancel" => status[r] \notin {Nobody, "applied"}
        /\ pc = "apply" => status[r] = "approved"
  BY DEF SubmitRead, CancelRead, ApplyRead, Begin
<1>2. UNCHANGED <<status, effects, entity, handling, notified>>
  BY DEF SubmitRead, CancelRead, ApplyRead, recordVars, engineVars
<1>3. \A d \in Clerks : d = c /\ clerk'[d] = [pc |-> pc, rec |-> r]
  BY <1>1 DEF Alone, CalmInv, Inv, LocalTypes
<1>4. \A i \in Instances : entity[i] \in Records => status[entity[i]] # "draft"
  BY <1>1, <1>3 DEF CalmInv, OneInstance, Idle
<1>5. OneInstance'
  BY <1>2, <1>4 DEF CalmInv, OneInstance
<1>6. ClerkCurrent'
  BY <1>1, <1>2, <1>3, <1>4 DEF ClerkCurrent
<1>7. CallbackAlone' /\ EffectMatchesMark'
  BY <1>2 DEF CalmInv, CallbackAlone, EffectMatchesMark
<1> QED BY <1>5, <1>6, <1>7

LEMMA CalmSubmitCreate ==
  ASSUME Alone, CalmInv, NEW c \in Clerks, NEW i \in Instances, SubmitCreate(c, i)
  PROVE  OneInstance' /\ ClerkCurrent' /\ CallbackAlone' /\ EffectMatchesMark'
<1> DEFINE r == clerk[c].rec
           x == [pc |-> "link", rec |-> r, inst |-> i]
<1>1. /\ clerk[c].pc = "create" /\ rows[i] = Engine!NoRow
      /\ entity' = [entity EXCEPT ![i] = r] /\ clerk' = [clerk EXCEPT ![c] = x]
      /\ UNCHANGED <<status, effects, handling, notified>>
  BY DEF SubmitCreate, Engine!CreateInstance, recordVars
<1>2. /\ r \in Records /\ status[r] = "draft"
      /\ \A k \in Instances : entity[k] # r
  BY <1>1, JobShape DEF CalmInv, Inv, ClerkCurrent, Idle
<1>3. /\ entity'[i] = r /\ \A k \in Instances : k # i => entity'[k] = entity[k]
      /\ \A d \in Clerks : d = c /\ clerk'[d] = x
  BY <1>1 DEF Alone, CalmInv, Inv, LocalTypes
<1>4. notified[i] = <<>>
  BY <1>1 DEF CalmInv, Inv, EngineProofs!IInv, EngineProofs!FreshRows,
    EngineProofs!NoRow, Engine!NoRow
<1>5. \A k \in Instances : entity[k] \in Records => status[entity[k]] # "draft"
  BY <1>1, <1>3 DEF CalmInv, OneInstance
<1> HIDE DEF r
<1>6. OneInstance'
  BY <1>1, <1>2, <1>3, <1>5 DEF CalmInv, OneInstance, Nobody
<1>7. ClerkCurrent'
  BY <1>1, <1>2, <1>3 DEF ClerkCurrent
<1>8. CallbackAlone'
  BY <1>1, <1>3, <1>4 DEF CalmInv, CallbackAlone
<1>9. EffectMatchesMark'
  BY <1>1 DEF CalmInv, EffectMatchesMark
<1> QED BY <1>6, <1>7, <1>8, <1>9

(* The one clerk ends: the record he has read is as he has read it. *)
LEMMA CalmWrites ==
  ASSUME Alone, CalmInv, NEW c \in Clerks,
         SubmitLink(c) \/ SubmitFallback(c) \/ CancelWrite(c)
  PROVE  OneInstance' /\ ClerkCurrent' /\ CallbackAlone' /\ EffectMatchesMark'
<1> DEFINE r == clerk[c].rec
<1>1. PICK s \in {"pending_approval", "approved", "cancelled"} :
        /\ Write(r, s)
        /\ s = "cancelled" \/ status[r] = "draft"
        /\ status[r] \notin {Nobody, "applied"}
        /\ s = "approved" => \A i \in Instances : entity[i] # r
        /\ s # "pending_approval" => clerk[c].pc # "link"
  BY DEF SubmitLink, SubmitFallback, CancelWrite, CalmInv, ClerkCurrent, Nobody
<1>2. /\ clerk' = [clerk EXCEPT ![c] = Idle] /\ clerk[c] # Idle
      /\ UNCHANGED <<effects, entity, handling, notified>>
  BY DEF SubmitLink, SubmitFallback, CancelWrite, Finish, Idle, engineVars
<1>3. r \in Records /\ s \in Statuses
  BY <1>2, JobShape DEF CalmInv, Inv, Statuses, Active
<1>4. \A d \in Clerks : d = c /\ clerk'[d] = Idle
  BY <1>2 DEF Alone, CalmInv, Inv, LocalTypes
<1>5. \A i \in Instances : entity[i] \in Records /\ status[entity[i]] = "draft" => entity[i] = r
  BY <1>4 DEF CalmInv, OneInstance
<1>6. \A w \in Deciders : handling[w] # Idle =>
        /\ handling[w].rec \in Records
        /\ status[handling[w].rec] \in {"pending_approval", "cancelled"}
  BY DEF CalmInv, Inv, LocalTypes, Callback, CallbackAlone
<1> HIDE DEF r
<1>7. /\ status'[r] = s
      /\ \A q \in Records : q # r => status'[q] = status[q]
  <2>1. status[r] = "draft" => ~ Clash(r)
    BY <1>3 DEF CalmInv, Inv, OneActive, Clash, Active
  <2>2. s = "cancelled" => s \notin Active
    BY DEF Active
  <2> QED BY <1>1, <1>3, <2>1, <2>2, WriteShape DEF CalmInv, Inv
<1>8. OneInstance'
  BY <1>1, <1>2, <1>3, <1>5, <1>7 DEF CalmInv, OneInstance, Nobody
<1>9. ClerkCurrent'
  BY <1>4 DEF ClerkCurrent, Idle
<1>10. CallbackAlone'
  BY <1>1, <1>2, <1>6, <1>7 DEF CalmInv, CallbackAlone
<1>11. EffectMatchesMark'
  BY <1>1, <1>2, <1>3, <1>7 DEF CalmInv, EffectMatchesMark
<1> QED BY <1>8, <1>9, <1>10, <1>11

LEMMA CalmApply ==
  ASSUME Alone, CalmInv, NEW c \in Clerks, ApplyCommit(c) \/ ApplyRollback(c)
  PROVE  OneInstance' /\ ClerkCurrent' /\ CallbackAlone' /\ EffectMatchesMark'
<1> DEFINE r == clerk[c].rec
<1>1. /\ clerk[c].pc = "apply" /\ clerk' = [clerk EXCEPT ![c] = Idle]
      /\ UNCHANGED <<entity, handling, notified>>
      /\ Applied(r) \/ UNCHANGED <<status, effects>>
  BY DEF ApplyCommit, ApplyRollback, Finish, recordVars, engineVars
<1>2. r \in Records /\ status[r] = "approved"
  BY <1>1, JobShape DEF CalmInv, Inv, ClerkCurrent, Idle
<1>3. \A d \in Clerks : d = c /\ clerk'[d] = Idle
  BY <1>1 DEF Alone, CalmInv, Inv, LocalTypes
<1>4. \A i \in Instances : entity[i] \in Records => status[entity[i]] # "draft"
  BY <1>1, <1>3 DEF CalmInv, OneInstance
<1>5. \A w \in Deciders : handling[w] # Idle =>
        /\ handling[w].rec \in Records
        /\ status[handling[w].rec] \in {"pending_approval", "cancelled"}
  BY DEF CalmInv, Inv, LocalTypes, Callback, CallbackAlone
<1> HIDE DEF r
<1>6. /\ \A q \in Records : q # r => status'[q] = status[q] /\ effects'[q] = effects[q]
      /\ \/ status'[r] = "applied" /\ effects'[r] = effects[r] + 1
         \/ status'[r] = status[r] /\ effects'[r] = effects[r]
  BY <1>1, <1>2 DEF Applied, CalmInv, Inv, LocalTypes
<1>7. OneInstance'
  BY <1>1, <1>2, <1>4, <1>6 DEF CalmInv, OneInstance, Nobody
<1>8. ClerkCurrent'
  BY <1>3 DEF ClerkCurrent, Idle
<1>9. CallbackAlone'
  BY <1>1, <1>2, <1>5, <1>6 DEF CalmInv, CallbackAlone
<1>10. EffectMatchesMark'
  BY <1>2, <1>6 DEF CalmInv, EffectMatchesMark
<1> QED BY <1>7, <1>8, <1>9, <1>10

LEMMA CalmDecide ==
  ASSUME CalmInv, NEW w \in Deciders, Decide(w)
  PROVE  OneInstance' /\ ClerkCurrent' /\ CallbackAlone' /\ EffectMatchesMark'
<1>1. UNCHANGED <<status, effects, clerk, entity, handling, notified>>
  BY DEF Decide, recordVars, Engine!DecideRead, Engine!DecideInsert,
    Engine!DecideConflict, Engine!DecideUpdate
<1> QED BY <1>1
        DEF CalmInv, OneInstance, ClerkCurrent, CallbackAlone, EffectMatchesMark

(* A second callback about the record would be of the instance that has
   already called back. *)
LEMMA CalmHandleRead ==
  ASSUME CalmInv, NEW w \in Deciders, HandleRead(w)
  PROVE  OneInstance' /\ ClerkCurrent' /\ CallbackAlone' /\ EffectMatchesMark'
<1> DEFINE i == req[w].inst
<1>1. /\ req[w].pc = "callback"
      /\ notified' = [notified EXCEPT ![i] = Append(@, req[w].status)]
      /\ UNCHANGED <<status, effects, clerk, entity>>
      /\ handling' = [handling EXCEPT ![w] =
           IF status[entity[i]] = "pending_approval" THEN Answer(w) ELSE Idle]
  BY DEF HandleRead, Engine!Notify, recordVars
<1>2. /\ i \in Instances /\ entity[i] \in Records /\ notified[i] = <<>>
      /\ req[w].status \in {"approved", "rejected"}
  BY <1>1, Caller DEF CalmInv, Inv, EntityKnown
<1>3. \A k \in Instances : notified[k] # <<>> => notified'[k] # <<>>
  <2>1. [Engine!Next]_engineVars
    BY DEF HandleRead, Engine!Next, Engine!NextNoAbort, Engine!Step
  <2> QED BY <2>1, EngineStep DEF CalmInv, Inv
<1>4. notified'[i] # <<>>
  <2>1. notified'[i] = Append(<<>>, req[w].status)
    BY <1>1, <1>2, EngineTypes DEF CalmInv, Inv, Engine!Shapes
  <2> QED BY <2>1
<1>5. \A v \in Deciders : handling[v] # Idle => handling[v].rec # entity[i]
  BY <1>2 DEF CalmInv, OneInstance, CallbackAlone
<1>6. Answer(w).rec = entity[i] /\ Answer(w) # Idle
  BY DEF Answer, Idle
<1>7. /\ \A v \in Deciders : v # w => handling'[v] = handling[v]
      /\ handling'[w] # Idle =>
           handling'[w].rec = entity[i] /\ status[entity[i]] = "pending_approval"
  BY <1>1, <1>6 DEF CalmInv, Inv, LocalTypes
<1>8. CallbackAlone'
  <2>1. \A v \in Deciders : handling'[v] # Idle =>
          /\ status'[handling'[v].rec] \in {"pending_approval", "cancelled"}
          /\ \E k \in Instances : entity'[k] = handling'[v].rec /\ notified'[k] # <<>>
    BY <1>1, <1>2, <1>3, <1>4, <1>7 DEF CalmInv, CallbackAlone
  <2>2. \A u, v \in Deciders :
          handling'[u] # Idle /\ handling'[v] # Idle /\ handling'[u].rec = handling'[v].rec
            => u = v
    BY <1>5, <1>7 DEF CalmInv, CallbackAlone
  <2> QED BY <2>1, <2>2 DEF CallbackAlone
<1>9. OneInstance' /\ ClerkCurrent' /\ EffectMatchesMark'
  BY <1>1 DEF CalmInv, OneInstance, ClerkCurrent, EffectMatchesMark
<1> QED BY <1>8, <1>9

(* The callback writes over pending or cancelled only, so neither a draft nor
   an approved record that the clerk has read. *)
LEMMA CalmHandleWrite ==
  ASSUME CalmInv, NEW w \in Deciders, HandleWrite(w)
  PROVE  OneInstance' /\ ClerkCurrent' /\ CallbackAlone' /\ EffectMatchesMark'
<1> DEFINE r == handling[w].rec
           o == handling[w].outcome
<1>1. /\ handling[w] # Idle /\ handling' = [handling EXCEPT ![w] = Idle]
      /\ UNCHANGED <<effects, clerk, entity, notified>>
      /\ Write(r, o)
  BY DEF HandleWrite, engineVars
<1>2. /\ r \in Records /\ o \in {"approved", "rejected"}
      /\ status[r] \in {"pending_approval", "cancelled"}
  BY <1>1 DEF CalmInv, Inv, LocalTypes, Callback, CallbackAlone
<1>3. \A v \in Deciders : v # w /\ handling[v] # Idle =>
        handling[v].rec \in Records /\ handling[v].rec # r
  BY <1>1 DEF CalmInv, Inv, LocalTypes, Callback, CallbackAlone
<1>4. \A d \in Clerks : clerk[d] # Idle => clerk[d].rec \in Records
  BY JobShape DEF CalmInv, Inv
<1>5. handling'[w] = Idle /\ \A v \in Deciders : v # w => handling'[v] = handling[v]
  BY <1>1 DEF CalmInv, Inv, LocalTypes
<1> HIDE DEF r, o
<1>6. /\ \A q \in Records : q # r => status'[q] = status[q]
      /\ status'[r] = o \/ status'[r] = status[r]
  BY <1>1, <1>2, WriteShape DEF CalmInv, Inv, Statuses, Active
<1>7. OneInstance'
  BY <1>1, <1>2, <1>6 DEF CalmInv, OneInstance, Nobody
<1>8. ClerkCurrent'
  BY <1>1, <1>2, <1>4, <1>6 DEF CalmInv, ClerkCurrent, Nobody, Idle
<1>9. CallbackAlone'
  BY <1>1, <1>3, <1>5, <1>6 DEF CalmInv, CallbackAlone
<1>10. EffectMatchesMark'
  BY <1>1, <1>2, <1>6 DEF CalmInv, EffectMatchesMark
<1> QED BY <1>7, <1>8, <1>9, <1>10

LEMMA CalmInit ==
  ASSUME Init PROVE CalmInv
<1>1. OneInstance
  BY RecordsAssumption DEF Init, OneInstance, Nobody
<1> QED BY <1>1, InitInv
        DEF Init, CalmInv, ClerkCurrent, CallbackAlone, EffectMatchesMark, Idle, Nobody

LEMMA CalmNext ==
  ASSUME Alone, CalmInv, [NextNoAbort]_vars PROVE CalmInv'
<1> DEFINE Rest == OneInstance /\ ClerkCurrent /\ CallbackAlone /\ EffectMatchesMark
<1>1. Inv'
  BY NextInv DEF CalmInv, Next
<1>2. Rest'
  <2>1. CASE UNCHANGED vars
    BY <2>1 DEF CalmInv, OneInstance, ClerkCurrent, CallbackAlone, EffectMatchesMark,
      vars, recordVars, engineVars
  <2>2. ASSUME NEW r \in Records, Create(r) PROVE Rest'
    BY <2>2, CalmCreate
  <2>3. ASSUME NEW c \in Clerks, ClerkStep(c) PROVE Rest'
    BY <2>3, CalmSubmitCreate, CalmWrites, CalmApply DEF ClerkStep
  <2>4. ASSUME NEW c \in Clerks, NEW r \in Records,
               SubmitRead(c, r) \/ CancelRead(c, r) \/ ApplyRead(c, r)
        PROVE  Rest'
    BY <2>4, CalmReads
  <2>5. ASSUME NEW w \in Deciders, Decide(w) \/ DeciderStep(w) PROVE Rest'
    BY <2>5, CalmDecide, CalmHandleRead, CalmHandleWrite DEF DeciderStep
  <2> QED BY <2>1, <2>2, <2>3, <2>4, <2>5 DEF NextNoAbort
<1> QED BY <1>1, <1>2 DEF CalmInv

(* The employee is changed once for a record marked applied, and never for
   another, when one clerk works at a time and no request dies. *)
THEOREM PersonnelEffectMatchesMark ==
  ASSUME Alone PROVE CalmSpec => []EffectMatchesMark
<1>1. CalmInv => EffectMatchesMark
  BY DEF CalmInv
<1>2. CalmInv /\ [NextNoAbort]_vars => CalmInv'
  BY CalmNext
<1> QED BY <1>1, <1>2, CalmInit, PTL DEF CalmSpec

-----------------------------------------------------------------------------
(* What the records' handlers ask of the liveness of the engine. *)

LEMMA StepOfCalmEngine ==
  ASSUME [NextNoAbort]_vars PROVE [EngineProofs!NextNoAbort]_(EngineProofs!vars)
<1>1. [Engine!NextNoAbort]_engineVars
  <2>1. ASSUME NEW c \in Clerks, NEW i \in Instances, SubmitCreate(c, i)
        PROVE  Engine!NextNoAbort
    BY <2>1 DEF SubmitCreate, Engine!NextNoAbort, Engine!Create
  <2>2. ASSUME NEW w \in Deciders, Decide(w) \/ HandleRead(w)
        PROVE  Engine!NextNoAbort
    BY <2>2 DEF Decide, HandleRead, Engine!NextNoAbort, Engine!Begin, Engine!Step,
      Engine!Verdicts
  <2>3. ASSUME NEW c \in Clerks,
               \/ SubmitLink(c) \/ SubmitFallback(c) \/ CancelWrite(c)
               \/ ApplyCommit(c) \/ ApplyRollback(c)
        PROVE  UNCHANGED engineVars
    BY <2>3 DEF SubmitLink, SubmitFallback, CancelWrite, ApplyCommit, ApplyRollback
  <2>4. ASSUME NEW c \in Clerks, NEW r \in Records,
               Create(r) \/ SubmitRead(c, r) \/ CancelRead(c, r) \/ ApplyRead(c, r)
        PROVE  UNCHANGED engineVars
    BY <2>4 DEF Create, SubmitRead, CancelRead, ApplyRead
  <2>5. ASSUME NEW r \in Records, Create(r) PROVE UNCHANGED engineVars
    BY <2>5 DEF Create
  <2>6. ASSUME NEW w \in Deciders, HandleWrite(w) PROVE UNCHANGED engineVars
    BY <2>6 DEF HandleWrite
  <2>7. CASE UNCHANGED vars
    BY <2>7 DEF vars
  <2> QED BY <2>1, <2>2, <2>3, <2>4, <2>5, <2>6, <2>7
          DEF NextNoAbort, ClerkStep, DeciderStep
<1> QED BY <1>1
  DEF engineVars, EngineProofs!vars, Engine!NextNoAbort, EngineProofs!NextNoAbort,
    Engine!Create, EngineProofs!Create, Engine!Begin, EngineProofs!Begin,
    Engine!Step, EngineProofs!Step, Engine!CreateInstance, EngineProofs!CreateInstance,
    Engine!DecideRead, EngineProofs!DecideRead, Engine!DecideInsert,
    EngineProofs!DecideInsert, Engine!DecideConflict, EngineProofs!DecideConflict,
    Engine!DecideUpdate, EngineProofs!DecideUpdate, Engine!Notify, EngineProofs!Notify,
    Engine!Advanced, EngineProofs!Advanced, Engine!AfterUpdate, EngineProofs!AfterUpdate,
    Engine!Taken, EngineProofs!Taken, Engine!NoRow, EngineProofs!NoRow, Engine!Idle,
    EngineProofs!Idle, Engine!Verdicts, EngineProofs!Verdicts, Engine!Outcomes,
    EngineProofs!Outcomes

(* A request that still runs a callback has nothing else in its hands. *)
Free(w) == handling[w] = Idle
CallbackIsLast == \A w \in Deciders : ~ Free(w) => EngineProofs!IsIdle(w)

LEMMA CallbackIsLastKeeps ==
  ASSUME Inv, CallbackIsLast, [NextNoAbort]_vars PROVE CallbackIsLast'
<1> SUFFICES ASSUME NEW w \in Deciders, handling'[w] # Idle
             PROVE  req'[w] = EngineProofs!Idle
  BY DEF CallbackIsLast, Free, EngineProofs!IsIdle
<1>1. CASE UNCHANGED <<handling, req>>
  BY <1>1 DEF CallbackIsLast, Free, EngineProofs!IsIdle
<1>2. /\ handling \in [Deciders -> Callback \cup {Idle}]
      /\ req \in [Deciders -> EngineProofs!Request \cup {EngineProofs!Idle}]
      /\ Engine!Idle = EngineProofs!Idle
  BY DEF Inv, LocalTypes, EngineProofs!IInv, EngineProofs!Shapes, Engine!Idle,
    EngineProofs!Idle
<1>3. ASSUME NEW v \in Deciders, Decide(v) PROVE req'[w] = EngineProofs!Idle
  <2>1. handling' = handling /\ v # w
    BY <1>3 DEF Decide
  <2>2. req'[w] = req[w]
    BY <1>2, <1>3, <2>1 DEF Decide, Engine!DecideRead, Engine!DecideInsert,
      Engine!DecideConflict, Engine!DecideUpdate
  <2> QED BY <2>1, <2>2 DEF CallbackIsLast, Free, EngineProofs!IsIdle
<1>4. ASSUME NEW v \in Deciders, HandleRead(v) PROVE req'[w] = EngineProofs!Idle
  <2>1. /\ req' = [req EXCEPT ![v] = EngineProofs!Idle]
        /\ v # w => handling'[w] = handling[w]
    BY <1>2, <1>4 DEF HandleRead, Engine!Notify
  <2> QED BY <1>2, <2>1 DEF CallbackIsLast, Free, EngineProofs!IsIdle
<1>5. ASSUME NEW v \in Deciders, HandleWrite(v) PROVE req'[w] = EngineProofs!Idle
  <2>1. req' = req /\ handling' = [handling EXCEPT ![v] = Idle]
    BY <1>5 DEF HandleWrite, engineVars
  <2>2. handling[w] # Idle
    BY <1>2, <2>1
  <2> QED BY <2>1, <2>2 DEF CallbackIsLast, Free, EngineProofs!IsIdle
<1>6. ASSUME NEW c \in Clerks, ClerkStep(c) PROVE UNCHANGED <<handling, req>>
  BY <1>6 DEF ClerkStep, SubmitCreate, SubmitLink, SubmitFallback, CancelWrite,
    ApplyCommit, ApplyRollback, Engine!CreateInstance, engineVars
<1>7. ASSUME NEW r \in Records, Create(r) PROVE UNCHANGED <<handling, req>>
  BY <1>7 DEF Create, engineVars
<1>8. ASSUME NEW c \in Clerks, NEW r \in Records,
             SubmitRead(c, r) \/ CancelRead(c, r) \/ ApplyRead(c, r)
      PROVE  UNCHANGED <<handling, req>>
  BY <1>8 DEF SubmitRead, CancelRead, ApplyRead, engineVars
<1>9. CASE UNCHANGED vars
  BY <1>1, <1>9 DEF vars, engineVars
<1> QED BY <1>1, <1>3, <1>4, <1>5, <1>6, <1>7, <1>8, <1>9 DEF NextNoAbort, DeciderStep

(* A recorded decision and an untold outcome have a request that carries   *)
(* them, and no callback of an earlier one holds that request up.          *)
CarriedFreely ==
  /\ \A i \in Instances : \A l \in Nat : EngineProofs!DecidedAhead(i, l) =>
       \E w \in Deciders : EngineProofs!CarriesVerdict(w, i) /\ Free(w)
  /\ \A i \in Instances : EngineProofs!EndedUntold(i) =>
       \E w \in Deciders : EngineProofs!CarriesOutcome(w, i) /\ Free(w)

CalmCarried == Inv /\ EngineProofs!NothingStranded /\ CallbackIsLast

LEMMA CalmCarriedInit == ASSUME Init PROVE CalmCarried
<1>1. EngineProofs!NothingStranded
  BY DEF Init, Engine!Init, Engine!NoRow, EngineProofs!NothingStranded,
    EngineProofs!VerdictsAreCarried, EngineProofs!OutcomesAreCarried,
    EngineProofs!DecidedAhead, EngineProofs!EndedUntold, EngineProofs!Outcomes
<1>2. CallbackIsLast
  BY DEF Init, CallbackIsLast, Free
<1> QED BY <1>1, <1>2, InitInv DEF CalmCarried

LEMMA CalmCarriedNext == ASSUME CalmCarried, [NextNoAbort]_vars PROVE CalmCarried'
<1>1. Inv'
  BY NextInv DEF CalmCarried, Next
<1>2. EngineProofs!NothingStranded'
  BY StepOfCalmEngine, EngineProofs!CarriedKeeps, LevelsAssumption DEF CalmCarried, Inv
<1>3. CallbackIsLast'
  BY CallbackIsLastKeeps DEF CalmCarried
<1> QED BY <1>1, <1>2, <1>3 DEF CalmCarried

(* No verdict and no outcome is lost between the handlers of the records   *)
(* and the engine as long as no request dies: what DecisionTakesEffect and *)
(* SourceIsTold still ask for is that one free request goes on.            *)
THEOREM PersonnelNothingStranded == CalmSpec => []CarriedFreely
<1>1. ASSUME CalmCarried PROVE CarriedFreely
  <2>1. \A w \in Deciders : ~ EngineProofs!IsIdle(w) => Free(w)
    BY <1>1 DEF CalmCarried, CallbackIsLast
  <2>2. \A w \in Deciders, i \in Instances :
          EngineProofs!CarriesVerdict(w, i) \/ EngineProofs!CarriesOutcome(w, i)
            => ~ EngineProofs!IsIdle(w)
    BY DEF EngineProofs!CarriesVerdict, EngineProofs!CarriesOutcome,
      EngineProofs!IsIdle, EngineProofs!Idle
  <2> QED BY <1>1, <2>1, <2>2 DEF CalmCarried, CarriedFreely,
    EngineProofs!NothingStranded, EngineProofs!VerdictsAreCarried,
    EngineProofs!OutcomesAreCarried
<1>2. CalmCarried /\ [NextNoAbort]_vars => CalmCarried'
  BY CalmCarriedNext
<1> QED BY <1>1, <1>2, CalmCarriedInit, PTL DEF CalmSpec

-----------------------------------------------------------------------------
(* The fairness of FairSpecNoAbort with its guards written out, so that    *)
(* the temporal prover can use it.                                         *)
Deciding(w) == Free(w) /\ req[w].pc \in {"insert", "update"}
DecideGoesOn(w) == []<>(~ Deciding(w)) \/ []<><<req[w].pc # "idle" /\ Decide(w)>>_vars

Calling(w) == req[w].pc = "callback" \/ ~ Free(w)
CallbackGoesOn(w) == []<>(~ Calling(w)) \/ []<><<DeciderStep(w)>>_vars

LEMMA DecideIsStep ==
  ASSUME NEW w \in Deciders, EngineProofs!IsIdle(w) => FALSE, Decide(w)
  PROVE  EngineProofs!Step(w)
BY DEF Decide, EngineProofs!IsIdle, Engine!Idle, EngineProofs!Idle, Engine!DecideRead,
  Engine!DecideInsert, Engine!DecideConflict, Engine!DecideUpdate, EngineProofs!Step,
  EngineProofs!DecideInsert, EngineProofs!DecideConflict, EngineProofs!DecideUpdate,
  Engine!Advanced, EngineProofs!Advanced, Engine!AfterUpdate, EngineProofs!AfterUpdate,
  Engine!Taken, EngineProofs!Taken, Engine!Outcomes, EngineProofs!Outcomes

(* Approve and Reject: a verdict a request has recorded moves its instance *)
(* when that request goes on, whatever clerks and callbacks do meanwhile.  *)
THEOREM PersonnelVerdictLands ==
  ASSUME NEW w \in Deciders, NEW i \in Instances, NEW l \in Nat
  PROVE  CalmSpec /\ DecideGoesOn(w)
           => (EngineProofs!AboutToMove(w, i, l) ~> EngineProofs!Moved(i, l))
<1>1. ASSUME CalmCarried, [NextNoAbort]_vars, EngineProofs!AboutToMove(w, i, l)
      PROVE  /\ Deciding(w)
             /\ EngineProofs!AboutToMove(w, i, l)' \/ EngineProofs!Moved(i, l)'
             /\ Decide(w) => EngineProofs!Moved(i, l)'
  <2>1. /\ ~ EngineProofs!IsIdle(w)
        /\ EngineProofs!AboutToMove(w, i, l)' \/ EngineProofs!Moved(i, l)'
        /\ EngineProofs!Step(w) => EngineProofs!Moved(i, l)'
    BY <1>1, StepOfCalmEngine, EngineProofs!VerdictLandsStep, LevelsAssumption
    DEF CalmCarried, Inv
  <2>2. Deciding(w)
    BY <1>1, <2>1 DEF CalmCarried, CallbackIsLast, Deciding,
      EngineProofs!AboutToMove, EngineProofs!CarriesVerdict
  <2> QED BY <2>1, <2>2, DecideIsStep
<1>2. CalmCarried /\ EngineProofs!AboutToMove(w, i, l) /\ [NextNoAbort]_vars
        => /\ Deciding(w)
           /\ EngineProofs!AboutToMove(w, i, l)' \/ EngineProofs!Moved(i, l)'
  BY <1>1
<1>3. CalmCarried /\ EngineProofs!AboutToMove(w, i, l) /\ [NextNoAbort]_vars
      /\ <<req[w].pc # "idle" /\ Decide(w)>>_vars
        => EngineProofs!Moved(i, l)'
  BY <1>1
<1>4. CalmCarried /\ [NextNoAbort]_vars => CalmCarried'
  BY CalmCarriedNext
<1> QED BY <1>2, <1>3, <1>4, CalmCarriedInit, PTL DEF CalmSpec, DecideGoesOn

(* HandleApprovalDecision is called when the request that ended the        *)
(* instance goes on.                                                       *)
THEOREM PersonnelOutcomeIsTold ==
  ASSUME NEW w \in Deciders, NEW i \in Instances
  PROVE  CalmSpec /\ CallbackGoesOn(w)
           => (EngineProofs!CarriesOutcome(w, i) ~> EngineProofs!Told(i))
<1>1. ASSUME CalmCarried, [NextNoAbort]_vars, EngineProofs!CarriesOutcome(w, i)
      PROVE  /\ Calling(w)
             /\ EngineProofs!CarriesOutcome(w, i)' \/ EngineProofs!Told(i)'
             /\ DeciderStep(w) => EngineProofs!Told(i)'
  <2>1. /\ ~ EngineProofs!IsIdle(w)
        /\ EngineProofs!CarriesOutcome(w, i)' \/ EngineProofs!Told(i)'
        /\ EngineProofs!Step(w) => EngineProofs!Told(i)'
    BY <1>1, StepOfCalmEngine, EngineProofs!OutcomeIsToldStep, LevelsAssumption
    DEF CalmCarried, Inv
  <2>2. Free(w)
    BY <1>1, <2>1 DEF CalmCarried, CallbackIsLast
  <2>3. DeciderStep(w) => EngineProofs!Step(w)
    BY <2>2 DEF DeciderStep, Free, HandleRead, HandleWrite, Engine!Notify,
      EngineProofs!Step, EngineProofs!Notify, Engine!Idle, EngineProofs!Idle
  <2> QED BY <1>1, <2>1, <2>3 DEF Calling, EngineProofs!CarriesOutcome
<1>2. CalmCarried /\ EngineProofs!CarriesOutcome(w, i) /\ [NextNoAbort]_vars
        => Calling(w) /\ (EngineProofs!CarriesOutcome(w, i)' \/ EngineProofs!Told(i)')
  BY <1>1
<1>3. CalmCarried /\ EngineProofs!CarriesOutcome(w, i) /\ [NextNoAbort]_vars
      /\ <<DeciderStep(w)>>_vars
        => EngineProofs!Told(i)'
  BY <1>1
<1>4. CalmCarried /\ [NextNoAbort]_vars => CalmCarried'
  BY CalmCarriedNext
<1> QED BY <1>2, <1>3, <1>4, CalmCarriedInit, PTL DEF CalmSpec, CallbackGoesOn

-----------------------------------------------------------------------------
(* Apply. A clerk that creates waits for a free identifier, the others for *)
(* nothing.                                                                *)
Working(c) ==
  clerk[c] # Idle /\ (clerk[c].pc = "create" => \E i \in Instances : rows[i] = Engine!NoRow)
ClerkGoesOn(c) == []<>(~ Working(c)) \/ []<><<ClerkStep(c)>>_vars

Applying(c, r) == clerk[c].pc = "apply" /\ clerk[c].rec = r
Changed(r) == effects[r] > 0

(* A step that is not the clerk's own leaves him where he is. *)
LEMMA ClerkStays ==
  ASSUME Inv, [NextNoAbort]_vars, NEW c \in Clerks, clerk[c] # Idle
  PROVE  ClerkStep(c) \/ clerk'[c] = clerk[c]
<1>1. clerk \in [Clerks -> Job \cup {Idle}]
  BY DEF Inv, LocalTypes
<1>2. ASSUME NEW d \in Clerks, d # c, ClerkStep(d) PROVE clerk'[c] = clerk[c]
  BY <1>1, <1>2 DEF ClerkStep, SubmitCreate, SubmitLink, SubmitFallback, CancelWrite,
    ApplyCommit, ApplyRollback, Finish
<1>3. ASSUME NEW d \in Clerks, NEW r \in Records,
             SubmitRead(d, r) \/ CancelRead(d, r) \/ ApplyRead(d, r)
      PROVE  clerk'[c] = clerk[c]
  BY <1>1, <1>3 DEF SubmitRead, CancelRead, ApplyRead, Begin
<1>4. ASSUME NEW r \in Records, Create(r) PROVE clerk'[c] = clerk[c]
  BY <1>4 DEF Create
<1>5. ASSUME NEW w \in Deciders, Decide(w) \/ DeciderStep(w) PROVE clerk'[c] = clerk[c]
  BY <1>5 DEF Decide, DeciderStep, HandleRead, HandleWrite
<1>6. CASE UNCHANGED vars
  BY <1>6 DEF vars
<1> QED BY <1>2, <1>3, <1>4, <1>5, <1>6 DEF NextNoAbort

(* Apply of a promotion or a transfer that has found the record approved   *)
(* changes the employee, even when the record is cancelled under it.       *)
THEOREM PersonnelApplyTakesEffect ==
  ASSUME Kind # "termination", NEW c \in Clerks, NEW r \in Records
  PROVE  CalmSpec /\ ClerkGoesOn(c) => (Applying(c, r) ~> Changed(r))
<1>1. ASSUME Inv, [NextNoAbort]_vars, Applying(c, r)
      PROVE  /\ Working(c)
             /\ Applying(c, r)' \/ Changed(r)'
             /\ ClerkStep(c) => Changed(r)'
  <2>1. Working(c)
    BY <1>1 DEF Working, Applying, Idle
  <2>2. ClerkStep(c) => Changed(r)'
    <3>1. SUFFICES ASSUME ApplyCommit(c) PROVE Changed(r)'
      BY <1>1 DEF ClerkStep, Applying, SubmitCreate, SubmitLink, SubmitFallback,
        CancelWrite, ApplyRollback
    <3>2. effects'[r] = effects[r] + 1 /\ effects[r] \in Nat
      BY <1>1, <3>1 DEF ApplyCommit, Applied, Applying, Inv, LocalTypes
    <3> QED BY <3>2 DEF Changed
  <2>3. Applying(c, r)' \/ Changed(r)'
    BY <1>1, <2>1, <2>2, ClerkStays DEF Working, Applying
  <2> QED BY <2>1, <2>2, <2>3
<1>2. Inv /\ Applying(c, r) /\ [NextNoAbort]_vars =>
        Working(c) /\ (Applying(c, r)' \/ Changed(r)')
  BY <1>1
<1>3. Inv /\ Applying(c, r) /\ [NextNoAbort]_vars /\ <<ClerkStep(c)>>_vars => Changed(r)'
  BY <1>1
<1>4. Inv /\ [NextNoAbort]_vars => Inv'
  BY NextInv DEF Next
<1> QED BY <1>2, <1>3, <1>4, InitInv, PTL DEF CalmSpec, ClerkGoesOn

(* Apply of a termination never gets through: the statement that sets the  *)
(* dropped column fails, so no termination is ever marked applied and no   *)
(* employee is ever changed by one.                                        *)
THEOREM PersonnelTerminationsNeverApply ==
  ASSUME Kind = "termination"
  PROVE  Spec => [](\A r \in Records : status[r] # "applied" /\ effects[r] = 0)
<1> DEFINE None == \A r \in Records : status[r] # "applied" /\ effects[r] = 0
<1>1. Init => None
  BY DEF Init, Nobody
<1>2. ASSUME Inv, None, [Next]_vars PROVE None'
  <2>1. CASE UNCHANGED <<status, effects>>
    BY <1>2, <2>1
  <2>2. ASSUME NEW r \in Records,
               NEW s \in {"draft", "pending_approval", "approved", "cancelled", "rejected"},
               \/ Write(r, s)
               \/ status' = [status EXCEPT ![r] = s],
               effects' = effects
        PROVE  None'
    BY <1>2, <2>2 DEF Write, Inv, LocalTypes
  <2>3. ASSUME NEW c \in Clerks, ClerkStep(c) PROVE None'
    <3>1. clerk[c] # Idle => clerk[c].rec \in Records
      BY <1>2, JobShape DEF Inv
    <3>2. ~ ApplyCommit(c)
      BY DEF ApplyCommit
    <3> QED BY <2>1, <2>2, <2>3, <3>1, <3>2
      DEF ClerkStep, SubmitCreate, SubmitLink, SubmitFallback, CancelWrite,
        ApplyRollback, recordVars, Idle
  <2>4. ASSUME NEW w \in Deciders, Decide(w) \/ DeciderStep(w) \/ AbortDecide(w) \/ AbortHandle(w)
        PROVE  None'
    <3>1. handling[w] # Idle =>
            handling[w].rec \in Records /\ handling[w].outcome \in {"approved", "rejected"}
      BY <1>2 DEF Inv, LocalTypes, Callback
    <3> QED BY <2>1, <2>2, <2>4, <3>1
      DEF Decide, DeciderStep, HandleRead, HandleWrite, AbortDecide, AbortHandle, recordVars
  <2>5. ASSUME NEW r \in Records, Create(r) PROVE None'
    BY <2>2, <2>5 DEF Create
  <2>6. ASSUME NEW c \in Clerks, NEW r \in Records,
               \/ SubmitRead(c, r) \/ CancelRead(c, r) \/ ApplyRead(c, r)
               \/ AbortClerk(c)
        PROVE  None'
    BY <2>1, <2>6 DEF SubmitRead, CancelRead, ApplyRead, AbortClerk, recordVars
  <2>7. ASSUME NEW c \in Clerks, AbortClerk(c) PROVE None'
    BY <2>1, <2>7 DEF AbortClerk, recordVars
  <2>8. CASE UNCHANGED vars
    BY <2>1, <2>8 DEF vars, recordVars
  <2> QED BY <1>2, <2>3, <2>4, <2>5, <2>6, <2>7, <2>8 DEF Next, NextNoAbort
<1>3. Inv /\ None /\ [Next]_vars => None'
  BY <1>2
<1> QED BY <1>1, <1>3, SpecInv, PTL DEF Spec
=============================================================================
