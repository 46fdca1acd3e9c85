------------------------ MODULE ApprovalEngineProofs ------------------------
(***************************************************************************)
(* Proofs about the approval engine for every number of instances,         *)
(* concurrent requests and levels.                                         *)
(***************************************************************************)
EXTENDS ApprovalEngine, TLAPS

(* Nothing refers to an instance that was never created. *)
FreshRows ==
  \A i \in Instances : rows[i] = NoRow =>
    /\ notified[i] = <<>>
    /\ \A d \in decisions : d.inst # i
    /\ \A w \in Deciders : req[w] # Idle => req[w].inst # i

(* Only an approved instance has walked past its last level. *)
LevelInChain ==
  \A i \in Instances :
    rows[i] # NoRow /\ rows[i].status # "approved" => rows[i].level <= rows[i].len

(* A request that has read but not inserted holds a level the instance has *)
(* reached, possibly long ago.                                             *)
ReaderBehind ==
  \A w \in Deciders : req[w].pc = "insert" =>
    /\ rows[req[w].inst] # NoRow
    /\ req[w].level <= rows[req[w].inst].level
    /\ req[w].level <= rows[req[w].inst].len

ReaderPending ==
  \A w \in Deciders : req[w].pc = "insert" => req[w].status = "pending"

(* A request about to write holds exactly the successor of the row. *)
HoldsSuccessor(w) ==
  LET r == req[w]
      row == rows[req[w].inst]
  IN /\ row.status = "pending"
     /\ [inst |-> r.inst, level |-> row.level, action |-> r.action] \in decisions
     /\ \/ /\ r.action = "approved"
           /\ r.level = row.level + 1
           /\ r.status = IF r.level > row.len THEN "approved" ELSE "pending"
        \/ /\ r.action # "approved"
           /\ r.level = row.level
           /\ r.status = r.action

WriterCurrent ==
  \A w \in Deciders : req[w].pc = "update" => HoldsSuccessor(w)

WriterAlone ==
  \A v, w \in Deciders :
    req[v].pc = "update" /\ req[w].pc = "update" /\ req[v].inst = req[w].inst
      => v = w

(* A request about to run the callback is alone and the first to do so. *)
HoldsOutcome(w) ==
  /\ req[w].status \in Outcomes
  /\ rows[req[w].inst].status = req[w].status
  /\ notified[req[w].inst] = <<>>

CallerCurrent ==
  \A w \in Deciders : req[w].pc = "callback" => HoldsOutcome(w)

CallerAlone ==
  \A v, w \in Deciders :
    req[v].pc = "callback" /\ req[w].pc = "callback" /\ req[v].inst = req[w].inst
      => v = w

ToldOutcome ==
  \A i \in Instances :
    \/ notified[i] = <<>>
    \/ rows[i].status \in Outcomes /\ notified[i] = <<rows[i].status>>

IInv ==
  /\ Shapes
  /\ FreshRows
  /\ LevelInChain
  /\ ReaderBehind
  /\ ReaderPending
  /\ WriterCurrent
  /\ WriterAlone
  /\ CallerCurrent
  /\ CallerAlone
  /\ ToldOutcome
  /\ AuditTrail

-----------------------------------------------------------------------------
(* What Decide computes in memory: the request moves on to its UPDATE with *)
(* the successor of the row it read and keeps its identity.                *)
LEMMA AdvancedShape ==
  ASSUME NEW r \in Request, r.level \in 1..MaxLevels, r.status = "pending"
  PROVE  /\ Advanced(r) \in Request
         /\ Advanced(r).pc = "update"
         /\ Advanced(r).inst = r.inst
         /\ Advanced(r).action = r.action
         /\ r.action # "approved" =>
              Advanced(r).level = r.level /\ Advanced(r).status = r.action
         /\ r.action = "approved" =>
              /\ Advanced(r).level = r.level + 1
              /\ Advanced(r).status = IF Advanced(r).level > rows[r.inst].len
                                        THEN "approved" ELSE "pending"
<1> USE MaxLevelsAssumption DEF Request, Statuses, Verdicts, Outcomes
<1>1. CASE r.action = "approved"
  <2> DEFINE done == r.level + 1 > rows[r.inst].len
             next == IF done THEN "approved" ELSE "pending"
  <2>1. Advanced(r) = [pc |-> "update", inst |-> r.inst, action |-> r.action,
                       level |-> r.level + 1, status |-> next]
    BY <1>1 DEF Advanced
  <2>2. r.level + 1 \in 1..MaxLevels + 1 /\ next \in Statuses
    OBVIOUS
  <2> HIDE DEF next
  <2>3. Advanced(r) \in Request
    BY <2>1, <2>2
  <2> USE DEF next
  <2>4. QED
    BY <1>1, <2>1, <2>3
<1>2. CASE r.action # "approved"
  <2>1. Advanced(r) = [pc |-> "update", inst |-> r.inst, action |-> r.action,
                       level |-> r.level, status |-> r.action]
    BY <1>2 DEF Advanced
  <2>2. QED
    BY <1>2, <2>1
<1>3. QED
  BY <1>1, <1>2

(* A row is its three columns. *)
LEMMA RowEqual ==
  ASSUME NEW u \in Row, NEW v \in Row,
         u.status = v.status, u.level = v.level, u.len = v.len
  PROVE  u = v
BY DEF Row

(* UpdateInstance writes the two columns it names and keeps the snapshot. *)
LEMMA RowReplaced ==
  ASSUME NEW x \in Row, NEW s \in Statuses, NEW l \in 1..MaxLevels + 1
  PROVE  [x EXCEPT !.level = l, !.status = s]
           = [status |-> s, level |-> l, len |-> x.len]
<1> DEFINE z == [x EXCEPT !.level = l, !.status = s]
           new == [status |-> s, level |-> l, len |-> x.len]
<1>1. z.status = s /\ z.level = l /\ z.len = x.len /\ z \in Row
  BY DEF Row
<1>2. new \in Row
  BY DEF Row
<1> HIDE DEF z
<1>3. z = new
  BY <1>1, <1>2, RowEqual
<1>4. QED
  BY <1>3 DEF z

(* The initial state has no instance, no decision and no request. *)
LEMMA InitInvariant == Init => IInv
<1> SUFFICES ASSUME Init PROVE IInv
  OBVIOUS
<1> USE DEF Init
<1>1. Shapes
  BY DEF Shapes
<1>2. \A w \in Deciders : req[w] = Idle /\ req[w].pc = "idle"
  BY DEF Idle
<1>3. \A i \in Instances : rows[i] = NoRow /\ notified[i] = <<>>
  OBVIOUS
<1>4. QED
  BY <1>1, <1>2, <1>3
  DEF IInv, FreshRows, LevelInChain, ReaderBehind, ReaderPending, WriterCurrent, WriterAlone,
      CallerCurrent, HoldsOutcome, CallerAlone, ToldOutcome, AuditTrail, Explained

(* Creating an instance on a free identifier disturbs nobody. *)
LEMMA CreateKeeps ==
  ASSUME IInv, NEW i \in Instances, NEW n \in 1..MaxLevels, CreateInstance(i, n)
  PROVE  IInv'
<1> DEFINE new == [status |-> "pending", level |-> 1, len |-> n]
<1> USE DEF IInv
<1>1. /\ rows[i] = NoRow
      /\ rows' = [rows EXCEPT ![i] = new]
      /\ decisions' = decisions /\ notified' = notified /\ req' = req
  BY DEF CreateInstance
<1>2. new \in Row /\ new # NoRow
  BY MaxLevelsAssumption DEF Row, Statuses, Verdicts, Outcomes, NoRow
<1>3. /\ \A j \in Instances : rows'[j] = IF j = i THEN new ELSE rows[j]
      /\ rows' \in [Instances -> Row \cup {NoRow}]
  BY <1>1, <1>2 DEF Shapes
<1>4. /\ notified[i] = <<>>
      /\ \A d \in decisions : d.inst # i
      /\ \A w \in Deciders : req[w] # Idle => req[w].inst # i
  BY <1>1 DEF FreshRows
<1>5. \A w \in Deciders :
        req[w].pc \in {"insert", "update", "callback"} =>
          req[w] # Idle /\ req[w].inst \in Instances /\ req[w].inst # i
  BY <1>4 DEF Shapes, Idle, Request
<1>6. Shapes'
  BY <1>1, <1>3 DEF Shapes
<1>7. FreshRows'
  BY <1>1, <1>2, <1>3 DEF FreshRows
<1>8. LevelInChain'
  BY <1>3 DEF LevelInChain
<1>9. ReaderBehind' /\ ReaderPending'
  BY <1>1, <1>3, <1>5 DEF ReaderBehind, ReaderPending
<1>10. WriterCurrent' /\ WriterAlone'
  BY <1>1, <1>3, <1>5 DEF WriterCurrent, HoldsSuccessor, WriterAlone
<1>11. CallerCurrent' /\ CallerAlone'
  BY <1>1, <1>3, <1>5 DEF CallerCurrent, HoldsOutcome, CallerAlone
<1>12. ToldOutcome'
  BY <1>1, <1>3, <1>4 DEF ToldOutcome
<1>13. AuditTrail'
  BY <1>1, <1>3, <1>4 DEF AuditTrail, Explained
<1>14. QED
  BY <1>6, <1>7, <1>8, <1>9, <1>10, <1>11, <1>12, <1>13

(* Reading changes nothing but the reader. *)
LEMMA ReadKeeps ==
  ASSUME IInv, NEW w \in Deciders, NEW i \in Instances, NEW a \in Verdicts,
         DecideRead(w, i, a)
  PROVE  IInv'
<1> DEFINE new == [pc |-> "insert", inst |-> i, action |-> a,
                   level |-> rows[i].level, status |-> "pending"]
<1> USE DEF IInv
<1>1. /\ req[w] = Idle /\ rows[i].status = "pending"
      /\ req' = [req EXCEPT ![w] = new]
      /\ rows' = rows /\ decisions' = decisions /\ notified' = notified
  BY DEF DecideRead
<1>2. rows[i] # NoRow /\ rows[i] \in Row
  BY <1>1 DEF Shapes, NoRow
<1>3. new \in Request /\ new # Idle
  BY <1>2 DEF Request, Row, Idle, Statuses
<1>4. /\ \A v \in Deciders : req'[v] = IF v = w THEN new ELSE req[v]
      /\ req' \in [Deciders -> Request \cup {Idle}]
  BY <1>1, <1>3 DEF Shapes
<1>5. Shapes'
  BY <1>1, <1>4 DEF Shapes
<1>6. FreshRows'
  BY <1>1, <1>2, <1>4 DEF FreshRows
<1>7. ReaderBehind' /\ ReaderPending'
  <2>1. rows[i].level <= rows[i].len
    BY <1>1, <1>2 DEF LevelInChain
  <2>2. rows[i].level <= rows[i].level
    BY <1>2 DEF Row
  <2>3. QED
    BY <1>1, <1>2, <1>4, <2>1, <2>2 DEF ReaderBehind, ReaderPending
<1>8. \A v \in Deciders :
        req'[v].pc \in {"update", "callback"} => v # w /\ req'[v] = req[v]
  BY <1>4
<1>9. WriterCurrent' /\ WriterAlone'
  BY <1>1, <1>8 DEF WriterCurrent, HoldsSuccessor, WriterAlone
<1>10. CallerCurrent' /\ CallerAlone'
  BY <1>1, <1>8 DEF CallerCurrent, HoldsOutcome, CallerAlone
<1>11. LevelInChain' /\ ToldOutcome' /\ AuditTrail'
  BY <1>1 DEF LevelInChain, ToldOutcome, AuditTrail, Explained
<1>12. QED
  BY <1>5, <1>6, <1>7, <1>9, <1>10, <1>11
(* A request that gives up, on a conflict or half-way, only forgets. *)
LEMMA GiveUpKeeps ==
  ASSUME IInv, NEW w \in Deciders, req' = [req EXCEPT ![w] = Idle],
         UNCHANGED <<rows, decisions, notified>>
  PROVE  IInv'
<1> USE DEF IInv
<1>1. rows' = rows /\ decisions' = decisions /\ notified' = notified
  OBVIOUS
<1>2. \A v \in Deciders : req'[v] = IF v = w THEN Idle ELSE req[v]
  BY DEF Shapes
<1>3. \A v \in Deciders :
        req'[v] # Idle \/ req'[v].pc \in {"insert", "update", "callback"} =>
          req'[v] = req[v]
  BY <1>2 DEF Idle
<1>4. Shapes'
  BY <1>1 DEF Shapes
<1>5. FreshRows' /\ ReaderBehind' /\ ReaderPending'
  BY <1>1, <1>3 DEF FreshRows, ReaderBehind, ReaderPending
<1>6. WriterCurrent' /\ WriterAlone'
  BY <1>1, <1>3 DEF WriterCurrent, HoldsSuccessor, WriterAlone
<1>7. CallerCurrent' /\ CallerAlone'
  BY <1>1, <1>3 DEF CallerCurrent, HoldsOutcome, CallerAlone
<1>8. LevelInChain' /\ ToldOutcome' /\ AuditTrail'
  BY <1>1 DEF LevelInChain, ToldOutcome, AuditTrail, Explained
<1>9. QED
  BY <1>4, <1>5, <1>6, <1>7, <1>8

(* The level a request managed to insert for is the instance's current     *)
(* one, the instance is still pending and nobody else is about to write it:*)
(* a free key (instance, level) proves the copy it read is not stale.      *)
LEMMA FreeKeyIsCurrent ==
  ASSUME IInv, NEW w \in Deciders, req[w].pc = "insert",
         ~ Taken(req[w].inst, req[w].level)
  PROVE  /\ req[w] \in Request
         /\ rows[req[w].inst] \in Row
         /\ rows[req[w].inst].status = "pending"
         /\ req[w].level = rows[req[w].inst].level
         /\ req[w].level <= rows[req[w].inst].len
         /\ \A v \in Deciders : req[v].pc = "update" => req[v].inst # req[w].inst
<1> DEFINE r == req[w]
           row == rows[req[w].inst]
<1> USE DEF IInv
<1>1. r \in Request
  BY DEF Shapes, Idle
<1>2. row \in Row /\ row # NoRow /\ r.level <= row.level /\ r.level <= row.len
  BY <1>1 DEF Shapes, ReaderBehind, Request
<1>3. r.level = row.level
  <2>1. SUFFICES ASSUME r.level < row.level PROVE FALSE
    BY <1>1, <1>2 DEF Row, Request
  <2>2. r.level \in 1..row.level - 1
    BY <1>1, <1>2, <2>1 DEF Row, Request
  <2>3. [inst |-> r.inst, level |-> r.level, action |-> "approved"] \in decisions
    BY <1>1, <1>2, <2>2 DEF AuditTrail, Explained, Request
  <2>4. QED
    BY <2>3 DEF Taken
<1>4. row.status = "pending"
  <2>1. row.status # "approved"
    <3>1. SUFFICES ASSUME row.status = "approved" PROVE FALSE
      OBVIOUS
    <3>2. row.level = row.len + 1
      BY <1>1, <1>2, <3>1 DEF AuditTrail, Explained, Request
    <3>3. QED
      BY <1>2, <1>3, <3>2 DEF Row
  <2>2. row.status \notin {"rejected", "cancelled"}
    <3>1. SUFFICES ASSUME row.status \in {"rejected", "cancelled"} PROVE FALSE
      OBVIOUS
    <3>2. [inst |-> r.inst, level |-> row.level, action |-> row.status] \in decisions
      BY <1>1, <1>2, <3>1 DEF AuditTrail, Explained, Request
    <3>3. QED
      BY <1>3, <3>2 DEF Taken
  <2>3. QED
    BY <1>2, <2>1, <2>2 DEF Row, Statuses, Verdicts, Outcomes
<1>5. ASSUME NEW v \in Deciders, req[v].pc = "update", req[v].inst = r.inst
      PROVE  FALSE
  <2>1. [inst |-> r.inst, level |-> row.level, action |-> req[v].action] \in decisions
    BY <1>5 DEF WriterCurrent, HoldsSuccessor
  <2>2. QED
    BY <1>3, <2>1 DEF Taken
<1>6. QED
  BY <1>1, <1>2, <1>3, <1>4, <1>5

(* Inserting a decision makes the request the instance's only writer. *)
LEMMA InsertKeeps ==
  ASSUME IInv, NEW w \in Deciders, DecideInsert(w)
  PROVE  IInv'
<1> DEFINE r == req[w]
           i == req[w].inst
           row == rows[req[w].inst]
           d == [inst |-> req[w].inst, level |-> req[w].level, action |-> req[w].action]
<1> USE DEF IInv
<1>1. /\ r.pc = "insert"
      /\ ~ Taken(i, r.level)
      /\ decisions' = decisions \cup {d}
      /\ req' = [req EXCEPT ![w] = Advanced(r)]
      /\ rows' = rows /\ notified' = notified
  BY DEF DecideInsert
<1>2. /\ r \in Request /\ i \in Instances
      /\ row \in Row /\ row # NoRow
      /\ row.status = "pending"
      /\ r.level = row.level
      /\ r.level <= row.len
      /\ \A v \in Deciders : req[v].pc = "update" => req[v].inst # i
  BY <1>1, FreeKeyIsCurrent DEF Request, Row, NoRow, Statuses, Verdicts, Outcomes
<1>3. r.status = "pending"
  BY <1>1 DEF ReaderPending
<1>4. /\ Advanced(r) \in Request
      /\ Advanced(r).pc = "update"
      /\ Advanced(r).inst = i
      /\ Advanced(r).action = r.action
      /\ r.action # "approved" =>
           Advanced(r).level = r.level /\ Advanced(r).status = r.action
      /\ r.action = "approved" =>
           /\ Advanced(r).level = r.level + 1
           /\ Advanced(r).status = IF Advanced(r).level > row.len
                                     THEN "approved" ELSE "pending"
  <2>1. r.level \in 1..MaxLevels
    BY <1>2, MaxLevelsAssumption DEF Request, Row
  <2>2. QED
    BY <1>2, <1>3, <2>1, AdvancedShape
<1>5. /\ \A v \in Deciders : req'[v] = IF v = w THEN Advanced(r) ELSE req[v]
      /\ req' \in [Deciders -> Request \cup {Idle}]
  BY <1>1, <1>4 DEF Shapes
<1>6. d \in Decision /\ d \in decisions'
  BY <1>1, <1>2 DEF Decision, Request
<1>7. Shapes'
  BY <1>1, <1>5, <1>6 DEF Shapes
<1>8. FreshRows'
  BY <1>1, <1>2, <1>4, <1>5 DEF FreshRows
<1>9. LevelInChain' /\ ToldOutcome'
  BY <1>1 DEF LevelInChain, ToldOutcome
<1>10. ReaderBehind' /\ ReaderPending'
  BY <1>1, <1>4, <1>5 DEF ReaderBehind, ReaderPending
<1>11. WriterCurrent'
  <2>1. SUFFICES ASSUME NEW v \in Deciders, req'[v].pc = "update"
                 PROVE  HoldsSuccessor(v)'
    BY DEF WriterCurrent
  <2>2. CASE v = w
    BY <1>1, <1>2, <1>4, <1>5, <1>6, <2>2 DEF HoldsSuccessor
  <2>3. CASE v # w
    BY <1>1, <1>5, <2>1, <2>3 DEF WriterCurrent, HoldsSuccessor
  <2>4. QED
    BY <2>2, <2>3
<1>12. WriterAlone'
  BY <1>2, <1>4, <1>5 DEF WriterAlone
<1>13. CallerCurrent' /\ CallerAlone'
  BY <1>1, <1>4, <1>5 DEF CallerCurrent, HoldsOutcome, CallerAlone
<1>14. AuditTrail'
  BY <1>1, <1>2 DEF AuditTrail, Explained, Row, Request
<1>15. QED
  BY <1>7, <1>8, <1>9, <1>10, <1>11, <1>12, <1>13, <1>14
(* The writer replaces the row by its successor; nobody else held one. *)
LEMMA UpdateKeeps ==
  ASSUME IInv, NEW w \in Deciders, DecideUpdate(w)
  PROVE  IInv'
<1> DEFINE r == req[w]
           i == req[w].inst
           row == rows[req[w].inst]
           new == [status |-> req[w].status, level |-> req[w].level,
                   len |-> rows[req[w].inst].len]
<1> USE DEF IInv
<1>1. /\ r.pc = "update"
      /\ rows' = [rows EXCEPT ![i].level = r.level, ![i].status = r.status]
      /\ req' = [req EXCEPT ![w] = AfterUpdate(r)]
      /\ decisions' = decisions /\ notified' = notified
  BY DEF DecideUpdate
<1>2. r \in Request /\ i \in Instances
  BY <1>1 DEF Shapes, Idle, Request
<1>3. HoldsSuccessor(w)
  BY <1>1 DEF WriterCurrent
<1>4. row \in Row /\ row # NoRow
  BY <1>2, <1>3 DEF Shapes, HoldsSuccessor, NoRow
<1>5. row.level <= row.len
  BY <1>2, <1>3, <1>4 DEF LevelInChain, HoldsSuccessor
<1>6. new \in Row /\ new # NoRow
  BY <1>2, <1>4 DEF Row, Request, NoRow, Statuses, Verdicts, Outcomes
<1>7. /\ \A j \in Instances : rows'[j] = IF j = i THEN new ELSE rows[j]
      /\ rows' \in [Instances -> Row \cup {NoRow}]
  <2> DEFINE changed == [row EXCEPT !.level = r.level, !.status = r.status]
  <2>2. changed = new
    BY <1>2, <1>4, RowReplaced DEF Request
  <2>3. rows' = [rows EXCEPT ![i] = changed]
    BY <1>1, <1>2 DEF Shapes
  <2>4. QED
    BY <1>2, <1>6, <2>2, <2>3 DEF Shapes
<1>8. /\ \A v \in Deciders : req'[v] = IF v = w THEN AfterUpdate(r) ELSE req[v]
      /\ req' \in [Deciders -> Request \cup {Idle}]
  BY <1>1, <1>2 DEF Shapes, AfterUpdate, Request
<1>9. /\ AfterUpdate(r).pc \notin {"insert", "update"}
      /\ AfterUpdate(r) # Idle => AfterUpdate(r).inst = i
      /\ AfterUpdate(r).pc = "callback" =>
           AfterUpdate(r).status = r.status /\ r.status \in Outcomes
  BY <1>2 DEF AfterUpdate, Request, Idle
<1>10. notified[i] = <<>>
  BY <1>2, <1>3 DEF ToldOutcome, HoldsSuccessor, Outcomes
<1>11. \A v \in Deciders : req[v].pc = "update" /\ v # w => req[v].inst # i
  BY <1>1 DEF WriterAlone
<1>12. \A v \in Deciders : req[v].pc = "callback" => req[v].inst # i
  BY <1>3 DEF CallerCurrent, HoldsOutcome, HoldsSuccessor, Outcomes
<1>13. \A v \in Deciders : req'[v].pc \in {"insert", "update"} =>
         v # w /\ req'[v] = req[v]
  BY <1>8, <1>9
<1>14. row.level <= new.level
  BY <1>2, <1>3, <1>4 DEF HoldsSuccessor, Row, Request
<1>15. Shapes'
  BY <1>1, <1>7, <1>8 DEF Shapes
<1>16. FreshRows'
  BY <1>1, <1>4, <1>6, <1>7, <1>8, <1>9 DEF FreshRows
<1>17. LevelInChain'
  BY <1>2, <1>3, <1>4, <1>5, <1>7 DEF LevelInChain, HoldsSuccessor, Row, Request
<1>18. ReaderBehind' /\ ReaderPending'
  <2>1. SUFFICES ASSUME NEW v \in Deciders, req'[v].pc = "insert"
                 PROVE  /\ rows'[req[v].inst] # NoRow
                        /\ req[v].level <= rows'[req[v].inst].level
                        /\ req[v].level <= rows'[req[v].inst].len
                        /\ req[v].status = "pending" /\ req'[v] = req[v]
    BY <1>13 DEF ReaderBehind, ReaderPending
  <2>2. req'[v] = req[v] /\ req[v].pc = "insert" /\ req[v] \in Request
    BY <1>13, <2>1 DEF Shapes, Idle
  <2>3. /\ rows[req[v].inst] # NoRow /\ req[v].status = "pending"
        /\ req[v].level <= rows[req[v].inst].level
        /\ req[v].level <= rows[req[v].inst].len
        /\ req[v].inst \in Instances
    BY <2>2 DEF ReaderBehind, ReaderPending, Request
  <2>4. CASE req[v].inst = i
    BY <1>2, <1>4, <1>6, <1>7, <1>14, <2>2, <2>3, <2>4 DEF Row, Request
  <2>5. CASE req[v].inst # i
    BY <1>7, <2>2, <2>3, <2>5
  <2>6. QED
    BY <2>4, <2>5
<1>19. WriterCurrent' /\ WriterAlone'
  <2>1. ASSUME NEW v \in Deciders, req'[v].pc = "update"
        PROVE  /\ v # w /\ req'[v] = req[v] /\ req[v].inst # i
               /\ req[v].inst \in Instances /\ rows'[req[v].inst] = rows[req[v].inst]
    BY <1>7, <1>11, <1>13, <2>1 DEF Shapes, Idle, Request
  <2>2. ASSUME NEW v \in Deciders, req'[v].pc = "update"
        PROVE  HoldsSuccessor(v)'
    <3>1. /\ HoldsSuccessor(v) /\ req'[v] = req[v] /\ decisions' = decisions
          /\ rows'[req[v].inst] = rows[req[v].inst]
      BY <1>1, <2>1, <2>2 DEF WriterCurrent
    <3>2. QED
      BY <3>1 DEF HoldsSuccessor
  <2>3. QED
    BY <2>1, <2>2 DEF WriterAlone, WriterCurrent
<1>20. CallerCurrent' /\ CallerAlone'
  <2>1. ASSUME NEW v \in Deciders, req'[v].pc = "callback", v # w
        PROVE  /\ req'[v] = req[v] /\ req[v].inst # i
               /\ req[v].inst \in Instances /\ rows'[req[v].inst] = rows[req[v].inst]
    BY <1>7, <1>8, <1>12, <2>1 DEF Shapes, Idle, Request
  <2>2. req'[w].pc = "callback" =>
          /\ req'[w].inst = i /\ req'[w].status = r.status /\ r.status \in Outcomes
          /\ rows'[i].status = r.status /\ notified'[i] = <<>>
    BY <1>1, <1>2, <1>7, <1>8, <1>9, <1>10 DEF Idle
  <2>3. ASSUME NEW v \in Deciders, req'[v].pc = "callback"
        PROVE  HoldsOutcome(v)'
    <3>1. CASE v = w
      BY <2>2, <2>3, <3>1 DEF HoldsOutcome
    <3>2. CASE v # w
      <4>1. HoldsOutcome(v) /\ req'[v] = req[v]
        BY <2>1, <2>3, <3>2 DEF CallerCurrent
      <4>2. QED
        BY <1>1, <2>1, <2>3, <3>2, <4>1 DEF HoldsOutcome
    <3>3. QED
      BY <3>1, <3>2
  <2>4. QED
    BY <2>1, <2>2, <2>3 DEF CallerAlone, CallerCurrent
<1>21. ToldOutcome'
  BY <1>1, <1>7, <1>10 DEF ToldOutcome
<1>22. AuditTrail'
  <2>1. Explained(i)
    BY <1>2, <1>4 DEF AuditTrail
  <2>2. /\ new.level = row.level \/ new.level = row.level + 1
        /\ [inst |-> i, level |-> row.level, action |-> r.action] \in decisions
        /\ new.level = row.level + 1 => r.action = "approved"
        /\ row.level \in Nat /\ row.len \in Nat
    BY <1>2, <1>3, <1>4 DEF HoldsSuccessor, Row
  <2>3. \A l \in 1..new.level - 1 :
          [inst |-> i, level |-> l, action |-> "approved"] \in decisions
    BY <2>1, <2>2 DEF Explained
  <2>4. new.status = "approved" => new.level = row.len + 1
    BY <1>2, <1>3, <1>4, <1>5 DEF HoldsSuccessor, Row, Request
  <2>5. new.status \in {"rejected", "cancelled"} =>
          [inst |-> i, level |-> new.level, action |-> new.status] \in decisions
    BY <1>2, <1>3, <1>4 DEF HoldsSuccessor, Row, Request
  <2>6. \A d \in decisions : d.inst = i => d.level <= new.level
    BY <2>1, <2>2 DEF Explained, Shapes, Decision
  <2>7. ASSUME NEW j \in Instances, j = i
        PROVE  Explained(j)'
    <3>1. rows'[j] = new /\ decisions' = decisions
      BY <1>1, <1>7, <2>7
    <3>2. QED
      BY <2>3, <2>4, <2>5, <2>6, <2>7, <3>1 DEF Explained
  <2>8. ASSUME NEW j \in Instances, j # i, rows'[j] # NoRow
        PROVE  Explained(j)'
    <3>1. rows'[j] = rows[j] /\ decisions' = decisions /\ Explained(j)
      BY <1>1, <1>7, <2>8 DEF AuditTrail
    <3>2. QED
      BY <3>1 DEF Explained
  <2>9. QED
    BY <2>7, <2>8 DEF AuditTrail
<1>23. QED
  BY <1>15, <1>16, <1>17, <1>18, <1>19, <1>20, <1>21, <1>22

(* The only caller of an instance runs its callback for the first time. *)
LEMMA NotifyKeeps ==
  ASSUME IInv, NEW w \in Deciders, Notify(w)
  PROVE  IInv'
<1> DEFINE r == req[w]
           i == req[w].inst
<1> USE DEF IInv
<1>1. /\ r.pc = "callback"
      /\ notified' = [notified EXCEPT ![i] = Append(@, r.status)]
      /\ req' = [req EXCEPT ![w] = Idle]
      /\ rows' = rows /\ decisions' = decisions
  BY DEF Notify
<1>2. r \in Request /\ i \in Instances
  BY <1>1 DEF Shapes, Idle, Request
<1>3. /\ r.status \in Outcomes /\ rows[i].status = r.status /\ notified[i] = <<>>
      /\ \A v \in Deciders : req[v].pc = "callback" /\ v # w => req[v].inst # i
  BY <1>1 DEF CallerCurrent, HoldsOutcome, CallerAlone
<1>4. /\ \A j \in Instances :
           notified'[j] = IF j = i THEN <<r.status>> ELSE notified[j]
      /\ notified' \in [Instances -> Seq(Outcomes)]
  BY <1>1, <1>2, <1>3 DEF Shapes
<1>5. \A v \in Deciders : req'[v] = IF v = w THEN Idle ELSE req[v]
  BY <1>1 DEF Shapes
<1>6. \A v \in Deciders :
        req'[v] # Idle \/ req'[v].pc \in {"insert", "update", "callback"} =>
          v # w /\ req'[v] = req[v]
  BY <1>5 DEF Idle
<1>7. rows[i] # NoRow
  BY <1>3 DEF NoRow, Outcomes
<1>8. Shapes'
  BY <1>1, <1>4 DEF Shapes
<1>9. FreshRows'
  BY <1>1, <1>4, <1>6, <1>7 DEF FreshRows
<1>10. ReaderBehind' /\ ReaderPending'
  BY <1>1, <1>6 DEF ReaderBehind, ReaderPending
<1>11. WriterCurrent' /\ WriterAlone'
  BY <1>1, <1>6 DEF WriterCurrent, HoldsSuccessor, WriterAlone
<1>12. CallerCurrent' /\ CallerAlone'
  <2>1. ASSUME NEW v \in Deciders, req'[v].pc = "callback"
        PROVE  /\ req'[v] = req[v] /\ req[v].inst \in Instances
               /\ notified'[req[v].inst] = notified[req[v].inst]
    BY <1>3, <1>4, <1>6, <2>1 DEF Shapes, Idle, Request
  <2>2. ASSUME NEW v \in Deciders, req'[v].pc = "callback"
        PROVE  HoldsOutcome(v)'
    <3>1. HoldsOutcome(v) /\ req'[v] = req[v]
      BY <2>1, <2>2 DEF CallerCurrent
    <3>2. QED
      BY <1>1, <2>1, <2>2, <3>1 DEF HoldsOutcome
  <2>3. QED
    BY <2>1, <2>2 DEF CallerCurrent, CallerAlone
<1>13. LevelInChain' /\ AuditTrail'
  BY <1>1 DEF LevelInChain, AuditTrail, Explained
<1>14. ToldOutcome'
  BY <1>1, <1>3, <1>4 DEF ToldOutcome
<1>15. QED
  BY <1>8, <1>9, <1>10, <1>11, <1>12, <1>13, <1>14
-----------------------------------------------------------------------------
LEMMA StepKeeps == IInv /\ [Next]_vars => IInv'
<1> SUFFICES ASSUME IInv, [Next]_vars PROVE IInv'
  OBVIOUS
<1>1. ASSUME NEW i \in Instances, NEW n \in 1..MaxLevels, CreateInstance(i, n)
      PROVE  IInv'
  BY <1>1, CreateKeeps
<1>2. ASSUME NEW w \in Deciders, NEW i \in Instances, NEW a \in Verdicts,
             DecideRead(w, i, a)
      PROVE  IInv'
  BY <1>2, ReadKeeps
<1>3. ASSUME NEW w \in Deciders, DecideInsert(w)
      PROVE  IInv'
  BY <1>3, InsertKeeps
<1>4. ASSUME NEW w \in Deciders, DecideConflict(w) \/ Abort(w)
      PROVE  IInv'
  BY <1>4, GiveUpKeeps DEF DecideConflict, Abort
<1>5. ASSUME NEW w \in Deciders, DecideUpdate(w)
      PROVE  IInv'
  BY <1>5, UpdateKeeps
<1>6. ASSUME NEW w \in Deciders, Notify(w)
      PROVE  IInv'
  BY <1>6, NotifyKeeps
<1>7. CASE UNCHANGED vars
  BY <1>7
  DEF vars, IInv, Shapes, FreshRows, LevelInChain, ReaderBehind, ReaderPending,
      WriterCurrent, HoldsSuccessor, WriterAlone, CallerCurrent, HoldsOutcome,
      CallerAlone, ToldOutcome, AuditTrail, Explained
<1>8. QED
  BY <1>1, <1>2, <1>3, <1>4, <1>5, <1>6, <1>7
  DEF Next, NextNoAbort, Create, Begin, Step

(* The inductive invariant holds in every reachable state of the engine. *)
THEOREM EngineInvariant == Spec => []IInv
<1>1. QED
  BY InitInvariant, StepKeeps, PTL DEF Spec

(* The longer the chain the longer the walk: what is not approved has not  *)
(* left the chain, and the decisions that approved the rest are all there. *)
LEMMA InvariantTypes ==
  ASSUME IInv PROVE TypeOK
<1>1. ASSUME NEW i \in Instances, rows[i] # NoRow PROVE InChain(rows[i])
  <2>1. rows[i] \in Row
    BY <1>1 DEF IInv, Shapes
  <2>2. CASE rows[i].status = "approved"
    <3>1. rows[i].level = rows[i].len + 1
      BY <1>1, <2>2 DEF IInv, AuditTrail, Explained
    <3> QED BY <2>1, <2>2, <3>1 DEF InChain, Row
  <2>3. CASE rows[i].status # "approved"
    <3>1. rows[i].level <= rows[i].len
      BY <1>1, <2>3 DEF IInv, LevelInChain
    <3> QED BY <2>1, <2>3, <3>1 DEF InChain, Row
  <2> QED BY <2>2, <2>3
<1>2. QED
  BY <1>1 DEF IInv, TypeOK

(* The tables and the requests keep their types (columns of the tables in  *)
(* migration 00024 and the locals of Decide), and an instance never leaves *)
(* its own chain but by being approved, to the level just past the last.   *)
THEOREM EngineTypes == Spec => []TypeOK
<1>1. QED
  BY InvariantTypes, EngineInvariant, PTL

(* Of all the requests deciding one instance at most one is between its    *)
(* INSERT and its UPDATE, and the row it read has not moved.               *)
THEOREM EngineSingleWriter == Spec => []SingleWriter
<1>1. ASSUME IInv PROVE SingleWriter
  <2>1. SUFFICES ASSUME NEW w \in Deciders, req[w].pc = "update"
                 PROVE  /\ rows[req[w].inst].status = "pending"
                        /\ Taken(req[w].inst, rows[req[w].inst].level)
                        /\ \A v \in Deciders \ {w} :
                             ~ (req[v].pc = "update" /\ req[v].inst = req[w].inst)
    BY DEF SingleWriter
  <2>2. HoldsSuccessor(w)
    BY <1>1, <2>1 DEF IInv, WriterCurrent
  <2>3. \A v \in Deciders \ {w} :
          ~ (req[v].pc = "update" /\ req[v].inst = req[w].inst)
    BY <1>1, <2>1 DEF IInv, WriterAlone
  <2>4. Taken(req[w].inst, rows[req[w].inst].level)
    BY <2>2 DEF HoldsSuccessor, Taken
  <2>5. QED
    BY <2>2, <2>3, <2>4 DEF HoldsSuccessor
<1>2. QED
  BY <1>1, EngineInvariant, PTL

(* The decision rows explain the state of every instance. *)
THEOREM EngineAuditTrail == Spec => []AuditTrail
<1>1. IInv => AuditTrail
  BY DEF IInv
<1>2. QED
  BY <1>1, EngineInvariant, PTL

(* A source module is told at most one outcome, the final one. *)
THEOREM EngineToldTheTruthOnce == Spec => []ToldTheTruthOnce
<1>1. IInv => ToldTheTruthOnce
  BY DEF IInv, ToldOutcome, ToldTheTruthOnce
<1>2. QED
  BY <1>1, EngineInvariant, PTL

(* Every step of the engine is a step of the abstract chain or invisible.  *)
LEMMA StepRefines == IInv /\ [Next]_vars => [Chain!Next]_<<rows, notified>>
<1> SUFFICES ASSUME IInv, [Next]_vars
             PROVE  Chain!Next \/ UNCHANGED <<rows, notified>>
  OBVIOUS
<1>1. ASSUME NEW i \in Instances, NEW n \in 1..MaxLevels, CreateInstance(i, n)
      PROVE  Chain!Next
  <2>1. Chain!Open(i, n)
    BY <1>1 DEF CreateInstance, Chain!Open, NoRow, Chain!NoRow
  <2>2. QED
    BY <2>1 DEF Chain!Next
<1>2. ASSUME NEW w \in Deciders, DecideUpdate(w)
      PROVE  Chain!Next
  <2> DEFINE r == req[w]
             i == req[w].inst
             row == rows[req[w].inst]
             new == [status |-> r.status, level |-> r.level, len |-> row.len]
  <2>1. /\ r.pc = "update" /\ notified' = notified
        /\ rows' = [rows EXCEPT ![i].level = r.level, ![i].status = r.status]
    BY <1>2 DEF DecideUpdate
  <2>2. r \in Request /\ i \in Instances /\ HoldsSuccessor(w)
    BY <2>1 DEF IInv, Shapes, WriterCurrent, Idle, Request
  <2>3. row \in Row
    BY <2>2 DEF IInv, Shapes, HoldsSuccessor, NoRow
  <2>4. rows' = [rows EXCEPT ![i] = new]
    <3> DEFINE changed == [row EXCEPT !.level = r.level, !.status = r.status]
    <3>1. changed = new
      BY <2>2, <2>3, RowReplaced DEF Request
    <3>2. rows' = [rows EXCEPT ![i] = changed]
      BY <2>1, <2>2 DEF IInv, Shapes
    <3>3. QED
      BY <3>1, <3>2
  <2>5. CASE r.action = "approved"
    <3> DEFINE verdict == IF row.level + 1 > row.len THEN "approved" ELSE "pending"
               next == [row EXCEPT !.level = row.level + 1, !.status = verdict]
    <3>1. r.level = row.level + 1 /\ r.status = verdict
      BY <2>2, <2>5 DEF HoldsSuccessor
    <3>2. next = new
      BY <2>2, <2>3, <3>1, RowReplaced DEF Request
    <3>3. rows' = [rows EXCEPT ![i] = next]
      BY <2>4, <3>2
    <3>4. Chain!Approve(i)
      BY <2>1, <2>2, <3>3 DEF Chain!Approve, HoldsSuccessor
    <3>5. QED
      BY <2>2, <3>4 DEF Chain!Next
  <2>6. CASE r.action # "approved"
    <3> DEFINE next == [row EXCEPT !.status = r.action]
    <3>1. /\ r.action \in {"rejected", "cancelled"}
          /\ r.level = row.level /\ r.status = r.action /\ row.status = "pending"
      BY <2>2, <2>6 DEF HoldsSuccessor, Request, Verdicts, Outcomes
    <3>2. next = new
      BY <2>3, <3>1 DEF Row
    <3>3. rows' = [rows EXCEPT ![i] = next]
      BY <2>4, <3>2
    <3>4. Chain!Stop(i, r.action)
      BY <2>1, <3>1, <3>3 DEF Chain!Stop
    <3>5. QED
      BY <2>2, <3>1, <3>4 DEF Chain!Next
  <2>7. QED
    BY <2>5, <2>6
<1>3. ASSUME NEW w \in Deciders, Notify(w)
      PROVE  Chain!Next
  <2>1. req[w].pc = "callback" /\ HoldsOutcome(w) /\ req[w].inst \in Instances
    BY <1>3 DEF Notify, IInv, Shapes, CallerCurrent, Idle, Request
  <2>2. Chain!Tell(req[w].inst)
    BY <1>3, <2>1
    DEF Notify, HoldsOutcome, Chain!Tell, Chain!Outcomes, Outcomes, IInv, Shapes
  <2>3. QED
    BY <2>1, <2>2 DEF Chain!Next
<1>4. ASSUME NEW w \in Deciders,
             Begin(w) \/ DecideInsert(w) \/ DecideConflict(w) \/ Abort(w)
      PROVE  UNCHANGED <<rows, notified>>
  BY <1>4 DEF Begin, DecideRead, DecideInsert, DecideConflict, Abort
<1>5. CASE UNCHANGED vars
  BY <1>5 DEF vars
<1>6. QED
  BY <1>1, <1>2, <1>3, <1>4, <1>5 DEF Next, NextNoAbort, Create, Step

(* The engine, with its stale reads and half-finished requests, implements *)
(* the chain whose verdicts are atomic.                                    *)
THEOREM EngineRefinesChain == Spec => ImplementsChain
<1>1. Init => Chain!Init
  BY DEF Init, Chain!Init, NoRow, Chain!NoRow
<1>2. QED
  BY <1>1, StepRefines, EngineInvariant, PTL DEF Spec, ImplementsChain, Chain!Spec

(* What has happened to an instance is never undone by a step. *)
LEMMA StepKeepsHistory ==
  ASSUME IInv, [Next]_vars, NEW i \in Instances
  PROVE  /\ rows[i].status \in Verdicts => rows'[i] = rows[i]
         /\ rows[i] # NoRow => rows'[i] # NoRow
         /\ notified[i] # <<>> => notified'[i] # <<>>
<1> SUFFICES ASSUME Chain!Next
             PROVE  /\ rows[i].status \in Verdicts => rows'[i] = rows[i]
                    /\ rows[i] # NoRow => rows'[i] # NoRow
                    /\ notified[i] # <<>> => notified'[i] # <<>>
  BY StepRefines
<1>1. PICK j \in Instances :
        \/ \E n \in 1..MaxLevels : Chain!Open(j, n)
        \/ Chain!Approve(j)
        \/ \E verdict \in {"rejected", "cancelled"} : Chain!Stop(j, verdict)
        \/ Chain!Tell(j)
  BY DEF Chain!Next
<1>2. rows \in [Instances -> Row \cup {NoRow}] /\ notified \in [Instances -> Seq(Outcomes)]
  BY DEF IInv, Shapes
<1>3. rows[i].status \in Verdicts => j # i \/ rows' = rows
  <2>1. SUFFICES ASSUME rows[i].status \in Verdicts
                 PROVE  j # i \/ rows' = rows
    OBVIOUS
  <2>2. rows[i].status # "none" /\ rows[i].status # "pending"
    BY <2>1 DEF Verdicts, Outcomes
  <2>3. QED
    BY <1>1, <2>2
    DEF Chain!Open, Chain!Approve, Chain!Stop, Chain!Tell, Chain!NoRow
<1>4. j # i => rows'[i] = rows[i] /\ notified'[i] = notified[i]
  BY <1>1, <1>2 DEF Chain!Open, Chain!Approve, Chain!Stop, Chain!Tell
<1>5. j = i /\ rows[i] # NoRow => rows'[i] # NoRow
  BY <1>1, <1>2 DEF Chain!Open, Chain!Approve, Chain!Stop, Chain!Tell, Chain!NoRow, NoRow, Row
<1>6. j = i /\ notified[i] # <<>> => notified'[i] # <<>>
  BY <1>1, <1>2 DEF Chain!Open, Chain!Approve, Chain!Stop, Chain!Tell
<1>7. QED
  BY <1>3, <1>4, <1>5, <1>6

(* No request, however stale its copy, moves a completed instance. *)
THEOREM EngineCompletedIsFinal == Spec => CompletedIsFinal
<1>1. IInv /\ [Next]_vars =>
        [\A i \in Instances : rows[i].status \in Verdicts => rows'[i] = rows[i]]_vars
  BY StepKeepsHistory
<1>2. QED
  BY <1>1, EngineInvariant, PTL DEF Spec, CompletedIsFinal

-----------------------------------------------------------------------------
(* What is safety in the two liveness properties. While no request dies, a *)
(* decision ahead of its update and an outcome ahead of its callback each  *)
(* have a request that carries them.                                       *)
CarriesVerdict(w, i) == req[w].pc = "update" /\ req[w].inst = i
CarriesOutcome(w, i) == req[w].pc = "callback" /\ req[w].inst = i

DecidedAhead(i, l) == Taken(i, l) /\ rows[i].level = l /\ rows[i].status = "pending"
EndedUntold(i) == rows[i].status \in Outcomes /\ notified[i] = <<>>

VerdictsAreCarried ==
  \A i \in Instances : \A l \in Nat :
    DecidedAhead(i, l) => \E w \in Deciders : CarriesVerdict(w, i)

OutcomesAreCarried ==
  \A i \in Instances : EndedUntold(i) => \E w \in Deciders : CarriesOutcome(w, i)

NothingStranded == VerdictsAreCarried /\ OutcomesAreCarried

(* Weak fairness of Step(w) with its guard written out: a request that has *)
(* been read always has a statement to run, until it ends.                 *)
IsIdle(w) == req[w] = Idle
KeepsRunning(w) == []<>IsIdle(w) \/ []<><<Step(w)>>_vars

(* Request w is about to write its verdict over an instance on level l,    *)
(* the instance has left that level, its source was told.                  *)
AboutToMove(w, i, l) ==
  CarriesVerdict(w, i) /\ rows[i].level = l /\ rows[i].status = "pending"
Moved(i, l) == rows[i].level # l \/ rows[i].status # "pending"
Told(i) == notified[i] # <<>>

(* A request about to run the callback stays there until it has run it.    *)
LEMMA OutcomeIsToldStep ==
  ASSUME IInv, [NextNoAbort]_vars, NEW w \in Deciders, NEW i \in Instances,
         CarriesOutcome(w, i)
  PROVE  /\ ~ IsIdle(w)
         /\ CarriesOutcome(w, i)' \/ Told(i)'
         /\ Step(w) => Told(i)'
<1> USE DEF CarriesOutcome, Told, IsIdle
<1>1. req[w] # Idle
  BY DEF Idle
<1>2. Step(w) => Told(i)'
  BY DEF Step, DecideInsert, DecideConflict, DecideUpdate, Notify, IInv, Shapes
<1>3. req'[w] = req[w] \/ Step(w)
  BY <1>1 DEF NextNoAbort, Create, CreateInstance, Begin, DecideRead, Step,
              DecideInsert, DecideConflict, DecideUpdate, Notify, vars, IInv, Shapes
<1>4. QED
  BY <1>1, <1>2, <1>3

(* The row moves off a decided level only by its update, and the callback  *)
(* of an outcome only runs once the request that carries it gets there.    *)
LEMMA CarriedKeeps ==
  ASSUME IInv, NothingStranded, [NextNoAbort]_vars
  PROVE  NothingStranded'
<1> USE DEF CarriesVerdict, CarriesOutcome, DecidedAhead, EndedUntold, Taken
<1> USE DEF NothingStranded
<1>1. ASSUME NEW i \in Instances, NEW n \in 1..MaxLevels, CreateInstance(i, n)
      PROVE  NothingStranded'
  <2>1. /\ rows[i] = NoRow /\ notified' = notified
        /\ decisions' = decisions /\ req' = req
        /\ \A j \in Instances : j # i => rows'[j] = rows[j]
        /\ rows'[i].status = "pending"
        /\ \A d \in decisions : d.inst # i
    BY <1>1 DEF CreateInstance, IInv, Shapes, FreshRows
  <2>2. QED
    BY <2>1 DEF VerdictsAreCarried, OutcomesAreCarried, Outcomes
<1>2. ASSUME NEW w \in Deciders, NEW i \in Instances, NEW a \in Verdicts,
             DecideRead(w, i, a)
      PROVE  NothingStranded'
  <2>1. /\ rows' = rows /\ decisions' = decisions /\ notified' = notified
        /\ \A v \in Deciders : v # w => req'[v] = req[v]
        /\ req[w].pc = "idle"
    BY <1>2 DEF DecideRead, IInv, Shapes, Idle
  <2>2. QED
    BY <2>1 DEF VerdictsAreCarried, OutcomesAreCarried
<1>3. ASSUME NEW w \in Deciders, DecideInsert(w)
      PROVE  NothingStranded'
  <2>1. /\ rows' = rows /\ notified' = notified
        /\ req[w].pc = "insert"
        /\ decisions' = decisions \cup {[inst |-> req[w].inst, level |-> req[w].level,
                                         action |-> req[w].action]}
        /\ \A v \in Deciders : req'[v] = IF v = w THEN Advanced(req[w]) ELSE req[v]
    BY <1>3 DEF DecideInsert, IInv, Shapes
  <2>2. Advanced(req[w]).pc = "update" /\ Advanced(req[w]).inst = req[w].inst
    <3>1. /\ req[w] \in Request /\ req[w].level <= rows[req[w].inst].len
          /\ rows[req[w].inst] \in Row
      BY <1>3, <2>1, FreeKeyIsCurrent DEF DecideInsert
    <3>2. req[w].level \in 1..MaxLevels /\ req[w].status = "pending"
      BY <2>1, <3>1, MaxLevelsAssumption DEF Request, Row, IInv, ReaderPending
    <3>3. QED
      BY <3>1, <3>2, AdvancedShape
  <2>3. QED
    BY <2>1, <2>2 DEF VerdictsAreCarried, OutcomesAreCarried
<1>4. ASSUME NEW w \in Deciders, DecideConflict(w)
      PROVE  NothingStranded'
  <2>1. /\ rows' = rows /\ decisions' = decisions /\ notified' = notified
        /\ \A v \in Deciders : v # w => req'[v] = req[v]
        /\ req[w].pc = "insert"
    BY <1>4 DEF DecideConflict, IInv, Shapes
  <2>2. QED
    BY <2>1 DEF VerdictsAreCarried, OutcomesAreCarried
<1>5. ASSUME NEW w \in Deciders, DecideUpdate(w)
      PROVE  NothingStranded'
  <2> DEFINE r == req[w]
             k == req[w].inst
  <2>1. /\ r.pc = "update" /\ r \in Request /\ k \in Instances
        /\ HoldsSuccessor(w) /\ rows[k] \in Row /\ Explained(k)
    BY <1>5
    DEF DecideUpdate, IInv, Shapes, WriterCurrent, HoldsSuccessor, Idle, Request,
        NoRow, AuditTrail
  <2>2. /\ decisions' = decisions /\ notified' = notified
        /\ \A j \in Instances : j # k => rows'[j] = rows[j]
        /\ rows'[k].level = r.level /\ rows'[k].status = r.status
        /\ \A v \in Deciders : req'[v] = IF v = w THEN AfterUpdate(r) ELSE req[v]
    BY <1>5, <2>1 DEF DecideUpdate, IInv, Shapes, Row
  <2>3. r.status \in Outcomes => req'[w].pc = "callback" /\ req'[w].inst = k
    BY <2>1, <2>2 DEF AfterUpdate, Request, Idle
  <2>4. r.status = "pending" => r.level = rows[k].level + 1
    BY <2>1 DEF HoldsSuccessor, Request, Verdicts, Outcomes
  <2>5. \A d \in decisions : d.inst = k => d.level <= rows[k].level /\ d.level \in Nat
    BY <2>1 DEF Explained, IInv, Shapes, Decision
  <2>6. rows[k].level \in Nat
    BY <2>1 DEF Row
  <2>7. VerdictsAreCarried'
    <3>1. SUFFICES ASSUME NEW j \in Instances, NEW l \in Nat, DecidedAhead(j, l)'
                   PROVE  \E v \in Deciders : CarriesVerdict(v, j)'
      BY DEF VerdictsAreCarried
    <3>2. j # k
      BY <2>2, <2>4, <2>5, <2>6, <3>1
    <3>3. PICK v \in Deciders : CarriesVerdict(v, j)
      BY <2>2, <3>1, <3>2 DEF VerdictsAreCarried
    <3>4. QED
      BY <2>2, <3>2, <3>3
  <2>8. OutcomesAreCarried'
    <3>1. SUFFICES ASSUME NEW j \in Instances, EndedUntold(j)'
                   PROVE  \E v \in Deciders : CarriesOutcome(v, j)'
      BY DEF OutcomesAreCarried
    <3>2. CASE j = k
      <4>1. r.status \in Outcomes
        BY <2>2, <3>1, <3>2
      <4>2. QED
        BY <2>3, <3>2, <4>1
    <3>3. CASE j # k
      <4>1. PICK v \in Deciders : CarriesOutcome(v, j)
        BY <2>2, <3>1, <3>3 DEF OutcomesAreCarried
      <4>2. QED
        BY <2>2, <3>3, <4>1
    <3>4. QED
      BY <3>2, <3>3
  <2>9. QED
    BY <2>7, <2>8
<1>6. ASSUME NEW w \in Deciders, Notify(w)
      PROVE  NothingStranded'
  <2> DEFINE k == req[w].inst
  <2>1. /\ rows' = rows /\ decisions' = decisions
        /\ k \in Instances /\ req[w].pc = "callback"
        /\ \A j \in Instances : j # k => notified'[j] = notified[j]
        /\ notified'[k] = Append(notified[k], req[w].status)
        /\ \A v \in Deciders : v # w => req'[v] = req[v]
    BY <1>6 DEF Notify, IInv, Shapes, Request, Idle
  <2>2. notified'[k] # <<>>
    BY <1>6, OutcomeIsToldStep, <2>1 DEF Told, Step, NextNoAbort
  <2>3. QED
    BY <2>1, <2>2 DEF VerdictsAreCarried, OutcomesAreCarried
<1>7. CASE UNCHANGED vars
  BY <1>7 DEF vars, VerdictsAreCarried, OutcomesAreCarried
<1>8. QED
  BY <1>1, <1>2, <1>3, <1>4, <1>5, <1>6, <1>7 DEF NextNoAbort, Create, Begin, Step

(* A decision that is ahead of its instance and an outcome nobody was told *)
(* of are each in the hands of a request that has yet to run UpdateInstance*)
(* or the callback, so what DecisionTakesEffect and SourceIsTold still ask *)
(* for is that this request runs.                                          *)
THEOREM EngineNothingStranded == Init /\ [][NextNoAbort]_vars => []NothingStranded
<1>1. Init => IInv /\ NothingStranded
  <2>1. Init => NothingStranded
    BY DEF Init, NothingStranded, VerdictsAreCarried, OutcomesAreCarried,
           DecidedAhead, EndedUntold, NoRow, Outcomes
  <2>2. QED
    BY <2>1, InitInvariant
<1>2. IInv /\ NothingStranded /\ [NextNoAbort]_vars => (IInv /\ NothingStranded)'
  BY StepKeeps, CarriedKeeps DEF Next
<1>3. QED
  BY <1>1, <1>2, PTL

(* A request that holds a decision ahead of its instance keeps holding it  *)
(* until its own update has moved the instance off the level.              *)
LEMMA VerdictLandsStep ==
  ASSUME IInv, [NextNoAbort]_vars, NEW w \in Deciders, NEW i \in Instances, NEW l \in Nat,
         AboutToMove(w, i, l)
  PROVE  /\ ~ IsIdle(w)
         /\ AboutToMove(w, i, l)' \/ Moved(i, l)'
         /\ Step(w) => Moved(i, l)'
<1> USE DEF CarriesVerdict, AboutToMove, Moved, IsIdle
<1>1. HoldsSuccessor(w) /\ req[w] \in Request /\ req[w] # Idle
  BY DEF IInv, WriterCurrent, Shapes, Idle
<1>2. Step(w) => Moved(i, l)'
  <2>1. SUFFICES ASSUME DecideUpdate(w)
                 PROVE  Moved(i, l)'
    BY DEF Step, DecideInsert, DecideConflict, Notify
  <2>2. rows[i] \in Row
    BY DEF IInv, Shapes, NoRow
  <2>3. rows'[i].level = req[w].level /\ rows'[i].status = req[w].status
    BY <2>1, <2>2 DEF DecideUpdate, IInv, Shapes, Row
  <2>4. QED
    BY <1>1, <2>2, <2>3 DEF HoldsSuccessor, Request, Row, Verdicts, Outcomes
<1>3. req'[w] = req[w] \/ Step(w)
  BY <1>1 DEF NextNoAbort, Create, CreateInstance, Begin, DecideRead, Step,
              DecideInsert, DecideConflict, DecideUpdate, Notify, vars, IInv, Shapes
<1>4. QED
  BY <1>1, <1>2, <1>3

(* Any verdict in the hands of a request takes effect when that request    *)
(* keeps running: with EngineNothingStranded, every decision recorded for  *)
(* the level an instance stands on moves it off that level.                *)
THEOREM EngineVerdictLands ==
  ASSUME NEW w \in Deciders, NEW i \in Instances, NEW l \in Nat
  PROVE  Init /\ [][NextNoAbort]_vars /\ KeepsRunning(w)
           => (AboutToMove(w, i, l) ~> Moved(i, l))
<1>1. Init => IInv
  BY InitInvariant
<1>2. IInv /\ [NextNoAbort]_vars => IInv'
  BY StepKeeps DEF Next
<1>3. IInv /\ AboutToMove(w, i, l) /\ [NextNoAbort]_vars
        => ~ IsIdle(w) /\ (AboutToMove(w, i, l)' \/ Moved(i, l)')
  BY VerdictLandsStep
<1>4. IInv /\ AboutToMove(w, i, l) /\ [NextNoAbort]_vars /\ <<Step(w)>>_vars
        => Moved(i, l)'
  BY VerdictLandsStep
<1>5. QED
  BY <1>1, <1>2, <1>3, <1>4, PTL DEF KeepsRunning

(* An outcome in the hands of a request reaches the source module when     *)
(* that request keeps running.                                             *)
THEOREM EngineOutcomeIsTold ==
  ASSUME NEW w \in Deciders, NEW i \in Instances
  PROVE  Init /\ [][NextNoAbort]_vars /\ KeepsRunning(w)
           => (CarriesOutcome(w, i) ~> Told(i))
<1>1. Init => IInv
  BY InitInvariant
<1>2. IInv /\ [NextNoAbort]_vars => IInv'
  BY StepKeeps DEF Next
<1>3. IInv /\ CarriesOutcome(w, i) /\ [NextNoAbort]_vars
        => ~ IsIdle(w) /\ (CarriesOutcome(w, i)' \/ Told(i)')
  BY OutcomeIsToldStep
<1>4. IInv /\ CarriesOutcome(w, i) /\ [NextNoAbort]_vars /\ <<Step(w)>>_vars
        => Told(i)'
  BY OutcomeIsToldStep
<1>5. QED
  BY <1>1, <1>2, <1>3, <1>4, PTL DEF KeepsRunning
=============================================================================
