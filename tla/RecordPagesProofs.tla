-------------------------- MODULE RecordPagesProofs -------------------------
(***************************************************************************)
(* Proofs about RecordPages, for any tables that meet its assumptions, any *)
(* number of calls in flight and any bound on the copies shown.            *)
(*                                                                         *)
(* The inductive invariant, Whole, has four parts. Inv: while nothing is   *)
(* in doubt a call is alone and what it was granted still stands. Typed:   *)
(* the types, with what each phase of a call carries. Current: while       *)
(* nothing is in doubt the list tells the status of the record, or will    *)
(* once the call in flight ends, whichever way it ends. The fourth is what *)
(* the service refused, ButtonsAreHonoured, which needs the other three.   *)
(***************************************************************************)
EXTENDS RecordPages, TLAPS

(* A call is about a button of the page, and was filed on its form. *)
CallShape ==
  /\ call = [c \in Calls |-> call[c]]
  /\ \A c \in Calls : ~ Quiet(c) => call[c].op \in Operations
  /\ \A c \in Calls : call[c].phase = "sent" =>
       call[c].filed.order \in K.form.orders \cup {"after"}

(* What the service is about to write is allowed from the row as it is. *)
Allowed(c) ==
  LET p == K.api[call[c].op] IN
  /\ p \in DOMAIN K.rules /\ row \in DOMAIN K.rules[p]
  /\ call[c].writes \in K.rules[p][row]

(* As long as nothing is in doubt a call is alone, and what it has checked
   still stands when it writes. *)
Undoubted ==
  doubt = FALSE =>
    /\ \A c, d \in Calls : ~ Quiet(c) /\ ~ Quiet(d) => c = d
    /\ \A c \in Calls : call[c].phase = "checked" => Allowed(c)

Inv ==
  /\ kind \in DOMAIN Table /\ doubt \in BOOLEAN
  /\ CallShape /\ Undoubted
  /\ order \in InOrder

Stays == row' = row /\ order' = order /\ kind' = kind

(* A call's variable after a step that concerns call c alone. *)
LEMMA CallMoves ==
  ASSUME CallShape, NEW c \in Calls, NEW x, call' = [call EXCEPT ![c] = x]
  PROVE  /\ call' = [d \in Calls |-> call'[d]] /\ call'[c] = x
         /\ \A d \in Calls : d # c => call'[d] = call[d]
BY DEF CallShape

-----------------------------------------------------------------------------
(* A step of the query touches neither the row nor a call, and settles a doubt
   only when no call is under way. *)
LEMMA QueryKeeps ==
  ASSUME Inv, Refetch \/ Fetched \/ Loaded \/ FetchFails
  PROVE  Inv'
<1>1. /\ Stays /\ call' = call
      /\ doubt' \in BOOLEAN
      /\ doubt' = FALSE => doubt = FALSE \/ \A c \in Calls : Quiet(c)
  BY DEF Refetch, Fetched, Loaded, FetchFails, Stays, Inv
<1>2. CallShape'
  BY <1>1 DEF Stays, Inv, CallShape, Quiet, K, Operations
<1>3. Undoubted'
  BY <1>1 DEF Stays, Inv, Undoubted, Quiet, Allowed, K
<1> QED BY <1>1, <1>2, <1>3 DEF Inv, Stays

(* A button is pressed: alone, or in doubt from now on. *)
LEMMA PressKeeps ==
  ASSUME Inv, NEW c \in Calls, NEW o \in Operations, Press(c, o) \/ PressOptimistic(c, o)
  PROVE  Inv'
<1>1. PICK x : /\ call' = [call EXCEPT ![c] = x] /\ x.phase = "sent" /\ x.op = o
               /\ x.filed.order \in K.form.orders \cup {"after"}
  <2>1. CASE Press(c, o)
    <3>1. PICK v \in Filings \cup {Complete} :
            call' = [call EXCEPT ![c] = [phase |-> "sent", op |-> o, filed |-> v]]
      BY <2>1 DEF Press
    <3>2. v.order \in K.form.orders \cup {"after"}
      BY <3>1 DEF Filings, Complete
    <3> DEFINE x == [phase |-> "sent", op |-> o, filed |-> v]
    <3>3. x.phase = "sent" /\ x.op = o /\ x.filed = v /\ call' = [call EXCEPT ![c] = x]
      BY <3>1
    <3> HIDE DEF x
    <3> QED BY <3>2, <3>3
  <2>2. CASE PressOptimistic(c, o)
    <3>1. PICK w, was :
            call' = [call EXCEPT ![c] = [phase |-> "sent", op |-> o, filed |-> Complete,
                                         wants |-> w, was |-> was]]
      BY <2>2 DEF PressOptimistic
    <3> DEFINE x == [phase |-> "sent", op |-> o, filed |-> Complete,
                     wants |-> w, was |-> was]
    <3>2. /\ x.phase = "sent" /\ x.op = o /\ x.filed = Complete
          /\ call' = [call EXCEPT ![c] = x]
      BY <3>1
    <3>3. x.filed.order \in K.form.orders \cup {"after"}
      BY <3>2 DEF Complete
    <3> HIDE DEF x
    <3> QED BY <3>2, <3>3
  <2> QED BY <2>1, <2>2
<1>2. Stays /\ doubt' = (doubt \/ ~ NothingAsked)
  BY DEF Press, PressOptimistic, Stays
<1>3. /\ doubt' \in BOOLEAN
      /\ doubt' = FALSE => doubt = FALSE /\ \A d \in Calls : Quiet(d)
  BY <1>2 DEF NothingAsked, Inv
<1>4. CallShape'
  BY <1>1, <1>2, CallMoves DEF Stays, Inv, CallShape, Quiet, K, Operations
<1>5. Undoubted'
  BY <1>1, <1>3, CallMoves DEF Inv, Undoubted, Quiet
<1> QED BY <1>2, <1>3, <1>4, <1>5 DEF Inv, Stays

(* A call that passes the service's tests has its rule to go by, and a record
   that is stored has the dates its form and the service let through. *)
LEMMA VerdictAllows ==
  ASSUME Inv, NEW o \in Operations, NEW v, Verdict(o, v) = "none",
         v.order \in K.form.orders \cup {"after"}
  PROVE  /\ K.api[o] \in DOMAIN K.rules /\ row \in DOMAIN K.rules[K.api[o]]
         /\ v.order \in InOrder
<1>1. /\ K.api[o] \in DOMAIN K.routes /\ row \in DOMAIN K.rules[K.api[o]]
      /\ v.order \in K.checks.orders
  BY DEF Verdict
<1>2. K.api[o] \in DOMAIN K.rules
  BY <1>1, RulesAssumption DEF Inv, K, Operations
<1>3. v.order \in InOrder
  BY <1>1, OrdersAssumption DEF Inv, K, InOrder
<1> QED BY <1>1, <1>2, <1>3

LEMMA CheckKeeps ==
  ASSUME Inv, NEW c \in Calls, Check(c)
  PROVE  Inv'
<1> DEFINE o == call[c].op
           v == call[c].filed
<1>1. /\ call[c].phase = "sent" /\ ~ Quiet(c) /\ o \in Operations
      /\ v.order \in K.form.orders \cup {"after"}
  BY DEF Check, Inv, CallShape, Quiet
<1>2. row' = row /\ kind' = kind /\ doubt' = doubt
  BY DEF Check
<1>3. CASE Verdict(o, v) = "none"
  <2>1. /\ K.api[o] \in DOMAIN K.rules /\ row \in DOMAIN K.rules[K.api[o]]
        /\ v.order \in InOrder
    BY <1>1, <1>3, VerdictAllows
  <2>2. PICK s \in Writable(c) : \E x :
          /\ call' = [call EXCEPT ![c] = x]
          /\ x.phase = "checked" /\ x.op = o /\ x.writes = s
    BY <1>3 DEF Check
  <2>3. s \in K.rules[K.api[o]][row]
    BY <2>2 DEF Writable
  <2>4. order' \in InOrder
    BY <1>3, <2>1 DEF Check, Inv
  <2>5. CallShape'
    BY <1>1, <1>2, <2>2, CallMoves DEF Inv, CallShape, Quiet, K, Operations
  <2>6. Undoubted'
    <3>1. /\ call'[c].phase = "checked" /\ call'[c].op = o /\ call'[c].writes = s
          /\ \A d \in Calls \ {c} : call'[d] = call[d]
      BY <2>2, CallMoves DEF Inv
    <3>2. Allowed(c)'
      BY <1>2, <2>1, <2>3, <3>1 DEF Allowed, K
    <3>3. doubt = FALSE => \A d \in Calls \ {c} : call[d].phase = "idle"
      BY <1>1 DEF Inv, Undoubted, Quiet
    <3> QED BY <1>2, <3>1, <3>2, <3>3 DEF Undoubted, Quiet
  <2> QED BY <1>2, <2>4, <2>5, <2>6 DEF Inv
<1>4. CASE Verdict(o, v) # "none"
  <2>1. call' = [call EXCEPT ![c] = Idle] /\ order' = order
    BY <1>4 DEF Check
  <2>2. CallShape'
    BY <1>2, <2>1, CallMoves DEF Inv, CallShape, Quiet, K, Operations, Idle
  <2>3. Undoubted'
    BY <1>2, <2>1, CallMoves DEF Inv, Undoubted, Quiet, Allowed, K, Idle
  <2> QED BY <1>2, <2>1, <2>2, <2>3 DEF Inv
<1> QED BY <1>3, <1>4

(* Whoever writes while nothing is in doubt writes alone. *)
LEMMA WriteKeeps ==
  ASSUME Inv, NEW c \in Calls, Write(c)
  PROVE  Inv'
<1>1. PICK x : /\ call' = [call EXCEPT ![c] = x]
               /\ x.phase = "answered" /\ x.op = call[c].op
  <2>1. PICK was, answer :
          call' = [call EXCEPT ![c] = [phase |-> "answered", op |-> call[c].op,
                                       was |-> was, answer |-> answer]]
    BY DEF Write
  <2> DEFINE x == [phase |-> "answered", op |-> call[c].op, was |-> was, answer |-> answer]
  <2>2. x.phase = "answered" /\ x.op = call[c].op /\ call' = [call EXCEPT ![c] = x]
    BY <2>1
  <2> HIDE DEF x
  <2> QED BY <2>2
<1>2. /\ call[c].phase = "checked"
      /\ kind' = kind /\ order' = order /\ doubt' = doubt
  BY DEF Write
<1>3. CallShape'
  BY <1>1, <1>2, CallMoves DEF Inv, CallShape, Quiet, K, Operations
<1>4. Undoubted'
  BY <1>1, <1>2, CallMoves DEF Inv, Undoubted, Quiet
<1> QED BY <1>2, <1>3, <1>4 DEF Inv

LEMMA ElsewhereKeeps ==
  ASSUME Inv, NEW p \in DOMAIN K.rules, Elsewhere(p)
  PROVE  Inv'
<1>1. /\ kind' = kind /\ call' = call /\ doubt' = TRUE
      /\ order' \in {order, "after"}
  BY DEF Elsewhere
<1> QED BY <1>1 DEF Inv, CallShape, Undoubted, Quiet, K, Operations, InOrder

(* A call ends, one way or the other. *)
LEMMA EndsKeep ==
  ASSUME Inv, NEW c \in Calls, Answered(c) \/ Fails(c)
  PROVE  Inv'
<1>1. /\ Stays /\ call' = [call EXCEPT ![c] = Idle]
      /\ doubt' \in BOOLEAN
      /\ doubt' = FALSE =>
           doubt = FALSE \/ \A d \in Calls \ {c} : Quiet(d)
      /\ ~ Quiet(c)
  BY DEF Answered, Fails, Stays, Inv, Quiet
<1>2. CallShape'
  BY <1>1, CallMoves DEF Stays, Inv, CallShape, Quiet, K, Operations, Idle
<1>3. Undoubted'
  <2>1. doubt' = FALSE => \A d \in Calls \ {c} : Quiet(d)
    BY <1>1 DEF Inv, Undoubted
  <2>2. call'[c].phase = "idle" /\ \A d \in Calls \ {c} : call'[d] = call[d]
    BY <1>1, CallMoves DEF Inv, Idle
  <2> QED BY <2>1, <2>2 DEF Undoubted, Quiet
<1> QED BY <1>1, <1>2, <1>3 DEF Inv, Stays

LEMMA InitKeeps ==
  ASSUME Init PROVE Inv
BY DEF Init, Inv, CallShape, Undoubted, Quiet, Idle, InOrder

LEMMA NextKeeps ==
  ASSUME Inv, [Next]_vars PROVE Inv'
<1>1. CASE UNCHANGED vars
  BY <1>1 DEF vars, Inv, CallShape, Undoubted, Quiet, Allowed, K, Operations
<1>2. ASSUME NEW c \in Calls, NEW o \in Operations, Press(c, o) \/ PressOptimistic(c, o)
      PROVE  Inv'
  BY <1>2, PressKeeps
<1>3. ASSUME NEW c \in Calls, Check(c) \/ Write(c) \/ Answered(c) \/ Fails(c) PROVE Inv'
  BY <1>3, CheckKeeps, WriteKeeps, EndsKeep
<1>4. ASSUME NEW p \in DOMAIN K.rules, Elsewhere(p) PROVE Inv'
  BY <1>4, ElsewhereKeeps
<1> QED BY <1>1, <1>2, <1>3, <1>4, QueryKeeps DEF Next

(* What leaves a final status, but to delete the record, has been checked
   before somebody else came between. *)
LeavesFinalLate ==
  row \in K.ends.final /\ row' \notin {row, Gone}
    => doubt /\ \E c \in Calls : call[c].phase = "checked"

LEMMA StepRespectsFinal ==
  ASSUME Inv, [Next]_vars PROVE LeavesFinalLate
<1> SUFFICES ASSUME row \in K.ends.final, row' \notin {row, Gone}
             PROVE  doubt /\ \E c \in Calls : call[c].phase = "checked"
  BY DEF LeavesFinalLate
<1>1. ASSUME NEW p \in DOMAIN K.rules, Elsewhere(p) PROVE FALSE
  <2>1. /\ row \in DOMAIN K.rules[p]
        /\ row' = row \/ (Same \notin K.rules[p][row] /\ row' \in K.rules[p][row])
    BY <1>1 DEF Elsewhere
  <2>2. K.rules[p][row] \subseteq {row, Same, Gone}
    BY <2>1, FinalAssumption DEF Inv, K
  <2> QED BY <2>1, <2>2
<1>2. ASSUME NEW c \in Calls, Write(c) PROVE doubt /\ call[c].phase = "checked"
  <2>1. call[c].phase = "checked" /\ row' = Becomes(call[c].op, call[c].writes)
    BY <1>2 DEF Write
  <2>2. call[c].writes # Same /\ Lands(row, call[c].writes) \notin {row, Gone}
    BY <2>1 DEF Becomes
  <2>3. ASSUME Allowed(c) PROVE FALSE
    <3>1. call[c].writes \in {row, Gone}
      BY <2>2, <2>3, FinalAssumption DEF Inv, Allowed, K
    <3>2. Lands(row, call[c].writes) = call[c].writes
      BY <2>2, <2>3, MonthAssumption DEF Inv, Allowed, K
    <3> QED BY <2>2, <3>1, <3>2
  <2> QED BY <2>1, <2>3 DEF Inv, Undoubted
<1>3. CASE row' = row
  BY <1>3
<1>4. row' = row \/ (\E p \in DOMAIN K.rules : Elsewhere(p)) \/ (\E c \in Calls : Write(c))
  BY DEF Next, vars, Refetch, Fetched, Loaded, FetchFails, Press, PressOptimistic,
    Check, Answered, Fails
<1> QED BY <1>1, <1>2, <1>3, <1>4

-----------------------------------------------------------------------------
(* A cached list tells the status s of the record when a fetch would return
   the same; the list of leads may tell it several times. *)
Tells(k, q, s) ==
  IF k \in KnownCopies THEN Range(q) = Range(Listed(s)) ELSE q = Listed(s)

(* What a failed call leaves of the list q. *)
Restored(how, q, was) ==
  CASE how = "drag" -> was
    [] how = "inline" -> [j \in 1 .. Len(q) |-> was[1]]
    [] OTHER -> q

LEMMA ListedShape ==
  ASSUME NEW S, NEW s \in S
  PROVE  /\ Listed(s) \in Seq(S) /\ Len(Listed(s)) \in {0, 1}
         /\ s = Gone => Listed(s) = <<>> /\ Range(Listed(s)) = {}
         /\ s # Gone => Listed(s) = <<s>> /\ Range(Listed(s)) = {s}
<1>1. CASE s = Gone
  BY <1>1 DEF Listed, Range
<1>2. CASE s # Gone
  <2>1. Listed(s) = <<s>>
    BY <1>2 DEF Listed
  <2>2. Range(<<s>>) = {s}
    BY DEF Range
  <2> QED BY <1>2, <2>1, <2>2
<1> QED BY <1>1, <1>2

LEMMA TellsNothing ==
  ASSUME NEW S, Gone \in S, NEW q \in Seq(S), NEW k, Tells(k, q, Gone)
  PROVE  q = <<>>
<1>1. CASE k \in KnownCopies
  <2>1. Range(q) = {}
    BY <1>1, ListedShape DEF Tells
  <2>2. Len(q) \in Nat /\ DOMAIN q = 1 .. Len(q)
    OBVIOUS
  <2>3. ~ (1 \in 1 .. Len(q))
    BY <2>1, <2>2 DEF Range
  <2> QED BY <2>2, <2>3
<1>2. CASE k \notin KnownCopies
  BY <1>2, ListedShape DEF Tells
<1> QED BY <1>1, <1>2

LEMMA TellsOne ==
  ASSUME NEW S, NEW q \in Seq(S), NEW k, NEW s \in S, s # Gone, Tells(k, q, s)
  PROVE  /\ Len(q) \in Nat \ {0} /\ \A i \in 1 .. Len(q) : q[i] = s
         /\ k \notin KnownCopies => Len(q) = 1
<1>1. CASE k \in KnownCopies
  <2>1. Range(q) = {s}
    BY <1>1, ListedShape DEF Tells
  <2>2. \A i \in 1 .. Len(q) : q[i] = s
    BY <2>1 DEF Range
  <2>3. Len(q) # 0
    BY <2>1 DEF Range
  <2> QED BY <1>1, <2>2, <2>3
<1>2. CASE k \notin KnownCopies
  BY <1>2, ListedShape DEF Tells
<1> QED BY <1>1, <1>2

(* A list of copies of r tells r. *)
LEMMA TellsCopies ==
  ASSUME NEW S, NEW q \in Seq(S), NEW k, NEW r \in S, r # Gone,
         Len(q) # 0, k \notin KnownCopies => Len(q) = 1,
         \A i \in 1 .. Len(q) : q[i] = r
  PROVE  Tells(k, q, r)
<1>1. CASE k \in KnownCopies
  <2>1. Range(q) = {r}
    BY DEF Range
  <2> QED BY <1>1, <2>1, ListedShape DEF Tells
<1>2. CASE k \notin KnownCopies
  <2>1. Len(q) = 1 /\ q[1] = r
    BY <1>2
  <2>2. q = <<r>>
    BY <2>1
  <2> QED BY <1>2, <2>2, ListedShape DEF Tells
<1> QED BY <1>1, <1>2

LEMMA AllOver ==
  ASSUME NEW S, NEW q \in Seq(S), NEW r \in S
  PROVE  LET m == [i \in 1 .. Len(q) |-> r] IN
         m \in Seq(S) /\ Len(m) = Len(q) /\ \A i \in 1 .. Len(m) : m[i] = r
  OBVIOUS

(* Writing r over every copy makes the list tell r. *)
LEMMA OverwriteTells ==
  ASSUME NEW S, NEW q \in Seq(S), NEW k, NEW s \in S, s # Gone, Tells(k, q, s),
         NEW r \in S, r # Gone
  PROVE  Tells(k, [i \in 1 .. Len(q) |-> r], r)
<1>1. Len(q) # 0 /\ (k \notin KnownCopies => Len(q) = 1)
  BY TellsOne
<1>2. \A m \in Seq(S) : Len(m) = Len(q) /\ (\A i \in 1 .. Len(m) : m[i] = r) => Tells(k, m, r)
  BY <1>1, TellsCopies
<1> QED BY <1>2, AllOver

(* What the page does to its list when a call succeeds, on a list q. *)
LEMMA PatchTells ==
  ASSUME NEW S, Gone \in S, shown \in Seq(S), NEW k, NEW how \in Patches \ {"refetch"},
         NEW s \in S, NEW r \in S, Fits(k, how, s, r),
         how \notin Optimistic => Tells(k, shown, s),
         how \in Optimistic => \E w \in S : w # Gone /\ Tells(k, shown, w)
  PROVE  Tells(k, Patched(how, r), r)
<1> USE CallsAssumption
<1>1. CASE how = "add"
  <2>1. r # Gone /\ (s = Gone \/ (k \in KnownCopies /\ r = s)) /\ Tells(k, shown, s)
    BY <1>1 DEF Fits, Optimistic
  <2>2. CASE s = Gone
    <3>1. shown = <<>>
      BY <2>1, <2>2, TellsNothing
    <3>2. Patched(how, r) = <<r>>
      BY <1>1, <3>1 DEF Patched, Optimistic
    <3> QED BY <2>1, <3>2, ListedShape DEF Tells, Listed
  <2>3. CASE s # Gone
    <3>1. k \in KnownCopies /\ r = s
      BY <2>1, <2>3
    <3>2. /\ Len(shown) \in Nat \ {0}
          /\ \A i \in 1 .. Len(shown) : shown[i] = r
      BY <2>1, <2>3, <3>1, TellsOne
    <3>3. \/ Patched(how, r) = <<r>> \o shown
          \/ Patched(how, r) = shown
      BY <1>1 DEF Patched, Optimistic
    <3>4. CASE Patched(how, r) = <<r>> \o shown
      <4> DEFINE q == <<r>> \o shown
      <4>1. /\ q \in Seq(S) /\ Len(q) # 0
            /\ \A i \in 1 .. Len(q) : q[i] = r
        BY <3>2
      <4> HIDE DEF q
      <4>2. Tells(k, q, r)
        BY <2>1, <3>1, <4>1, TellsCopies
      <4> QED BY <3>4, <4>2 DEF q
    <3>5. CASE Patched(how, r) = shown
      BY <2>1, <3>1, <3>5
    <3> QED BY <3>3, <3>4, <3>5
  <2> QED BY <2>2, <2>3
<1>2. CASE how \in {"replace"} \cup Optimistic
  <2>1. s # Gone /\ r # Gone
    BY <1>2 DEF Fits, Optimistic
  <2>2. PICK w \in S : w # Gone /\ Tells(k, shown, w)
    BY <2>1
  <2>3. Tells(k, [i \in 1 .. Len(shown) |-> r], r)
    BY <2>1, <2>2, OverwriteTells
  <2>4. Patched(how, r) = [i \in 1 .. Len(shown) |-> r]
    BY <1>2 DEF Patched, Optimistic
  <2> QED BY <2>3, <2>4
<1>3. CASE how = "upsert"
  <2>1. r # Gone /\ Tells(k, shown, s)
    BY <1>3 DEF Fits, Optimistic
  <2>2. CASE s = Gone
    <3>1. shown = <<>>
      BY <2>1, <2>2, TellsNothing
    <3>2. Patched(how, r) = <<r>>
      BY <1>3, <3>1 DEF Patched, Optimistic
    <3> QED BY <2>1, <3>2, ListedShape DEF Tells, Listed
  <2>3. CASE s # Gone
    <3>1. shown # <<>>
      BY <2>1, <2>3, TellsOne
    <3>2. Patched(how, r) = [i \in 1 .. Len(shown) |-> r]
      BY <1>3, <3>1 DEF Patched, Optimistic
    <3>3. Tells(k, [i \in 1 .. Len(shown) |-> r], r)
      BY <2>1, <2>3, OverwriteTells
    <3> QED BY <3>2, <3>3
  <2> QED BY <2>2, <2>3
<1>4. CASE how = "drop"
  <2>1. r = Gone /\ Patched(how, r) = <<>>
    BY <1>4 DEF Fits, Patched, Optimistic
  <2> QED BY <2>1 DEF Tells, Listed
<1>5. CASE how = "none"
  BY <1>5 DEF Fits, Patched, Optimistic
<1> QED BY <1>1, <1>2, <1>3, <1>4, <1>5 DEF Patches

(* The list keeps its type and its bound. *)
Copies == {q \in Seq(Statuses) : Len(q) <= MaxShown}

LEMMA ListedTyped ==
  ASSUME NEW s \in Statuses PROVE Listed(s) \in Copies
<1>1. Listed(s) \in Seq(Statuses) /\ Len(Listed(s)) \in {0, 1}
  BY ListedShape
<1>2. \A n \in {0, 1} : n <= MaxShown
  BY CallsAssumption
<1> QED BY <1>1, <1>2 DEF Copies

LEMMA PatchedTyped ==
  ASSUME shown \in Copies, NEW how \in Patches, NEW r \in Statuses
  PROVE  Patched(how, r) \in Copies
<1> USE CallsAssumption
<1>1. shown \in Seq(Statuses) /\ Len(shown) \in Nat /\ Len(shown) <= MaxShown
  BY DEF Copies
<1>2. CASE how = "add"
  <2>1. CASE Len(shown) < MaxShown
    <3>1. <<r>> \o shown \in Seq(Statuses) /\ Len(<<r>> \o shown) = Len(shown) + 1
      BY <1>1
    <3> QED BY <1>1, <1>2, <2>1, <3>1 DEF Patched, Copies, Optimistic
  <2>2. CASE ~ (Len(shown) < MaxShown)
    BY <1>2, <2>2 DEF Patched, Optimistic
  <2> QED BY <2>1, <2>2
<1>3. [i \in 1 .. Len(shown) |-> r] \in Copies
  BY <1>1, AllOver DEF Copies
<1>4. CASE how \in {"replace"} \cup Optimistic
  BY <1>3, <1>4 DEF Patched, Optimistic
<1>5. CASE how = "upsert"
  <2>1. <<r>> \in Copies
    BY DEF Copies
  <2> QED BY <1>3, <1>5, <2>1 DEF Patched, Optimistic
<1>6. CASE how = "drop"
  <2>1. <<>> \in Copies
    BY DEF Copies
  <2> QED BY <1>6, <2>1 DEF Patched, Optimistic
<1>7. CASE how \in {"refetch", "none"}
  BY <1>7 DEF Patched, Optimistic
<1> QED BY <1>2, <1>4, <1>5, <1>6, <1>7 DEF Patches

LEMMA RestoredTyped ==
  ASSUME shown \in Copies, NEW how, NEW was,
         how \in Optimistic => was \in Copies,
         how = "inline" => Len(was) > 0
  PROVE  Restored(how, shown, was) \in Copies
<1>1. shown \in Seq(Statuses) /\ Len(shown) <= MaxShown
  BY DEF Copies
<1>2. CASE how = "drag"
  BY <1>2 DEF Restored, Optimistic
<1>3. CASE how = "inline"
  <2>1. was[1] \in Statuses
    BY <1>3 DEF Copies, Optimistic
  <2>2. [j \in 1 .. Len(shown) |-> was[1]] \in Copies
    BY <1>1, <2>1, AllOver DEF Copies
  <2> QED BY <1>3, <2>2 DEF Restored
<1>4. CASE how \notin {"drag", "inline"}
  BY <1>4 DEF Restored
<1> QED BY <1>2, <1>3, <1>4

-----------------------------------------------------------------------------
(* The types the variables keep, and what each step does to its call. *)
LEMMA SamePage ==
  ASSUME kind' = kind
  PROVE  /\ K' = K /\ Operations' = Operations
         /\ Statuses' = Statuses /\ Copies' = Copies
<1>1. K' = K
  BY DEF K
<1>2. Statuses' = Statuses
  BY DEF Statuses
<1> QED BY <1>1, <1>2 DEF Operations, Copies

(* A status a rule starts from, and one it leads to. *)
LEMMA RuledStatuses ==
  ASSUME kind \in DOMAIN Table, NEW p \in DOMAIN K.rules, NEW s \in DOMAIN K.rules[p]
  PROVE  s \in Statuses /\ K.rules[p][s] \subseteq Statuses \cup {Same}
<1> DEFINE R == {Table[kind].rules[q] : q \in DOMAIN Table[kind].rules}
           U == UNION {DOMAIN r \cup UNION {r[t] : t \in DOMAIN r} : r \in R}
<1>1. Statuses = U \ {Same}
  BY DEF Statuses, StatusesOf
<1>2. \A q \in DOMAIN K.rules : Same \notin DOMAIN K.rules[q]
  BY ShapeAssumption DEF K
<1>3. K.rules[p] \in R
  BY DEF K
<1> HIDE DEF R
<1>4. s \in U /\ \A t \in K.rules[p][s] : t \in U
  BY <1>3
<1> HIDE DEF U
<1>5. s # Same
  BY <1>2
<1> QED BY <1>1, <1>4, <1>5

LEMMA GoneIsStatus ==
  ASSUME kind \in DOMAIN Table PROVE Gone \in Statuses
<1>1. PICK p \in DOMAIN K.rules : Gone \in DOMAIN K.rules[p]
  BY ShapeAssumption DEF K
<1> QED BY <1>1, RuledStatuses

Optimism(c) == K.list[call[c].op] \in Optimistic

CallTyped(c) ==
  ~ Quiet(c) =>
    /\ call[c].phase \in {"sent", "checked", "answered"}
    /\ Holds(K.menu[call[c].op].perm)
    /\ Optimism(c) => call[c].was \in Copies
    /\ K.list[call[c].op] = "inline" => Len(call[c].was) > 0
    /\ call[c].phase = "checked" => call[c].writes \in Statuses \cup {Same}
    /\ call[c].phase = "answered" => call[c].answer \in Statuses

FetchTyped ==
  \/ fetch = Idle
  \/ fetch = [phase |-> "asked"]
  \/ \E s \in Statuses : fetch = [phase |-> "answered", found |-> Listed(s)]

Typed ==
  /\ Way[kind] \subseteq held /\ held \subseteq Permissions(kind)
  /\ row \in Statuses /\ shown \in Copies
  /\ FetchTyped
  /\ \A c \in Calls : CallTyped(c)

Signed == kind' = kind /\ held' = held

LEMMA CallStays ==
  ASSUME Signed, NEW c, CallTyped(c), call'[c] = call[c]
  PROVE  CallTyped(c)'
BY SamePage DEF Signed, CallTyped, Optimism, Quiet, Holds

(* What each step does to the call it is about. *)
LEMMA Pressed ==
  ASSUME Inv, NEW c \in Calls, NEW o \in Operations, Press(c, o)
  PROVE  /\ call'[c].phase = "sent" /\ call'[c].op = o
         /\ call'[c].filed \in Filings \cup {Complete}
         /\ \A d \in Calls \ {c} : call'[d] = call[d]
<1>1. PICK v \in Filings \cup {Complete} :
        call' = [call EXCEPT ![c] = [phase |-> "sent", op |-> o, filed |-> v]]
  BY DEF Press
<1> DEFINE x == [phase |-> "sent", op |-> o, filed |-> v]
<1>2. x.phase = "sent" /\ x.op = o /\ x.filed = v /\ call' = [call EXCEPT ![c] = x]
  BY <1>1
<1> HIDE DEF x
<1> QED BY <1>2, CallMoves DEF Inv

LEMMA PressedOptimistic ==
  ASSUME Inv, NEW c \in Calls, NEW o \in Operations, PressOptimistic(c, o)
  PROVE  \E i \in 1 .. Len(shown) : \E w \in K.rules[K.api[o]][shown[i]] :
           /\ shown[i] \in K.menu[o].at
           /\ shown' = [j \in 1 .. Len(shown) |-> w]
           /\ call'[c].phase = "sent" /\ call'[c].op = o /\ call'[c].filed = Complete
           /\ call'[c].was = IF K.list[o] = "drag" THEN shown ELSE <<shown[i]>>
           /\ \A d \in Calls \ {c} : call'[d] = call[d]
<1>1. PICK i \in 1 .. Len(shown) :
        /\ shown[i] \in K.menu[o].at
        /\ \E w \in K.rules[K.api[o]][shown[i]] \ {shown[i]} :
            /\ shown' = [j \in 1 .. Len(shown) |-> w]
            /\ call' = [call EXCEPT ![c] =
                 [phase |-> "sent", op |-> o, filed |-> Complete, wants |-> w, was |->
                    IF K.list[o] = "drag" THEN shown ELSE <<shown[i]>>]]
  BY DEF PressOptimistic
<1>2. PICK w \in K.rules[K.api[o]][shown[i]] \ {shown[i]} :
            /\ shown' = [j \in 1 .. Len(shown) |-> w]
            /\ call' = [call EXCEPT ![c] =
                 [phase |-> "sent", op |-> o, filed |-> Complete, wants |-> w, was |->
                    IF K.list[o] = "drag" THEN shown ELSE <<shown[i]>>]]
  BY <1>1
<1> DEFINE was == IF K.list[o] = "drag" THEN shown ELSE <<shown[i]>>
           x == [phase |-> "sent", op |-> o, filed |-> Complete, wants |-> w, was |-> was]
<1>3. /\ x.phase = "sent" /\ x.op = o /\ x.filed = Complete /\ x.was = was
      /\ call' = [call EXCEPT ![c] = x]
  BY <1>2
<1> HIDE DEF x
<1>4. call'[c] = x /\ \A d \in Calls \ {c} : call'[d] = call[d]
  BY <1>3, CallMoves DEF Inv
<1> QED BY <1>1, <1>2, <1>3, <1>4

LEMMA Checked ==
  ASSUME Inv, NEW c \in Calls, Check(c),
         call[c].op \in Operations => Verdict(call[c].op, call[c].filed) = "none"
  PROVE  /\ K.api[call[c].op] \in DOMAIN K.rules /\ row \in DOMAIN K.rules[K.api[call[c].op]]
         /\ call'[c].phase = "checked" /\ call'[c].op = call[c].op
         /\ call'[c].writes \in K.rules[K.api[call[c].op]][row]
         /\ Optimism(c) => call'[c].was = call[c].was
         /\ \A d \in Calls \ {c} : call'[d] = call[d]
<1>1. call[c].phase = "sent" /\ call[c].op \in Operations
  BY DEF Check, Inv, CallShape, Quiet
<1>2. /\ K.api[call[c].op] \in DOMAIN K.rules
      /\ row \in DOMAIN K.rules[K.api[call[c].op]]
  BY <1>1, VerdictAllows DEF Inv, CallShape
<1>3. PICK s \in Writable(c) :
         call' = [call EXCEPT ![c] = [phase |-> "checked", op |-> call[c].op, writes |-> s,
                    was |-> IF K.list[call[c].op] \in Optimistic THEN call[c].was ELSE <<>>]]
  BY <1>1 DEF Check
<1>4. s \in K.rules[K.api[call[c].op]][row]
  BY <1>3 DEF Writable
<1> DEFINE was == IF K.list[call[c].op] \in Optimistic THEN call[c].was ELSE <<>>
           x == [phase |-> "checked", op |-> call[c].op, writes |-> s, was |-> was]
<1>5. /\ x.phase = "checked" /\ x.op = call[c].op /\ x.writes = s /\ x.was = was
      /\ call' = [call EXCEPT ![c] = x]
  BY <1>3
<1> HIDE DEF x
<1>6. call'[c] = x /\ \A d \in Calls \ {c} : call'[d] = call[d]
  BY <1>5, CallMoves DEF Inv
<1> QED BY <1>2, <1>4, <1>5, <1>6 DEF Optimism

LEMMA Written ==
  ASSUME Inv, NEW c \in Calls, Write(c)
  PROVE  LET s == Becomes(call[c].op, call[c].writes) IN
         /\ call[c].phase = "checked" /\ row' = s
         /\ call'[c].phase = "answered" /\ call'[c].op = call[c].op
         /\ call'[c].was = call[c].was
         /\ call'[c].answer = IF call[c].writes = Same THEN s ELSE call[c].writes
         /\ \A d \in Calls \ {c} : call'[d] = call[d]
<1> DEFINE s == Becomes(call[c].op, call[c].writes)
           a == IF call[c].writes = Same THEN s ELSE call[c].writes
           x == [phase |-> "answered", op |-> call[c].op, was |-> call[c].was, answer |-> a]
<1> HIDE DEF s
<1>1. call[c].phase = "checked" /\ row' = s /\ call' = [call EXCEPT ![c] = x]
  BY DEF Write, s
<1>2. /\ x.phase = "answered" /\ x.op = call[c].op /\ x.was = call[c].was /\ x.answer = a
  OBVIOUS
<1> HIDE DEF x
<1>3. call'[c] = x /\ \A d \in Calls \ {c} : call'[d] = call[d]
  BY <1>1, CallMoves DEF Inv
<1> QED BY <1>1, <1>2, <1>3 DEF s

LEMMA Ended ==
  ASSUME Inv, NEW c \in Calls, call' = [call EXCEPT ![c] = Idle]
  PROVE  /\ call'[c].phase = "idle"
         /\ \A d \in Calls \ {c} : call'[d] = call[d]
BY CallMoves DEF Inv, Idle

LEMMA InitTyped == ASSUME Init PROVE Typed
<1>1. held \subseteq Permissions(kind) /\ Way[kind] \subseteq held
  BY DEF Init, Users, Permissions
<1>2. row \in Statuses
  BY GoneIsStatus DEF Init
<1>3. shown \in Copies
  BY CallsAssumption DEF Init, Copies
<1>4. FetchTyped /\ \A c \in Calls : CallTyped(c)
  BY DEF Init, FetchTyped, CallTyped, Quiet, Idle
<1> QED BY <1>1, <1>2, <1>3, <1>4 DEF Typed

(* What is left to show of a step that is about no more than one call. *)
LEMMA TypedStep ==
  ASSUME Inv, Typed, Signed, row' \in Statuses, shown' \in Copies,
         \/ fetch' \in {fetch, Idle, [phase |-> "asked"]}
         \/ fetch' = [phase |-> "answered", found |-> Listed(row)],
         \A c \in Calls : call'[c] = call[c] \/ CallTyped(c)'
  PROVE  Typed'
<1>1. \A c \in Calls : CallTyped(c)'
  BY CallStays DEF Typed
<1>2. FetchTyped'
  <2>1. CASE fetch' = fetch
    BY <2>1, SamePage DEF Typed, FetchTyped, Signed
  <2>2. CASE fetch' \in {Idle, [phase |-> "asked"]}
    BY <2>2 DEF FetchTyped
  <2>3. CASE fetch' = [phase |-> "answered", found |-> Listed(row)]
    BY <2>3, SamePage DEF Typed, FetchTyped, Signed
  <2> QED BY <2>1, <2>2, <2>3
<1>3. /\ (Way[kind] \subseteq held)' /\ (held \subseteq Permissions(kind))'
      /\ (row \in Statuses)' /\ (shown \in Copies)'
  BY SamePage DEF Typed, Signed, Permissions
<1> QED BY <1>1, <1>2, <1>3 DEF Typed

(* A failed call leaves a list of the right type. *)
LEMMA PutBackTyped ==
  ASSUME Inv, Typed, NEW c \in Calls, ~ Quiet(c)
  PROVE  /\ PutBack(c) = Restored(K.list[call[c].op], shown, call[c].was)
         /\ PutBack(c) \in Copies
<1>1. PutBack(c) = Restored(K.list[call[c].op], shown, call[c].was)
  BY DEF PutBack, Restored
<1> QED BY <1>1, RestoredTyped DEF Typed, CallTyped, Optimism

LEMMA QueryTyped ==
  ASSUME Inv, Typed, Refetch \/ Fetched \/ Loaded \/ FetchFails
  PROVE  Typed'
<1>1. Signed /\ row' = row /\ call' = call
  BY DEF Refetch, Fetched, Loaded, FetchFails, Signed
<1>2. \/ fetch' \in {fetch, Idle, [phase |-> "asked"]}
      \/ fetch' = [phase |-> "answered", found |-> Listed(row)]
  BY DEF Refetch, Fetched, Loaded, FetchFails
<1>3. shown' \in Copies
  <2>1. CASE Loaded
    <3>1. shown' = fetch.found /\ fetch.phase = "answered"
      BY <2>1 DEF Loaded
    <3>2. PICK s \in Statuses : fetch = [phase |-> "answered", found |-> Listed(s)]
      BY <3>1 DEF Typed, FetchTyped, Idle
    <3> QED BY <3>1, <3>2, ListedTyped
  <2>2. CASE ~ Loaded
    BY <2>2 DEF Refetch, Fetched, FetchFails, Typed
  <2> QED BY <2>1, <2>2
<1> QED BY <1>1, <1>2, <1>3, TypedStep DEF Typed

LEMMA PressTyped ==
  ASSUME Inv, Typed, NEW c \in Calls, NEW o \in Operations, Press(c, o)
  PROVE  Typed'
<1>1. /\ Signed /\ row' = row /\ shown' = shown /\ fetch' = fetch
      /\ Holds(K.menu[o].perm) /\ K.list[o] \notin Optimistic
  BY DEF Press, Offered, Signed
<1>2. CallTyped(c)'
  BY <1>1, Pressed, SamePage DEF Signed, CallTyped, Optimism, Quiet, Holds, Optimistic
<1>3. \A d \in Calls : call'[d] = call[d] \/ CallTyped(d)'
  BY <1>2, Pressed
<1> QED BY <1>1, <1>3, TypedStep DEF Typed

(* The status a page shows at once is one the call may lead to. *)
LEMMA WantedStatus ==
  ASSUME Inv, NEW o \in Operations, K.list[o] \in Optimistic, NEW s \in K.menu[o].at,
         NEW w \in K.rules[K.api[o]][s]
  PROVE  /\ K.api[o] \in DOMAIN K.rules /\ s \in DOMAIN K.rules[K.api[o]]
         /\ s \in Statuses /\ w \in Statuses /\ w # Same
<1>1. /\ K.api[o] \in DOMAIN K.rules /\ s \in DOMAIN K.rules[K.api[o]]
      /\ Same \notin K.rules[K.api[o]][s]
  BY ShapeAssumption DEF Inv, K, Operations
<1> QED BY <1>1, RuledStatuses DEF Inv

LEMMA PressOptimisticTyped ==
  ASSUME Inv, Typed, NEW c \in Calls, NEW o \in Operations, PressOptimistic(c, o)
  PROVE  Typed'
<1>1. /\ Signed /\ row' = row /\ fetch' \in {Idle, fetch}
      /\ Holds(K.menu[o].perm) /\ K.list[o] \in Optimistic
  BY DEF PressOptimistic, Offered, Signed
<1>0. PICK i \in 1 .. Len(shown) : \E w \in K.rules[K.api[o]][shown[i]] :
            /\ shown[i] \in K.menu[o].at
            /\ shown' = [j \in 1 .. Len(shown) |-> w]
            /\ call'[c].phase = "sent" /\ call'[c].op = o /\ call'[c].filed = Complete
            /\ call'[c].was = IF K.list[o] = "drag" THEN shown ELSE <<shown[i]>>
            /\ \A d \in Calls \ {c} : call'[d] = call[d]
  BY PressedOptimistic
<1>2. PICK w \in K.rules[K.api[o]][shown[i]] :
            /\ shown[i] \in K.menu[o].at
            /\ shown' = [j \in 1 .. Len(shown) |-> w]
            /\ call'[c].phase = "sent" /\ call'[c].op = o /\ call'[c].filed = Complete
            /\ call'[c].was = IF K.list[o] = "drag" THEN shown ELSE <<shown[i]>>
            /\ \A d \in Calls \ {c} : call'[d] = call[d]
  BY <1>0
<1>3. w \in Statuses /\ shown[i] \in Statuses
  BY <1>1, <1>2, WantedStatus
<1>4. shown \in Seq(Statuses) /\ Len(shown) <= MaxShown /\ Len(shown) \in Nat \ {0}
  BY <1>2 DEF Typed, Copies
<1>5. shown' \in Copies
  BY <1>2, <1>3, <1>4, AllOver DEF Copies
<1>6. call'[c].was \in Copies /\ Len(call'[c].was) > 0
  <2>1. <<shown[i]>> \in Copies /\ Len(<<shown[i]>>) > 0
    BY <1>3, CallsAssumption DEF Copies
  <2> QED BY <1>2, <1>4, <2>1 DEF Copies
<1>7. CallTyped(c)'
  BY <1>1, <1>2, <1>6, SamePage DEF Signed, CallTyped, Optimism, Quiet, Holds, Complete
<1>8. \A d \in Calls : call'[d] = call[d] \/ CallTyped(d)'
  BY <1>2, <1>7
<1> QED BY <1>1, <1>5, <1>8, TypedStep DEF Typed

LEMMA CheckTyped ==
  ASSUME Inv, Typed, NEW c \in Calls, Check(c)
  PROVE  Typed'
<1>1. /\ Signed /\ row' = row /\ fetch' = fetch
      /\ call[c].phase = "sent" /\ ~ Quiet(c) /\ call[c].op \in Operations
  BY DEF Check, Signed, Inv, CallShape, Quiet
<1>2. CASE Verdict(call[c].op, call[c].filed) = "none"
  <2>1. shown' = shown
    BY <1>2 DEF Check
  <2>2. call'[c].writes \in Statuses \cup {Same}
    BY <1>2, Checked, RuledStatuses DEF Inv
  <2>3. CallTyped(c)'
    BY <1>1, <1>2, <2>2, Checked, SamePage
       DEF Signed, Typed, CallTyped, Optimism, Quiet, Holds, Optimistic
  <2>4. \A d \in Calls : call'[d] = call[d] \/ CallTyped(d)'
    BY <1>2, <2>3, Checked
  <2> QED BY <1>1, <2>1, <2>4, TypedStep DEF Typed
<1>3. CASE Verdict(call[c].op, call[c].filed) # "none"
  <2>1. shown' = PutBack(c) /\ call' = [call EXCEPT ![c] = Idle]
    BY <1>3 DEF Check
  <2>2. CallTyped(c)' /\ \A d \in Calls \ {c} : call'[d] = call[d]
    BY <2>1, Ended DEF CallTyped, Quiet
  <2> QED BY <1>1, <2>1, <2>2, PutBackTyped, TypedStep DEF Typed
<1> QED BY <1>2, <1>3

LEMMA WriteTyped ==
  ASSUME Inv, Typed, NEW c \in Calls, Write(c)
  PROVE  Typed'
<1> DEFINE s == Becomes(call[c].op, call[c].writes)
<1>1. /\ Signed /\ fetch' = fetch /\ shown' = shown
      /\ call[c].phase = "checked" /\ ~ Quiet(c) /\ call[c].op \in Operations
  BY DEF Write, Signed, Inv, CallShape, Quiet
<1>2. call[c].writes \in Statuses \cup {Same}
  BY <1>1 DEF Typed, CallTyped
<1>3. s \in Statuses
  <2>1. \A t \in Statuses : Lands(row, t) \in Statuses
    BY MonthAssumption DEF Inv, Typed, Statuses
  <2> QED BY <1>2, <2>1, GoneIsStatus DEF Becomes, Typed, Inv
<1> HIDE DEF s
<1>4. row' = s /\ call'[c].answer \in Statuses
  BY <1>2, <1>3, Written DEF s
<1>5. CallTyped(c)'
  BY <1>1, <1>4, Written, SamePage
     DEF Signed, Typed, CallTyped, Optimism, Quiet, Holds, Optimistic
<1>6. \A d \in Calls : call'[d] = call[d] \/ CallTyped(d)'
  BY <1>5, Written
<1> QED BY <1>1, <1>3, <1>4, <1>6, TypedStep DEF Typed

LEMMA ElsewhereTyped ==
  ASSUME Inv, Typed, NEW p \in DOMAIN K.rules, Elsewhere(p)
  PROVE  Typed'
<1>1. /\ Signed /\ fetch' = fetch /\ shown' = shown /\ call' = call
      /\ row \in DOMAIN K.rules[p]
      /\ row' = row \/ (row' \in K.rules[p][row] /\ row' # Same)
  BY DEF Elsewhere, Signed
<1>2. row' \in Statuses
  BY <1>1, RuledStatuses DEF Inv, Typed
<1> QED BY <1>1, <1>2, TypedStep DEF Typed

LEMMA EndsTyped ==
  ASSUME Inv, Typed, NEW c \in Calls, Answered(c) \/ Fails(c)
  PROVE  Typed'
<1>1. /\ Signed /\ row' = row /\ fetch' \in {fetch, [phase |-> "asked"]}
      /\ ~ Quiet(c) /\ call[c].op \in Operations
      /\ call' = [call EXCEPT ![c] = Idle]
  BY DEF Answered, Fails, Signed, Inv, CallShape, Quiet
<1>2. shown' \in Copies
  <2>1. CASE Answered(c)
    <3>1. /\ call[c].phase = "answered"
          /\ shown' = Patched(K.list[call[c].op], call[c].answer)
      BY <2>1 DEF Answered
    <3>2. call[c].answer \in Statuses
      BY <1>1, <3>1 DEF Typed, CallTyped
    <3>3. K.list[call[c].op] \in Patches
      BY <1>1, ShapeAssumption DEF Inv, K, Operations
    <3> QED BY <3>1, <3>2, <3>3, PatchedTyped DEF Typed
  <2>2. CASE Fails(c)
    BY <1>1, <2>2, PutBackTyped DEF Fails
  <2> QED BY <2>1, <2>2
<1>3. CallTyped(c)' /\ \A d \in Calls \ {c} : call'[d] = call[d]
  BY <1>1, Ended DEF CallTyped, Quiet
<1> QED BY <1>1, <1>2, <1>3, TypedStep DEF Typed

LEMMA NextTyped ==
  ASSUME Inv, Typed, [Next]_vars PROVE Typed'
<1>1. CASE UNCHANGED vars
  BY <1>1, TypedStep DEF vars, Signed, Typed
<1>2. ASSUME NEW c \in Calls, NEW o \in Operations, Press(c, o) \/ PressOptimistic(c, o)
      PROVE  Typed'
  BY <1>2, PressTyped, PressOptimisticTyped
<1>3. ASSUME NEW c \in Calls, Check(c) \/ Write(c) \/ Answered(c) \/ Fails(c) PROVE Typed'
  BY <1>3, CheckTyped, WriteTyped, EndsTyped
<1>4. ASSUME NEW p \in DOMAIN K.rules, Elsewhere(p) PROVE Typed'
  BY <1>4, ElsewhereTyped
<1> QED BY <1>1, <1>2, <1>3, <1>4, QueryTyped DEF Next

-----------------------------------------------------------------------------
(* What the list and the record have to do with a call in flight that is
   alone: the button is one for the record's status, the list tells that
   status once what was shown in advance is taken back, and when the answer is
   in, the list will tell what it says. *)
InHand(c) ==
  LET how == K.list[call[c].op] IN
  /\ call[c].phase \in {"sent", "checked"} =>
       /\ row \in K.menu[call[c].op].at
       /\ Tells(kind, Restored(how, shown, call[c].was), row)
       /\ Optimism(c) => \E w \in Statuses : w # Gone /\ Tells(kind, shown, w)
  /\ call[c].phase = "answered" /\ how # "refetch" =>
       Tells(kind, Patched(how, call[c].answer), row)

Certain ==
  /\ fetch # Idle => \A c \in Calls : Quiet(c)
  /\ fetch.phase = "answered" => fetch.found = Listed(row)
  /\ NothingAsked => Tells(kind, shown, row)
  /\ \A c \in Calls : InHand(c)

Current == doubt = FALSE => Certain

(* A page that waits for no more than the call c. *)
LEMMA CertainOfOne ==
  ASSUME NEW c \in Calls, \A d \in Calls \ {c} : call'[d].phase = "idle",
         fetch' = Idle, InHand(c)',
         call'[c].phase = "idle" => Tells(kind', shown', row')
  PROVE  Certain'
BY DEF Certain, InHand, NothingAsked, Quiet, Idle

LEMMA CertainQuery ==
  ASSUME Inv, Typed, Current, Refetch \/ Fetched \/ Loaded \/ FetchFails, doubt' = FALSE
  PROVE  Certain'
<1>1. row' = row /\ call' = call /\ kind' = kind
  BY DEF Refetch, Fetched, Loaded, FetchFails
<1>2. \A c \in Calls : Quiet(c)
  <2>1. CASE Refetch
    BY <2>1 DEF Refetch
  <2>2. CASE ~ Refetch
    <3>1. doubt = FALSE /\ fetch # Idle
      BY <2>2 DEF Fetched, Loaded, FetchFails, Idle
    <3> QED BY <3>1 DEF Current, Certain
  <2> QED BY <2>1, <2>2
<1>3. \A c \in Calls : Quiet(c)' /\ InHand(c)'
  BY <1>1, <1>2 DEF Quiet, InHand
<1>4. CASE Refetch \/ Fetched
  <2>1. \/ fetch' = [phase |-> "asked"]
        \/ fetch' = [phase |-> "answered", found |-> Listed(row)]
    BY <1>4 DEF Refetch, Fetched
  <2> QED BY <1>1, <1>3, <2>1 DEF Certain, NothingAsked, Idle
<1>5. CASE Loaded
  <2>1. fetch' = Idle /\ shown' = Listed(row)
    BY <1>5 DEF Loaded, Current, Certain
  <2>2. Tells(kind, Listed(row), row)
    BY DEF Tells
  <2> QED BY <1>1, <1>3, <2>1, <2>2 DEF Certain, Idle
<1>6. CASE FetchFails
  BY <1>6 DEF FetchFails
<1> QED BY <1>4, <1>5, <1>6

(* A button is offered for the status the list tells. *)
LEMMA OfferedAt ==
  ASSUME Inv, Typed, NEW o \in Operations, Offered(o), Tells(kind, shown, row)
  PROVE  row \in K.menu[o].at
<1>1. CASE Gone \in K.menu[o].at
  BY <1>1 DEF Offered
<1>2. CASE Gone \notin K.menu[o].at
  <2>1. PICK i \in 1 .. Len(shown) : shown[i] \in K.menu[o].at
    BY <1>2 DEF Offered
  <2>2. row # Gone
    <3> SUFFICES ASSUME row = Gone PROVE FALSE
      OBVIOUS
    <3>1. shown = <<>>
      BY GoneIsStatus, TellsNothing DEF Inv, Typed, Copies
    <3> QED BY <2>1, <3>1
  <2>3. shown[i] = row
    BY <2>1, <2>2, TellsOne DEF Typed, Copies
  <2> QED BY <2>1, <2>3
<1> QED BY <1>1, <1>2

LEMMA CertainPress ==
  ASSUME Inv, Typed, Current, NEW c \in Calls, NEW o \in Operations, Press(c, o),
         doubt' = FALSE
  PROVE  Certain'
<1>1. /\ row' = row /\ kind' = kind /\ shown' = shown /\ fetch' = fetch
      /\ doubt = FALSE /\ NothingAsked /\ Offered(o) /\ K.list[o] \notin Optimistic
  BY DEF Press, Inv
<1>2. Tells(kind, shown, row) /\ row \in K.menu[o].at
  BY <1>1, OfferedAt DEF Current, Certain
<1>3. fetch = Idle
  BY <1>1 DEF NothingAsked, Typed, FetchTyped
<1>4. Restored(K.list[o], shown, call'[c].was) = shown
  BY <1>1 DEF Restored, Optimistic
<1>5. K' = K
  BY <1>1, SamePage
<1>6. InHand(c)'
  BY <1>1, <1>2, <1>4, <1>5, Pressed DEF InHand, Optimism
<1> QED BY <1>1, <1>3, <1>6, Pressed, CertainOfOne DEF NothingAsked, Quiet

LEMMA CertainPressOptimistic ==
  ASSUME Inv, Typed, Current, NEW c \in Calls, NEW o \in Operations, PressOptimistic(c, o),
         doubt' = FALSE
  PROVE  Certain'
<1>1. /\ row' = row /\ kind' = kind /\ fetch' \in {Idle, fetch}
      /\ doubt = FALSE /\ NothingAsked /\ Offered(o) /\ K.list[o] \in Optimistic
  BY DEF PressOptimistic, Inv
<1>2. Tells(kind, shown, row) /\ row \in K.menu[o].at
  BY <1>1, OfferedAt DEF Current, Certain
<1>3. fetch' = Idle
  BY <1>1 DEF NothingAsked, Typed, FetchTyped
<1>4. PICK i \in 1 .. Len(shown) : \E w \in K.rules[K.api[o]][shown[i]] :
            /\ shown[i] \in K.menu[o].at
            /\ shown' = [j \in 1 .. Len(shown) |-> w]
            /\ call'[c].phase = "sent" /\ call'[c].op = o /\ call'[c].filed = Complete
            /\ call'[c].was = IF K.list[o] = "drag" THEN shown ELSE <<shown[i]>>
            /\ \A d \in Calls \ {c} : call'[d] = call[d]
  BY PressedOptimistic
<1>5. PICK w \in K.rules[K.api[o]][shown[i]] :
            /\ shown[i] \in K.menu[o].at
            /\ shown' = [j \in 1 .. Len(shown) |-> w]
            /\ call'[c].phase = "sent" /\ call'[c].op = o /\ call'[c].filed = Complete
            /\ call'[c].was = IF K.list[o] = "drag" THEN shown ELSE <<shown[i]>>
            /\ \A d \in Calls \ {c} : call'[d] = call[d]
  BY <1>4
<1>6. /\ K.api[o] \in DOMAIN K.rules /\ shown[i] \in DOMAIN K.rules[K.api[o]]
      /\ shown[i] \in Statuses /\ w \in Statuses /\ w # Same
  BY <1>1, <1>5, WantedStatus
<1>7. shown[i] # Gone /\ w # Gone
  <2>1. Fits(kind, K.list[o], shown[i], w)
    BY <1>5, <1>6, PatchAssumption DEF Inv, K, Operations
  <2> QED BY <1>1, <2>1 DEF Fits, Optimistic
<1>8. shown \in Seq(Statuses)
  BY DEF Typed, Copies
<1>9. row # Gone /\ shown[i] = row
  <2>1. row # Gone
    <3> SUFFICES ASSUME row = Gone PROVE FALSE
      OBVIOUS
    <3>1. shown = <<>>
      BY <1>2, <1>8, GoneIsStatus, TellsNothing DEF Inv
    <3> QED BY <3>1
  <2> QED BY <1>2, <1>8, <2>1, TellsOne DEF Typed
<1>10. Tells(kind, shown', w)
  BY <1>2, <1>5, <1>6, <1>7, <1>8, <1>9, OverwriteTells DEF Typed
<1>11. Tells(kind, Restored(K.list[o], shown', call'[c].was), row)
  <2>1. CASE K.list[o] = "drag"
    BY <1>2, <1>5, <2>1 DEF Restored
  <2>2. CASE K.list[o] = "inline"
    <3>1. call'[c].was[1] = row
      BY <1>5, <1>9, <2>2
    <3>2. shown' \in Seq(Statuses)
      BY <1>5, <1>6, <1>8, AllOver
    <3>3. Tells(kind, [j \in 1 .. Len(shown') |-> row], row)
      BY <1>6, <1>7, <1>9, <1>10, <3>2, OverwriteTells DEF Typed
    <3>4. Restored(K.list[o], shown', call'[c].was) = [j \in 1 .. Len(shown') |-> row]
      BY <2>2, <3>1 DEF Restored
    <3> QED BY <3>3, <3>4
  <2> QED BY <1>1, <2>1, <2>2 DEF Optimistic
<1>12. K' = K /\ Statuses' = Statuses
  BY <1>1, SamePage
<1>13. InHand(c)'
  BY <1>1, <1>2, <1>5, <1>6, <1>7, <1>10, <1>11, <1>12 DEF InHand, Optimism
<1> QED BY <1>1, <1>3, <1>5, <1>13, CertainOfOne DEF NothingAsked, Quiet

(* A call in flight while nothing is in doubt. *)
LEMMA OnlyOne ==
  ASSUME Inv, Typed, Current, doubt = FALSE, NEW c \in Calls, ~ Quiet(c)
  PROVE  /\ Certain /\ InHand(c) /\ fetch = Idle
         /\ \A d \in Calls \ {c} : call[d].phase = "idle"
BY DEF Inv, Undoubted, Current, Certain, Quiet

LEMMA CertainCheck ==
  ASSUME Inv, Typed, Current, NEW c \in Calls, Check(c), doubt' = FALSE
  PROVE  Certain'
<1>1. /\ row' = row /\ kind' = kind /\ fetch' = fetch /\ doubt = FALSE
      /\ call[c].phase = "sent" /\ ~ Quiet(c) /\ call[c].op \in Operations
  BY DEF Check, Inv, CallShape, Quiet
<1>2. K' = K /\ Statuses' = Statuses
  BY <1>1, SamePage
<1>3. /\ InHand(c) /\ fetch = Idle
      /\ \A d \in Calls \ {c} : call[d].phase = "idle"
  BY <1>1, OnlyOne
<1>4. CASE Verdict(call[c].op, call[c].filed) = "none"
  <2>1. shown' = shown
    BY <1>4 DEF Check
  <2>2. /\ call'[c].phase = "checked" /\ call'[c].op = call[c].op
        /\ Optimism(c) => call'[c].was = call[c].was
        /\ \A d \in Calls \ {c} : call'[d] = call[d]
    BY <1>4, Checked
  <2>3. Restored(K.list[call[c].op], shown, call'[c].was)
          = Restored(K.list[call[c].op], shown, call[c].was)
    BY <2>2 DEF Restored, Optimism, Optimistic
  <2>4. InHand(c)'
    BY <1>1, <1>2, <1>3, <2>1, <2>2, <2>3 DEF InHand, Optimism
  <2> QED BY <1>1, <1>3, <2>2, <2>4, CertainOfOne
<1>5. CASE Verdict(call[c].op, call[c].filed) # "none"
  <2>1. shown' = PutBack(c) /\ call' = [call EXCEPT ![c] = Idle]
    BY <1>5 DEF Check
  <2>2. call'[c].phase = "idle" /\ \A d \in Calls \ {c} : call'[d] = call[d]
    BY <2>1, Ended
  <2>3. Tells(kind, shown', row)
    BY <1>1, <1>3, <2>1, PutBackTyped DEF InHand
  <2>4. InHand(c)'
    BY <2>2 DEF InHand
  <2> QED BY <1>1, <1>3, <2>2, <2>3, <2>4, CertainOfOne
<1> QED BY <1>4, <1>5

(* The status that is written is the one the page will show. *)
LEMMA CertainWrite ==
  ASSUME Inv, Typed, Current, NEW c \in Calls, Write(c), doubt' = FALSE
  PROVE  Certain'
<1> DEFINE o == call[c].op
           how == K.list[o]
<1>1. /\ kind' = kind /\ fetch' = fetch /\ shown' = shown /\ doubt = FALSE
      /\ call[c].phase = "checked" /\ ~ Quiet(c) /\ o \in Operations
  BY DEF Write, Inv, CallShape, Quiet
<1>2. K' = K
  BY <1>1, SamePage
<1>3. /\ InHand(c) /\ fetch = Idle
      /\ \A d \in Calls \ {c} : call[d].phase = "idle"
  BY <1>1, OnlyOne
<1>4. /\ row \in K.menu[o].at
      /\ K.api[o] \in DOMAIN K.rules /\ row \in DOMAIN K.rules[K.api[o]]
      /\ call[c].writes \in K.rules[K.api[o]][row]
  BY <1>1, <1>3 DEF InHand, Inv, Undoubted, Allowed
<1> DEFINE r == IF call[c].writes = Same THEN row ELSE call[c].writes
<1>5. row' = r /\ call'[c].answer = r
  <2>1. call[c].writes # Same => Lands(row, call[c].writes) = call[c].writes
    BY <1>4, MonthAssumption DEF Inv, K
  <2> QED BY <1>4, <2>1, Written DEF Becomes
<1>6. r \in Statuses
  BY <1>4, RuledStatuses DEF Inv, Typed
<1>7. Fits(kind, how, row, r)
  BY <1>1, <1>4, PatchAssumption DEF Inv, K, Operations
<1> HIDE DEF r
<1>8. how # "refetch" => Tells(kind, Patched(how, r), r)
  <2> SUFFICES ASSUME how # "refetch" PROVE Tells(kind, Patched(how, r), r)
    OBVIOUS
  <2>1. how \in Patches \ {"refetch"}
    BY <1>1, ShapeAssumption DEF Inv, K, Operations
  <2>2. how \notin Optimistic => Tells(kind, shown, row)
    BY <1>1, <1>3 DEF InHand, Restored, Optimistic
  <2>3. how \in Optimistic => \E w \in Statuses : w # Gone /\ Tells(kind, shown, w)
    BY <1>1, <1>3 DEF InHand, Optimism
  <2> HIDE DEF how
  <2>4. shown \in Seq(Statuses) /\ row \in Statuses /\ Gone \in Statuses
    BY GoneIsStatus DEF Inv, Typed, Copies
  <2> QED BY <1>6, <1>7, <2>1, <2>2, <2>3, <2>4, PatchTells
<1>9. InHand(c)'
  <2>1. call'[c].phase = "answered" /\ call'[c].op = o
    BY Written
  <2> QED BY <1>1, <1>2, <1>5, <1>8, <2>1 DEF InHand, Patched
<1> QED BY <1>1, <1>3, <1>9, Written, CertainOfOne

LEMMA CertainEnd ==
  ASSUME Inv, Typed, Current, NEW c \in Calls, Answered(c) \/ Fails(c), doubt' = FALSE
  PROVE  Certain'
<1> DEFINE how == K.list[call[c].op]
<1>1. /\ row' = row /\ kind' = kind
      /\ ~ Quiet(c) /\ call[c].op \in Operations
      /\ call' = [call EXCEPT ![c] = Idle]
  BY DEF Answered, Fails, Inv, CallShape, Quiet
<1>2. call'[c].phase = "idle" /\ \A d \in Calls \ {c} : call'[d] = call[d]
  BY <1>1, Ended
<1>3. CASE Answered(c) /\ how = "refetch"
  <2>1. fetch' = [phase |-> "asked"] /\ \A d \in Calls \ {c} : Quiet(d)
    BY <1>3 DEF Answered
  <2>2. \A d \in Calls : call'[d].phase = "idle"
    BY <1>2, <2>1 DEF Quiet
  <2> QED BY <2>1, <2>2 DEF Certain, InHand, NothingAsked, Quiet
<1>4. CASE ~ (Answered(c) /\ how = "refetch")
  <2>1. doubt = FALSE /\ fetch' = fetch
    BY <1>4 DEF Answered, Fails, Inv
  <2>2. /\ InHand(c) /\ fetch = Idle
        /\ \A d \in Calls \ {c} : call[d].phase = "idle"
    BY <1>1, <2>1, OnlyOne
  <2>3. Tells(kind, shown', row)
    <3>1. CASE Answered(c)
      BY <1>4, <2>2, <3>1 DEF Answered, InHand
    <3>2. CASE Fails(c)
      <4>1. call[c].phase \in {"sent", "checked"} /\ shown' = PutBack(c)
        BY <1>1, <3>2 DEF Fails, Typed, CallTyped, Inv
      <4> QED BY <1>1, <2>2, <4>1, PutBackTyped DEF InHand
    <3> QED BY <3>1, <3>2
  <2>4. InHand(c)'
    BY <1>2 DEF InHand
  <2> QED BY <1>1, <1>2, <2>1, <2>2, <2>3, <2>4, CertainOfOne
<1> QED BY <1>3, <1>4

LEMMA InitCurrent == ASSUME Init PROVE Current
BY DEF Init, Current

LEMMA NextCurrent ==
  ASSUME Inv, Typed, Current, [Next]_vars PROVE Current'
<1> SUFFICES ASSUME doubt' = FALSE PROVE Certain'
  BY DEF Current
<1>1. CASE UNCHANGED vars
  <2>1. Certain
    BY <1>1 DEF vars, Current
  <2>2. kind' = kind /\ UNCHANGED <<row, shown, fetch, call>>
    BY <1>1 DEF vars
  <2>3. K' = K /\ Statuses' = Statuses
    BY <2>2, SamePage
  <2> QED BY <2>1, <2>2, <2>3 DEF Certain, InHand, NothingAsked, Quiet, Optimism, Patched
<1>2. ASSUME NEW c \in Calls, NEW o \in Operations, Press(c, o) \/ PressOptimistic(c, o)
      PROVE  Certain'
  BY <1>2, CertainPress, CertainPressOptimistic
<1>3. ASSUME NEW c \in Calls, Check(c) \/ Write(c) \/ Answered(c) \/ Fails(c) PROVE Certain'
  BY <1>3, CertainCheck, CertainWrite, CertainEnd
<1>4. ~ \E p \in DOMAIN K.rules : Elsewhere(p)
  BY DEF Elsewhere
<1> QED BY <1>1, <1>2, <1>3, <1>4, CertainQuery DEF Next

(* What the service says to a call that is about to be judged. *)
LEMMA VerdictExpected ==
  ASSUME Inv, Typed, Current, NEW c \in Calls, call[c].phase = "sent",
         <<kind, call[c].op>> \notin KnownRefusals
  PROVE  Verdict(call[c].op, call[c].filed) \notin {"conflict", "forbidden", "no route"}
<1> DEFINE o == call[c].op
           p == K.api[o]
<1>1. ~ Quiet(c) /\ o \in Operations /\ kind \in DOMAIN Table /\ doubt \in BOOLEAN
  BY DEF Quiet, Inv, CallShape
<1>2. /\ p \in DOMAIN K.routes
      /\ K.routes[p] \in {K.menu[o].perm, Anyone} \cup Way[kind]
      /\ K.menu[o].at \subseteq DOMAIN K.rules[p]
  BY <1>1, ButtonsAssumption DEF K, Operations
<1>3. Holds(K.routes[p])
  BY <1>1, <1>2 DEF Typed, CallTyped, Holds
<1>4. row \notin DOMAIN K.rules[p] => doubt
  BY <1>1, <1>2 DEF Current, Certain, InHand
<1> QED BY <1>2, <1>3, <1>4 DEF Verdict

LEMMA NextHonours ==
  ASSUME Inv, Typed, Current, ButtonsAreHonoured, [Next]_vars
  PROVE  ButtonsAreHonoured'
<1>1. kind' = kind
  BY DEF Next, vars, Refetch, Fetched, Loaded, FetchFails, Press, PressOptimistic, Check,
     Write, Answered, Fails, Elsewhere
<1>2. CASE refusal' = NotRefused
  BY <1>2 DEF NotRefused, ButtonsAreHonoured
<1>3. CASE refusal' = refusal
  BY <1>1, <1>3 DEF ButtonsAreHonoured
<1>4. ASSUME NEW c \in Calls, Check(c), refusal' # NotRefused PROVE ButtonsAreHonoured'
  <2> DEFINE v == Verdict(call[c].op, call[c].filed)
  <2>1. refusal' = [op |-> call[c].op, why |-> v] /\ call[c].phase = "sent"
    BY <1>4 DEF Check
  <2> HIDE DEF v
  <2>2. v \in {"conflict", "forbidden", "no route"} => <<kind, call[c].op>> \in KnownRefusals
    BY <2>1, VerdictExpected DEF v
  <2> QED BY <1>1, <2>1, <2>2 DEF ButtonsAreHonoured
<1>5. ASSUME Fetched, refusal' # NotRefused PROVE ButtonsAreHonoured'
  <2>1. /\ refusal' = [op |-> "list", why |-> "forbidden"]
        /\ ~ Holds(K.routes[K.api["list"]])
    BY <1>5 DEF Fetched
  <2>2. <<kind, "list">> \in KnownRefusals
    BY <2>1, ButtonsAssumption DEF Inv, Typed, Holds, K
  <2> QED BY <1>1, <2>1, <2>2 DEF ButtonsAreHonoured
<1>6. \/ refusal' \in {refusal, NotRefused} \/ Fetched \/ \E c \in Calls : Check(c)
  BY DEF Next, vars, Refetch, Loaded, FetchFails, Press, PressOptimistic, Write, Answered,
     Fails, Elsewhere
<1> QED BY <1>2, <1>3, <1>4, <1>5, <1>6

(* The inductive invariant of the pages. *)
Whole == Inv /\ Typed /\ Current /\ ButtonsAreHonoured

LEMMA WholeHolds == Spec => []Whole
<1>1. Init => Whole
  BY InitKeeps, InitTyped, InitCurrent
     DEF Whole, Init, ButtonsAreHonoured, NotRefused
<1>2. Whole /\ [Next]_vars => Whole'
  BY NextKeeps, NextTyped, NextCurrent, NextHonours DEF Whole
<1> QED BY <1>1, <1>2, PTL DEF Spec

-----------------------------------------------------------------------------
(* The tab, its cached list, the query and the calls keep their types, and
   the list never holds more copies than it may. *)
THEOREM PagesTypes == Spec => []TypeOK
<1>1. Whole => TypeOK
  <2> SUFFICES ASSUME Whole PROVE TypeOK
    OBVIOUS
  <2>1. kind \in DOMAIN Table /\ held \subseteq Permissions(kind) /\ row \in Statuses
    BY DEF Whole, Inv, Typed
  <2>2. order \in Orders /\ doubt \in BOOLEAN
    BY DEF Whole, Inv, InOrder, Orders
  <2>3. shown \in Seq(Statuses) /\ Len(shown) <= MaxShown
    BY DEF Whole, Typed, Copies
  <2>4. fetch \in {Idle, [phase |-> "asked"]}
          \cup {[phase |-> "answered", found |-> Listed(s)] : s \in Statuses}
    BY DEF Whole, Typed, FetchTyped
  <2>5. \A c \in Calls : Quiet(c) \/
          (call[c].phase \in {"sent", "checked", "answered"} /\ call[c].op \in Operations)
    BY DEF Whole, Inv, CallShape, Typed, CallTyped
  <2> QED BY <2>1, <2>2, <2>3, <2>4, <2>5 DEF TypeOK
<1> QED BY <1>1, WholeHolds, PTL

(* A page nothing has crossed shows what the database holds, though it patches
   its list by hand, shows some changes before they are agreed and takes them
   back when they fail: for every kind of record whose page patches its list
   the way its calls change the record. *)
THEOREM PagesLoneCurrent == Spec => []LonePageIsCurrent
<1>1. Whole => LonePageIsCurrent
  BY DEF Whole, Inv, Current, Certain, Tells, LonePageIsCurrent
<1> QED BY <1>1, WholeHolds, PTL

(* A button the page shows is one the service honours, unless something came
   between: whatever calls, fetches and failures went before, the status and
   the permissions the button was offered for are still those the service
   finds. *)
THEOREM PagesHonourButtons == Spec => []ButtonsAreHonoured
<1>1. Whole => ButtonsAreHonoured
  BY DEF Whole
<1> QED BY <1>1, WholeHolds, PTL

(* A page nothing has crossed shows the button for the status of the record,
   and the service takes the call of one who has every permission. *)
LEMMA WayIsOpen ==
  ASSUME Whole, row # Gone, NEW o \in Operations, LeadsOn(kind, o, row),
         held = Permissions(kind), NothingAsked, ~ doubt
  PROVE  Offered(o) /\ Verdict(o, Complete) = "none"
<1>1. kind \in DOMAIN Table /\ row \in Statuses /\ shown \in Seq(Statuses)
  BY DEF Whole, Inv, Typed, Copies
<1>2. Tells(kind, shown, row)
  BY DEF Whole, Inv, Current, Certain
<1>3. Offered(o)
  <2>1. Holds(K.menu[o].perm)
    BY DEF Holds, Permissions, K, Operations
  <2>2. Len(shown) \in Nat \ {0} /\ \A i \in 1 .. Len(shown) : shown[i] = row
    BY <1>1, <1>2, TellsOne
  <2>3. 1 \in 1 .. Len(shown) /\ shown[1] \in K.menu[o].at
    BY <2>2 DEF LeadsOn, K
  <2> QED BY <2>1, <2>3 DEF Offered, LeadsOn, K
<1>4. Verdict(o, Complete) = "none"
  <2>1. K.api[o] \in DOMAIN K.routes /\ row \in DOMAIN K.rules[K.api[o]]
    BY DEF LeadsOn, K
  <2>2. Holds(K.routes[K.api[o]])
    BY <2>1 DEF Holds, Permissions, K
  <2>3. Complete.missing \notin K.checks.asks /\ Complete.order \in K.checks.orders
    BY <1>1, WaysAssumption DEF Complete, K
  <2> QED BY <2>1, <2>2, <2>3 DEF Verdict
<1> QED BY <1>3, <1>4

(* No record is stuck at a status it is not meant to rest at: for every kind
   of record whose tables have a way on from each such status, however a
   record got there, the page comes to show that way and the service honours
   it, unless something came between. *)
THEOREM PagesNothingStuck == Spec => []NothingStuck
<1>1. ASSUME Whole PROVE NothingStuck
  <2> SUFFICES ASSUME row \notin K.ends.resting \cup {Gone},
                      <<kind, row>> \notin KnownDeadEnds, ~ Awaited(kind, row)
               PROVE  \E o \in Operations :
                        /\ LeadsOn(kind, o, row)
                        /\ held = Permissions(kind) /\ NothingAsked /\ ~ doubt =>
                             Offered(o) /\ Verdict(o, Complete) = "none"
    BY DEF NothingStuck
  <2>1. kind \in DOMAIN Table /\ row \in StatusesOf(kind) \ (Table[kind].ends.resting \cup {Gone})
    BY <1>1 DEF Whole, Inv, Typed, Statuses, K
  <2>2. PICK o \in Operations : LeadsOn(kind, o, row)
    BY <2>1, WaysAssumption DEF Operations, K
  <2> QED BY <1>1, <2>2, WayIsOpen
<1> QED BY <1>1, WholeHolds, PTL

(* No record is stored with its second date before its first: for every kind
   of record whose form, service and table let only ordered dates through
   between them. *)
THEOREM PagesStoredInOrder == Spec => []StoredInOrder
<1>1. Inv => StoredInOrder
  BY DEF Inv, StoredInOrder
<1> QED BY <1>1, InitKeeps, NextKeeps, PTL DEF Spec

(* A final status is left only to delete the record, or by a call that was
   checked before another session or request came between: for every kind of
   record whose rules lead nowhere from it. *)
THEOREM PagesFinalIsFinal == Spec => FinalIsFinal
<1>1. Inv /\ [Next]_vars =>
        [(/\ row \in K.ends.final
          /\ row' \notin {row, Gone}
          => doubt /\ \E c \in Calls : call[c].phase = "checked")]_vars
  BY StepRespectsFinal DEF LeavesFinalLate
<1>2. Inv /\ [Next]_vars => Inv'
  BY NextKeeps
<1> QED BY <1>1, <1>2, InitKeeps, PTL DEF Spec, FinalIsFinal
=============================================================================
