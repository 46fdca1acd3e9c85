------------------------ MODULE PermissionCacheProofs ------------------------
(***************************************************************************)
(* Proofs about PermissionCache, for any members, permissions, checks and  *)
(* changes. TypeOK and EveryKeyExpires are inductive together: the check   *)
(* that is about to run EXPIRE owes the key its time to live, and leaves   *)
(* that step only by paying it or finding the key gone.                    *)
(***************************************************************************)
EXTENDS PermissionCache, TLAPS

Inv == TypeOK /\ EveryKeyExpires

(* Whatever the bounds on grants and checks are, they are about permissions. *)
LEMMA BoundsShape ==
  /\ Asked \subseteq Perms /\ Granted \subseteq [Users -> SUBSET Perms]
  /\ \A u \in Users : Grants[u] \subseteq SUBSET Perms
BY GrantsAssumption, AskedAssumption DEF Granted

(* A running check knows its member, its permission and what it fetched. *)
LEMMA CheckShape ==
  ASSUME TypeOK, NEW w \in Checks, check[w] # Idle
  PROVE  /\ check[w].user \in Users
         /\ check[w].perm \in Perms
         /\ check[w].pc \in {"add", "expire"} =>
              check[w].got \in (SUBSET Perms) \ {{}}
<1> DEFINE Asks == [pc : {"member", "read"}, user : Users, perm : Perms]
           Fills == [pc : {"add", "expire"}, user : Users, perm : Perms,
                     got : (SUBSET Perms) \ {{}}]
           Tells == [pc : {"answer"}, user : Users, perm : Perms, yes : BOOLEAN]
<1>1. check[w] \in Asks \/ check[w] \in Fills \/ check[w] \in Tells
  BY DEF TypeOK, Check
<1>2. CASE check[w] \in Asks
  BY <1>2
<1>3. CASE check[w] \in Fills
  BY <1>3
<1>4. CASE check[w] \in Tells
  BY <1>4
<1> QED BY <1>1, <1>2, <1>3, <1>4

LEMMA AnswerShape ==
  ASSUME TypeOK, NEW w \in Checks, check[w] # Idle, NEW has
  PROVE  Answered(w, has) \in Check /\ Answered(w, has).pc = "answer"
<1>1. (check[w].perm \in has) \in BOOLEAN
  OBVIOUS
<1> QED BY <1>1, CheckShape DEF Answered, Check

(* A step of the check w that leaves Redis alone and owes it nothing. *)
LEMMA LocalStep ==
  ASSUME Inv, NEW w \in Checks, NEW c \in Check \cup {Idle},
         check' = [check EXCEPT ![w] = c], UNCHANGED <<held, cache, ttl, change>>,
         check[w].pc # "expire"
  PROVE  Inv'
<1>1. TypeOK'
  BY DEF Inv, TypeOK
<1>2. EveryKeyExpires'
  <2> SUFFICES ASSUME NEW u \in Users, cache[u] # {}, ~ ttl[u]
               PROVE  \E v \in Checks : check'[v].pc = "expire" /\ check'[v].user = u
    BY DEF EveryKeyExpires
  <2>1. PICK v \in Checks : check[v].pc = "expire" /\ check[v].user = u
    BY DEF Inv, EveryKeyExpires
  <2>2. check'[v] = check[v]
    BY <2>1 DEF Inv, TypeOK
  <2> QED BY <2>1, <2>2
<1> QED BY <1>1, <1>2 DEF Inv

(* A step that runs no check and only takes keys away. *)
LEMMA EvictStep ==
  ASSUME Inv, NEW keys \in SUBSET Users, Evicted(keys), UNCHANGED check,
         held' \in [Users -> SUBSET Perms],
         change' \in [Changes -> Change \cup {Idle}]
  PROVE  Inv'
<1>1. TypeOK'
  BY DEF Inv, TypeOK, Evicted
<1>2. EveryKeyExpires'
  BY DEF Inv, TypeOK, EveryKeyExpires, Evicted
<1> QED BY <1>1, <1>2 DEF Inv

(* A step of a change that leaves Redis alone. *)
LEMMA ChangeStep ==
  ASSUME Inv, UNCHANGED <<cache, ttl, check>>,
         held' \in [Users -> SUBSET Perms],
         change' \in [Changes -> Change \cup {Idle}]
  PROVE  Inv'
<1>1. TypeOK'
  BY DEF Inv, TypeOK
<1>2. EveryKeyExpires'
  BY DEF Inv, EveryKeyExpires
<1> QED BY <1>1, <1>2 DEF Inv

-----------------------------------------------------------------------------
(* One lemma per action of Can. *)

LEMMA ExistsInv ==
  ASSUME Inv, NEW w \in Checks, NEW u \in Users, NEW p \in Perms, CheckExists(w, u, p)
  PROVE  Inv'
<1>1. PICK pc \in {"read", "member"} :
        check' = [check EXCEPT ![w] = [pc |-> pc, user |-> u, perm |-> p]]
  BY DEF CheckExists
<1>2. [pc |-> pc, user |-> u, perm |-> p] \in Check
  BY DEF Check
<1>3. check[w].pc # "expire"
  BY DEF CheckExists, Idle
<1> QED BY <1>1, <1>2, <1>3, LocalStep DEF CheckExists

LEMMA MemberInv ==
  ASSUME Inv, NEW w \in Checks, CheckMember(w)
  PROVE  Inv'
<1>1. TypeOK /\ check[w] # Idle /\ check[w].pc # "expire"
  BY DEF Inv, CheckMember, Idle
<1>2. Asking(w, "read") \in Check
  BY <1>1, CheckShape DEF Asking, Check
<1>3. Answered(w, cache[check[w].user]) \in Check
  BY <1>1, AnswerShape
<1>4. CASE check' = [check EXCEPT ![w] = Answered(w, cache[check[w].user])]
  BY <1>1, <1>3, <1>4, LocalStep DEF CheckMember
<1>5. CASE check' = [check EXCEPT ![w] = Asking(w, "read")]
  BY <1>1, <1>2, <1>5, LocalStep DEF CheckMember
<1> QED BY <1>4, <1>5 DEF CheckMember

LEMMA ReadInv ==
  ASSUME Inv, NEW w \in Checks, CheckRead(w)
  PROVE  Inv'
<1> DEFINE got == held[check[w].user]
<1>1. TypeOK /\ check[w] # Idle /\ check[w].pc # "expire"
  BY DEF Inv, CheckRead, Idle
<1>2. got \in SUBSET Perms
  BY <1>1, CheckShape DEF TypeOK
<1>3. Fetched(w, got) \in Check
  <2>1. CASE got = {}
    BY <2>1, <1>1, AnswerShape DEF Fetched
  <2>2. CASE got # {}
    BY <2>2, <1>1, <1>2, CheckShape DEF Fetched, Check
  <2> QED BY <2>1, <2>2
<1>4. CASE check' = [check EXCEPT ![w] = Fetched(w, got)]
  BY <1>1, <1>3, <1>4, LocalStep DEF CheckRead
<1>5. CASE check' = [check EXCEPT ![w] = Idle]
  BY <1>1, <1>5, LocalStep DEF CheckRead
<1> QED BY <1>4, <1>5 DEF CheckRead

LEMMA AddInv ==
  ASSUME Inv, NEW w \in Checks, CheckAdd(w)
  PROVE  Inv'
<1>1. TypeOK /\ check[w] # Idle /\ check[w].pc = "add"
  BY DEF Inv, CheckAdd, Idle
<1> DEFINE Fills == [pc : {"add", "expire"}, user : Users, perm : Perms,
                     got : (SUBSET Perms) \ {{}}]
<1>2. check[w] \in Fills
  BY <1>1 DEF TypeOK, Check
<1>3. Filled(w) \in Fills /\ Filled(w).pc = "expire" /\ Filled(w).user = check[w].user
  BY <1>2 DEF Filled
<1>4. Filled(w) \in Check
  BY <1>3 DEF Check
<1>5. TypeOK'
  <2>1. cache' \in [Users -> SUBSET Perms]
    BY <1>1, <1>2 DEF CheckAdd, TypeOK
  <2>2. \A u \in Users : cache[u] # {} => cache'[u] # {}
    BY <1>1, <1>2 DEF CheckAdd, TypeOK
  <2>3. check' \in [Checks -> Check \cup {Idle}]
    BY <1>1, <1>4 DEF CheckAdd, TypeOK
  <2> QED BY <1>1, <2>1, <2>2, <2>3 DEF CheckAdd, TypeOK
<1>6. EveryKeyExpires'
  <2> SUFFICES ASSUME NEW u \in Users, cache'[u] # {}, ~ ttl[u]
               PROVE  \E v \in Checks : check'[v].pc = "expire" /\ check'[v].user = u
    BY DEF EveryKeyExpires, CheckAdd
  <2>1. check'[w] = Filled(w)
    BY <1>1 DEF CheckAdd, TypeOK
  <2>2. CASE check[w].user = u
    BY <2>1, <2>2, <1>3
  <2>3. CASE check[w].user # u
    <3>1. cache'[u] = cache[u]
      BY <1>1, <2>3 DEF CheckAdd, TypeOK
    <3>2. PICK v \in Checks : check[v].pc = "expire" /\ check[v].user = u
      BY <3>1 DEF Inv, EveryKeyExpires
    <3>3. check'[v] = check[v]
      BY <1>1, <3>2 DEF CheckAdd, TypeOK
    <3> QED BY <3>2, <3>3
  <2> QED BY <2>2, <2>3
<1> QED BY <1>5, <1>6 DEF Inv

LEMMA ExpireInv ==
  ASSUME Inv, NEW w \in Checks, CheckExpire(w)
  PROVE  Inv'
<1>1. TypeOK /\ check[w] # Idle /\ check[w].pc = "expire"
  BY DEF Inv, CheckExpire, Idle
<1>2. check[w].user \in Users
  BY <1>1, CheckShape
<1>3. Answered(w, check[w].got) \in Check
  BY <1>1, AnswerShape
<1>4. TypeOK'
  BY <1>1, <1>2, <1>3 DEF CheckExpire, TypeOK
<1>5. EveryKeyExpires'
  <2> SUFFICES ASSUME NEW u \in Users, cache[u] # {}, ~ ttl'[u]
               PROVE  \E v \in Checks : check'[v].pc = "expire" /\ check'[v].user = u
    BY DEF EveryKeyExpires, CheckExpire
  <2>1. check[w].user # u /\ ~ ttl[u]
    BY <1>1, <1>2 DEF CheckExpire, TypeOK
  <2>2. PICK v \in Checks : check[v].pc = "expire" /\ check[v].user = u
    BY <2>1 DEF Inv, EveryKeyExpires
  <2>3. check'[v] = check[v]
    BY <1>1, <2>1, <2>2 DEF CheckExpire, TypeOK
  <2> QED BY <2>2, <2>3
<1> QED BY <1>4, <1>5 DEF Inv

LEMMA AddFailsInv ==
  ASSUME Inv, NEW w \in Checks, CheckAddFails(w)
  PROVE  Inv'
<1>1. TypeOK /\ check[w] # Idle /\ check[w].pc # "expire"
  BY DEF Inv, CheckAddFails, Idle
<1>2. Answered(w, check[w].got) \in Check
  BY <1>1, AnswerShape
<1> QED BY <1>1, <1>2, LocalStep DEF CheckAddFails

LEMMA AnswerInv ==
  ASSUME Inv, NEW w \in Checks, CheckAnswer(w)
  PROVE  Inv'
  BY LocalStep DEF CheckAnswer

-----------------------------------------------------------------------------
(* One lemma per action of a change, and the passing of time. *)

LEMMA ChangeMemberInv ==
  ASSUME Inv, NEW a \in Changes, NEW u \in Users, NEW now \in SUBSET Perms,
         ChangeMember(a, u, now)
  PROVE  Inv'
<1>1. [pc |-> "del", todo |-> {}, keys |-> {u}] \in Change
  BY DEF Change
<1>2. held' \in [Users -> SUBSET Perms]
  BY DEF Inv, TypeOK, ChangeMember
<1>3. change' \in [Changes -> Change \cup {Idle}]
  BY <1>1 DEF Inv, TypeOK, ChangeMember
<1> QED BY <1>2, <1>3, ChangeStep DEF ChangeMember

LEMMA ChangeRoleInv ==
  ASSUME Inv, NEW a \in Changes, NEW now \in [Users -> SUBSET Perms],
         ChangeRole(a, now)
  PROVE  Inv'
<1>1. [pc |-> "scan", todo |-> Users, keys |-> {}] \in Change
  BY DEF Change
<1>2. held' \in [Users -> SUBSET Perms]
  BY DEF Inv, TypeOK, ChangeRole
<1>3. change' \in [Changes -> Change \cup {Idle}]
  BY <1>1 DEF Inv, TypeOK, ChangeRole
<1> QED BY <1>2, <1>3, ChangeStep DEF ChangeRole

LEMMA ScanInv ==
  ASSUME Inv, NEW a \in Changes, NEW u \in Users, Scan(a, u)
  PROVE  Inv'
<1>1. change[a] \in Change
  BY DEF Inv, TypeOK, Scan, Idle
<1> DEFINE found == IF cache[u] # {} THEN {u} ELSE {}
<1>2. [change[a] EXCEPT !.todo = @ \ {u}, !.keys = @ \cup found] \in Change
  BY <1>1 DEF Change
<1>3. change' = [change EXCEPT ![a] =
                   [change[a] EXCEPT !.todo = @ \ {u}, !.keys = @ \cup found]]
  BY <1>1 DEF Inv, TypeOK, Scan
<1>4. change' \in [Changes -> Change \cup {Idle}]
  BY <1>2, <1>3 DEF Inv, TypeOK
<1> QED BY <1>4, ChangeStep DEF Scan, Inv, TypeOK

LEMMA ScanEndsInv ==
  ASSUME Inv, NEW a \in Changes, ScanEnds(a)
  PROVE  Inv'
<1>1. change[a] \in Change
  BY DEF Inv, TypeOK, ScanEnds, Idle
<1>2. [change[a] EXCEPT !.pc = "del", !.todo = {}] \in Change
  BY <1>1 DEF Change
<1>3. change' = [change EXCEPT ![a] = [change[a] EXCEPT !.pc = "del", !.todo = {}]]
  BY <1>1 DEF Inv, TypeOK, ScanEnds
<1>4. change' \in [Changes -> Change \cup {Idle}]
  BY <1>2, <1>3 DEF Inv, TypeOK
<1> QED BY <1>4, ChangeStep DEF ScanEnds, Inv, TypeOK

LEMMA InvalidateInv ==
  ASSUME Inv, NEW a \in Changes, Invalidate(a)
  PROVE  Inv'
<1>1. change[a] \in Change
  BY DEF Inv, TypeOK, Invalidate, Idle
<1>2. change[a].keys \in SUBSET Users
  BY <1>1 DEF Change
<1>3. change' \in [Changes -> Change \cup {Idle}]
  BY DEF Inv, TypeOK, Invalidate
<1> QED BY <1>2, <1>3, EvictStep DEF Invalidate, Inv, TypeOK

LEMMA InvalidateFailsInv ==
  ASSUME Inv, NEW a \in Changes, InvalidateFails(a)
  PROVE  Inv'
<1>1. change' \in [Changes -> Change \cup {Idle}]
  BY DEF Inv, TypeOK, InvalidateFails
<1> QED BY <1>1, ChangeStep DEF InvalidateFails, Inv, TypeOK

LEMMA KeyExpiresInv ==
  ASSUME Inv, NEW u \in Users, KeyExpires(u)
  PROVE  Inv'
<1>1. {u} \in SUBSET Users
  OBVIOUS
<1> QED BY <1>1, EvictStep DEF KeyExpires, Inv, TypeOK

-----------------------------------------------------------------------------
LEMMA InitInv == Init => Inv
  BY BoundsShape DEF Init, Inv, TypeOK, EveryKeyExpires

LEMMA NextInv == Inv /\ [Next]_vars => Inv'
<1> SUFFICES ASSUME Inv, [Next]_vars PROVE Inv'
  OBVIOUS
<1>1. CASE UNCHANGED vars
  BY <1>1 DEF vars, Inv, TypeOK, EveryKeyExpires
<1>2. ASSUME NEW w \in Checks, CanStep(w) PROVE Inv'
  BY <1>2, MemberInv, ReadInv, AddInv, ExpireInv, AddFailsInv, AnswerInv DEF CanStep
<1> QED
  BY <1>1, <1>2, BoundsShape, ExistsInv, ChangeMemberInv, ChangeRoleInv, ScanInv, ScanEndsInv,
     InvalidateInv, InvalidateFailsInv, KeyExpiresInv DEF Next

(* The invariant of the permission cache, for every number of members,     *)
(* checks and changes.                                                     *)
THEOREM CacheInvariant == Spec => []Inv
  BY InitInv, NextInv, PTL DEF Spec

(* Can never fills an empty set, and only a key that exists has a time to  *)
(* live.                                                                   *)
THEOREM CacheTypes == Spec => []TypeOK
<1>1. Inv => TypeOK
  BY DEF Inv
<1> QED BY <1>1, CacheInvariant, PTL

(* Can: SADD and EXPIRE are two commands, but no interleaving of theirs    *)
(* leaves a set behind that never expires.                                 *)
THEOREM CacheEveryKeyExpires == Spec => []EveryKeyExpires
<1>1. Inv => EveryKeyExpires
  BY DEF Inv
<1> QED BY <1>1, CacheInvariant, PTL

-----------------------------------------------------------------------------
(* What is safety in RevocationTakesHold. The step of a check that leaves  *)
(* the cache alone and puts nothing in its hands that it has not found in  *)
(* the database, in the cache or there already.                            *)
LEMMA GoneLocal ==
  ASSUME NEW u, NEW p, NEW w \in Checks, NEW c, Gone(u, p), p \notin held'[u],
         p \notin cache'[u], check' = [check EXCEPT ![w] = c],
         check \in [Checks -> Check \cup {Idle}],
         \/ c = Idle
         \/ c.user # u
         \/ c.pc \in {"member", "read"}
         \/ c.pc \in {"add", "expire"} /\ p \notin c.got
         \/ c.pc = "answer" /\ ~ (c.perm = p /\ c.yes)
  PROVE  Gone(u, p)'
<1>1. \A v \in Checks : check'[v] = IF v = w THEN c ELSE check[v]
  OBVIOUS
<1> QED BY <1>1 DEF Gone, Lingers

(* The answer of a check of u that found a set without p is not yes to p.  *)
LEMMA AnswerWithout ==
  ASSUME NEW w \in Checks, NEW p, NEW has, p \notin has
  PROVE  /\ Answered(w, has).pc = "answer"
         /\ ~ (Answered(w, has).perm = p /\ Answered(w, has).yes)
  BY DEF Answered

LEMMA GoneOfCheck ==
  ASSUME TypeOK, NEW u \in Users, NEW p \in Perms, Gone(u, p),
         NEW w \in Checks, CanStep(w)
  PROVE  Gone(u, p)'
<1>1. /\ p \notin held[u] /\ p \notin cache[u] /\ held' = held
      /\ check \in [Checks -> Check \cup {Idle}]
      /\ check[w] # Idle
  BY DEF Gone, TypeOK, CanStep, CheckMember, CheckRead, CheckAdd, CheckExpire,
         CheckAddFails, CheckAnswer, Idle
<1>2. check[w].user = u /\ check[w].pc \in {"add", "expire"} => p \notin check[w].got
  BY <1>1 DEF Gone, Lingers
<1>3. \A has : Answered(w, has).user = check[w].user
  BY DEF Answered
<1>4. CASE CheckMember(w)
  <2>1. cache' = cache
    BY <1>4 DEF CheckMember
  <2>2. CASE check' = [check EXCEPT ![w] = Answered(w, cache[check[w].user])]
    BY <1>1, <1>3, <2>1, <2>2, AnswerWithout, GoneLocal
  <2>3. CASE check' = [check EXCEPT ![w] = Asking(w, "read")]
    BY <1>1, <2>1, <2>3, GoneLocal DEF Asking
  <2> QED BY <1>4, <2>2, <2>3 DEF CheckMember
<1>5. CASE CheckRead(w)
  <2> DEFINE got == held[check[w].user]
  <2>1. cache' = cache
    BY <1>5 DEF CheckRead
  <2>2. CASE check' = [check EXCEPT ![w] = Idle]
    BY <1>1, <2>1, <2>2, GoneLocal
  <2>3. CASE check' = [check EXCEPT ![w] = Fetched(w, got)]
    <3>1. CASE got = {}
      BY <1>1, <2>1, <2>3, <3>1, AnswerWithout, GoneLocal DEF Fetched
    <3>2. CASE got # {}
      <4>1. Fetched(w, got) = [pc |-> "add", user |-> check[w].user,
                               perm |-> check[w].perm, got |-> got]
        BY <3>2 DEF Fetched
      <4>2. /\ Fetched(w, got).pc = "add"
            /\ Fetched(w, got).user # u \/ p \notin Fetched(w, got).got
        BY <1>1, <4>1
      <4> QED BY <1>1, <2>1, <2>3, <4>2, GoneLocal
    <3> QED BY <3>1, <3>2
  <2> QED BY <1>5, <2>2, <2>3 DEF CheckRead
<1>6. CASE CheckAdd(w)
  <2> DEFINE Fills == [pc : {"add", "expire"}, user : Users, perm : Perms,
                       got : (SUBSET Perms) \ {{}}]
  <2>1. check[w].pc = "add" /\ check[w] \in Fills
    BY <1>1, <1>6 DEF CheckAdd, Check, Idle
  <2>2. /\ Filled(w).pc = "expire" /\ Filled(w).user = check[w].user
        /\ Filled(w).got = check[w].got
    BY <2>1 DEF Filled
  <2>3. p \notin cache'[u]
    BY <1>1, <1>2, <1>6, <2>1 DEF CheckAdd, TypeOK
  <2> QED BY <1>1, <1>2, <1>6, <2>1, <2>2, <2>3, GoneLocal DEF CheckAdd
<1>7. CASE CheckExpire(w) \/ CheckAddFails(w)
  <2>1. /\ cache' = cache /\ check[w].pc \in {"add", "expire"}
        /\ check' = [check EXCEPT ![w] = Answered(w, check[w].got)]
    BY <1>7 DEF CheckExpire, CheckAddFails
  <2> QED BY <1>1, <1>2, <1>3, <2>1, AnswerWithout, GoneLocal
<1>8. CASE CheckAnswer(w)
  BY <1>1, <1>8, GoneLocal DEF CheckAnswer
<1> QED BY <1>4, <1>5, <1>6, <1>7, <1>8 DEF CanStep

(* Nothing but a change of the database gives a member a permission that   *)
(* is gone.                                                                *)
LEMMA GoneKeeps ==
  ASSUME TypeOK, [Next]_vars, NEW u \in Users, NEW p \in Perms,
         Gone(u, p), p \notin held'[u]
  PROVE  Gone(u, p)'
<1>1. CASE UNCHANGED vars
  BY <1>1 DEF vars, Gone, Lingers
<1>2. ASSUME NEW w \in Checks, CanStep(w) PROVE Gone(u, p)'
  BY <1>2, GoneOfCheck
<1>3. ASSUME NEW w \in Checks, NEW v \in Users, NEW q \in Perms, CheckExists(w, v, q)
      PROVE  Gone(u, p)'
  <2>1. PICK pc \in {"read", "member"} :
          check' = [check EXCEPT ![w] = [pc |-> pc, user |-> v, perm |-> q]]
    BY <1>3 DEF CheckExists
  <2>2. cache' = cache /\ p \notin cache[u] /\ check \in [Checks -> Check \cup {Idle}]
    BY <1>3 DEF CheckExists, Gone, TypeOK
  <2> QED BY <2>1, <2>2, GoneLocal
<1>4. ASSUME check' = check, \A v \in Users : cache'[v] \subseteq cache[v]
      PROVE  Gone(u, p)'
  BY <1>4 DEF Gone, Lingers
<1>5. \A keys : Evicted(keys) => \A v \in Users : cache'[v] \subseteq cache[v]
  BY DEF Evicted
<1> QED
  BY <1>1, <1>2, <1>3, <1>4, <1>5, BoundsShape
  DEF Next, ChangeMember, ChangeRole, Scan, ScanEnds, Invalidate, InvalidateFails, KeyExpires

(* A permission that has left the database, the cached set and every       *)
(* running check of a member comes back only by a new grant, whatever the  *)
(* checks, fills and invalidations of all members do meanwhile: a stale    *)
(* answer after that is out of the question, not only unlikely.            *)
THEOREM CacheGoneStaysGone == Spec => GoneStaysGone
<1>1. Inv /\ [Next]_vars =>
        [\A u \in Users, p \in Perms :
           Gone(u, p) /\ p \notin held'[u] => Gone(u, p)']_vars
  BY GoneKeeps DEF Inv
<1> QED BY <1>1, CacheInvariant, PTL DEF Spec, GoneStaysGone

(* The set of a member leaves Redis by DEL or by its time to live.         *)
Evicts(u) ==
  \/ \E a \in Changes : Invalidate(a) /\ u \in change[a].keys
  \/ KeyExpires(u)

(* When an eviction meets no check that still holds a revoked permission,  *)
(* the revocation is complete at that very step: the checks in flight are  *)
(* the whole of the window in which invalidateUser comes too early.        *)
THEOREM CacheRevocationIsPrompt ==
  Spec => [][\A u \in Users, p \in Perms :
               Evicts(u) /\ p \notin held[u] /\ (\A w \in Checks : ~ Lingers(w, u, p))
                 => Gone(u, p)']_vars
<1>1. ASSUME NEW u \in Users, NEW p \in Perms, Evicts(u), p \notin held[u],
             \A w \in Checks : ~ Lingers(w, u, p)
      PROVE  Gone(u, p)'
  <2>1. cache'[u] = {} /\ held' = held /\ check' = check
    BY <1>1 DEF Evicts, Invalidate, KeyExpires, Evicted
  <2> QED BY <1>1, <2>1 DEF Gone, Lingers
<1>2. [Next]_vars =>
        [\A u \in Users, p \in Perms :
           Evicts(u) /\ p \notin held[u] /\ (\A w \in Checks : ~ Lingers(w, u, p))
             => Gone(u, p)']_vars
  BY <1>1
<1> QED BY <1>2, PTL DEF Spec

-----------------------------------------------------------------------------
(* What is safety in CacheHeals: nobody's cached set, and no check that is *)
(* going to fill it, disagrees with the database.                          *)
Healed(u) ==
  /\ cache[u] \in {{}, held[u]}
  /\ \A w \in Checks :
       check[w] # Idle /\ check[w].user = u /\ check[w].pc = "add"
         => check[w].got = held[u]

(* As long as nobody changes what a member may do, a set that agrees with  *)
(* the database goes on agreeing with it.                                  *)
THEOREM CacheHealedStays ==
  Spec => [][\A u \in Users : Healed(u) /\ held'[u] = held[u] => Healed(u)']_vars
<1>1. ASSUME TypeOK, [Next]_vars, NEW u \in Users, Healed(u), held'[u] = held[u]
      PROVE  Healed(u)'
  <2>1. ASSUME NEW w \in Checks, NEW c, check' = [check EXCEPT ![w] = c],
               cache'[u] \in {{}, held[u]},
               c = Idle \/ c.user # u \/ c.pc # "add" \/ c.got = held[u]
        PROVE  Healed(u)'
    <3>1. \A v \in Checks : check'[v] = IF v = w THEN c ELSE check[v]
      BY <2>1, <1>1 DEF TypeOK
    <3> QED BY <1>1, <2>1, <3>1 DEF Healed
  <2>2. ASSUME NEW w \in Checks, NEW v \in Users, NEW q \in Perms, CheckExists(w, v, q)
        PROVE  Healed(u)'
    <3>1. PICK pc \in {"read", "member"} :
            check' = [check EXCEPT ![w] = [pc |-> pc, user |-> v, perm |-> q]]
      BY <2>2 DEF CheckExists
    <3>2. cache' = cache
      BY <2>2 DEF CheckExists
    <3> QED BY <1>1, <2>1, <3>1, <3>2 DEF Healed
  <2>3. ASSUME NEW w \in Checks, CheckMember(w) PROVE Healed(u)'
    BY <1>1, <2>1, <2>3 DEF CheckMember, Answered, Asking, Healed
  <2>4. ASSUME NEW w \in Checks, CheckRead(w) PROVE Healed(u)'
    <3> DEFINE got == held[check[w].user]
    <3>1. cache'[u] \in {{}, held[u]}
      BY <1>1, <2>4 DEF CheckRead, Healed
    <3>2. \/ Fetched(w, got).pc # "add"
          \/ Fetched(w, got).user # u
          \/ Fetched(w, got).got = held[u]
      <4>1. CASE got = {}
        BY <4>1 DEF Fetched, Answered
      <4>2. CASE got # {}
        BY <4>2 DEF Fetched
      <4> QED BY <4>1, <4>2
    <3>3. CASE check' = [check EXCEPT ![w] = Fetched(w, got)]
      BY <2>1, <3>1, <3>2, <3>3
    <3>4. CASE check' = [check EXCEPT ![w] = Idle]
      BY <2>1, <3>1, <3>4
    <3> QED BY <2>4, <3>3, <3>4 DEF CheckRead
  <2>5. ASSUME NEW w \in Checks, CheckAdd(w) PROVE Healed(u)'
    <3>1. check[w] # Idle /\ check[w].pc = "add" /\ check[w].user \in Users
      BY <2>5, <1>1, CheckShape DEF CheckAdd, Idle
    <3>2. check[w].user = u => check[w].got = held[u]
      BY <1>1, <3>1 DEF Healed
    <3>3. cache'[u] \in {{}, held[u]}
      BY <1>1, <2>5, <3>1, <3>2 DEF CheckAdd, TypeOK, Healed
    <3>4. \A v \in Checks : check'[v].pc = "add" => check'[v] = check[v]
      <4>1. check[w] \in [pc : {"add", "expire"}, user : Users, perm : Perms,
                          got : (SUBSET Perms) \ {{}}]
        BY <1>1, <3>1 DEF TypeOK, Check
      <4>2. Filled(w).pc = "expire"
        BY <4>1 DEF Filled
      <4> QED BY <1>1, <2>5, <4>2 DEF CheckAdd, TypeOK
    <3> QED BY <1>1, <3>3, <3>4 DEF Healed
  <2>6. ASSUME NEW w \in Checks, CheckExpire(w) \/ CheckAddFails(w) \/ CheckAnswer(w)
        PROVE  Healed(u)'
    BY <1>1, <2>1, <2>6
    DEF CheckExpire, CheckAddFails, CheckAnswer, Answered, Healed
  <2>7. ASSUME check' = check, cache'[u] \in {{}, cache[u]} PROVE Healed(u)'
    BY <1>1, <2>7 DEF Healed
  <2>8. \A keys : Evicted(keys) => cache'[u] \in {{}, cache[u]}
    BY DEF Evicted
  <2>9. CASE UNCHANGED vars
    BY <2>7, <2>9 DEF vars
  <2> QED
    BY <1>1, <2>2, <2>3, <2>4, <2>5, <2>6, <2>7, <2>8, <2>9, BoundsShape
    DEF Next, CanStep, ChangeMember, ChangeRole, Scan, ScanEnds, Invalidate,
        InvalidateFails, KeyExpires
<1>2. Inv /\ [Next]_vars =>
        [\A u \in Users : Healed(u) /\ held'[u] = held[u] => Healed(u)']_vars
  BY <1>1 DEF Inv
<1> QED BY <1>2, CacheInvariant, PTL DEF Spec

-----------------------------------------------------------------------------
(* Fairness with its guards written out, so that the temporal prover can   *)
(* use it: a check that has begun goes on to its end, and permCacheTTL     *)
(* passes for a key that has one.                                          *)
CheckEnded(w) == check[w] = Idle
Timed(u) == ttl[u]
NoKey(u) == cache[u] = {}
GoesOn(w) == []<>CheckEnded(w) \/ []<><<CanStep(w)>>_vars
TimePasses(u) == []<>(~ Timed(u)) \/ []<><<KeyExpires(u)>>_vars

(* The check w has run SADD for u and still has EXPIRE to run. *)
Owes(w, u) == check[w].pc = "expire" /\ check[w].user = u

LEMMA OweStep ==
  ASSUME TypeOK, [Next]_vars, NEW w \in Checks, NEW u \in Users, Owes(w, u)
  PROVE  /\ ~ CheckEnded(w)
         /\ Owes(w, u)' \/ Timed(u)' \/ NoKey(u)'
         /\ CanStep(w) => Timed(u)' \/ NoKey(u)'
<1> USE DEF Owes, CheckEnded, Timed, NoKey
<1>1. check[w] # Idle
  BY DEF Idle
<1>2. CanStep(w) => Timed(u)' \/ NoKey(u)'
  BY DEF CanStep, CheckMember, CheckRead, CheckAdd, CheckExpire, CheckAddFails,
         CheckAnswer, TypeOK
<1>3. CanStep(w) \/ check'[w] = check[w]
  <2>1. ASSUME NEW v \in Checks, v # w, CanStep(v) PROVE check'[w] = check[w]
    BY <2>1 DEF CanStep, CheckMember, CheckRead, CheckAdd, CheckExpire, CheckAddFails,
                CheckAnswer, TypeOK
  <2>2. ASSUME NEW v \in Checks, NEW x \in Users, NEW q \in Perms, CheckExists(v, x, q)
        PROVE  check'[w] = check[w]
    BY <1>1, <2>2 DEF CheckExists, TypeOK
  <2> QED
    BY <2>1, <2>2, BoundsShape
    DEF Next, vars, ChangeMember, ChangeRole, Scan, ScanEnds, Invalidate,
        InvalidateFails, KeyExpires
<1> QED BY <1>1, <1>2, <1>3

LEMMA TimedStep ==
  ASSUME TypeOK, [Next]_vars, NEW u \in Users, Timed(u)
  PROVE  /\ Timed(u)' \/ NoKey(u)'
         /\ KeyExpires(u) => NoKey(u)'
<1> USE DEF Timed, NoKey
<1>1. \A keys : Evicted(keys) => Timed(u)' \/ NoKey(u)'
  BY DEF Evicted
<1>2. ASSUME NEW w \in Checks, CanStep(w) PROVE Timed(u)'
  BY <1>2 DEF CanStep, CheckMember, CheckRead, CheckAdd, CheckExpire, CheckAddFails,
              CheckAnswer, TypeOK
<1>3. KeyExpires(u) => NoKey(u)'
  BY DEF KeyExpires, Evicted
<1> QED
  BY <1>1, <1>2, <1>3
  DEF Next, vars, CheckExists, ChangeMember, ChangeRole, Scan, ScanEnds, Invalidate,
      InvalidateFails, KeyExpires

(* Can: a set that a check fills leaves Redis again when that check goes   *)
(* on to its EXPIRE and permCacheTTL passes; EveryKeyExpires says that     *)
(* every set without a time to live has such a check.                      *)
THEOREM CacheKeyGoesAway ==
  ASSUME NEW w \in Checks, NEW u \in Users
  PROVE  Spec /\ GoesOn(w) /\ TimePasses(u) => ((Owes(w, u) \/ Timed(u)) ~> NoKey(u))
<1>1. Inv /\ [Next]_vars /\ Owes(w, u) =>
        ~ CheckEnded(w) /\ (Owes(w, u)' \/ Timed(u)' \/ NoKey(u)')
  BY OweStep DEF Inv
<1>2. Inv /\ [Next]_vars /\ Owes(w, u) /\ <<CanStep(w)>>_vars => Timed(u)' \/ NoKey(u)'
  BY OweStep DEF Inv
<1>3. Inv /\ [Next]_vars /\ Timed(u) => Timed(u)' \/ NoKey(u)'
  BY TimedStep DEF Inv
<1>4. Inv /\ [Next]_vars /\ Timed(u) /\ <<KeyExpires(u)>>_vars => NoKey(u)'
  BY TimedStep DEF Inv
<1> QED
  BY <1>1, <1>2, <1>3, <1>4, CacheInvariant, PTL DEF Spec, GoesOn, TimePasses
=============================================================================
