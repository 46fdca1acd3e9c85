--------------------------- MODULE PermissionCache ---------------------------
(***************************************************************************)
(* Permission checks of one organization, internal/authz: Can, the Redis   *)
(* set it keeps for each member, and the changes that invalidate it.       *)
(*                                                                         *)
(* Can asks Redis whether the set exists, then whether it has the          *)
(* permission; without a set it reads the database and fills the set. A    *)
(* change commits to the database and deletes sets afterwards, best-effort.*)
(* Each Redis command and each SQL statement is a step of its own.         *)
(***************************************************************************)
EXTENDS Integers

CONSTANTS Users,       \* members of the organization
          Perms,       \* permission keys, resource.action
          Checks,      \* calls of Can in flight at the same time
          Changes,     \* administrative requests in flight at the same time
          Grants,      \* bound: the sets a change may leave each member with
          Asked        \* bound: the permissions Can is asked for

ASSUME GrantsAssumption == Grants \in [Users -> SUBSET SUBSET Perms]
ASSUME AskedAssumption == Asked \subseteq Perms

VARIABLES held,        \* what GetUserPermissions returns for each member
          cache,       \* the set at perm:user:org; {} for no key
          ttl,         \* the key has a time to live
          check,       \* program counter and local variables of each Can
          change       \* and of each administrative request

vars == <<held, cache, ttl, check, change>>

(* What the members may hold between them. *)
Granted == {h \in [Users -> SUBSET Perms] : \A u \in Users : h[u] \in Grants[u]}

Idle == [pc |-> "idle"]
Check ==
  [pc : {"member", "read"}, user : Users, perm : Perms] \cup
  [pc : {"add", "expire"}, user : Users, perm : Perms, got : (SUBSET Perms) \ {{}}] \cup
  [pc : {"answer"}, user : Users, perm : Perms, yes : BOOLEAN]
Change == [pc : {"scan", "del"}, todo : SUBSET Users, keys : SUBSET Users]

TypeOK ==
  /\ held \in [Users -> SUBSET Perms]
  /\ cache \in [Users -> SUBSET Perms]
  /\ ttl \in [Users -> BOOLEAN]
  /\ \A u \in Users : ttl[u] => cache[u] # {}
  /\ check \in [Checks -> Check \cup {Idle}]
  /\ change \in [Changes -> Change \cup {Idle}]

Init ==
  /\ held \in Granted
  /\ cache = [u \in Users |-> {}]
  /\ ttl = [u \in Users |-> FALSE]
  /\ check = [w \in Checks |-> Idle]
  /\ change = [a \in Changes |-> Idle]

Asking(w, pc) == [pc |-> pc, user |-> check[w].user, perm |-> check[w].perm]

Answered(w, has) ==
  [pc |-> "answer", user |-> check[w].user, perm |-> check[w].perm,
   yes |-> check[w].perm \in has]

(* Faulty variants of the operators below, each a plausible slip in the    *)
(* code; a checked property has to tell it from the real one.              *)
FetchedAny(w, got) ==                      \* no test of len(perms) > 0
  [pc |-> "add", user |-> check[w].user, perm |-> check[w].perm, got |-> got]
FilledForever(w) == Answered(w, check[w].got)   \* the pipeline lacks Expire
EvictedTimed(keys) ==                      \* emptied, not deleted
  /\ cache' = [u \in Users |-> IF u \in keys THEN {} ELSE cache[u]]
  /\ UNCHANGED ttl
CheckAddShared(w) ==                       \* the key does not name the member
  /\ check[w].pc = "add"
  /\ cache' = [u \in Users |-> cache[u] \cup check[w].got]
  /\ check' = [check EXCEPT ![w].pc = "expire"]
  /\ UNCHANGED <<held, ttl, change>>

-----------------------------------------------------------------------------
(* Can: EXISTS. When Redis does not answer, the database is asked. *)
CheckExists(w, u, p) ==
  /\ check[w] = Idle
  /\ \E pc \in {"read"} \cup (IF cache[u] # {} THEN {"member"} ELSE {}) :
       check' = [check EXCEPT ![w] = [pc |-> pc, user |-> u, perm |-> p]]
  /\ UNCHANGED <<held, cache, ttl, change>>

(* Can: SISMEMBER, which says no of a key that has gone meanwhile. *)
CheckMember(w) ==
  /\ check[w].pc = "member"
  /\ \/ check' = [check EXCEPT ![w] = Answered(w, cache[check[w].user])]
     \/ check' = [check EXCEPT ![w] = Asking(w, "read")]
  /\ UNCHANGED <<held, cache, ttl, change>>

(* Can: what it does with the rows: a member without permissions gets no   *)
(* set, since Redis has no empty ones.                                     *)
Fetched(w, got) ==
  IF got = {} THEN Answered(w, {})
  ELSE [pc |-> "add", user |-> check[w].user, perm |-> check[w].perm, got |-> got]

(* Can: GetUserPermissions, one query; or it fails and Can does, too. *)
CheckRead(w) ==
  /\ check[w].pc = "read"
  /\ \/ check' = [check EXCEPT ![w] = Fetched(w, held[check[w].user])]
     \/ check' = [check EXCEPT ![w] = Idle]
  /\ UNCHANGED <<held, cache, ttl, change>>

Filled(w) == [check[w] EXCEPT !.pc = "expire"]

(* Can: SADD, the first command of the pipeline. It adds to whatever set   *)
(* there is by now and starts a new one without a time to live.            *)
CheckAdd(w) ==
  /\ check[w].pc = "add"
  /\ cache' = [cache EXCEPT ![check[w].user] = @ \cup check[w].got]
  /\ check' = [check EXCEPT ![w] = Filled(w)]
  /\ UNCHANGED <<held, ttl, change>>

(* Can: EXPIRE, the second one; other commands may run in between. It does *)
(* nothing to a key that has gone.                                         *)
CheckExpire(w) ==
  /\ check[w].pc = "expire"
  /\ ttl' = [ttl EXCEPT ![check[w].user] = cache[check[w].user] # {}]
  /\ check' = [check EXCEPT ![w] = Answered(w, check[w].got)]
  /\ UNCHANGED <<held, cache, change>>

(* Can: the pipeline fails. Both commands travel in one write, so both are *)
(* lost; the error is logged and the answer stands.                        *)
CheckAddFails(w) ==
  /\ check[w].pc = "add"
  /\ check' = [check EXCEPT ![w] = Answered(w, check[w].got)]
  /\ UNCHANGED <<held, cache, ttl, change>>

(* RequirePermission acts on the answer. *)
CheckAnswer(w) ==
  /\ check[w].pc = "answer"
  /\ check' = [check EXCEPT ![w] = Idle]
  /\ UNCHANGED <<held, cache, ttl, change>>

-----------------------------------------------------------------------------
(* AssignRole, UpdateMember, UpdateMemberPermissions, AcceptInvitation:    *)
(* the member's row is committed; invalidateUser follows.                  *)
ChangeMember(a, u, now) ==
  /\ change[a] = Idle
  /\ held' = [held EXCEPT ![u] = now]
  /\ change' = [change EXCEPT ![a] = [pc |-> "del", todo |-> {}, keys |-> {u}]]
  /\ UNCHANGED <<cache, ttl, check>>

(* UpdateRole, UpdateRolePermissions, DeleteRole: the role is committed.   *)
(* What that makes of a member's permissions depends on whether he has the *)
(* role and on what he is granted or denied himself; invalidateOrg follows.*)
ChangeRole(a, now) ==
  /\ change[a] = Idle
  /\ held' = now
  /\ change' = [change EXCEPT ![a] = [pc |-> "scan", todo |-> Users, keys |-> {}]]
  /\ UNCHANGED <<cache, ttl, check>>

(* invalidateOrg: SCAN returns the keys it comes across, in any order. *)
Scan(a, u) ==
  LET found == IF cache[u] # {} THEN {u} ELSE {} IN
  /\ change[a].pc = "scan"
  /\ u \in change[a].todo
  /\ change' = [change EXCEPT ![a].todo = @ \ {u}, ![a].keys = @ \cup found]
  /\ UNCHANGED <<held, cache, ttl, check>>

(* invalidateOrg: the iterator ends, at the last key or at an error nobody *)
(* asks it for.                                                            *)
ScanEnds(a) ==
  /\ change[a].pc = "scan"
  /\ change' = [change EXCEPT ![a].pc = "del", ![a].todo = {}]
  /\ UNCHANGED <<held, cache, ttl, check>>

Evicted(keys) ==
  /\ cache' = [u \in Users |-> IF u \in keys THEN {} ELSE cache[u]]
  /\ ttl' = [u \in Users |-> u \notin keys /\ ttl[u]]

(* invalidateUser and invalidateOrg: DEL. *)
Invalidate(a) ==
  /\ change[a].pc = "del"
  /\ Evicted(change[a].keys)
  /\ change' = [change EXCEPT ![a] = Idle]
  /\ UNCHANGED <<held, check>>

(* DEL fails, which is logged and forgotten, or the process dies. *)
InvalidateFails(a) ==
  /\ change[a] # Idle
  /\ change' = [change EXCEPT ![a] = Idle]
  /\ UNCHANGED <<held, cache, ttl, check>>

(* permCacheTTL passes. *)
KeyExpires(u) ==
  /\ ttl[u]
  /\ Evicted({u})
  /\ UNCHANGED <<held, check, change>>

-----------------------------------------------------------------------------
CanStep(w) ==
  \/ CheckMember(w) \/ CheckRead(w)
  \/ CheckAdd(w) \/ CheckExpire(w) \/ CheckAddFails(w) \/ CheckAnswer(w)

Next ==
  \/ \E w \in Checks :
       CanStep(w) \/ \E u \in Users, p \in Asked : CheckExists(w, u, p)
  \/ \E a \in Changes :
       \/ \E u \in Users : \E now \in Grants[u] : ChangeMember(a, u, now)
       \/ \E now \in Granted : ChangeRole(a, now)
       \/ \E u \in Users : Scan(a, u)
       \/ ScanEnds(a) \/ Invalidate(a) \/ InvalidateFails(a)
  \/ \E u \in Users : KeyExpires(u)

Spec == Init /\ [][Next]_vars

(* A check that runs goes on and time passes: a fill may renew the time to *)
(* live of a key that exists, but not for ever, since it takes a check     *)
(* that found no key or that Redis gave no answer. No change has to be     *)
(* made, and none that was made has to reach Redis.                        *)
Fairness ==
  /\ \A w \in Checks : WF_vars(CanStep(w))
  /\ \A u \in Users : WF_vars(KeyExpires(u))

FairSpec == Spec /\ Fairness

-----------------------------------------------------------------------------
(* Properties *)

(* No set stays in Redis for ever: one without a time to live is about to  *)
(* get it from the check that filled it, however fills, deletions and      *)
(* expiries interleave with the two commands of the pipeline.              *)
EveryKeyExpires ==
  \A u \in Users : cache[u] # {} /\ ~ ttl[u] =>
    \E w \in Checks : check[w].pc = "expire" /\ check[w].user = u

(* The places a permission of a member may linger in: the database, the    *)
(* cached set and the rows or the answer of a check that is under way.     *)
Lingers(w, u, p) ==
  /\ check[w] # Idle
  /\ check[w].user = u
  /\ \/ check[w].pc \in {"add", "expire"} /\ p \in check[w].got
     \/ check[w].pc = "answer" /\ check[w].perm = p /\ check[w].yes

Gone(u, p) ==
  /\ p \notin held[u]
  /\ p \notin cache[u]
  /\ \A w \in Checks : ~ Lingers(w, u, p)

(* A permission that has left all of them does not come back by any        *)
(* interleaving of checks, fills and invalidations, of this member or of   *)
(* another: only an administrator can bring it back.                       *)
GoneStaysGone ==
  [][\A u \in Users, p \in Perms :
       Gone(u, p) /\ p \notin held'[u] => Gone(u, p)']_vars

(* A member who has lost a permission for good is refused in the end, even *)
(* when the invalidation is lost, or overtaken by a check that read the    *)
(* old permissions and writes them back.                                   *)
RevocationTakesHold ==
  \A u \in Users, p \in Perms :
    <>[](p \notin held[u]) =>
      <>[](\A w \in Checks :
             ~ (check[w].pc = "answer" /\ check[w].user = u
                /\ check[w].perm = p /\ check[w].yes))

(* Once a member's permissions stay what they are, so does the set that is *)
(* cached for him: a stale set goes away, and so does one that two checks  *)
(* filled, one of them with what it had read before the change.            *)
CacheHeals ==
  \A u \in Users, now \in SUBSET Perms :
    <>[](held[u] = now) => <>[](cache[u] \in {{}, now})
=============================================================================
