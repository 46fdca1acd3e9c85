----------------------------- MODULE LoginChain -----------------------------
(***************************************************************************)
(* What refresh sessions promise a user, said of his logins: a login goes  *)
(* on from one token to the next, each of them never issued before; at any *)
(* time one token of it counts; and once it has been ended it never comes  *)
(* back. Ending many logins takes effect at once. Sessions implements this *)
(* with row locks and requests that interleave and fail.                   *)
(***************************************************************************)
CONSTANT Tokens          \* every token there ever is

VARIABLES issued,        \* the tokens handed out so far
          tip            \* of each login, named by its first token: the tokens
                         \* that count now

Init == issued = {} /\ tip = [l \in Tokens |-> {}]

(* A login is opened with a new token, which names it. *)
Open(t) ==
  /\ t \notin issued
  /\ issued' = issued \cup {t}
  /\ tip' = [tip EXCEPT ![t] = {t}]

(* A login that has not ended goes on with a new token instead of its last. *)
Continue(l, t) ==
  /\ tip[l] # {}
  /\ t \notin issued
  /\ issued' = issued \cup {t}
  /\ tip' = [tip EXCEPT ![l] = {t}]

(* A logout ends one login, a logout from everywhere those it finds. *)
End(ls) ==
  /\ tip' = [l \in Tokens |-> IF l \in ls THEN {} ELSE tip[l]]
  /\ UNCHANGED issued

Next ==
  \/ \E t \in Tokens : Open(t)
  \/ \E l, t \in Tokens : Continue(l, t)
  \/ \E ls \in SUBSET Tokens : End(ls)

Spec == Init /\ [][Next]_<<issued, tip>>
=============================================================================
