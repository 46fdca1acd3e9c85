---------------------------- MODULE ApprovalChain ----------------------------
(***************************************************************************)
(* What the approval engine promises to the modules that use it: every     *)
(* instance walks through the levels frozen at its creation one at a time, *)
(* each verdict acts on the instance in one step, a completed instance     *)
(* never changes, and the source module hears of an outcome at most once.  *)
(* ApprovalEngine implements this with three separate SQL statements and   *)
(* no transaction (theorem EngineRefinesChain).                            *)
(***************************************************************************)
EXTENDS Integers, Sequences

CONSTANTS Instances,    \* identifiers of approval instances
          MaxLevels     \* the longest chain an organization configures

VARIABLES chain,        \* where each instance stands in its chain
          told          \* outcomes each instance's source module was told

Outcomes == {"approved", "rejected"}
Statuses == Outcomes \cup {"pending", "cancelled"}

NoRow == [status |-> "none", level |-> 0, len |-> 0]

Init ==
  /\ chain = [i \in Instances |-> NoRow]
  /\ told = [i \in Instances |-> <<>>]

(* The instance starts pending on level 1 of a chain of n levels. *)
Open(i, n) ==
  /\ chain[i] = NoRow
  /\ chain' = [chain EXCEPT ![i] = [status |-> "pending", level |-> 1, len |-> n]]
  /\ UNCHANGED told

(* The current level agrees: the next one is asked, or the chain is done. *)
Approve(i) ==
  /\ chain[i].status = "pending"
  /\ chain' = [chain EXCEPT ![i].level = @ + 1,
                          ![i].status = IF chain[i].level + 1 > chain[i].len
                                          THEN "approved" ELSE "pending"]
  /\ UNCHANGED told

(* One refusal, or the source module's cancellation, ends the chain. *)
Stop(i, verdict) ==
  /\ chain[i].status = "pending"
  /\ chain' = [chain EXCEPT ![i].status = verdict]
  /\ UNCHANGED told

(* The source module is told the outcome, once. *)
Tell(i) ==
  /\ chain[i].status \in Outcomes
  /\ told[i] = <<>>
  /\ told' = [told EXCEPT ![i] = <<chain[i].status>>]
  /\ UNCHANGED chain

Next ==
  \E i \in Instances :
    \/ \E n \in 1..MaxLevels : Open(i, n)
    \/ Approve(i)
    \/ \E verdict \in {"rejected", "cancelled"} : Stop(i, verdict)
    \/ Tell(i)

Spec == Init /\ [][Next]_<<chain, told>>
=============================================================================
