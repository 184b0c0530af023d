--------------------------- MODULE GovernedAction ---------------------------
(***************************************************************************)
(* What the control plane promises of each call, with no store reads, races *)
(* or order of gates: a call opens with or without authority, a material   *)
(* effect happens at most once and only under authority, and the one       *)
(* verdict of a call says ALLOW exactly when its effect happened.  Of the   *)
(* authority of calls under which the registry of delegations is rewritten *)
(* nothing is promised.  A call may stop at any point.                      *)
(***************************************************************************)
CONSTANT Calls

VARIABLES
  authority,  \* [Calls -> {"unopened", "held", "lacking", "torn"}]
  effects,    \* the calls whose material effect happened
  verdict     \* [Calls -> {"none", "ALLOW", "BLOCK"}]

vars == <<authority, effects, verdict>>

TypeOK ==
  /\ authority \in [Calls -> {"unopened", "held", "lacking", "torn"}]
  /\ effects \subseteq Calls
  /\ verdict \in [Calls -> {"none", "ALLOW", "BLOCK"}]

Init ==
  /\ authority = [c \in Calls |-> "unopened"]
  /\ effects = {}
  /\ verdict = [c \in Calls |-> "none"]

Undecided(c) == c \notin effects /\ verdict[c] = "none"

Open(c) ==
  /\ authority[c] = "unopened"
  /\ Undecided(c)
  /\ \E a \in {"held", "lacking"} : authority' = [authority EXCEPT ![c] = a]
  /\ UNCHANGED <<effects, verdict>>

\* The registry of delegations is rewritten under the calls that are reading it.
Tear ==
  /\ \E readers \in SUBSET {c \in Calls : authority[c] # "unopened" /\ Undecided(c)} :
       authority' = [c \in Calls |-> IF c \in readers THEN "torn" ELSE authority[c]]
  /\ UNCHANGED <<effects, verdict>>

Act(c) ==
  /\ authority[c] \in {"held", "torn"}
  /\ Undecided(c)
  /\ effects' = effects \cup {c}
  /\ UNCHANGED <<authority, verdict>>

\* A call may be blocked before its authority was looked at.
Decide(c) ==
  /\ verdict[c] = "none"
  /\ verdict' = [verdict EXCEPT ![c] = IF c \in effects THEN "ALLOW" ELSE "BLOCK"]
  /\ UNCHANGED <<authority, effects>>

Next == Tear \/ \E c \in Calls : Open(c) \/ Act(c) \/ Decide(c)

Spec == Init /\ [][Next]_vars
=============================================================================
