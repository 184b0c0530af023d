---------------------------- MODULE CertifiedRepair ----------------------------
(***************************************************************************)
(* certify_repair_branch of poiex_runtime/certified_repair.py: the check of  *)
(* a certificate that no repair of a branch fits its remaining budget.  A    *)
(* certificate gives each obligation a weight; what the check concludes from *)
(* it is compared with every set of candidates.  Fractions are integers over *)
(* a common denominator.                                                     *)
(***************************************************************************)
EXTENDS Integers, FiniteSets, Functions

CONSTANTS
  Ids,         \* obligation ids, registered or not
  Candidates,
  Costs,
  Times,       \* how often a candidate may name an obligation
  Weights,
  Budgets,
  NONE         \* of an obligation the certificate does not name

ASSUME ConstantsAssumption ==
  /\ IsFiniteSet(Ids) /\ IsFiniteSet(Candidates)
  /\ Costs \subseteq Nat \ {0}   \* RepairCandidate refuses any other
  /\ Times \subseteq Nat
  /\ Weights \cup Budgets \subseteq Int
  /\ NONE \notin Weights
  /\ NONE \notin {"CERTIFIED_PRUNE", "KEEP_SEARCH"}

VARIABLES
  branch,      \* the arguments of the call
  verdict,
  lower_bound

vars == <<branch, verdict, lower_bound>>

Branch == [registered: SUBSET Ids, necessary: SUBSET Ids,
           repeated: BOOLEAN,   \* an obligation or a candidate id occurs twice
           covers: [Candidates -> [Ids -> Times]],
           cost: [Candidates -> Costs],
           weights: [Ids -> Weights \cup {NONE}],
           budget: Budgets]

Init ==
  /\ branch \in {b \in Branch : b.necessary \subseteq b.registered}
  /\ verdict = NONE
  /\ lower_bound = 0

-----------------------------------------------------------------------------
(* _normalize_weights                                                        *)

Misweighted(b) ==
  {o \in Ids : /\ b.weights[o] # NONE
               /\ \/ o \notin b.registered
                  \/ b.weights[o] < 0
                  \/ b.weights[o] > 0 /\ o \notin b.necessary}

\* Mutant: a negative weight is reported, and counted.
WeightAsGiven(b, o) == IF b.weights[o] = NONE THEN 0 ELSE b.weights[o]

\* The weight that counts: 0 unless the certificate gives an admissible one.
Weight(b, o) ==
  IF b.weights[o] = NONE \/ o \in Misweighted(b) THEN 0 ELSE b.weights[o]

-----------------------------------------------------------------------------
(* certify_repair_branch                                                     *)

UnknownCovers(b) ==
  {o \in Ids \ b.registered : \E c \in Candidates : b.covers[c][o] > 0}

Uncovered(b) ==
  {o \in b.necessary : \A c \in Candidates : b.covers[c][o] = 0}

Load(b, c) == SumFunction([o \in Ids |-> b.covers[c][o] * Weight(b, o)])

\* Mutant: each obligation is compared with the cost on its own.
OverloadedByOne(b) ==
  {c \in Candidates : \E o \in Ids : b.covers[c][o] * Weight(b, o) > b.cost[c]}

Overloaded(b) == {c \in Candidates : Load(b, c) > b.cost[c]}

LowerBound(b) == SumFunctionOnSet([o \in Ids |-> Weight(b, o)], b.necessary)

Refused(b) == b.budget < 0 \/ b.repeated
Invalid(b) == Misweighted(b) \cup UnknownCovers(b) # {} \/ Overloaded(b) # {}

\* Mutant: a bound that only reaches the budget prunes.
PrunableAtBudget(b) == Uncovered(b) # {} \/ LowerBound(b) >= b.budget

Prunable(b) == Uncovered(b) # {} \/ LowerBound(b) > b.budget

Refuse ==
  /\ verdict = NONE
  /\ Refused(branch)
  /\ verdict' = "ValueError"
  /\ UNCHANGED <<branch, lower_bound>>

Conclude(conclusion) ==
  /\ verdict = NONE
  /\ ~Refused(branch)
  /\ verdict' = conclusion
  /\ lower_bound' = LowerBound(branch)
  /\ UNCHANGED branch

Reject == Invalid(branch) /\ Conclude("INVALID_CERTIFICATE")
Prune == ~Invalid(branch) /\ Prunable(branch) /\ Conclude("CERTIFIED_PRUNE")
Keep == ~Invalid(branch) /\ ~Prunable(branch) /\ Conclude("KEEP_SEARCH")

Next == Refuse \/ Reject \/ Prune \/ Keep
Spec == Init /\ [][Next]_vars

-----------------------------------------------------------------------------
(* What a branch can still be repaired with, by exhaustive search.            *)

Repairs(b) ==
  {S \in SUBSET Candidates :
     \A o \in b.necessary : \E c \in S : b.covers[c][o] > 0}

CostOf(b, S) == SumFunctionOnSet(b.cost, S)

\* A verdict is one the function has, and the bound is never negative.
TypeOK ==
  /\ branch \in Branch
  /\ verdict \in {NONE, "ValueError", "INVALID_CERTIFICATE", "CERTIFIED_PRUNE",
                  "KEEP_SEARCH"}
  /\ lower_bound \in Nat

\* A branch is pruned only if no set of candidates repairs it within the budget,
\* whatever weights the certificate gave.
PruneIsSound ==
  verdict = "CERTIFIED_PRUNE" =>
    \A S \in Repairs(branch) : CostOf(branch, S) > branch.budget

\* The bound reported with an accepted certificate is one: every repair costs at
\* least that much, so a search may subtract it from what it can still spend.
BoundHolds ==
  verdict \in {"CERTIFIED_PRUNE", "KEEP_SEARCH"} =>
    \A S \in Repairs(branch) : CostOf(branch, S) >= lower_bound
=============================================================================
