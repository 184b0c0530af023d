------------------------------ MODULE MCAuditors ------------------------------
(***************************************************************************)
(* The auditors side by side, as scripts/run_v0_8_certified_state_auditors  *)
(* and the hardening endpoint call them: none touches the state of another, *)
(* so a behaviour is one auditor at work while the others rest.             *)
(*  - repair: three candidates over two obligation ids, every certificate;  *)
(*  - future: three states, enough for two coordinates that settle only     *)
(*    together what neither settles alone;                                   *)
(*  - capacity: two series of three points, refused points among them;      *)
(*  - independence: three contracts, equal up to the order of evidence;     *)
(*  - readback: three memory values, two kernels, two bases;                *)
(*  - observer: everything that can move, and claims of up to two units.    *)
(***************************************************************************)
EXTENDS CertifiedRepair, StateAudits, GovernanceHardening, TLC

VARIABLE auditor

MCWeights == {-1, 1, 2}
MCBudgets == -1..3
MCScales == 0..3
MCRanks == -1..2
MCEvidenceLists == {<<1>>, <<1, 1>>, <<1, 2>>, <<2, 1>>}

allVars == <<auditor, vars, auditsVars, hardeningVars>>
Symmetry ==
  Permutations(Ids) \cup Permutations(Candidates) \cup Permutations(StateIds)

NoRepair ==
  /\ branch = [registered |-> {}, necessary |-> {}, repeated |-> FALSE,
               covers |-> [c \in Candidates |-> [o \in Ids |-> 0]],
               cost |-> [c \in Candidates |-> 1],
               weights |-> [o \in Ids |-> NONE], budget |-> 0]
  /\ verdict = NONE
  /\ lower_bound = 0

SomeObserved == CHOOSE o \in Observed : TRUE

MCInit ==
  /\ auditor \in
       {"repair", "future", "capacity", "independence", "readback", "observer"}
  /\ IF auditor = "repair" THEN Init ELSE NoRepair
  /\ AuditsInit
  /\ HardeningInit
  /\ auditor # "observer" => observed = SomeObserved

RepairStep ==
  /\ auditor = "repair"
  /\ Next
  /\ UNCHANGED <<auditor, auditsVars, hardeningVars>>

StateStep ==
  /\ \/ auditor = "future" /\ AddState
     \/ auditor = "capacity" /\ (AddPoint \/ AddSeriesAgain)
     \/ auditor = "independence" /\ AddAction
  /\ UNCHANGED <<auditor, vars, hardeningVars>>

HardeningStep ==
  /\ \/ auditor = "readback" /\ Gather
     \/ auditor = "observer" /\ Transition
  /\ UNCHANGED <<auditor, vars, auditsVars>>

MCNext == RepairStep \/ StateStep \/ HardeningStep
MCSpec == MCInit /\ [][MCNext]_allVars
=============================================================================
