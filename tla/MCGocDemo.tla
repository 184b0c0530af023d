------------------------------ MODULE MCGocDemo ------------------------------
(***************************************************************************)
(* Instances of GocDemo: the service with a store for each request, sent    *)
(* every kind of planner proposal; on Cloud Run with one store for all,      *)
(* sent the default proposals of the cases that change it; and two           *)
(* environments that runtime_factory.py refuses.                             *)
(***************************************************************************)
EXTENDS GocDemo, TLC

CONSTANTS r1, r2, r3   \* Requests

Local(load) ==
  [mode |-> "memory", cloud |-> FALSE, unsafe |-> TRUE, cases |-> Cases,
   proposals |-> Proposal, load |-> load]
OnCloudRun(load) ==
  [mode |-> "firestore", cloud |-> TRUE, unsafe |-> FALSE,
   cases |-> {"allow", "revoked_authority", "policy_epoch_stale"},
   proposals |-> {}, load |-> load]
Refused == {[Local(2) EXCEPT !.cloud = TRUE], [Local(2) EXCEPT !.mode = "other"]}

EveryDeployment == {Local(2), OnCloudRun(3)} \cup Refused
CloudRunForTwo == {OnCloudRun(2)}
Symmetry == Permutations(Requests)
=============================================================================
