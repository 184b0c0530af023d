------------------------------- MODULE GocDemo -------------------------------
(***************************************************************************)
(* The demonstration service: requests of control_service/main.py, each     *)
(* running run_demo_case of poiex_runtime/cloud_demo.py against the store   *)
(* that runtime_factory.py builds for it.  With Firestore all requests      *)
(* write the same agent and lease documents; with MemoryStore each has its  *)
(* own.  One action per store operation, except that the documents every    *)
(* request writes alike (evidence, target, delegation records) are written  *)
(* together and, being there, read with the step that needs them.           *)
(***************************************************************************)
EXTENDS Integers, FiniteSets

CONSTANTS
  Requests,
  Deployments,  \* how the service may have been deployed, and what it is sent
  Firestore,    \* the one shared store
  NONE,
  Instants      \* readings of the clocks of the service's instances, in seconds

Cases == {"allow", "revoked_authority", "target_substitution",
          "policy_epoch_stale"}
Proposal == [action: {"work_order", "other"}, target: {"pump_A", "pump_B"}]

\* The environment of the service (POIEX_GOC_STORE, and whether K_SERVICE is set),
\* whether a scenario_id may be unsafe, which cases are asked for, which proposals
\* a planner may make, and at most how many requests come.
Deployment == [mode: {"memory", "firestore", "other"}, cloud: BOOLEAN,
               unsafe: BOOLEAN, cases: SUBSET Cases,
               proposals: SUBSET Proposal, load: Nat]

Agent == [observed: BOOLEAN, epoch: Nat]
Lease == [epoch: Nat, revoked_at: Int \cup {NONE}]
Reasons == {"CAPABILITY_NOT_OBSERVED", "AUTHORITY_OUT_OF_SCOPE",
            "AUTHORITY_REVOKED", "AUTHORITY_EPOCH_STALE",
            "TARGET_ACTION_NOT_ALLOWED"}
Answers == {"ALLOW", "BLOCK", "REJECTED_BEFORE_INTENT", "HTTP_400"}

ASSUME ConstantsAssumption ==
  /\ NONE \notin Agent \cup Lease \cup Proposal \cup Int \cup Answers \cup Cases
  /\ Firestore \notin Requests
  /\ Deployments \subseteq Deployment
  /\ Instants \subseteq Nat

VARIABLES
  deployment,
  agent,     \* agent-maint-01 of each store
  lease,     \* lease-001 of each store
  pc,        \* the next store operation of a request
  case,
  proposal,  \* effective_proposal
  now,
  copy,      \* the document a read-modify-write is about to write back
  epoch,     \* current_epoch of the agent the gates read
  reasons,
  answer,
  effects,   \* the requests whose synthetic action was executed
  overlap    \* history: the requests that were under way at the same time

request == <<deployment, case, proposal, now, overlap>>
vars == <<agent, lease, pc, request, copy, epoch, reasons, answer, effects>>

Stores == Requests \cup {Firestore}

\* Mutant: one MemoryStore for the whole service.
OneStore(r) == Firestore

\* build_store_from_env makes a new MemoryStore for every request.
StoreOf(r) == IF deployment.mode = "memory" THEN r ELSE Firestore

StoreRefused ==
  \/ deployment.cloud /\ deployment.mode # "firestore"
  \/ deployment.mode \notin {"memory", "firestore"}

Init ==
  /\ deployment \in Deployments
  /\ agent = [s \in Stores |-> NONE]
  /\ lease = [s \in Stores |-> NONE]
  /\ pc = [r \in Requests |-> "idle"]
  /\ case = [r \in Requests |-> NONE]
  /\ proposal = [r \in Requests |-> NONE]
  /\ now = [r \in Requests |-> 0]
  /\ copy = [r \in Requests |-> NONE]
  /\ epoch = [r \in Requests |-> 0]
  /\ reasons = [r \in Requests |-> {}]
  /\ answer = [r \in Requests |-> NONE]
  /\ effects = {}
  /\ overlap = [r \in Requests |-> {}]

Ended == {"answered", "crashed"}
UnderWay == {r \in Requests : pc[r] \notin Ended \cup {"idle"}}
\* Bound: no more requests come than the deployment's load.
MoreCome == Cardinality({r \in Requests : pc[r] # "idle"}) < deployment.load
Goto(r, from, to) == pc[r] = from /\ pc' = [pc EXCEPT ![r] = to]
Answer(r, a) == answer' = [answer EXCEPT ![r] = a]

DefaultProposal(c) ==
  [action |-> "work_order",
   target |-> IF c = "target_substitution" THEN "pump_B" ELSE "pump_A"]

-----------------------------------------------------------------------------
(* control_service.run_demo and bootstrap_synthetic_mission.                 *)

\* The environment is refused, or the scenario id is not a safe identifier:
\* answered with an error before anything is written.
BadRequest(r) ==
  /\ MoreCome
  /\ StoreRefused \/ deployment.unsafe
  /\ Goto(r, "idle", "answered")
  /\ Answer(r, "HTTP_400")
  /\ UNCHANGED <<agent, lease, request, copy, epoch, reasons, effects>>

Arrive(r) ==
  /\ MoreCome
  /\ ~StoreRefused
  /\ Goto(r, "idle", "put_agent")
  /\ \E c \in deployment.cases :
       /\ case' = [case EXCEPT ![r] = c]
       /\ \E p \in deployment.proposals \cup {DefaultProposal(c)} :
            proposal' = [proposal EXCEPT ![r] = p]
  /\ \E t \in Instants : now' = [now EXCEPT ![r] = t]
  /\ overlap' = [q \in Requests |->
                   IF q = r THEN UnderWay
                   ELSE IF q \in UnderWay THEN overlap[q] \cup {r} ELSE overlap[q]]
  /\ UNCHANGED <<deployment, agent, lease, copy, epoch, reasons, answer, effects>>

FreshAgent == [observed |-> FALSE, epoch |-> 7]

\* Mutant: an agent that is there already is kept.
PutAgentOnce(r) ==
  /\ Goto(r, "put_agent", "promote_read")
  /\ agent' = [agent EXCEPT ![StoreOf(r)] = IF @ = NONE THEN FreshAgent ELSE @]
  /\ UNCHANGED <<lease, request, copy, epoch, reasons, answer, effects>>

\* Also writes the evidence, alike in every request.
PutAgent(r) ==
  /\ Goto(r, "put_agent", "promote_read")
  /\ agent' = [agent EXCEPT ![StoreOf(r)] = FreshAgent]
  /\ UNCHANGED <<lease, request, copy, epoch, reasons, answer, effects>>

\* promote_observed_capability: the evidence binds, so only the copy matters.
PromoteRead(r) ==
  /\ Goto(r, "promote_read", "promote_write")
  /\ copy' = [copy EXCEPT ![r] = agent[StoreOf(r)]]
  /\ UNCHANGED <<agent, lease, request, epoch, reasons, answer, effects>>

PromoteWrite(r) ==
  /\ Goto(r, "promote_write", "put_lease")
  /\ agent' = [agent EXCEPT ![StoreOf(r)] = [copy[r] EXCEPT !.observed = TRUE]]
  /\ copy' = [copy EXCEPT ![r] = NONE]
  /\ UNCHANGED <<lease, request, epoch, reasons, answer, effects>>

AfterBootstrap(c) ==
  CASE c = "revoked_authority" -> "get_lease"
    [] c = "policy_epoch_stale" -> "get_agent"
    [] OTHER -> "propose"

FreshLease == [epoch |-> 7, revoked_at |-> NONE]

\* Mutant: a lease that is there already is kept.
PutLeaseOnce(r) ==
  /\ Goto(r, "put_lease", AfterBootstrap(case[r]))
  /\ lease' = [lease EXCEPT ![StoreOf(r)] = IF @ = NONE THEN FreshLease ELSE @]
  /\ UNCHANGED <<agent, request, copy, epoch, reasons, answer, effects>>

\* Also writes the target and the delegation records, alike in every request.
PutLease(r) ==
  /\ Goto(r, "put_lease", AfterBootstrap(case[r]))
  /\ lease' = [lease EXCEPT ![StoreOf(r)] = FreshLease]
  /\ UNCHANGED <<agent, request, copy, epoch, reasons, answer, effects>>

-----------------------------------------------------------------------------
(* run_demo_case: what the case changes, then the governed execution.        *)

GetLease(r) ==
  /\ Goto(r, "get_lease", "revoke_lease")
  /\ copy' = [copy EXCEPT ![r] = lease[StoreOf(r)]]
  /\ UNCHANGED <<agent, lease, request, epoch, reasons, answer, effects>>

RevokeLease(r) ==
  /\ Goto(r, "revoke_lease", "propose")
  /\ lease' = [lease EXCEPT ![StoreOf(r)] =
                 [copy[r] EXCEPT !.revoked_at = now[r] - 1]]
  /\ copy' = [copy EXCEPT ![r] = NONE]
  /\ UNCHANGED <<agent, request, epoch, reasons, answer, effects>>

GetAgent(r) ==
  /\ Goto(r, "get_agent", "advance_epoch")
  /\ copy' = [copy EXCEPT ![r] = agent[StoreOf(r)]]
  /\ UNCHANGED <<agent, lease, request, epoch, reasons, answer, effects>>

AdvanceEpoch(r) ==
  /\ Goto(r, "advance_epoch", "propose")
  /\ agent' = [agent EXCEPT ![StoreOf(r)] = [copy[r] EXCEPT !.epoch = @ + 1]]
  /\ copy' = [copy EXCEPT ![r] = NONE]
  /\ UNCHANGED <<lease, request, epoch, reasons, answer, effects>>

\* Mutant: answers with what belongs in the replay field.
RejectProposalSwapsFields(r) ==
  /\ Goto(r, "propose", "answered")
  /\ proposal[r].target # "pump_A"
  /\ Answer(r, "NOT_CREATED")
  /\ UNCHANGED <<agent, lease, request, copy, epoch, reasons, effects>>

\* proposal_to_intent raises ValueError, which run_demo_case turns into an answer.
RejectProposal(r) ==
  /\ Goto(r, "propose", "answered")
  /\ proposal[r].target # "pump_A"
  /\ Answer(r, "REJECTED_BEFORE_INTENT")
  /\ UNCHANGED <<agent, lease, request, copy, epoch, reasons, effects>>

When(condition, reason) == IF condition THEN {reason} ELSE {}

\* The proposal is bound, and execute reads the agent and its evidence.
ReadAgent(r) ==
  LET a == agent[StoreOf(r)]
  IN /\ Goto(r, "propose", "read_lease")
     /\ proposal[r].target = "pump_A"
     /\ epoch' = [epoch EXCEPT ![r] = a.epoch]
     /\ reasons' = [reasons EXCEPT ![r] =
          When(~a.observed \/ proposal[r].action # "work_order",
               "CAPABILITY_NOT_OBSERVED")]
     /\ UNCHANGED <<agent, lease, request, copy, answer, effects>>

\* The lease, then the delegation records and the target, in which only the
\* proposed action can be amiss.
ReadLease(r) ==
  LET l     == lease[StoreOf(r)]
      found == reasons[r]
        \cup When(l.revoked_at # NONE /\ l.revoked_at <= now[r], "AUTHORITY_REVOKED")
        \cup When(l.epoch # epoch[r], "AUTHORITY_EPOCH_STALE")
        \cup (IF proposal[r].action = "work_order" THEN {}
              ELSE {"AUTHORITY_OUT_OF_SCOPE", "TARGET_ACTION_NOT_ALLOWED"})
  IN /\ Goto(r, "read_lease", IF found = {} THEN "mutate" ELSE "receipt")
     /\ reasons' = [reasons EXCEPT ![r] = found]
     /\ UNCHANGED <<agent, lease, request, copy, epoch, answer, effects>>

Mutate(r) ==
  /\ Goto(r, "mutate", "receipt")
  /\ effects' = effects \cup {r}
  /\ UNCHANGED <<agent, lease, request, copy, epoch, reasons, answer>>

\* The receipt and its replay, which nothing another request writes can fail.
PutReceipt(r) ==
  /\ Goto(r, "receipt", "answered")
  /\ Answer(r, IF reasons[r] = {} THEN "ALLOW" ELSE "BLOCK")
  /\ UNCHANGED <<agent, lease, request, copy, epoch, reasons, effects>>

\* The instance is stopped, or a store operation raises something else.
Crash(r) ==
  /\ r \in UnderWay
  /\ pc' = [pc EXCEPT ![r] = "crashed"]
  /\ copy' = [copy EXCEPT ![r] = NONE]
  /\ epoch' = [epoch EXCEPT ![r] = 0]
  /\ UNCHANGED <<agent, lease, request, reasons, answer, effects>>

Bootstrap(r) ==
  BadRequest(r) \/ Arrive(r) \/ PutAgent(r) \/ PromoteRead(r) \/ PromoteWrite(r)
    \/ PutLease(r)
RunCase(r) ==
  GetLease(r) \/ RevokeLease(r) \/ GetAgent(r) \/ AdvanceEpoch(r)
    \/ RejectProposal(r) \/ ReadAgent(r) \/ ReadLease(r) \/ Mutate(r)
    \/ PutReceipt(r)

Next == \E r \in Requests : Bootstrap(r) \/ RunCase(r) \/ Crash(r)
Spec == Init /\ [][Next]_vars

-----------------------------------------------------------------------------
\* The documents, locals and answers of every request keep their types.
TypeOK ==
  /\ deployment \in Deployments
  /\ agent \in [Stores -> Agent \cup {NONE}]
  /\ lease \in [Stores -> Lease \cup {NONE}]
  /\ pc \in [Requests -> {"idle", "put_agent", "promote_read", "promote_write",
                          "put_lease", "get_lease", "revoke_lease", "get_agent",
                          "advance_epoch", "propose", "read_lease", "mutate",
                          "receipt"} \cup Ended]
  /\ case \in [Requests -> Cases \cup {NONE}]
  /\ proposal \in [Requests -> Proposal \cup {NONE}]
  /\ now \in [Requests -> Nat]
  /\ copy \in [Requests -> Agent \cup Lease \cup {NONE}]
  /\ epoch \in [Requests -> Nat]
  /\ reasons \in [Requests -> SUBSET Reasons]
  /\ answer \in [Requests -> Answers \cup {NONE}]
  /\ effects \subseteq Requests
  /\ overlap \in [Requests -> SUBSET Requests]

\* The reasons a case and its proposal should give, alone on a store.
DocumentedReasons(r) ==
  When(case[r] = "revoked_authority", "AUTHORITY_REVOKED")
    \cup When(case[r] = "policy_epoch_stale", "AUTHORITY_EPOCH_STALE")
    \cup (IF proposal[r].action = "work_order" THEN {}
          ELSE {"CAPABILITY_NOT_OBSERVED", "AUTHORITY_OUT_OF_SCOPE",
                "TARGET_ACTION_NOT_ALLOWED"})

AsDocumented(r) ==
  IF proposal[r].target # "pump_A"
  THEN answer[r] = "REJECTED_BEFORE_INTENT" /\ r \notin effects
  ELSE /\ reasons[r] = DocumentedReasons(r)
       /\ answer[r] = IF DocumentedReasons(r) = {} THEN "ALLOW" ELSE "BLOCK"
       /\ r \in effects <=> DocumentedReasons(r) = {}

Answered(r) == pc[r] = "answered" /\ answer[r] # "HTTP_400"

\* With a MemoryStore each case ends in its documented decision, for its documented
\* reasons, and with an effect only if it is ALLOW, whatever other requests are doing.
OutcomeAsDocumented ==
  deployment.mode = "memory" => \A r \in Requests : Answered(r) => AsDocumented(r)

\* So does a request that no other overlaps, whatever the requests before it, some
\* of them stopped half-way, left in the shared documents: the bootstrap
\* overwrites every document it depends on.
UndisturbedOutcome ==
  \A r \in Requests : (Answered(r) /\ overlap[r] = {}) => AsDocumented(r)

\* A reason the case does not explain is the work of an overlapping request: a
\* revocation of one that asked for it, anything else of any.  (A stale epoch
\* can come from a request that only wrote back a copy it read of a third.)
SurplusHasSource ==
  \A r \in Requests : Answered(r) =>
    LET surplus == reasons[r] \ DocumentedReasons(r)
    IN /\ surplus # {} => overlap[r] # {}
       /\ "AUTHORITY_REVOKED" \in surplus =>
            \E q \in overlap[r] : case[q] = "revoked_authority"

\* A request that revokes the authority before it acts is blocked.
RevokedCaseBlocks ==
  \A r \in Requests :
    (Answered(r) /\ case[r] = "revoked_authority" /\ proposal[r].target = "pump_A")
      => answer[r] = "BLOCK"
=============================================================================
