----------------------------- MODULE ControlPlane -----------------------------
(***************************************************************************)
(* poiex_runtime/control_plane.py, entered directly or through the          *)
(* orchestrator: each call reads the registries one store operation at a   *)
(* time, mutates, writes a receipt and replays it, while promotions, epoch *)
(* advances, revocations, puts of whole documents (as cloud_demo.py's       *)
(* bootstrap makes them) and the clock go on around it.  The store hands    *)
(* out copies, as FirestoreStore does.                                     *)
(***************************************************************************)
EXTENDS ProvenanceRules

CONSTANTS
  Calls,              \* one execution each; the call stands for its run_id
  Promoters,          \* concurrent promote_observed_capability calls
  LeaseIds, EvidenceIds, TargetIds,
  Seeds,              \* initial contents of the store
  Proposals,          \* what a caller may hand to execute_proposal
  DirectCalls,        \* what a caller may hand to execute
  Promotions,         \* the arguments a promoter may be given
  RequireProvenance,  \* require_authority_provenance
  RevocableLeases, RevocableRecords, LosableEvidence,
  AgentPuts, LeasePuts, RecordPuts, TargetPuts,  \* <<id, document>> pairs
  MaxEpoch, MaxClock   \* bounds

Agent == [observed: [Actions -> EvidenceIds \cup {NONE}], epoch: Nat]
Evidence == [subject: Actors, claim: Actions,
             source: {"RUNTIME_OBSERVATION", "SELF_DECLARATION"}]
Lease == [agent: Actors, issuer: Actors, scope: SUBSET Actions, epoch: Nat,
          provenance: ProvIds \cup {NONE}, expires_at: Instant,
          revoked_at: Instant \cup {NONE}]
Target == [version: Nat, allowed: SUBSET Actions]
\* canonical_hash is injective: a target hash is the hashed fields themselves.
Hash == TargetIds \X Target
TargetHash(id, target) == <<id, target>>

Intent == [agent: Actors, action: Actions, target: TargetIds, hash: Hash]
Identity == [agent: Actors, authenticated: BOOLEAN]
Proposal == [identity: Identity, lease: LeaseIds, action: Actions,
             target: TargetIds, authorized: TargetIds]
DirectCall == [identity: Identity, lease: LeaseIds, intent: Intent]
\* The reasons of a refusal, those about the authority of a lease apart, and what
\* a replay can find amiss.
AuthorityReasons ==
  {"AUTHORITY_LEASE_MISSING", "AUTHORITY_AGENT_MISMATCH",
   "AUTHORITY_OUT_OF_SCOPE", "AUTHORITY_REVOKED", "AUTHORITY_EXPIRED",
   "PROVENANCE_MISSING", "PROVENANCE_CYCLE", "PROVENANCE_RECORD_MISSING",
   "PROVENANCE_NOT_YET_VALID", "PROVENANCE_REVOKED",
   "PROVENANCE_SUBJECT_MISMATCH", "PROVENANCE_ISSUER_MISMATCH",
   "PROVENANCE_EPOCH_MISMATCH", "PROVENANCE_SCOPE_MISMATCH",
   "PROVENANCE_DELEGATION_GAP", "PROVENANCE_SCOPE_ESCALATION",
   "PROVENANCE_UNTRUSTED_ROOT"}
Reasons == AuthorityReasons \cup
  {"IDENTITY_NOT_AUTHENTICATED", "IDENTITY_UNKNOWN", "IDENTITY_INTENT_MISMATCH",
   "CAPABILITY_NOT_OBSERVED", "AUTHORITY_EPOCH_STALE", "TARGET_UNKNOWN",
   "TARGET_HASH_MISMATCH", "TARGET_ACTION_NOT_ALLOWED"}
Mismatches == {"MISSING_AGENT", "MISSING_LEASE", "MISSING_EVIDENCE",
               "MISSING_TARGET", "TARGET_HASH_CHANGED",
               "MISSING_EXECUTOR_RESULT_HASH",
               "EXECUTOR_RESULT_NOT_RECONSTRUCTABLE"}

Effect == [agent: Actors, action: Actions, hash: Hash]
ReceiptType == [agent: Actors, lease: LeaseIds, refs: SUBSET EvidenceIds,
                target: TargetIds, hash: Hash, result: (Calls \X Effect) \cup {NONE},
                decision: {"ALLOW", "BLOCK"}, reasons: SUBSET Reasons]
Reads == [agent: Agent \cup {NONE}, evidence_id: EvidenceIds \cup {NONE},
          lease: Lease \cup {NONE}, target: Target \cup {NONE}]
Walk == [current: ProvIds \cup {NONE}, child: Record \cup {NONE},
         visited: SUBSET ProvIds]
Promotion == [agent: Actors, capability: Actions, evidence: EvidenceIds]
Seed == [agents: [Actors -> Agent \cup {NONE}],
         evidence: [EvidenceIds -> Evidence \cup {NONE}],
         leases: [LeaseIds -> Lease \cup {NONE}],
         records: [ProvIds -> Record \cup {NONE}],
         targets: [TargetIds -> Target \cup {NONE}]]

\* Whether e is a runtime observation of this agent having this capability.
Binds(e, agent, capability) ==
  /\ e # NONE
  /\ e.subject = agent
  /\ e.claim = capability
  /\ e.source = "RUNTIME_OBSERVATION"

ASSUME InputAssumption ==
  /\ NONE \notin Agent \cup Evidence \cup Lease \cup Target
       \cup EvidenceIds \cup Promotion \cup Effect \cup ReceiptType
  /\ Seeds \subseteq Seed
  /\ Proposals \subseteq Proposal
  /\ DirectCalls \subseteq DirectCall
  /\ Promotions \subseteq Promotion
  /\ RequireProvenance \in BOOLEAN
  /\ RevocableLeases \subseteq LeaseIds
  /\ RevocableRecords \subseteq ProvIds
  /\ LosableEvidence \subseteq EvidenceIds
  /\ AgentPuts \subseteq Actors \X Agent
  /\ LeasePuts \subseteq LeaseIds \X Lease
  /\ RecordPuts \subseteq ProvIds \X Record
  /\ TargetPuts \subseteq TargetIds \X Target

\* An agent is registered without observed capabilities: promotion adds them.
ASSUME RegistrationAssumption ==
  \A put \in AgentPuts, x \in Actions : put[2].observed[x] = NONE

\* Capabilities enter a seed as they enter the registry: through evidence.
ASSUME SeedAssumption ==
  \A s \in Seeds, a \in Actors, x \in Actions :
    (s.agents[a] # NONE /\ s.agents[a].observed[x] # NONE) =>
      Binds(s.evidence[s.agents[a].observed[x]], a, x)

VARIABLES
  agents, evidence, leases, records, targets,  \* the store's registries
  effects,     \* synthetic_actions, by run_id
  receipts,    \* receipts, by the run that wrote them
  clock,
  pc,          \* the next store operation of a call
  call,        \* identity, lease_id and intent of a call
  now,         \* the call's decision instant
  seen,        \* what the call has read: agent, evidence id, lease, target
  walk,        \* locals of verify_authority_provenance
  reasons,
  mismatches,  \* of the replay manifest
  promoter,    \* locals of each promote_observed_capability
  advance,     \* the copy an epoch advance is about to write back, or NONE
  revocation,  \* the copy a revocation of a lease is about to write back, or NONE
  authority,   \* history: whether the store, when a call read its lease, held the
               \* authority for its intent as of its instant
  torn,        \* history: whether a record was put while a call walked the chain
  touched,     \* history: whether a call's target was put after the call read it
  evidence0,   \* history: the evidence seeded
  lost,        \* history: the evidence that was ever lost
  highEpoch,   \* history: the highest epoch an agent was ever given
  floor        \* history: highEpoch of the caller when its call began

registries == <<agents, evidence, leases, records, targets>>
locals == <<call, now, seen, walk, reasons>>
outcome == <<effects, receipts, mismatches>>
writers == <<promoter, advance, revocation>>
history == <<authority, torn, touched, evidence0, lost, highEpoch, floor>>
vars == <<registries, locals, outcome, writers, history, clock, pc>>

NoCall == [identity |-> NONE, lease |-> NONE, intent |-> NONE]
NothingSeen == [agent |-> NONE, evidence_id |-> NONE, lease |-> NONE,
                target |-> NONE]
NotWalking == [current |-> NONE, child |-> NONE, visited |-> {}]
NoPromotion == [pc |-> "idle", promotion |-> NONE, copy |-> NONE]

Init ==
  /\ \E s \in Seeds :
       /\ agents = s.agents
       /\ evidence = s.evidence
       /\ leases = s.leases
       /\ records = s.records
       /\ targets = s.targets
       /\ evidence0 = s.evidence
       /\ highEpoch = [a \in Actors |->
                         IF s.agents[a] = NONE THEN 0 ELSE s.agents[a].epoch]
  /\ effects = [c \in Calls |-> NONE]
  /\ receipts = [c \in Calls |-> NONE]
  /\ clock = 0
  /\ pc = [c \in Calls |-> "idle"]
  /\ call = [c \in Calls |-> NoCall]
  /\ now = [c \in Calls |-> 0]
  /\ seen = [c \in Calls |-> NothingSeen]
  /\ walk = [c \in Calls |-> NotWalking]
  /\ reasons = [c \in Calls |-> {}]
  /\ mismatches = [c \in Calls |-> {}]
  /\ promoter = [p \in Promoters |-> NoPromotion]
  /\ advance = NONE
  /\ revocation = NONE
  /\ authority = [c \in Calls |-> "unopened"]
  /\ torn = [c \in Calls |-> FALSE]
  /\ touched = [c \in Calls |-> FALSE]
  /\ lost = {}
  /\ floor = [c \in Calls |-> 0]

Goto(c, from, to) == pc[c] = from /\ pc' = [pc EXCEPT ![c] = to]
AddReasons(c, more) == reasons' = [reasons EXCEPT ![c] = @ \cup more]

-----------------------------------------------------------------------------
(* GovernedOrchestrator.execute_proposal: bind the proposal to the target.   *)

ProposalRejected(c) ==
  /\ Goto(c, "idle", "rejected")
  /\ \E p \in Proposals :
       targets[p.authorized] = NONE \/ p.target # p.authorized
  /\ UNCHANGED <<registries, locals, outcome, writers, history, clock>>

ProposalBound(c) ==
  /\ Goto(c, "idle", "begin")
  /\ \E p \in Proposals :
       /\ targets[p.authorized] # NONE
       /\ p.target = p.authorized
       /\ call' = [call EXCEPT ![c] =
            [identity |-> p.identity, lease |-> p.lease,
             intent |-> [agent |-> p.identity.agent, action |-> p.action,
                         target |-> p.target,
                         hash |-> TargetHash(p.target, targets[p.target])]]]
  /\ UNCHANGED <<registries, now, seen, walk, reasons, outcome, writers,
                 history, clock>>

\* A caller that goes to ControlPlane.execute with an intent of its own.
CalledDirectly(c) ==
  /\ Goto(c, "idle", "begin")
  /\ \E d \in DirectCalls : call' = [call EXCEPT ![c] = d]
  /\ UNCHANGED <<registries, now, seen, walk, reasons, outcome, writers,
                 history, clock>>

-----------------------------------------------------------------------------
(* ControlPlane.execute, one store operation per action.                     *)

\* The authority a lease carries at an instant, whatever reads are to follow:
\* what the gates must establish, stated over the records as a whole.
Authorizes(lease, intent, instant, recs) ==
  /\ lease # NONE
  /\ lease.agent = intent.agent
  /\ intent.action \in lease.scope
  /\ lease.expires_at > instant
  /\ lease.revoked_at = NONE \/ lease.revoked_at > instant
  /\ RequireProvenance => HasValidChain(recs, lease, instant)

Begin(c) ==
  /\ Goto(c, "begin", "agent")
  /\ now' = [now EXCEPT ![c] = clock]
  /\ floor' = [floor EXCEPT ![c] = highEpoch[call[c].identity.agent]]
  /\ UNCHANGED <<registries, call, seen, walk, reasons, outcome, writers,
                 clock, authority, torn, touched, evidence0, lost, highEpoch>>

IdentityFaults(c, agent) ==
  When(~call[c].identity.authenticated, "IDENTITY_NOT_AUTHENTICATED")
    \cup When(agent = NONE, "IDENTITY_UNKNOWN")
    \cup When(call[c].intent.agent # call[c].identity.agent,
              "IDENTITY_INTENT_MISMATCH")

\* A fault of identity goes straight to the receipt, with no evidence refs.
ReadAgent(c) ==
  LET stored == agents[call[c].identity.agent]
      faults == IdentityFaults(c, stored)
  IN /\ Goto(c, "agent", IF faults = {} THEN "evidence" ELSE "receipt")
     /\ seen' = [seen EXCEPT ![c].agent = stored]
     /\ AddReasons(c, faults)
     /\ UNCHANGED <<registries, call, now, walk, outcome, writers, history,
                    clock>>

\* The evidence item is looked up, but only its source is compared.
CapabilityFaults(item) ==
  When(item = NONE \/ item.source # "RUNTIME_OBSERVATION",
       "CAPABILITY_NOT_OBSERVED")

\* Mutant: remembers the item where the code remembers its id.
ReadEvidenceKeepsItem(c) ==
  LET id == seen[c].agent.observed[call[c].intent.action]
  IN /\ Goto(c, "evidence", "lease")
     /\ seen' = [seen EXCEPT ![c].evidence_id =
                   IF id = NONE THEN NONE ELSE evidence[id]]
     /\ AddReasons(c, CapabilityFaults(IF id = NONE THEN NONE ELSE evidence[id]))
     /\ UNCHANGED <<registries, call, now, walk, outcome, writers, history,
                    clock>>

ReadEvidence(c) ==
  LET id == seen[c].agent.observed[call[c].intent.action]
  IN /\ Goto(c, "evidence", "lease")
     /\ seen' = [seen EXCEPT ![c].evidence_id = id]
     /\ AddReasons(c, CapabilityFaults(IF id = NONE THEN NONE ELSE evidence[id]))
     /\ UNCHANGED <<registries, call, now, walk, outcome, writers, history,
                    clock>>

AuthorityFaults(c, lease) ==
  When(lease.agent # call[c].identity.agent, "AUTHORITY_AGENT_MISMATCH")
    \cup When(call[c].intent.action \notin lease.scope, "AUTHORITY_OUT_OF_SCOPE")
    \cup When(RevokedBy(lease, now[c]), "AUTHORITY_REVOKED")
    \cup When(lease.expires_at <= now[c], "AUTHORITY_EXPIRED")
    \cup When(lease.epoch # seen[c].agent.epoch, "AUTHORITY_EPOCH_STALE")
    \cup When(RequireProvenance /\ lease.provenance = NONE, "PROVENANCE_MISSING")

\* History: the authority there is when the lease is read.
OpenAuthority(c) ==
  /\ authority' = [authority EXCEPT ![c] =
       IF Authorizes(leases[call[c].lease], call[c].intent, now[c], records)
       THEN "held" ELSE "lacking"]
  /\ UNCHANGED <<torn, touched, evidence0, lost, highEpoch, floor>>

LeaseMissing(c) ==
  /\ Goto(c, "lease", "target")
  /\ leases[call[c].lease] = NONE
  /\ AddReasons(c, {"AUTHORITY_LEASE_MISSING"})
  /\ OpenAuthority(c)
  /\ UNCHANGED <<registries, call, now, seen, walk, outcome, writers, clock>>

ReadLease(c) ==
  LET lease == leases[call[c].lease]
      walks == RequireProvenance /\ lease.provenance # NONE
  IN /\ pc[c] = "lease"
     /\ lease # NONE
     /\ Goto(c, "lease", IF walks THEN "walk" ELSE "target")
     /\ seen' = [seen EXCEPT ![c].lease = lease]
     /\ walk' = [walk EXCEPT ![c].current = IF walks THEN lease.provenance
                                                     ELSE NONE]
     /\ AddReasons(c, AuthorityFaults(c, lease))
     /\ OpenAuthority(c)
     /\ UNCHANGED <<registries, call, now, outcome, writers, clock>>

\* Mutant: continue where the code says break.
WalkBrokenContinues(c) ==
  /\ pc[c] = "walk"
  /\ walk[c].current \in walk[c].visited \/ records[walk[c].current] = NONE
  /\ AddReasons(c, {"PROVENANCE_CYCLE"})
  /\ UNCHANGED <<registries, call, now, seen, walk, outcome, writers, history,
                 clock, pc>>

\* One iteration of verify_authority_provenance that stops the walk early.
WalkBroken(c) ==
  /\ Goto(c, "walk", "target")
  /\ \/ /\ walk[c].current \in walk[c].visited
        /\ AddReasons(c, {"PROVENANCE_CYCLE"})
     \/ /\ walk[c].current \notin walk[c].visited
        /\ records[walk[c].current] = NONE
        /\ AddReasons(c, {"PROVENANCE_RECORD_MISSING"})
  /\ UNCHANGED <<registries, call, now, seen, walk, outcome, writers, history,
                 clock>>

\* One iteration that reads a record: on to its parent, or to the target.
WalkRecord(c) ==
  LET record == records[walk[c].current]
  IN /\ pc[c] = "walk"
     /\ walk[c].current \notin walk[c].visited
     /\ record # NONE
     /\ Goto(c, "walk", IF record.parent = NONE THEN "target" ELSE "walk")
     /\ AddReasons(c, Faults(seen[c].lease, walk[c].child, record, now[c]))
     /\ walk' = [walk EXCEPT ![c] =
                   [current |-> record.parent, child |-> record,
                    visited |-> @.visited \cup {@.current}]]
     /\ UNCHANGED <<registries, call, now, seen, outcome, writers, history,
                    clock>>

TargetFaults(c, target) ==
  IF target = NONE
  THEN {"TARGET_UNKNOWN"}
  ELSE When(call[c].intent.hash # TargetHash(call[c].intent.target, target),
            "TARGET_HASH_MISMATCH")
         \cup When(call[c].intent.action \notin target.allowed,
                   "TARGET_ACTION_NOT_ALLOWED")

\* Mutant: the decision forgets what the earlier gates found.
ReadTargetDecidesAlone(c) ==
  LET target == targets[call[c].intent.target]
      found  == TargetFaults(c, target)
  IN /\ Goto(c, "target", IF found = {} THEN "mutate" ELSE "receipt")
     /\ seen' = [seen EXCEPT ![c].target = target]
     /\ AddReasons(c, found)
     /\ UNCHANGED <<registries, call, now, walk, outcome, writers, history,
                    clock>>

\* The last gate, and the decision: mutate only if no gate gave a reason.
ReadTarget(c) ==
  LET target == targets[call[c].intent.target]
      found  == reasons[c] \cup TargetFaults(c, target)
  IN /\ Goto(c, "target", IF found = {} THEN "mutate" ELSE "receipt")
     /\ seen' = [seen EXCEPT ![c].target = target]
     /\ reasons' = [reasons EXCEPT ![c] = found]
     /\ UNCHANGED <<registries, call, now, walk, outcome, writers, history,
                    clock>>

\* execute_synthetic_action: the result hash covers the run and the payload.
Payload(c) ==
  [agent |-> call[c].identity.agent, action |-> call[c].intent.action,
   hash |-> TargetHash(call[c].intent.target, seen[c].target)]
ResultHash(c, payload) == <<c, payload>>

\* Mutant: the effect is bound to the target as it stands now, not as checked.
MutateRereadsTarget(c) ==
  /\ Goto(c, "mutate", "receipt")
  /\ effects' = [effects EXCEPT ![c] =
       [Payload(c) EXCEPT !.hash = TargetHash(@[1], targets[@[1]])]]
  /\ UNCHANGED <<registries, locals, receipts, mismatches, writers, history,
                 clock>>

Mutate(c) ==
  /\ Goto(c, "mutate", "receipt")
  /\ effects' = [effects EXCEPT ![c] = Payload(c)]
  /\ UNCHANGED <<registries, locals, receipts, mismatches, writers, history,
                 clock>>

Receipt(c, decision) ==
  [agent |-> call[c].identity.agent, lease |-> call[c].lease,
   refs |-> {seen[c].evidence_id} \ {NONE},
   target |-> call[c].intent.target, hash |-> call[c].intent.hash,
   result |-> IF decision = "ALLOW" THEN ResultHash(c, Payload(c)) ELSE NONE,
   decision |-> decision, reasons |-> reasons[c]]

PutReceipt(c) ==
  /\ Goto(c, "receipt", "replay_registry")
  /\ receipts' = [receipts EXCEPT ![c] =
                    Receipt(c, IF reasons[c] = {} THEN "ALLOW" ELSE "BLOCK")]
  /\ UNCHANGED <<registries, locals, effects, mismatches, writers, history,
                 clock>>

-----------------------------------------------------------------------------
(* ControlPlane.replay of the receipt just written.  Agents and leases are   *)
(* never removed and effects never change once written, so their reads are   *)
(* taken together with the evidence read and the target read.                *)

ReplayRegistry(c) ==
  LET r == receipts[c]
  IN /\ Goto(c, "replay_registry", "replay_target")
     /\ mismatches' = [mismatches EXCEPT ![c] =
          When(agents[r.agent] = NONE, "MISSING_AGENT")
            \cup When(leases[r.lease] = NONE, "MISSING_LEASE")
            \cup When(\E e \in r.refs : evidence[e] = NONE, "MISSING_EVIDENCE")]
     /\ UNCHANGED <<registries, locals, effects, receipts, writers, history,
                    clock>>

\* Mutant: the effect is taken for the one the receipt names.
ReplayTargetTrustsReceipt(c) ==
  LET r      == receipts[c]
      id     == r.target
  IN /\ Goto(c, "replay_target", "done")
     /\ mismatches' = [mismatches EXCEPT ![c] = @
          \cup When(targets[id] = NONE, "MISSING_TARGET")
          \cup When(targets[id] # NONE /\ r.hash # TargetHash(id, targets[id]),
                    "TARGET_HASH_CHANGED")
          \cup When(r.decision = "ALLOW" /\ r.result = NONE,
                    "MISSING_EXECUTOR_RESULT_HASH")
          \cup When(r.decision = "ALLOW" /\ r.result # NONE /\ effects[c] = NONE,
                    "EXECUTOR_RESULT_NOT_RECONSTRUCTABLE")]
     /\ UNCHANGED <<registries, locals, effects, receipts, writers, history,
                    clock>>

ReplayTarget(c) ==
  LET r      == receipts[c]
      id     == r.target
  IN /\ Goto(c, "replay_target", "done")
     /\ mismatches' = [mismatches EXCEPT ![c] = @
          \cup When(targets[id] = NONE, "MISSING_TARGET")
          \cup When(targets[id] # NONE /\ r.hash # TargetHash(id, targets[id]),
                    "TARGET_HASH_CHANGED")
          \cup When(r.decision = "ALLOW" /\ r.result = NONE,
                    "MISSING_EXECUTOR_RESULT_HASH")
          \cup When(/\ r.decision = "ALLOW"
                    /\ r.result # NONE
                    /\ effects[c] = NONE \/ ResultHash(c, effects[c]) # r.result,
                    "EXECUTOR_RESULT_NOT_RECONSTRUCTABLE")]
     /\ UNCHANGED <<registries, locals, effects, receipts, writers, history,
                    clock>>

-----------------------------------------------------------------------------
(* What goes on around the calls.                                            *)

\* promote_observed_capability reads an agent ...
PromoteRead(p) ==
  /\ promoter[p].pc = "idle"
  /\ \E m \in Promotions :
       /\ agents[m.agent] # NONE
       /\ promoter' = [promoter EXCEPT ![p] =
                         [pc |-> "check", promotion |-> m,
                          copy |-> agents[m.agent]]]
  /\ UNCHANGED <<registries, locals, outcome, history, clock, pc, advance,
                 revocation>>

\* Mutant: compares only the source, as execute does.
PromoteCheckSourceOnly(p) ==
  LET item == evidence[promoter[p].promotion.evidence]
  IN /\ promoter[p].pc = "check"
     /\ promoter' = [promoter EXCEPT ![p] =
          IF item # NONE /\ item.source = "RUNTIME_OBSERVATION"
          THEN [@ EXCEPT !.pc = "write"] ELSE NoPromotion]
     /\ UNCHANGED <<registries, locals, outcome, history, clock, pc, advance,
                    revocation>>

\* ... compares the evidence, raising ValueError unless it binds ...
PromoteCheck(p) ==
  LET m == promoter[p].promotion
  IN /\ promoter[p].pc = "check"
     /\ promoter' = [promoter EXCEPT ![p] =
          IF Binds(evidence[m.evidence], m.agent, m.capability)
          THEN [@ EXCEPT !.pc = "write"] ELSE NoPromotion]
     /\ UNCHANGED <<registries, locals, outcome, history, clock, pc, advance,
                    revocation>>

\* ... and writes its copy of the whole agent record back.
PromoteWrite(p) ==
  LET m == promoter[p].promotion
  IN /\ promoter[p].pc = "write"
     /\ agents' = [agents EXCEPT ![m.agent] =
          [promoter[p].copy EXCEPT !.observed[m.capability] = m.evidence]]
     /\ promoter' = [promoter EXCEPT ![p] = NoPromotion]
     /\ UNCHANGED <<evidence, leases, records, targets, locals, outcome,
                    history, clock, pc, advance, revocation>>

\* The policy epoch of an agent advances by the same read and write back.
AdvanceRead(a) ==
  /\ advance = NONE
  /\ agents[a] # NONE
  /\ agents[a].epoch < MaxEpoch
  /\ advance' = [agent |-> a, copy |-> agents[a]]
  /\ UNCHANGED <<registries, locals, outcome, history, clock, pc, promoter,
                 revocation>>

AdvanceWrite ==
  /\ advance # NONE
  /\ LET a    == advance.agent
         next == [advance.copy EXCEPT !.epoch = @ + 1]
     IN /\ agents' = [agents EXCEPT ![a] = next]
        /\ highEpoch' = [highEpoch EXCEPT ![a] = IF next.epoch > @ THEN next.epoch
                                                                  ELSE @]
  /\ advance' = NONE
  /\ UNCHANGED <<evidence, leases, records, targets, locals, outcome, clock, pc,
                 promoter, revocation, authority, torn, touched, evidence0, lost,
                 floor>>

\* A lease is revoked by the same read and write back, stamped with an instant
\* that has come, not always the present one.
RevokeRead(l) ==
  /\ revocation = NONE
  /\ leases[l] # NONE
  /\ revocation' = [lease |-> l, copy |-> leases[l]]
  /\ UNCHANGED <<registries, locals, outcome, history, clock, pc, promoter,
                 advance>>

RevokeWrite ==
  /\ revocation # NONE
  /\ \E t \in 0..clock :
       leases' = [leases EXCEPT ![revocation.lease] =
                    [revocation.copy EXCEPT !.revoked_at = t]]
  /\ revocation' = NONE
  /\ UNCHANGED <<agents, evidence, records, targets, locals, outcome, history,
                 clock, pc, promoter, advance>>

RevokeRecord(id) ==
  /\ records[id] # NONE
  /\ records[id].revoked_at = NONE
  /\ \E t \in 0..clock : records' = [records EXCEPT ![id].revoked_at = t]
  /\ UNCHANGED <<agents, evidence, leases, targets, locals, outcome, writers,
                 history, clock, pc>>

\* Whole documents are put, new ones or over what is there, a revoked one too.
PutAgent(a, document) ==
  /\ agents' = [agents EXCEPT ![a] = document]
  /\ highEpoch' = [highEpoch EXCEPT ![a] = IF document.epoch > @ THEN document.epoch
                                                                ELSE @]
  /\ UNCHANGED <<evidence, leases, records, targets, locals, outcome, writers,
                 clock, pc, authority, torn, touched, evidence0, lost, floor>>

PutLease(l, document) ==
  /\ leases' = [leases EXCEPT ![l] = document]
  /\ UNCHANGED <<agents, evidence, records, targets, locals, outcome, writers,
                 history, clock, pc>>

PutRecord(id, document) ==
  /\ records' = [records EXCEPT ![id] = document]
  /\ torn' = [c \in Calls |-> torn[c] \/ pc[c] = "walk"]
  /\ UNCHANGED <<agents, evidence, leases, targets, locals, outcome, writers,
                 clock, pc, authority, touched, evidence0, lost, highEpoch, floor>>

\* The stages after the target was read.
Decided == {"mutate", "receipt", "replay_registry", "replay_target", "done"}

PutTarget(id, document) ==
  /\ targets' = [targets EXCEPT ![id] = document]
  /\ touched' = [c \in Calls |-> touched[c] \/ /\ pc[c] \in Decided
                                               /\ call[c].intent.target = id]
  /\ UNCHANGED <<agents, evidence, leases, records, locals, outcome, writers,
                 clock, pc, authority, torn, evidence0, lost, highEpoch, floor>>

LoseEvidence(e) ==
  /\ evidence[e] # NONE
  /\ evidence' = [evidence EXCEPT ![e] = NONE]
  /\ lost' = lost \cup {e}
  /\ UNCHANGED <<agents, leases, records, targets, locals, outcome, writers,
                 clock, pc, authority, torn, touched, evidence0, highEpoch, floor>>

\* Evidence is put again as it was: an id stands for one observation.
PutEvidence(e) ==
  /\ evidence0[e] # NONE
  /\ evidence' = [evidence EXCEPT ![e] = evidence0[e]]
  /\ UNCHANGED <<agents, leases, records, targets, locals, outcome, writers,
                 history, clock, pc>>

Tick ==
  /\ clock < MaxClock
  /\ clock' = clock + 1
  /\ UNCHANGED <<registries, locals, outcome, writers, history, pc>>

\* The process, or the store operation it waits for, fails.
Crash(c) ==
  /\ pc[c] \notin {"idle", "rejected", "done", "crashed"}
  /\ pc' = [pc EXCEPT ![c] = "crashed"]
  /\ UNCHANGED <<registries, locals, outcome, writers, history, clock>>

-----------------------------------------------------------------------------
Enter(c) == ProposalRejected(c) \/ ProposalBound(c) \/ CalledDirectly(c)

Gates(c) ==
  \/ Begin(c) \/ ReadAgent(c) \/ ReadEvidence(c) \/ LeaseMissing(c)
  \/ ReadLease(c) \/ WalkBroken(c) \/ WalkRecord(c) \/ ReadTarget(c)

Commit(c) == Mutate(c) \/ PutReceipt(c) \/ ReplayRegistry(c) \/ ReplayTarget(c)

Promote(p) == PromoteRead(p) \/ PromoteCheck(p) \/ PromoteWrite(p)

Environment ==
  \/ \E a \in Actors : AdvanceRead(a)
  \/ AdvanceWrite
  \/ \E l \in RevocableLeases : RevokeRead(l)
  \/ RevokeWrite
  \/ \E id \in RevocableRecords : RevokeRecord(id)
  \/ \E put \in AgentPuts : PutAgent(put[1], put[2])
  \/ \E put \in LeasePuts : PutLease(put[1], put[2])
  \/ \E put \in RecordPuts : PutRecord(put[1], put[2])
  \/ \E put \in TargetPuts : PutTarget(put[1], put[2])
  \/ \E e \in LosableEvidence : LoseEvidence(e) \/ PutEvidence(e)
  \/ Tick

Next ==
  \/ \E c \in Calls : Enter(c) \/ Gates(c) \/ Commit(c) \/ Crash(c)
  \/ \E p \in Promoters : Promote(p)
  \/ Environment

Spec == Init /\ [][Next]_vars

\* The thread that serves a call keeps running it, and nothing else must run.
FairSpec == Spec /\ \A c \in Calls : WF_vars(Gates(c) \/ Commit(c))

-----------------------------------------------------------------------------
Terminal == {"done", "rejected", "crashed"}
Stages == {"idle", "begin", "agent", "evidence", "lease", "walk", "target",
           "mutate", "receipt", "replay_registry", "replay_target"} \cup Terminal

\* Every registry and every local of a call keeps its type.
TypeOK ==
  /\ agents \in [Actors -> Agent \cup {NONE}]
  /\ evidence \in [EvidenceIds -> Evidence \cup {NONE}]
  /\ evidence0 \in [EvidenceIds -> Evidence \cup {NONE}]
  /\ leases \in [LeaseIds -> Lease \cup {NONE}]
  /\ records \in [ProvIds -> Record \cup {NONE}]
  /\ targets \in [TargetIds -> Target \cup {NONE}]
  /\ effects \in [Calls -> Effect \cup {NONE}]
  /\ receipts \in [Calls -> ReceiptType \cup {NONE}]
  /\ clock \in Nat
  /\ pc \in [Calls -> Stages]
  /\ call \in [Calls -> DirectCall \cup {NoCall}]
  /\ now \in [Calls -> Instant]
  /\ seen \in [Calls -> Reads]
  /\ walk \in [Calls -> Walk]
  /\ reasons \in [Calls -> SUBSET Reasons]
  /\ mismatches \in [Calls -> SUBSET Mismatches]
  /\ promoter \in [Promoters -> [pc: {"idle", "check", "write"},
                                 promotion: Promotion \cup {NONE},
                                 copy: Agent \cup {NONE}]]
  /\ advance = NONE \/ advance \in [agent: Actors, copy: Agent]
  /\ revocation = NONE \/ revocation \in [lease: LeaseIds, copy: Lease]
  /\ authority \in [Calls -> {"unopened", "held", "lacking"}]
  /\ torn \in [Calls -> BOOLEAN]
  /\ touched \in [Calls -> BOOLEAN]
  /\ lost \subseteq EvidenceIds
  /\ highEpoch \in [Actors -> Nat]
  /\ floor \in [Calls -> Nat]

\* A material effect rests on a runtime observation of that agent having that
\* very capability, although execute compares neither the subject nor the claim
\* of the evidence, and although promotions and epoch advances write back stale
\* copies of the agent they read.
EffectIsObserved ==
  \A c \in Calls : effects[c] # NONE =>
    /\ seen[c].evidence_id # NONE
    /\ Binds(evidence0[seen[c].evidence_id], effects[c].agent, effects[c].action)

\* The receipt of a call and its effect tell one story: ALLOW with exactly the
\* effect it names, BLOCK with none, and an effect without a receipt only between
\* the two writes or after a crash.
ReceiptMatchesEffect ==
  \A c \in Calls :
    IF receipts[c] = NONE
    THEN effects[c] # NONE => pc[c] \in {"receipt", "crashed"}
    ELSE /\ receipts[c].decision = "ALLOW" <=> effects[c] # NONE
         /\ effects[c] # NONE =>
              /\ receipts[c].result = ResultHash(c, effects[c])
              /\ receipts[c].hash = effects[c].hash
              /\ receipts[c].agent = effects[c].agent

\* No effect without authority: the lease a call acts on, and the whole delegation
\* chain behind it as the store stood when the lease was read, were in force as of the
\* decision instant.  The chain is read after the lease, one record at a time, while
\* owners revoke and leases are put anew; only for a call under whose walk a record
\* was put is nothing claimed: it may have read a chain the store never held.
EffectIsAuthorized ==
  \A c \in Calls : (effects[c] # NONE /\ ~torn[c]) => authority[c] = "held"

\* A call is refused for its authority only when it has none: at the step at which the
\* lease gate or the walk over the chain gives such a reason, the store does not back
\* the lease that was read, as of the call's instant, whatever was revoked between
\* the reads.  Of a torn walk nothing is claimed.
RefusalIsDue ==
  [][\A c \in Calls :
       (/\ (reasons'[c] \ reasons[c]) \cap AuthorityReasons # {}
        /\ ~torn[c]) =>
          ~Authorizes(seen'[c].lease, call[c].intent, now[c], records)]_vars

\* Every call that began ends with a receipt and its replay, unless its process
\* fails: no chain of parents keeps the gates busy for ever.
CallsSettle ==
  \A c \in Calls : pc[c] = "begin" ~> pc[c] \in {"done", "crashed"}

\* What is left of a call: its stages, and a record read by the walk only once.
StagesLeft ==
  [idle |-> 11, begin |-> 10, agent |-> 9, evidence |-> 8, lease |-> 7, walk |-> 6,
   target |-> 5, mutate |-> 4, receipt |-> 3, replay_registry |-> 2,
   replay_target |-> 1, done |-> 0, rejected |-> 0, crashed |-> 0]
StepsLeft(c) == StagesLeft[pc[c]] + Cardinality(ProvIds \ walk[c].visited)

Untouched(c) ==
  UNCHANGED <<pc[c], call[c], now[c], seen[c], walk[c], reasons[c], effects[c],
              receipts[c], mismatches[c]>>

\* Whatever is promoted, advanced, revoked or put between its steps, a call
\* uses up one of finitely many steps whenever anything of it changes: neither a
\* chain of parents nor the activity around it sends a call back to an earlier gate.
CallsRunOut ==
  [][\A c \in Calls : Untouched(c) \/ StepsLeft(c)' < StepsLeft(c)]_vars

\* The control plane implements the contract of one call, whatever is promoted,
\* advanced, revoked or put around it.
Contract == INSTANCE GovernedAction WITH
  authority <- [c \in Calls |-> IF torn[c] THEN "torn" ELSE authority[c]],
  effects <- {c \in Calls : effects[c] # NONE},
  verdict <- [c \in Calls |-> IF receipts[c] = NONE THEN "none"
                                                    ELSE receipts[c].decision]
ImplementsContract == Contract!Spec

-----------------------------------------------------------------------------
(* What the repository says of races and failures, and the code does not do. *)

\* "Revocation at the decision instant wins over a racing action request": no
\* effect is written while the stored lease is revoked as of that instant.
RevocationWins ==
  [][\A c \in Calls : effects'[c] # effects[c] =>
       ~RevokedBy(leases[call[c].lease], now[c])]_vars

\* "An old lease cannot survive a policy/epoch advance": no effect under a lease
\* of an epoch lower than the agent had been given before the call began.
OldLeaseStaysDead ==
  \A c \in Calls : effects[c] # NONE => seen[c].lease.epoch >= floor[c]

\* Every decision returns a receipt: no call ends with its effect in the store
\* and no receipt for it.
NoOrphanEffect ==
  \A c \in Calls : (pc[c] \in Terminal /\ effects[c] # NONE) => receipts[c] # NONE
=============================================================================
