# POIEX GOC: a verification project in TLA+

The repository is a governed-operations control plane: a probabilistic planner
proposes an action, and deterministic code decides whether a material effect may
happen, records a receipt of the decision, and replays it.  This directory holds
TLA+ models of that code, the TLC runs that check them on small instances, and
theorems that TLAPS proves for every instance.

## 1. Inventory

| Part | Source | State it keeps | Operations | Correct when |
|---|---|---|---|---|
| Control plane | `poiex_runtime/control_plane.py` | none of its own; seven collections in the store | `promote_observed_capability`, `execute`, `_receipt`, `replay` | effects only with observed capability, authority and a bound target; receipt and effect agree; each mismatch of a replay has its cause, and a replay that finds none vouches for the effect |
| Authority provenance | `authority_provenance.py` | the locals of a walk | `verify_authority_provenance` | accepts exactly backed leases; always returns |
| Orchestrator, planner boundary | `orchestrator.py`, `planner_contract.py` | none | `execute_proposal`, `proposal_to_intent` | the intent is bound to the trusted target, never to the planner's |
| Runtime store | `store.py`, `firestore_store.py` | agents, leases, provenance, evidence, targets, receipts, synthetic actions | one `get` and `put` per collection, `execute_synthetic_action`, `has_synthetic_action` | both stores give the control plane the same answers |
| Cloud demo, control service | `cloud_demo.py`, `runtime_factory.py`, `control_service/main.py` | documents with fixed ids in a shared namespace | `bootstrap_synthetic_mission`, `run_demo_case` | each case ends in its documented decision |
| Fault harness | `fault_harness.py` | none | a fixed matrix of faults | (it is a test; its faults are actions of the models) |
| Certified repair | `certified_repair.py` | none (pure) | `certify_repair_branch` | never prunes a branch with a repair in budget |
| Governance hardening | `governance_hardening.py` | none (pure) | five audits | nothing is admitted that only the observer changed; a report of readback says what it shows |
| State and action audits | `future_state_sufficiency.py`, `action_independence.py`, `action_capacity.py` | none (pure) | one audit each | what a report names is so, and more rows do not take it back |
| Planner agents | `adk_planner.py`, `app/agent.py` | none | calls to a language model | advisory only |
| Scripts | `scripts/` | none | deployment, evidence capture, demonstrations | - |

**How the parts interact.**  The service builds a store and calls `run_demo_case`,
which seeds the store and calls the orchestrator; the orchestrator reads the
authorized target, binds the proposal to it and calls `ControlPlane.execute`, which
reads the registries one document at a time, calls `verify_authority_provenance`
with the same store, writes the effect, writes the receipt, and is followed by
`replay`.  All communication is through the store: there are no callbacks, no
messages and no locks.  On Cloud Run the store is Firestore, shared by every
request and by whoever administers agents, leases and targets.

**What is hard.**  Nothing `execute` reads is read in a transaction: between two
reads owners revoke, promotions, epoch advances and revocations write whole records
back, a bootstrap puts every document anew, over revoked ones too, and the process may
stop.  Two writes make a decision durable, the
effect and the receipt.  The walk over delegation records follows ids found in
data.  Instants are compared at their boundaries.  `PROJECT.json` lists each hazard
at its line, with the properties that watch it.

## 2. The modules

### ProvenanceRules
Constant-level.  One operator per check of the loop of `verify_authority_provenance`
(`RecordFaults`, `LeaseFaults`, `DelegationFaults`, `RootFaults`, put together by
`Faults`), and, independently of the loop, what it means for a chain of records to
back a lease (`PathIn`, `Backs`, `HasValidChain`).  Instants are natural numbers.

### AuthorityProvenance
The walk as a state machine: `Enter`/`NoProvenance` for the call, then one action
per way an iteration of the `while` loop can end (`Cycle`, `RecordMissing`,
`ReachRoot`, `Climb`), each reading one record.  `Revoke` stores a revocation
between any two reads.  The `first` flag of the code is `child = NONE`: both change
with the first record and with nothing else.

### ControlPlane
`promote_observed_capability`, `execute` and `replay`, entered through
`execute_proposal` (`ProposalRejected`, `ProposalBound`) or directly
(`CalledDirectly`).  Each action is one store operation with all the computation up
to the next one:

| Action | Code |
|---|---|
| `Begin` | `run_id`, decision instant |
| `ReadAgent` | agent read, identity checks, early BLOCK |
| `ReadEvidence` | capability gate |
| `LeaseMissing`, `ReadLease` | lease read and its checks |
| `WalkBroken`, `WalkRecord` | iterations of the provenance walk |
| `ReadTarget` | target gate and the decision |
| `Mutate`, `PutReceipt` | `execute_synthetic_action`; `_receipt` |
| `ReplayRegistry`, `ReplayTarget` | `replay` |
| `PromoteRead`, `PromoteCheck`, `PromoteWrite` | `promote_observed_capability` |
| `AdvanceRead`, `AdvanceWrite` | an epoch advance, as `run_demo_case` makes it |
| `RevokeRead`, `RevokeWrite` | a revocation of a lease, as `run_demo_case` makes it |
| `PutAgent`, `PutLease`, `PutRecord`, `PutTarget`, `PutEvidence` | the puts of `bootstrap_synthetic_mission`: a whole document, over whatever is there |
| `RevokeRecord`, `LoseEvidence`, `Tick`, `Crash` | owners, `fault_harness.py`, the clock, a failing process or store |

A call is named by an element of `Calls`, which stands for the random `run_id`.
The five locals of a call are functions on `Calls`.  What may be put is given by
constants (`AgentPuts`, `LeasePuts`, `RecordPuts`, `TargetPuts`: pairs of an id and a
document), so a put may bring a lease that was missing, lift a revocation, or take a
target back to an earlier version; the write of a revocation may in turn undo a put.

History variables, which no action reads: whether the store held the authority for a
call's intent when the call read its lease (`authority`), whether a record was put
while the call walked the chain (`torn`), whether its target was put after it was read
(`touched`), the evidence as seeded and what of it was ever lost (`evidence0`, `lost`),
the highest epoch an agent was given (`highEpoch`) and that epoch when the call began
(`floor`).

**Which authority an effect has.**  `execute` takes its instant first
(`control_plane.py:93`) and reads the lease later (`:121`).  It compares that lease
with the instant, but never its `issued_at`: a lease put in between, over a revoked
one too, is acted on.  So the authority of an effect is not that of the store at the
instant.  `EffectIsAuthorized` states what does hold: the lease the call acted on, and
the whole chain behind it in the store as it stood when that lease was read, were in
force as of the instant.  `RefusalIsDue` judges a refusal at the step that gives its
reason, by the lease that was read and the records of that moment: a lease put later
does not count.  A record put while the chain is being walked can make a call read a
chain that the store never held as a whole; of such a `torn` call neither property
claims anything.

### GovernedAction
The contract of a call with no reads, gates or races: it opens with or without
authority, acts at most once and only under authority, and its verdict says ALLOW
exactly when it acted; while the registry of delegations is rewritten, the calls that
read it may be torn, and then nothing is promised of their authority.  `ControlPlane`
implements it (`ImplementsContract`): a call opens when it reads its lease.

### GocDemo
The service: requests as processes, each running `run_demo_case` on the store that
`build_store_from_env` makes for it.  With Firestore every request writes the same
documents (`agent-maint-01`, `lease-001`); with MemoryStore each has its own.  The
variable `deployment` is the environment the service was started in, and what it is
sent: it is chosen at the start and never changes.

| Action | Code |
|---|---|
| `BadRequest` | the store is refused, or the scenario id: HTTP 400 |
| `Arrive` | the call of `run_demo_case`, its case, proposal and `now` |
| `PutAgent`, `PromoteRead`, `PromoteWrite`, `PutLease` | `bootstrap_synthetic_mission` |
| `GetLease`, `RevokeLease` | the revoked case |
| `GetAgent`, `AdvanceEpoch` | the stale-epoch case |
| `RejectProposal` | `proposal_to_intent` refuses the target |
| `ReadAgent`, `ReadLease`, `Mutate`, `PutReceipt` | the governed execution |
| `Crash` | the instance is stopped, or a store operation fails |

The gates are those of `ControlPlane`, cut down to what the demo's documents can
make fail.  Evidence, target and delegation records are written alike by every
request, so they are written with the document before them and read with the gate
that needs them.  `overlap` is a history variable: the requests under way at the
same time.  Expiry is left out: a lease lasts twenty minutes from its bootstrap, far
beyond the skew of the instances' clocks.

### ReceiptReplay
What becomes of a receipt after its call.  `EXTENDS ControlPlane`: everything there
goes on, and a receipt is replayed again at any later time (`ReplayAgain`) or altered
in the store, in its target hash (`TamperTarget`, as `fault_harness.py` does) or its
result hash (`TamperResult`), which may be replaced or removed.

### CertifiedRepair
`certify_repair_branch` over integers (fractions over a common denominator): the
weights that count (`Misweighted`, `Weight`), the load of each candidate, the bound,
the faults and the verdict (`Refuse`, `Reject`, `Prune`, `Keep`).  The call is pure,
so it is one step.  Beside it, what the verdict is about, by exhaustive search:
`Repairs` and `CostOf`.

### StateAudits
The three audits of operational state and actions.  Each is a function of a list of
rows; the lists grow one row at a time (`AddState`, `AddPoint`, `AddAction`), so that
every state stands for the reports on the rows so far, and a step for an audit
repeated after one more observation.  A row the code raises `ValueError` for sets
`refused` and ends the list.  `Residuals` is `_minimal_residual_coordinates`,
`Capacity` the profile of a capacity series, `EffectClasses` the grouping of action
contracts by `EffectKey`.

### GovernanceHardening
The two audits whose verdict rests on more than one comparison.  `Gather` adds a
witness, and `Split` is the verdict of `audit_memory_readback` on a base.
`Transition` takes an observed system from one state, set of evidence roots and
configuration to another, with a claim of progress; `audit_observer_nonmint` blocks
it (`Mints`) or lets it through to `admitted`.  `past` is history.

`MCAuditors` puts the auditors side by side, one of them at work in each behaviour:
none touches another's state.

### StoreAdapter
The two implementations of `RuntimeStore` under the same calls.  `memory` and `heap`
are `MemoryStore`: the object kept for an id, which `Get` hands out itself.
`documents` is `FirestoreStore`: `Put` writes a document and `Get` makes a record of
it that nobody else has (`own`), or raises when a target does not match its hash
(`Readable`).  A record is the set of changes made to it, for the five kinds of
record alike; the conversions keep every field, so what they change is who shares the
object.  `Create`, `Change` and `Forget` are what callers do; `Alter` is a change of
a stored target from outside.  `dirty`, `stale` and `spoiled` record which caller
broke which rule, for `StoresAgree`.

### What is abstracted
- `canonical_hash` is taken as injective: a hash is the tuple of what is hashed.
- In `ControlPlane` and `GocDemo` the store hands out copies and each operation is
  atomic, as in `FirestoreStore`; `StoreAdapter` says when `MemoryStore` is the same.
- Agents, leases, records and targets are never removed and effects never change (no
  code does either), so `replay` reads agent and lease together with the evidence, and
  the effect together with the target.
- Evidence can disappear, and be put again as it was: an id stands for one
  observation, as `ev-runtime-001` does.  New evidence ids do not appear.
- An agent is put without observed capabilities (`RegistrationAssumption`), as the
  bootstrap puts it: promotion adds them.
- One revocation of a lease and one epoch advance are under way at a time.  A record is
  revoked in one step: no code of the repository does it.
- `issued_at` of a lease is left out: `execute` compares it with nothing.
- A seed's capabilities are bound to evidence (`SeedAssumption`): the code has no
  other way to create one than `promote_observed_capability`.
- Payload parameters, sessions, trace ids and wording of messages are left out.
- The owner, the administrators and the clock are environment actions.  A
  revocation is stamped with any instant up to the present, as `run_demo_case` and
  `fault_harness.py` stamp it.

## 3. The runs

| Run | Question | States |
|---|---|---|
| `provenance_walk` | does the walk accept exactly backed leases, and return? | 394,650 |
| `control_plane_registries` | do effects rest on observation while registries change, and what does a replay show, of a receipt that may have been altered and however late? | 2,945,076 |
| `control_plane_authority` | do receipt and effect agree, does an effect have authority, does a refusal lack it, does each call settle, is the contract implemented, while leases and records are revoked and put anew? | 358,304 |
| `demo` | does each case end as documented with a store per request, and with a shared store if no other request overlaps? what explains any other outcome? | 3,308,766 |
| `auditors` | does each pure audit find what its reference definition says, for every input in bounds, and do its warnings stand? | 240,710 |
| `store_adapter` | when does the choice of store make no difference, and is a target that was altered ever handed out? | 553,836 |
| `revocation_race` | does a revocation at the decision instant win? (no) | - |
| `epoch_rollback` | does an old lease stay dead after an epoch advance? (no) | - |
| `orphan_effect` | does every decision have a receipt? (no) | - |
| `demo_overlap` | is the revoked case always blocked? (no) | - |
| `memory_readback` | is readback reported only where the memory makes a difference? (no) | - |
| `observer_mint` | can a reparameterized observer never mint progress? (it can) | - |

**Bounds.**  Three delegation records suffice for a chain with a middle, for cycles
of length one, two and three, and for a revocation before, at and behind the walk;
the grants differ in each field the walk compares.  One call at a time is enough in
the control plane because calls share no locals and write only under their own
`run_id`: what another call can do to this one is nothing, and what other writers
can do are the environment's actions.  One promoter suffices to race an epoch
advance; its write can land before, between and after any two reads.  `MaxClock` and
`MaxEpoch` are bounds of the model only, and allow an event before, at and after every
instant that is compared.  The puts of the instances are those of the bootstrap: the
sound lease over the one the call uses, whether revoked or not, and under an id that was
missing; the top of the sound chain over a flawed or missing one; the agent without its
capability; and either of two versions of the target, so that it can change and change
back.  Puts need no bound: they range over a fixed set of documents.

In the demo three requests are the fewest for every way a request disturbs another:
one to be disturbed, one that disturbs it, and one whose change the second writes
back from a stale copy.  Two instants give skewed clocks on either side of a
revocation.  The one run covers every deployment.  With MemoryStore it offers every
proposal and every case to two requests; on Cloud Run three requests come with the
default proposals and without `target_substitution`, whose request writes what that of
`allow` writes and ends before the gates; and in two environments the store is refused.
`MoreCome` is the bound on the requests.

The auditors run over every input of small sets.  Two obligation ids and three
candidates have candidates that share an obligation, cover both, repeat another or
are of no use, ids that are unknown, optional or necessary, and budgets below, at and
above the bound.  Three states of one class are the fewest of which two coordinates
settle the future together and neither alone, and three points the fewest with a rise
and a fall.  Three contracts are enough for two that differ only in names or in the
order of their evidence, beside one that differs in its effect.  Three memory values
and two kernels allow a base whose kernel varies with the memory, under one value, or
not at all; two values of everything observed allow what is still, moved and
reparameterized in any order.  The symmetry is in ids and candidates, which the
auditors compare only for equality; no liveness is checked with it.

Records of two callers and two changes are enough for a caller to change an object
that the other holds, to put over what it has not seen, and to lose a change of the
other's; the two stores then differ, and the run contains those states: `StoresAgree`
excludes exactly the ids for which it happened.

**The violations** are places where the code does not do what the repository says:
- `RevocationWins`: the lease is read once; a revocation as of the decision instant
  that is stored after that read does not stop the effect
  (`fault_harness.py:170` tests it only with the revocation stored first).
- `OldLeaseStaysDead`: a promotion writes back the whole agent record it read, epoch
  included (`fault_harness.py:212`).
- `NoOrphanEffect`: the effect is durable before its receipt
  (`DEVPOST_TECHNICAL_DESCRIPTION.md:58`).
- `RevokedCaseBlocks`: the bootstrap of an overlapping request overwrites the lease
  that a request has just revoked, and that request is answered ALLOW
  (`REPRODUCTION.md:54` promises BLOCK; `scripts/google_deploy_cloud_run.sh` deploys
  the service without a limit on concurrency).
- `ReadbackNeedsMemory`: `audit_memory_readback` counts the memory values and the
  kernels of a base apart, so the witnesses (m1, k1), (m1, k2), (m2, k1), (m2, k2) are
  reported as load-bearing readback although both memory values lead to the same
  kernels (`docs/GOC_V0_10_CROSS_LANE_GOVERNANCE_HARDENING.md:12`).
- `ObserverMintsNothing`: the audit compares the two ends of one transition.  An
  observer that is reparameterized in one transition, claiming nothing, and claims
  progress in the next, in which nothing changes, has it admitted
  (`docs/GOC_V0_10_CROSS_LANE_GOVERNANCE_HARDENING.md:14`).

What does hold in the same races is checked beside them: the lease an effect rests on,
and its chain, were in force as of the instant when the lease was read, whatever was
revoked or put since (`EffectIsAuthorized`, with the exception of torn walks that
section 2 explains); and in the demo a request nobody overlaps is as documented
(`UndisturbedOutcome`), and a reason too many has its source among the requests that
overlap (`SurplusHasSource`).  No succession of reparameterizations admits progress
without a claim in a transition that changed nothing at all
(`NoMintByReparameterizing`).

**What a report or a replay shows, and what it does not.**  `ReadbackIsReported`: every
base at which two memory values lead to different kernels is reported, and where each
memory value leads to one kernel no other base is; where one leads to several, a report
may be wrong, which is `ReadbackNeedsMemory` above.  `PassVouches` is the meaning of a
replay that passes: the effect is in the store with the result recorded.  The target
hash of a receipt is not compared with the effect, so a receipt whose hash was altered
to what the target later became also passes, and the property says so.
`ReplayIsExplained` gives the causes of each mismatch: a BLOCK may be replayed
with mismatches because its receipt names what the decision itself could not find, and a
result hash is missing only from a receipt that does not have one.

**Fairness.**  `WF_vars(Step)` for the walk and weak fairness of each call's own
gates and writes: the thread that serves a call keeps running.  Callers, promoters,
owners, the clock and crashes get none.  `CallsSettle` counts a crash as an end.

All other runs check safety only, and assume no fairness.

**Deadlock** is not checked: when every call or request has ended and every bound is
reached the system stops.  (`StoreAdapter` never does: a caller may forget what it
holds and create anew.)

## 4. The proofs

`ProvenanceRulesProofs` holds what the others need of chains of records.  No chain
repeats a record (`NoRepetition`): behind the last repetition there would be another,
nearer to the top, and distances from the top are natural numbers.  A fault at a record
breaks every chain through it (`FaultBreaks`); revocations take chains away and add none
(`RevokingAddsNoChain`).

`AuthorityProvenanceProofs`, for any set of records, leases and instants:
- `TypeCorrect`, `Soundness` (`AcceptedIsBacked`).  The invariant `IInv` says: the
  store differs from that of the call only by revocations; the position of the walk
  is that of a path of stored records; and while there are no reasons the prefix
  read so far is in force and linked.  `AcceptedIsBacked` alone is not inductive: it
  says nothing while the walk is under way.  That a record in force when read was in
  force at the call needs the first part: revocations are never withdrawn.

- `RefusalHasCause` (`RefusedForCause`).  `CauseInv` says that a walk follows every chain
  of its lease: what it has visited is the first records of each, and it goes to the next
  of each.  So a cycle or a missing record means there is no chain, and a fault that the
  chains there are back nothing.

- `RunsOut` (`WalkRunsOut`), the part of termination that needs no fairness: a step of the
  walk reads a record it has not read or ends it, and revocations read nothing, so a walk
  takes at most two steps more than there are records, cycles included.

`ControlPlaneProofs`, for any number of calls, promoters and environment steps:
- `TypeCorrect`, strengthened by `WellStaged` (what a call must already have read at
  its stage).
- `EffectsAreObserved`.  Execution compares only the source of the evidence, so the
  invariant carries the binding through the registry: every capability in an agent
  record, and in every copy that a promotion or epoch advance is about to write back,
  rests on evidence that bound it (`RegistryBacked`).
- `ReceiptsMatchEffects`, from what each stage of a call says of its own locals,
  effect and receipt (`Own`); `Frame` shows that nobody else's step disturbs it.
- `CallsAreBounded` (`CallsRunOut`): a call moves to a later stage or reads one more
  record of the chain (`OwnStepFalls`), and no step of others touches it
  (`OthersUntouched`, `AroundCalls`), so it takes at most eleven steps more than there
  are records.

`GocDemoProofs`, for any number of requests, proposals and clock readings:
- `TypeCorrect`, strengthened by `Present` (a document once written is only ever
  replaced, so what a stage reads is there).
- `Undisturbed` (`UndisturbedOutcome`) and `MemoryOutcome` (`OutcomeAsDocumented`, which
  speaks of deployments with MemoryStore). The outcome alone is not inductive: it speaks
  of a request that has been answered. `IInv` adds, for a request that is alone on its
  documents, what they hold at each stage (`Documents`) and what the gates have found
  (`Verdict`), and, for `Alone` to survive the steps of others, that a request under way
  has met every other one that is (`MetAll`). `OthersOnTrack` is the step that needs it:
  a request that is still alone after another's step was alone before it, so that step
  wrote elsewhere or wrote nothing. `OwnOnTrack` follows one request from bootstrap to
  answer; that it ends as documented from *any* documents is why a crash of an earlier
  request cannot matter.

- `SurplusTraced` (`SurplusHasSource`), with any overlap on one store.  `SourceInv` adds
  to `IInv` what it says of a request under way: between its own write of the lease and
  its read of it, a lease found revoked was revoked by itself or by a request it met, and
  what the gates found stays as found (`Sourced`).  The step of another that revokes is
  the one that needs `MetAll`; that a request keeps whoever explains it needs that an
  arrival, which alone changes what was asked and who was met, is of a request that
  explained nothing yet (`RevokersStay`).

`AuthorizationProofs`, for any store, number of calls and order of revocations and puts:
- `EffectsAreAuthorized` (`EffectIsAuthorized`).  The lease is read once and the chain
  behind it record by record afterwards, and the authority is that of the store as it
  stood at the first of these reads.  `LawInv` adds to `IInv`, for a call that is not
  torn and has found no fault: while it walks there is a store, the one of that read,
  from which the records differ only by revocations (`Since`), and in which the records
  read so far are the faultless beginning of a chain that backs the lease (`Climbing`).
  `LeaseLaw` is the read of the lease, `WalkLaw` an iteration of the walk, with `Extend`
  for the prefix; `AroundTears` says that everybody else only revokes records or tears
  the walks under way.  Puts of leases need no exception: the call goes by the lease it
  has read.  That the chain found is one `HasValidChain` speaks of needs that the walk
  repeats no id and the ids are finitely many (`StoreAssumption`).
- `RefusalsAreDue` (`RefusalIsDue`).  `DueInv` adds to `LawInv` that the walk of a call
  that is not torn follows every chain of the lease it read, as the records now are
  (`FollowsChains`).  So a cycle, a missing record or a fault at the step that finds it
  leaves no chain that backs the lease (`NoChainHere`, `StepGivesDue`).
- `Refines` (`ImplementsContract`): the read of the lease opens a call of
  `GovernedAction`, `PutRecord` tears the calls that walk (`PutTears`), `Mutate` acts,
  `PutReceipt` decides, every other step is a stutter.  That `Mutate` acts only under
  authority, or in a torn call, is `LawInv`; that the verdict is ALLOW exactly after an
  act is `IInv`.

`StoreAdapterProofs`, for any number of callers, ids, objects and changes:
- `TypeCorrect`, `Genuine` (`TargetsAreGenuine`; every target document carries a hash
  that was issued for its id, `HashesIssued`).
- `Agreement` (`StoresAgree`).  The property speaks of what is stored, the next `Put` of
  what a caller holds, so `AgreementInv` relates the two: the stores hold records for
  the same ids and callers (`Owned`), an object belongs to one id (`OneId`), a record
  not yet put is nobody else's (`FreshIsAlone`), a caller who is not stale holds the
  very object `MemoryStore` keeps (`Current`), and then the record `FirestoreStore` gave
  it is the same, unless another holder has changed the object and not put it
  (`Faithful`).

`ReceiptReplayProofs`, for any store, puts and losses, and any number of replays and
alterations of a receipt:
- `MismatchesAreExplained` (`ReplayIsExplained`) and `PassesVouch` (`PassVouches`).
  Both speak of a call that is done; `ReplayInv` says from the first read on what each
  gate found and what the registries hold of it since (`Traced`): agents and leases
  stay, evidence may be gone but was there (this needs `RegistryBacked`) and is there
  unless it was ever lost (`EvidenceKept`), and the target never goes and is the one read
  unless it was put anew (`TargetTraced`, which the steps of others keep by
  `TouchNoted`).
  `Written` ties receipt and effect to the call by the fields nobody alters, so that
  `TamperKeeps` need only show that a replay starts afresh.  The last read of the replay
  (`ReplayTargetKeeps`) is where a target that hashes as recorded must be the one read.

`AuditorProofs`, for covering problems, lists, series and sets of witnesses of any size:
- `PruningIsSound` (`PruneIsSound`), `BoundIsOne` (`BoundHolds`) and `RepairTypeCorrect`.
  `RepairInv` says which facts of the branch each verdict stands for; the rest is weak
  duality.  What a set of candidates can repair weighs at most what the set costs
  (`CandidatesCost`): one candidate can repair no more weight than its load
  (`CandidateCost`), and an obligation that two of them repair counts once on the left
  (`SumUnion`).  A repair covers everything necessary, so it costs at least the bound
  (`RepairsCost`).  The sums are the library's, recursive functions on the subsets of a
  set.  Their equation (`SumUnfold`), that no element need be taken first (`SumAdd`) and
  that they are monotone (`SumMono`) are shown of a smallest counterexample
  (`MinimalSet`), since the induction theorems cannot be instantiated.
- `LabelsNeverCount` (`LabelsDoNotCount`).  Two actions have one key exactly if they are
  interchangeable (`KeysOfInterchangeable`): every list has a sorted rearrangement, in
  which an element's place counts the elements not after it (`SortExists`); rearranging
  keeps the elements and how often each occurs (`RearrangedBag`), and lists that agree in
  that are rearrangements of each other (`BagRearranged`), so they are sorted to the same.
  `ClassesCount` then compares cardinalities.
- `ResidualsSettle` (`ResidualsSettleTheFuture`), `ProfileOfAllPairs`
  (`ProfileHoldsOfAllPairs`), `WarningsAreFinal` (`WarningsStand`) and
  `AuditsTypeCorrect`.  That neighbours in order put every pair in order would be an
  induction over a series; here it is an invariant instead, shown as each point is added
  (`OneMorePoint`).
- `ReadbackReported` (`ReadbackIsReported`), `NoMint` (`NoMintByReparameterizing`,
  inductive with the types) and `HardeningTypeCorrect`.

The proofs use the assumptions named in the modules: `NoneAssumption`,
`StoreAssumption`, `InputAssumption`, `SeedAssumption`, `RegistrationAssumption`,
`AlterationAssumption`,
`ConstantsAssumption`, `NoRecordIsNone`, `InputsAssumption` and `ClaimsAssumption`.
TLC evaluates them on every run.

Every safety property of the passing runs is proved.  Only model-checked are termination
and settling (`Terminates`, `CallsSettle`): they are liveness under fairness, which the
prover does not reason about.  What is proved of them is that the steps of a walk and of
a call run out (`RunsOut`, `CallsAreBounded`); that a fair thread takes them until none
is left, which needs that one is enabled till the end, is for TLC.

## 5. Not modelled

- `audit_binding_validity`, `audit_stage_input_freshness` and
  `audit_open_world_reopening`: each is one comparison of its arguments, which a
  property could only repeat.  The frozen cases of the hardening and auditor modules
  call the audits with fixed arguments.
- The health endpoint of the service reads no state, and its hardening endpoint
  returns the frozen cases.
- The planner agents call a language model and are advisory: what they may hand over
  is the constant `Proposals`.
- The deployment, evidence and falsifier scripts are input and output around the parts
  above.
- A retry by a client whose answer was lost is one more call: every call has a fresh
  `run_id`, so its effect happens again.  The repository retries nowhere and promises
  nothing else.

## 6. Plan

Done: the control plane, the provenance walk and the contract; the cloud demo; the two
stores; the pure audits; receipts altered and replayed; the theorems of section 4.

Left: a theorem about liveness, should the prover come to allow it.
