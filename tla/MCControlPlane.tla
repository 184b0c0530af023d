---------------------------- MODULE MCControlPlane ----------------------------
(***************************************************************************)
(* Instances of ControlPlane: one agent, an owner who issues its leases and *)
(* a root that issues the owner's authority; leases, evidence and intents  *)
(* that pass every gate and some that fail each one.                       *)
(***************************************************************************)
EXTENDS ControlPlane

CONSTANTS agent, stranger, owner, root,   \* Actors
          x, y,                           \* Actions
          e1, e2, e3, e4,                 \* EvidenceIds
          l1, l2, l3,                     \* LeaseIds
          p1, p2,                         \* ProvIds
          t1, t2                          \* TargetIds

MCActors == {agent, stranger, owner, root}
MCActions == {x, y}
MCEvidenceIds == {e1, e2, e3, e4}
MCLeaseIds == {l1, l2, l3}
MCProvIds == {p1, p2}
MCTargetIds == {t1, t2}
MCTrustedRoots == {root}

Observation(subject, claim, source) ==
  [subject |-> subject, claim |-> claim, source |-> source]
Item == [e \in MCEvidenceIds |->
  CASE e = e1 -> Observation(agent, x, "RUNTIME_OBSERVATION")
    [] e = e2 -> Observation(agent, x, "SELF_DECLARATION")
    [] e = e3 -> Observation(agent, y, "RUNTIME_OBSERVATION")
    [] e = e4 -> Observation(owner, x, "RUNTIME_OBSERVATION")]

AgentWith(id) == [observed |-> [a \in MCActions |-> IF a = x THEN id ELSE NONE],
                  epoch |-> 1]

\* l1 is sound; l2 is for another action and carries no provenance; l3 is missing.
GoodLease == [agent |-> agent, issuer |-> owner, scope |-> {x}, epoch |-> 1,
              provenance |-> p1, expires_at |-> 1, revoked_at |-> NONE]
LeaseTable == [l \in MCLeaseIds |->
  IF l = l1 THEN GoodLease
  ELSE IF l = l2 THEN [GoodLease EXCEPT !.scope = {y}, !.provenance = NONE]
  ELSE NONE]

Grant(subject, issuer, parent) ==
  [subject |-> subject, issuer |-> issuer, scope |-> {x}, epoch |-> 1,
   issued_at |-> 0, revoked_at |-> NONE, parent |-> parent]
ChainTo(second) == [id \in MCProvIds |-> IF id = p1 THEN Grant(agent, owner, p2)
                                                   ELSE second]
SoundChain == ChainTo(Grant(owner, root, NONE))

MCSeed(id, lease, chain) ==
  [agents |-> [a \in MCActors |-> IF a = agent THEN AgentWith(id) ELSE NONE],
   evidence |-> Item,
   leases |-> [LeaseTable EXCEPT ![l1] = lease],
   records |-> chain,
   targets |-> [t \in MCTargetIds |->
                  IF t = t1 THEN [version |-> 1, allowed |-> {x}] ELSE NONE]]

OneSeed == {MCSeed(e1, GoodLease, SoundChain)}
RegistrySeeds == {MCSeed(id, GoodLease, SoundChain) : id \in {NONE, e1}}
AuthoritySeeds ==
  {MCSeed(e1, lease, chain) :
     lease \in {GoodLease, [GoodLease EXCEPT !.revoked_at = 1]},
     chain \in {SoundChain,
                ChainTo(Grant(owner, owner, p1)),
                ChainTo(NONE),
                ChainTo([Grant(owner, root, NONE) EXCEPT !.issued_at = 1]),
                ChainTo([Grant(owner, root, NONE) EXCEPT !.revoked_at = 1])}}

Id(a, authenticated) == [agent |-> a, authenticated |-> authenticated]
Propose(lease, action, target) ==
  [identity |-> Id(agent, TRUE), lease |-> lease, action |-> action,
   target |-> target, authorized |-> t1]
Direct(identity, a, target, version) ==
  [identity |-> identity, lease |-> l1,
   intent |-> [agent |-> a, action |-> x, target |-> target,
               hash |-> TargetHash(target, [version |-> version,
                                            allowed |-> {x}])]]

GoodProposal == {Propose(l1, x, t1)}
SomeProposals == {Propose(l1, x, t1), Propose(l3, x, t1), Propose(l1, y, t1),
                  Propose(l1, x, t2)}
AuthorityProposals == {Propose(l, x, t1) : l \in MCLeaseIds}
SomeDirectCalls ==
  {Direct(Id(agent, FALSE), stranger, t1, 1), Direct(Id(stranger, TRUE), stranger, t1, 1),
   Direct(Id(agent, TRUE), agent, t1, 2), Direct(Id(agent, TRUE), agent, t2, 1)}

SomePromotions ==
  {[agent |-> agent, capability |-> x, evidence |-> e] : e \in {e1, e4}}
\* The bootstrap's puts over what is there: the agent with no observed capability, the
\* sound lease over a revoked one, a lease that was not there, the top of the sound
\* chain over another record or none, and either version of the target.
SomeAgentPuts == {<<agent, AgentWith(NONE)>>}
SomeLeasePuts == {<<l1, GoodLease>>, <<l3, GoodLease>>}
SomeRecordPuts == {<<p2, SoundChain[p2]>>}
SomeTargetPuts == {<<t1, [version |-> v, allowed |-> {x}]>> : v \in {1, 2}}

GoodPromotion == {[agent |-> agent, capability |-> x, evidence |-> e1]}
=============================================================================
