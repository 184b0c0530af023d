-------------------------- MODULE ControlPlaneProofs --------------------------
(***************************************************************************)
(* Proofs about ControlPlane, for every registry, set of calls and order of *)
(* promotions, epoch advances, revocations, puts, losses and crashes.      *)
(***************************************************************************)
EXTENDS ControlPlane, ProvenanceRulesProofs

\* What a call at each stage has already read.
WellStaged ==
  /\ \A c \in Calls :
       /\ pc[c] \notin {"idle", "rejected"} => call[c] \in DirectCall
       /\ pc[c] \in {"evidence", "lease", "walk", "target", "mutate"} =>
            seen[c].agent # NONE
       /\ pc[c] = "walk" => seen[c].lease # NONE /\ walk[c].current # NONE
       /\ pc[c] = "mutate" => reasons[c] = {} /\ seen[c].target # NONE
       /\ pc[c] = "receipt" /\ reasons[c] = {} => seen[c].target # NONE
  /\ \A p \in Promoters : promoter[p].pc # "idle" =>
       promoter[p].promotion \in Promotion /\ promoter[p].copy # NONE

TypeInv == TypeOK /\ WellStaged

USE DEF Instant

\* Every check adds reasons that execute can report.
LEMMA FaultsTyped ==
  ASSUME NEW l, NEW k, NEW r, NEW t
  PROVE  Faults(l, k, r, t) \in SUBSET Reasons
<1>1. RecordFaults(r, t) \in SUBSET Reasons
  BY DEF RecordFaults, When, Reasons, AuthorityReasons
<1>2. LeaseFaults(l, r) \in SUBSET Reasons
  BY DEF LeaseFaults, When, Reasons, AuthorityReasons
<1>3. DelegationFaults(k, r) \in SUBSET Reasons
  BY DEF DelegationFaults, When, Reasons, AuthorityReasons
<1>4. RootFaults(r) \in SUBSET Reasons
  BY DEF RootFaults, When, Reasons, AuthorityReasons
<1> QED BY <1>1, <1>2, <1>3, <1>4 DEF Faults

LEMMA GateFaultsTyped ==
  ASSUME NEW c, NEW v
  PROVE  /\ IdentityFaults(c, v) \in SUBSET Reasons
         /\ CapabilityFaults(v) \in SUBSET Reasons
         /\ AuthorityFaults(c, v) \in SUBSET Reasons
         /\ TargetFaults(c, v) \in SUBSET Reasons
<1>1. IdentityFaults(c, v) \in SUBSET Reasons
  BY DEF IdentityFaults, When, Reasons
<1>2. CapabilityFaults(v) \in SUBSET Reasons
  BY DEF CapabilityFaults, When, Reasons
<1>3. AuthorityFaults(c, v) \in SUBSET Reasons
  BY DEF AuthorityFaults, When, Reasons, AuthorityReasons
<1>4. TargetFaults(c, v) \in SUBSET Reasons
  BY DEF TargetFaults, When, Reasons
<1> QED BY <1>1, <1>2, <1>3, <1>4

\* A call that reads one more document still holds documents of the right type.
LEMMA ReadsTyped ==
  ASSUME NEW c \in Calls, NEW v, seen \in [Calls -> Reads]
  PROVE  /\ v \in Agent \cup {NONE} => [seen EXCEPT ![c].agent = v] \in [Calls -> Reads]
         /\ v \in EvidenceIds \cup {NONE} =>
              [seen EXCEPT ![c].evidence_id = v] \in [Calls -> Reads]
         /\ v \in Lease \cup {NONE} => [seen EXCEPT ![c].lease = v] \in [Calls -> Reads]
         /\ v \in Target \cup {NONE} => [seen EXCEPT ![c].target = v] \in [Calls -> Reads]
<1>1. seen[c] \in Reads
  OBVIOUS
<1>2. /\ v \in Agent \cup {NONE} => [seen[c] EXCEPT !.agent = v] \in Reads
      /\ v \in EvidenceIds \cup {NONE} => [seen[c] EXCEPT !.evidence_id = v] \in Reads
      /\ v \in Lease \cup {NONE} => [seen[c] EXCEPT !.lease = v] \in Reads
      /\ v \in Target \cup {NONE} => [seen[c] EXCEPT !.target = v] \in Reads
  BY <1>1 DEF Reads
<1>3. \A w \in Reads : [seen EXCEPT ![c] = w] \in [Calls -> Reads]
  OBVIOUS
<1> QED BY <1>2, <1>3

LEMMA WalkTyped ==
  ASSUME NEW c \in Calls, NEW v \in ProvIds \cup {NONE}, walk \in [Calls -> Walk]
  PROVE  [walk EXCEPT ![c].current = v] \in [Calls -> Walk]
<1>1. [walk[c] EXCEPT !.current = v] \in Walk
  BY DEF Walk
<1> QED BY <1>1

\* A target found in the registry hashes to a target hash.
LEMMA HashTyped ==
  ASSUME NEW id \in TargetIds, NEW t \in Target
  PROVE  TargetHash(id, t) \in Hash
  BY DEF TargetHash, Hash

LEMMA InitTypeInv == Init => TypeInv
<1> SUFFICES ASSUME Init PROVE TypeInv
  OBVIOUS
<1>1. PICK s \in Seeds :
        /\ agents = s.agents
        /\ evidence = s.evidence
        /\ leases = s.leases
        /\ records = s.records
        /\ targets = s.targets
        /\ evidence0 = s.evidence
        /\ highEpoch = [a \in Actors |->
                          IF s.agents[a] = NONE THEN 0 ELSE s.agents[a].epoch]
  BY DEF Init
<1>2. s \in Seed
  BY InputAssumption
<1>3. highEpoch \in [Actors -> Nat]
  <2>1. \A a \in Actors : s.agents[a] \in Agent \cup {NONE}
    BY <1>2 DEF Seed
  <2>2. \A a \in Actors : s.agents[a] # NONE => s.agents[a].epoch \in Nat
    BY <2>1 DEF Agent
  <2> QED BY <1>1, <2>2
<1>4. /\ agents \in [Actors -> Agent \cup {NONE}]
      /\ evidence \in [EvidenceIds -> Evidence \cup {NONE}]
      /\ evidence0 \in [EvidenceIds -> Evidence \cup {NONE}]
      /\ leases \in [LeaseIds -> Lease \cup {NONE}]
      /\ records \in [ProvIds -> Record \cup {NONE}]
      /\ targets \in [TargetIds -> Target \cup {NONE}]
  BY <1>1, <1>2 DEF Seed
<1>5. TypeOK
  BY <1>3, <1>4 DEF Init, TypeOK, Reads, Walk, Stages, Terminal, NothingSeen, NotWalking,
                    NoPromotion
<1>6. WellStaged
  BY DEF Init, WellStaged, NoPromotion
<1> QED BY <1>5, <1>6 DEF TypeInv

\* The receipt a call is about to write has the type of a receipt.
LEMMA ReceiptTyped ==
  ASSUME TypeInv, NEW c \in Calls, pc[c] = "receipt"
  PROVE  Receipt(c, IF reasons[c] = {} THEN "ALLOW" ELSE "BLOCK") \in ReceiptType
<1> DEFINE decision == IF reasons[c] = {} THEN "ALLOW" ELSE "BLOCK"
<1>1. call[c] \in DirectCall
  BY DEF TypeInv, WellStaged
<1>2. decision = "ALLOW" => Payload(c) \in Effect
  <2> SUFFICES ASSUME decision = "ALLOW" PROVE Payload(c) \in Effect
    OBVIOUS
  <2>1. reasons[c] = {} /\ seen[c].target \in Target
    BY DEF TypeInv, WellStaged, TypeOK, Reads
  <2>2. call[c].intent.target \in TargetIds
    BY <1>1 DEF DirectCall, Intent
  <2> QED BY <1>1, <2>1, <2>2, HashTyped
             DEF Payload, Effect, DirectCall, Intent, Identity
<1>3. {seen[c].evidence_id} \ {NONE} \in SUBSET EvidenceIds
  BY DEF TypeInv, TypeOK, Reads
<1>4. reasons[c] \in SUBSET Reasons
  BY DEF TypeInv, TypeOK
<1> QED BY <1>1, <1>2, <1>3, <1>4
           DEF Receipt, ReceiptType, ResultHash, DirectCall, Intent, Identity

\* The actions of a call keep their types.
LEMMA CallTypeInv ==
  ASSUME TypeInv, NEW c \in Calls, Enter(c) \/ Gates(c) \/ Commit(c) \/ Crash(c)
  PROVE  TypeInv'
<1> USE DEF TypeInv, Goto, AddReasons, OpenAuthority, Stages, Terminal
<1>1. CASE ProposalRejected(c)
  <2>1. TypeOK'
    BY <1>1 DEF ProposalRejected, TypeOK, registries, locals, outcome, writers,
                history
  <2>2. WellStaged'
    BY <1>1 DEF ProposalRejected, TypeOK, WellStaged, locals, writers
  <2> QED BY <2>1, <2>2
<1>2. CASE ProposalBound(c)
  <2>1. PICK p \in Proposals :
          /\ targets[p.authorized] # NONE
          /\ p.target = p.authorized
          /\ call' = [call EXCEPT ![c] =
               [identity |-> p.identity, lease |-> p.lease,
                intent |-> [agent |-> p.identity.agent, action |-> p.action,
                            target |-> p.target,
                            hash |-> TargetHash(p.target, targets[p.target])]]]
    BY <1>2 DEF ProposalBound
  <2>2. p \in Proposal
    BY InputAssumption
  <2>3. targets[p.target] \in Target /\ p.target \in TargetIds
    BY <2>1, <2>2 DEF Proposal, TypeOK
  <2>4. TargetHash(p.target, targets[p.target]) \in Hash
    BY <2>3, HashTyped
  <2>5. call'[c] \in DirectCall /\ call' \in [Calls -> DirectCall \cup {NoCall}]
    BY <2>1, <2>2, <2>3, <2>4 DEF Proposal, Identity, Intent, DirectCall, TypeOK
  <2>6. TypeOK'
    BY <1>2, <2>5 DEF ProposalBound, TypeOK, registries, outcome, writers, history
  <2>7. WellStaged'
    BY <1>2, <2>1, <2>5 DEF ProposalBound, TypeOK, WellStaged, writers
  <2> QED BY <2>6, <2>7
<1>3. CASE CalledDirectly(c)
  <2>1. PICK d \in DirectCalls : call' = [call EXCEPT ![c] = d]
    BY <1>3 DEF CalledDirectly
  <2>2. call'[c] \in DirectCall /\ call' \in [Calls -> DirectCall \cup {NoCall}]
    BY <2>1, InputAssumption DEF TypeOK
  <2>3. TypeOK'
    BY <1>3, <2>2 DEF CalledDirectly, TypeOK, registries, outcome, writers, history
  <2>4. WellStaged'
    BY <1>3, <2>1, <2>2 DEF CalledDirectly, TypeOK, WellStaged, writers
  <2> QED BY <2>3, <2>4
<1>4. CASE Begin(c)
  <2>1. call[c] \in DirectCall
    BY <1>4 DEF Begin, WellStaged
  <2>2. highEpoch[call[c].identity.agent] \in Nat
    BY <2>1 DEF TypeOK, DirectCall, Identity
  <2>4. TypeOK'
    BY <1>4, <2>2 DEF Begin, TypeOK, registries, outcome, writers
  <2>5. WellStaged'
    BY <1>4 DEF Begin, TypeOK, WellStaged, writers
  <2> QED BY <2>4, <2>5
<1>5. CASE ReadAgent(c)
  <2> DEFINE agent == agents[call[c].identity.agent]
             faults == IdentityFaults(c, agent)
  <2>1. call[c] \in DirectCall
    BY <1>5 DEF ReadAgent, WellStaged
  <2>2. agent \in Agent \cup {NONE}
    BY <2>1 DEF TypeOK, DirectCall, Identity
  <2>3. faults \in SUBSET Reasons /\ (faults = {} => agent # NONE)
    BY GateFaultsTyped DEF IdentityFaults, When
  <2>4. seen' = [seen EXCEPT ![c].agent = agent]
    BY <1>5 DEF ReadAgent
  <2>5. reasons' \in [Calls -> SUBSET Reasons]
    BY <1>5, <2>3 DEF ReadAgent, TypeOK
  <2>6. pc' = [pc EXCEPT ![c] = IF faults = {} THEN "evidence" ELSE "receipt"]
    BY <1>5 DEF ReadAgent
  <2>10. seen' \in [Calls -> Reads]
    BY <2>2, <2>4, ReadsTyped DEF TypeOK
  <2>7. TypeOK'
    BY <1>5, <2>5, <2>6, <2>10
       DEF ReadAgent, TypeOK, registries, outcome, writers, history
  <2>8. pc'[c] = "receipt" => reasons'[c] # {}
    BY <1>5, <2>6 DEF ReadAgent, TypeOK
  <2>9. WellStaged'
    BY <1>5, <2>1, <2>2, <2>3, <2>4, <2>6, <2>8 DEF ReadAgent, TypeOK, WellStaged, writers
  <2> QED BY <2>7, <2>9
<1>6. CASE ReadEvidence(c)
  <2> DEFINE id == seen[c].agent.observed[call[c].intent.action]
  <2>1. call[c] \in DirectCall /\ seen[c].agent \in Agent
    BY <1>6 DEF ReadEvidence, WellStaged, TypeOK, Reads
  <2>2. id \in EvidenceIds \cup {NONE}
    BY <2>1 DEF DirectCall, Intent, Agent
  <2>3. reasons' \in [Calls -> SUBSET Reasons]
    BY <1>6, GateFaultsTyped DEF ReadEvidence, TypeOK
  <2>6. seen' \in [Calls -> Reads]
    BY <1>6, <2>2, ReadsTyped DEF ReadEvidence, TypeOK
  <2>4. TypeOK'
    BY <1>6, <2>3, <2>6
       DEF ReadEvidence, TypeOK, registries, outcome, writers, history
  <2>5. WellStaged'
    <3>1. /\ pc'[c] = "lease" /\ seen'[c].agent = seen[c].agent
          /\ seen[c].agent # NONE
          /\ \A d \in Calls \ {c} : pc'[d] = pc[d] /\ seen'[d].agent = seen[d].agent
                                     /\ seen'[d].lease = seen[d].lease
                                     /\ seen'[d].target = seen[d].target
                                     /\ reasons'[d] = reasons[d]
          /\ call' = call /\ walk' = walk /\ promoter' = promoter
      BY <1>6 DEF ReadEvidence, TypeOK, WellStaged, writers
    <3> QED BY <2>1, <3>1 DEF WellStaged
  <2> QED BY <2>4, <2>5
<1>7. CASE LeaseMissing(c)
  <2>3. reasons' \in [Calls -> SUBSET Reasons]
    BY <1>7 DEF LeaseMissing, TypeOK, Reasons, AuthorityReasons
  <2>1. TypeOK'
    BY <1>7, <2>3 DEF LeaseMissing, TypeOK, registries, outcome, writers, history
  <2>2. WellStaged'
    BY <1>7 DEF LeaseMissing, TypeOK, WellStaged, writers
  <2> QED BY <2>1, <2>2
<1>8. CASE ReadLease(c)
  <2> DEFINE lease == leases[call[c].lease]
             walks == RequireProvenance /\ lease.provenance # NONE
  <2>1. call[c] \in DirectCall
    BY <1>8 DEF ReadLease, WellStaged
  <2>2. lease \in Lease /\ lease.provenance \in ProvIds \cup {NONE}
    BY <1>8, <2>1 DEF ReadLease, TypeOK, DirectCall, Lease
  <2>3. reasons' \in [Calls -> SUBSET Reasons]
    BY <1>8, GateFaultsTyped DEF ReadLease, TypeOK
  <2>4. /\ pc' = [pc EXCEPT ![c] = IF walks THEN "walk" ELSE "target"]
        /\ seen' = [seen EXCEPT ![c].lease = lease]
        /\ walk' = [walk EXCEPT ![c].current = IF walks THEN lease.provenance
                                                         ELSE NONE]
        /\ pc[c] = "lease"
    BY <1>8 DEF ReadLease
  <2>7. seen' \in [Calls -> Reads]
    BY <2>2, <2>4, ReadsTyped DEF TypeOK
  <2>8. walk' \in [Calls -> Walk]
    BY <2>2, <2>4, WalkTyped DEF TypeOK
  <2>5. TypeOK'
    BY <1>8, <2>3, <2>4, <2>7, <2>8
       DEF ReadLease, TypeOK, registries, outcome, writers, history
  <2>6. WellStaged'
    BY <1>8, <2>1, <2>4 DEF ReadLease, TypeOK, WellStaged, writers
  <2> QED BY <2>5, <2>6
<1>9. CASE WalkBroken(c)
  <2>1. reasons' \in [Calls -> SUBSET Reasons]
    BY <1>9 DEF WalkBroken, TypeOK, Reasons, AuthorityReasons
  <2>2. TypeOK'
    BY <1>9, <2>1 DEF WalkBroken, TypeOK, registries, outcome, writers, history
  <2>3. WellStaged'
    BY <1>9 DEF WalkBroken, TypeOK, WellStaged, writers
  <2> QED BY <2>2, <2>3
<1>10. CASE WalkRecord(c)
  <2> DEFINE record == records[walk[c].current]
  <2>1. walk[c].current \in ProvIds
    BY <1>10 DEF WalkRecord, WellStaged, TypeOK, Walk
  <2>2. record \in Record /\ record.parent \in ProvIds \cup {NONE}
    BY <1>10, <2>1 DEF WalkRecord, TypeOK, Record
  <2>3. reasons' \in [Calls -> SUBSET Reasons]
    BY <1>10, FaultsTyped DEF WalkRecord, TypeOK
  <2>4. /\ pc' = [pc EXCEPT ![c] = IF record.parent = NONE THEN "target" ELSE "walk"]
        /\ walk' = [walk EXCEPT ![c] =
                      [current |-> record.parent, child |-> record,
                       visited |-> walk[c].visited \cup {walk[c].current}]]
        /\ pc[c] = "walk"
    BY <1>10 DEF WalkRecord, TypeOK
  <2>5. TypeOK'
    BY <1>10, <2>1, <2>2, <2>3, <2>4
       DEF WalkRecord, TypeOK, Walk, registries, outcome, writers, history
  <2>6. WellStaged'
    BY <1>10, <2>4 DEF WalkRecord, TypeOK, WellStaged, writers
  <2> QED BY <2>5, <2>6
<1>11. CASE ReadTarget(c)
  <2> DEFINE target == targets[call[c].intent.target]
             found  == reasons[c] \cup TargetFaults(c, target)
  <2>1. call[c] \in DirectCall
    BY <1>11 DEF ReadTarget, WellStaged
  <2>2. target \in Target \cup {NONE}
    BY <2>1 DEF TypeOK, DirectCall, Intent
  <2>7. found \in SUBSET Reasons
    BY GateFaultsTyped DEF TypeOK
  <2>8. found = {} => target # NONE
    BY DEF TargetFaults
  <2>3. found \in SUBSET Reasons /\ (found = {} => target # NONE)
    BY <2>7, <2>8
  <2>9. seen' \in [Calls -> Reads]
    BY <1>11, <2>2, ReadsTyped DEF ReadTarget, TypeOK
  <2>4. /\ pc' = [pc EXCEPT ![c] = IF found = {} THEN "mutate" ELSE "receipt"]
        /\ seen' = [seen EXCEPT ![c].target = target]
        /\ reasons' = [reasons EXCEPT ![c] = found]
        /\ pc[c] = "target"
    BY <1>11 DEF ReadTarget
  <2>5. TypeOK'
    BY <1>11, <2>3, <2>4, <2>9
       DEF ReadTarget, TypeOK, registries, outcome, writers, history
  <2>6. WellStaged'
    BY <1>11, <2>1, <2>3, <2>4 DEF ReadTarget, TypeOK, WellStaged, writers
  <2> QED BY <2>5, <2>6
<1>12. CASE Mutate(c)
  <2>1. Payload(c) \in Effect
    <3>1. call[c] \in DirectCall /\ seen[c].target \in Target
      BY <1>12 DEF Mutate, WellStaged, TypeOK, Reads
    <3>2. call[c].intent.target \in TargetIds
      BY <3>1 DEF DirectCall, Intent
    <3> QED BY <3>1, <3>2, HashTyped DEF Payload, Effect, DirectCall, Intent, Identity
  <2>2. TypeOK'
    BY <1>12, <2>1
       DEF Mutate, TypeOK, registries, locals, outcome, writers, history
  <2>3. WellStaged'
    BY <1>12 DEF Mutate, TypeOK, WellStaged, locals, writers
  <2> QED BY <2>2, <2>3
<1>13. CASE PutReceipt(c)
  <2>5. Receipt(c, IF reasons[c] = {} THEN "ALLOW" ELSE "BLOCK") \in ReceiptType
    BY <1>13, ReceiptTyped DEF PutReceipt
  <2>6. TypeOK'
    BY <1>13, <2>5
       DEF PutReceipt, TypeOK, registries, locals, outcome, writers, history
  <2>7. WellStaged'
    BY <1>13 DEF PutReceipt, TypeOK, WellStaged, locals, writers
  <2> QED BY <2>6, <2>7
<1>14. CASE ReplayRegistry(c)
  <2>1. mismatches' \in [Calls -> SUBSET Mismatches]
    BY <1>14 DEF ReplayRegistry, TypeOK, When, Mismatches
  <2>2. TypeOK'
    BY <1>14, <2>1
       DEF ReplayRegistry, TypeOK, registries, locals, outcome, writers, history
  <2>3. WellStaged'
    BY <1>14 DEF ReplayRegistry, TypeOK, WellStaged, locals, writers
  <2> QED BY <2>2, <2>3
<1>15. CASE ReplayTarget(c)
  <2>1. mismatches' \in [Calls -> SUBSET Mismatches]
    BY <1>15 DEF ReplayTarget, TypeOK, When, Mismatches
  <2>2. TypeOK'
    BY <1>15, <2>1
       DEF ReplayTarget, TypeOK, registries, locals, outcome, writers, history
  <2>3. WellStaged'
    BY <1>15 DEF ReplayTarget, TypeOK, WellStaged, locals, writers
  <2> QED BY <2>2, <2>3
<1>16. CASE Crash(c)
  <2>1. TypeOK'
    BY <1>16 DEF Crash, TypeOK, registries, locals, outcome, writers, history
  <2>2. WellStaged'
    BY <1>16 DEF Crash, TypeOK, WellStaged, locals, writers
  <2> QED BY <2>1, <2>2
<1> QED BY <1>1, <1>2, <1>3, <1>4, <1>5, <1>6, <1>7, <1>8, <1>9, <1>10, <1>11,
           <1>12, <1>13, <1>14, <1>15, <1>16 DEF Enter, Gates, Commit

\* A call's locals and outcome are its own: what goes on around it leaves them.
LEMMA AroundCalls ==
  ASSUME (\E p \in Promoters : Promote(p)) \/ Environment
  PROVE  UNCHANGED <<locals, outcome, pc, evidence0, authority, floor>>
<1>1. ASSUME NEW p \in Promoters, Promote(p)
      PROVE  UNCHANGED <<locals, outcome, pc, evidence0, authority, floor>>
  BY <1>1 DEF Promote, PromoteRead, PromoteCheck, PromoteWrite, history
<1>2. CASE Environment
  BY <1>2 DEF Environment, AdvanceRead, AdvanceWrite, RevokeRead, RevokeWrite,
              RevokeRecord, PutAgent, PutLease, PutRecord, PutTarget, LoseEvidence,
              PutEvidence, Tick, history
<1> QED BY <1>1, <1>2

\* So are the stages the reads of a call rest on, but for the promoters' own.
LEMMA AroundTyped ==
  ASSUME TypeInv, (\E p \in Promoters : Promote(p)) \/ Environment
  PROVE  TypeInv'
<1> USE DEF TypeInv
<1>0. UNCHANGED <<locals, outcome, pc, evidence0, authority, floor>>
  BY AroundCalls
<1>1. ASSUME NEW p \in Promoters, PromoteRead(p) PROVE TypeInv'
  <2>1. PICK m \in Promotions :
          /\ agents[m.agent] # NONE
          /\ promoter' = [promoter EXCEPT ![p] =
                            [pc |-> "check", promotion |-> m,
                             copy |-> agents[m.agent]]]
    BY <1>1 DEF PromoteRead
  <2>2. m \in Promotion /\ agents[m.agent] \in Agent
    BY <2>1, InputAssumption DEF Promotion, TypeOK
  <2>3. TypeOK'
    BY <1>0, <1>1, <2>1, <2>2 DEF PromoteRead, TypeOK, registries, locals, outcome, history
  <2>4. WellStaged'
    BY <1>0, <2>1, <2>2 DEF WellStaged, TypeOK, locals
  <2> QED BY <2>3, <2>4
<1>2. ASSUME NEW p \in Promoters, PromoteCheck(p) PROVE TypeInv'
  <2>1. PICK new \in {[promoter[p] EXCEPT !.pc = "write"], NoPromotion} :
          promoter' = [promoter EXCEPT ![p] = new]
    BY <1>2 DEF PromoteCheck
  <2>2. TypeOK'
    BY <1>0, <1>2, <2>1
       DEF PromoteCheck, TypeOK, NoPromotion, registries, locals, outcome, history
  <2>3. WellStaged'
    BY <1>0, <1>2, <2>1 DEF PromoteCheck, WellStaged, TypeOK, NoPromotion, locals
  <2> QED BY <2>2, <2>3
<1>3. ASSUME NEW p \in Promoters, PromoteWrite(p) PROVE TypeInv'
  <2> DEFINE m == promoter[p].promotion
             new == [promoter[p].copy EXCEPT !.observed[m.capability] = m.evidence]
  <2>1. m \in Promotion /\ promoter[p].copy \in Agent
    BY <1>3 DEF PromoteWrite, WellStaged, TypeOK
  <2>2. new \in Agent
    BY <2>1 DEF Agent, Promotion
  <2>3. agents' \in [Actors -> Agent \cup {NONE}]
    BY <1>3, <2>2 DEF PromoteWrite, TypeOK
  <2>4. TypeOK'
    BY <1>0, <1>3, <2>3
       DEF PromoteWrite, TypeOK, NoPromotion, locals, outcome, history
  <2>5. WellStaged'
    BY <1>0, <1>3 DEF PromoteWrite, WellStaged, TypeOK, NoPromotion, locals
  <2> QED BY <2>4, <2>5
<1>4. ASSUME NEW a \in Actors, AdvanceRead(a) PROVE TypeInv'
  BY <1>0, <1>4 DEF AdvanceRead, TypeOK, WellStaged, registries, locals, outcome, history
<1>5. CASE AdvanceWrite
  <2> DEFINE a    == advance.agent
             next == [advance.copy EXCEPT !.epoch = @ + 1]
  <2>1. a \in Actors /\ advance.copy \in Agent
    BY <1>5 DEF AdvanceWrite, TypeOK
  <2>2. next \in Agent /\ next.epoch \in Nat
    BY <2>1 DEF Agent
  <2>3. /\ agents' = [agents EXCEPT ![a] = next]
        /\ highEpoch' = [highEpoch EXCEPT ![a] =
             IF next.epoch > highEpoch[a] THEN next.epoch ELSE highEpoch[a]]
        /\ advance' = NONE
        /\ UNCHANGED <<evidence, leases, records, targets, promoter, revocation, clock,
                       torn, touched, lost>>
    BY <1>5, <2>1 DEF AdvanceWrite, TypeOK
  <2>4. agents' \in [Actors -> Agent \cup {NONE}] /\ highEpoch' \in [Actors -> Nat]
    BY <2>1, <2>2, <2>3 DEF TypeOK
  <2>5. TypeOK'
    BY <1>0, <2>3, <2>4 DEF TypeOK, locals, outcome
  <2>6. WellStaged'
    BY <1>0, <2>3 DEF WellStaged, locals
  <2> QED BY <2>5, <2>6
<1>6. CASE \E l \in RevocableLeases : RevokeRead(l)
  <2>1. PICK l \in RevocableLeases : RevokeRead(l)
    BY <1>6
  <2>2. l \in LeaseIds /\ leases[l] \in Lease
    BY <2>1, InputAssumption DEF RevokeRead, TypeOK
  <2> QED BY <1>0, <2>1, <2>2
             DEF RevokeRead, TypeOK, WellStaged, registries, locals, outcome, history
<1>15. CASE RevokeWrite
  <2>1. PICK t \in 0..clock :
          leases' = [leases EXCEPT ![revocation.lease] =
                       [revocation.copy EXCEPT !.revoked_at = t]]
    BY <1>15 DEF RevokeWrite
  <2>2. revocation.lease \in LeaseIds /\ revocation.copy \in Lease
    BY <1>15 DEF RevokeWrite, TypeOK
  <2>3. t \in Nat
    BY <2>1 DEF TypeOK
  <2>4. [revocation.copy EXCEPT !.revoked_at = t] \in Lease
    BY <2>2, <2>3 DEF Lease
  <2>5. leases' \in [LeaseIds -> Lease \cup {NONE}]
    BY <2>1, <2>2, <2>4 DEF TypeOK
  <2> QED BY <1>0, <1>15, <2>5
             DEF RevokeWrite, TypeOK, WellStaged, locals, outcome, history
<1>7. ASSUME NEW id \in RevocableRecords, RevokeRecord(id) PROVE TypeInv'
  <2>1. PICK t \in 0..clock : records' = [records EXCEPT ![id].revoked_at = t]
    BY <1>7 DEF RevokeRecord
  <2>2. id \in ProvIds /\ records[id] \in Record
    BY <1>7, InputAssumption DEF RevokeRecord, TypeOK
  <2>3. t \in Nat
    BY <2>1 DEF TypeOK
  <2>4. [records[id] EXCEPT !.revoked_at = t] \in Record
    BY <2>2, <2>3 DEF Record
  <2>5. records' \in [ProvIds -> Record \cup {NONE}]
    BY <2>1, <2>2, <2>4 DEF TypeOK
  <2> QED BY <1>0, <1>7, <2>5
             DEF RevokeRecord, TypeOK, WellStaged, locals, outcome, writers, history
<1>8. ASSUME NEW put \in AgentPuts, PutAgent(put[1], put[2]) PROVE TypeInv'
  <2>1. put[1] \in Actors /\ put[2] \in Agent /\ put[2].epoch \in Nat
    BY InputAssumption DEF Agent
  <2>2. agents' \in [Actors -> Agent \cup {NONE}] /\ highEpoch' \in [Actors -> Nat]
    BY <1>8, <2>1 DEF PutAgent, TypeOK
  <2> QED BY <1>0, <1>8, <2>2 DEF PutAgent, TypeOK, WellStaged, locals, outcome, writers
<1>9. ASSUME NEW put \in LeasePuts, PutLease(put[1], put[2]) PROVE TypeInv'
  <2>1. put[1] \in LeaseIds /\ put[2] \in Lease
    BY InputAssumption
  <2>2. leases' \in [LeaseIds -> Lease \cup {NONE}]
    BY <1>9, <2>1 DEF PutLease, TypeOK
  <2> QED BY <1>0, <1>9, <2>2
             DEF PutLease, TypeOK, WellStaged, locals, outcome, writers, history
<1>11. ASSUME NEW put \in RecordPuts, PutRecord(put[1], put[2]) PROVE TypeInv'
  <2>1. put[1] \in ProvIds /\ put[2] \in Record
    BY InputAssumption
  <2>2. records' \in [ProvIds -> Record \cup {NONE}] /\ torn' \in [Calls -> BOOLEAN]
    BY <1>11, <2>1 DEF PutRecord, TypeOK
  <2> QED BY <1>0, <1>11, <2>2 DEF PutRecord, TypeOK, WellStaged, locals, outcome, writers
<1>12. ASSUME NEW put \in TargetPuts, PutTarget(put[1], put[2]) PROVE TypeInv'
  <2>1. put[1] \in TargetIds /\ put[2] \in Target
    BY InputAssumption
  <2>2. targets' \in [TargetIds -> Target \cup {NONE}] /\ touched' \in [Calls -> BOOLEAN]
    BY <1>12, <2>1 DEF PutTarget, TypeOK
  <2> QED BY <1>0, <1>12, <2>2 DEF PutTarget, TypeOK, WellStaged, locals, outcome, writers
<1>13. ASSUME NEW e \in LosableEvidence, LoseEvidence(e) PROVE TypeInv'
  <2>1. e \in EvidenceIds
    BY InputAssumption
  <2> QED BY <1>0, <1>13, <2>1
             DEF LoseEvidence, TypeOK, WellStaged, locals, outcome, writers
<1>14. ASSUME NEW e \in LosableEvidence, PutEvidence(e) PROVE TypeInv'
  <2>1. e \in EvidenceIds
    BY InputAssumption
  <2> QED BY <1>0, <1>14, <2>1
             DEF PutEvidence, TypeOK, WellStaged, locals, outcome, writers, history
<1>10. CASE Tick
  BY <1>0, <1>10 DEF Tick, TypeOK, WellStaged, registries, locals, outcome, writers, history
<1> QED BY <1>1, <1>2, <1>3, <1>4, <1>5, <1>6, <1>7, <1>8, <1>9, <1>10, <1>11,
           <1>12, <1>13, <1>14, <1>15 DEF Promote, Environment

LEMMA Stutter == TypeInv /\ UNCHANGED vars => TypeInv'
  BY DEF TypeInv, TypeOK, WellStaged, vars, registries, locals, outcome, writers, history

\* Every registry, local and outcome of a call keeps its type, whatever runs
\* beside it.
THEOREM TypeCorrect == Spec => []TypeOK
<1>1. TypeInv /\ [Next]_vars => TypeInv'
  BY CallTypeInv, AroundTyped, Stutter DEF Next
<1>2. TypeInv => TypeOK
  BY DEF TypeInv
<1> QED BY <1>1, <1>2, InitTypeInv, PTL DEF Spec

-----------------------------------------------------------------------------
(* What an effect rests on, and what a receipt says of it.                   *)

\* Every capability an agent record observes was observed of that agent.
Backed(a, record) ==
  \A x \in Actions : record.observed[x] # NONE =>
    Binds(evidence0[record.observed[x]], a, x)

\* So it is of the registry and of every copy on its way back to it.
RegistryBacked ==
  /\ \A e \in EvidenceIds : evidence[e] = NONE \/ evidence[e] = evidence0[e]
  /\ \A a \in Actors : agents[a] # NONE => Backed(a, agents[a])
  /\ \A p \in Promoters :
       /\ promoter[p].pc # "idle" =>
            Backed(promoter[p].promotion.agent, promoter[p].copy)
       /\ promoter[p].pc = "write" =>
            Binds(evidence0[promoter[p].promotion.evidence],
                  promoter[p].promotion.agent, promoter[p].promotion.capability)
  /\ advance # NONE => Backed(advance.agent, advance.copy)

\* What a call has established while it has found no fault.
Progress(c) ==
  /\ pc[c] \in {"idle", "rejected", "begin", "agent", "evidence", "lease", "walk",
                "target", "mutate"} => effects[c] = NONE /\ receipts[c] = NONE
  /\ pc[c] \in {"idle", "rejected", "begin", "agent"} => reasons[c] = {}
  /\ pc[c] \in {"evidence", "lease", "walk", "target", "mutate"} =>
       /\ call[c].intent.agent = call[c].identity.agent
       /\ Backed(call[c].identity.agent, seen[c].agent)
  /\ pc[c] \in {"lease", "walk", "target", "mutate"} /\ reasons[c] = {} =>
       /\ seen[c].evidence_id # NONE
       /\ seen[c].evidence_id = seen[c].agent.observed[call[c].intent.action]
  /\ pc[c] = "mutate" =>
       call[c].intent.hash = TargetHash(call[c].intent.target, seen[c].target)

\* What holds of an effect from the moment it is written, and of a receipt.
Settled(c) ==
  /\ effects[c] # NONE =>
       /\ effects[c] = Payload(c)
       /\ reasons[c] = {}
       /\ seen[c].evidence_id # NONE
       /\ Binds(evidence0[seen[c].evidence_id], call[c].identity.agent,
                call[c].intent.action)
       /\ call[c].intent.hash = effects[c].hash
       /\ pc[c] \in {"receipt", "replay_registry", "replay_target", "done", "crashed"}
  /\ pc[c] = "receipt" =>
       receipts[c] = NONE /\ (reasons[c] = {} => effects[c] # NONE)
  /\ pc[c] \in {"replay_registry", "replay_target", "done"} => receipts[c] # NONE
  /\ receipts[c] # NONE =>
       /\ receipts[c] = Receipt(c, IF reasons[c] = {} THEN "ALLOW" ELSE "BLOCK")
       /\ reasons[c] = {} => effects[c] # NONE
       /\ pc[c] \in {"replay_registry", "replay_target", "done", "crashed"}

Own(c) == Progress(c) /\ Settled(c)

IInv == TypeInv /\ RegistryBacked /\ \A c \in Calls : Own(c)

\* A step that leaves a call's locals and outcome alone keeps what it established.
LEMMA Frame ==
  ASSUME NEW d \in Calls, Own(d), evidence0' = evidence0,
         pc'[d] = pc[d], call'[d] = call[d], seen'[d] = seen[d],
         reasons'[d] = reasons[d], effects'[d] = effects[d],
         receipts'[d] = receipts[d]
  PROVE  Own(d)'
<1>1. Payload(d)' = Payload(d)
  BY DEF Payload
<1>2. \A x \in {"ALLOW", "BLOCK"} : Receipt(d, x)' = Receipt(d, x)
  BY <1>1 DEF Receipt
<1>3. Progress(d)'
  BY DEF Own, Progress, Backed
<1>4. Settled(d)'
  BY <1>1, <1>2 DEF Own, Settled
<1> QED BY <1>3, <1>4 DEF Own

LEMMA InitIInv == Init => IInv
<1> SUFFICES ASSUME Init PROVE IInv
  OBVIOUS
<1>1. TypeInv
  BY InitTypeInv
<1>2. PICK s \in Seeds : agents = s.agents /\ evidence = s.evidence
                         /\ evidence0 = s.evidence
  BY DEF Init
<1>3. RegistryBacked
  BY <1>2, SeedAssumption DEF Init, RegistryBacked, Backed, NoPromotion
<1>4. \A c \in Calls : Own(c)
  BY DEF Init, Own, Progress, Settled
<1> QED BY <1>1, <1>3, <1>4 DEF IInv

\* The registries stay backed: a promotion adds a capability only with evidence that
\* binds it, and a stale copy written back was itself backed when it was read.
LEMMA RegistryStaysBacked ==
  ASSUME TypeInv, RegistryBacked, Next
  PROVE  RegistryBacked'
<1>1. ASSUME NEW c \in Calls, Enter(c) \/ Gates(c) \/ Commit(c) \/ Crash(c)
      PROVE  RegistryBacked'
  <2>1. UNCHANGED <<registries, writers, evidence0>>
    BY <1>1 DEF Enter, Gates, Commit, Crash, ProposalRejected, ProposalBound,
                CalledDirectly, Begin, ReadAgent, ReadEvidence, LeaseMissing,
                ReadLease, WalkBroken, WalkRecord, ReadTarget, Mutate, PutReceipt,
                ReplayRegistry, ReplayTarget, OpenAuthority, history
  <2> QED BY <2>1 DEF RegistryBacked, Backed, registries, writers
<1>2. ASSUME NEW p \in Promoters, PromoteRead(p) PROVE RegistryBacked'
  <2>1. PICK m \in Promotions :
          /\ agents[m.agent] # NONE
          /\ promoter' = [promoter EXCEPT ![p] =
                            [pc |-> "check", promotion |-> m,
                             copy |-> agents[m.agent]]]
    BY <1>2 DEF PromoteRead
  <2>2. Backed(m.agent, agents[m.agent])
    BY <2>1, InputAssumption DEF RegistryBacked, Promotion
  <2>3. UNCHANGED <<agents, evidence, advance, evidence0>>
    BY <1>2 DEF PromoteRead, registries, history
  <2> QED BY <2>1, <2>2, <2>3 DEF RegistryBacked, Backed, TypeInv, TypeOK
<1>3. ASSUME NEW p \in Promoters, PromoteCheck(p) PROVE RegistryBacked'
  <2> DEFINE m == promoter[p].promotion
  <2>1. m \in Promotion /\ promoter[p].pc = "check"
    BY <1>3 DEF PromoteCheck, TypeInv, WellStaged
  <2>2. UNCHANGED <<agents, evidence, advance, evidence0>>
    BY <1>3 DEF PromoteCheck, registries, history
  <2>3. CASE Binds(evidence[m.evidence], m.agent, m.capability)
    <3>1. Binds(evidence0[m.evidence], m.agent, m.capability)
      BY <2>1, <2>3 DEF RegistryBacked, Promotion, Binds
    <3>2. promoter' = [promoter EXCEPT ![p] = [promoter[p] EXCEPT !.pc = "write"]]
      BY <1>3, <2>3 DEF PromoteCheck, TypeInv, TypeOK
    <3>3. /\ promoter'[p].promotion = m
          /\ promoter'[p].copy = promoter[p].copy
          /\ \A q \in Promoters \ {p} : promoter'[q] = promoter[q]
      BY <3>2 DEF TypeInv, TypeOK
    <3> QED BY <2>1, <2>2, <3>1, <3>3 DEF RegistryBacked, Backed
  <2>4. CASE ~Binds(evidence[m.evidence], m.agent, m.capability)
    <3>1. promoter' = [promoter EXCEPT ![p] = NoPromotion]
      BY <1>3, <2>4 DEF PromoteCheck
    <3> QED BY <2>2, <3>1 DEF RegistryBacked, Backed, NoPromotion, TypeInv, TypeOK
  <2> QED BY <2>3, <2>4
<1>4. ASSUME NEW p \in Promoters, PromoteWrite(p) PROVE RegistryBacked'
  <2> DEFINE m == promoter[p].promotion
             new == [promoter[p].copy EXCEPT !.observed[m.capability] = m.evidence]
  <2>1. /\ m \in Promotion
        /\ promoter[p].copy \in Agent
        /\ promoter[p].pc = "write"
    BY <1>4 DEF PromoteWrite, TypeInv, WellStaged, TypeOK
  <2>2. /\ agents' = [agents EXCEPT ![m.agent] = new]
        /\ promoter' = [promoter EXCEPT ![p] = NoPromotion]
        /\ UNCHANGED <<evidence, advance, evidence0>>
    BY <1>4 DEF PromoteWrite, history
  <2>3. \A x \in Actions : new.observed[x] =
          IF x = m.capability THEN m.evidence ELSE promoter[p].copy.observed[x]
    BY <2>1 DEF Agent, Promotion
  <2>4. Backed(m.agent, new)
    BY <2>1, <2>3 DEF RegistryBacked, Backed
  <2>5. \A a \in Actors : agents'[a] # NONE => Backed(a, agents'[a])
    BY <2>1, <2>2, <2>4 DEF RegistryBacked, TypeInv, TypeOK, Promotion
  <2> QED BY <2>2, <2>5 DEF RegistryBacked, Backed, NoPromotion, TypeInv, TypeOK
<1>5. ASSUME NEW a \in Actors, AdvanceRead(a) PROVE RegistryBacked'
  BY <1>5 DEF AdvanceRead, registries, history, RegistryBacked, Backed
<1>6. CASE AdvanceWrite
  <2> DEFINE a    == advance.agent
             next == [advance.copy EXCEPT !.epoch = @ + 1]
  <2>1. a \in Actors /\ advance.copy \in Agent /\ advance # NONE
    BY <1>6 DEF AdvanceWrite, TypeInv, TypeOK
  <2>2. /\ agents' = [agents EXCEPT ![a] = next]
        /\ advance' = NONE
        /\ UNCHANGED <<evidence, promoter, evidence0>>
    BY <1>6 DEF AdvanceWrite
  <2>3. next.observed = advance.copy.observed
    BY <2>1 DEF Agent
  <2>4. Backed(a, next)
    BY <2>1, <2>3 DEF RegistryBacked, Backed
  <2> QED BY <2>1, <2>2, <2>4 DEF RegistryBacked, Backed, TypeInv, TypeOK
<1>7. ASSUME NEW e \in LosableEvidence, LoseEvidence(e) PROVE RegistryBacked'
  <2>1. /\ evidence' = [evidence EXCEPT ![e] = NONE]
        /\ UNCHANGED <<agents, promoter, advance, evidence0>>
    BY <1>7 DEF LoseEvidence, writers, history
  <2> QED BY <2>1 DEF RegistryBacked, Backed, TypeInv, TypeOK
<1>8. ASSUME NEW e \in LosableEvidence, PutEvidence(e) PROVE RegistryBacked'
  <2>1. /\ evidence' = [evidence EXCEPT ![e] = evidence0[e]]
        /\ UNCHANGED <<agents, promoter, advance, evidence0>>
    BY <1>8 DEF PutEvidence, writers, history
  <2> QED BY <2>1 DEF RegistryBacked, Backed, TypeInv, TypeOK
<1>9. ASSUME NEW put \in AgentPuts, PutAgent(put[1], put[2]) PROVE RegistryBacked'
  <2>1. /\ agents' = [agents EXCEPT ![put[1]] = put[2]]
        /\ UNCHANGED <<evidence, promoter, advance, evidence0>>
    BY <1>9 DEF PutAgent, writers
  <2>2. put[1] \in Actors /\ Backed(put[1], put[2])
    BY InputAssumption, RegistrationAssumption DEF Backed
  <2> QED BY <2>1, <2>2 DEF RegistryBacked, Backed, TypeInv, TypeOK
<1>10. ASSUME \/ \E l \in RevocableLeases : RevokeRead(l)
              \/ RevokeWrite
              \/ \E id \in RevocableRecords : RevokeRecord(id)
              \/ \E put \in LeasePuts : PutLease(put[1], put[2])
              \/ \E put \in RecordPuts : PutRecord(put[1], put[2])
              \/ \E put \in TargetPuts : PutTarget(put[1], put[2])
              \/ Tick
       PROVE  RegistryBacked'
  <2>1. UNCHANGED <<agents, evidence, promoter, advance, evidence0>>
    BY <1>10 DEF RevokeRead, RevokeWrite, RevokeRecord, PutLease, PutRecord, PutTarget,
                 Tick, registries, writers, history
  <2> QED BY <2>1 DEF RegistryBacked, Backed
<1> QED BY <1>1, <1>2, <1>3, <1>4, <1>5, <1>6, <1>7, <1>8, <1>9, <1>10
           DEF Next, Promote, Environment

\* A call's own steps carry its progress to its effect and its receipt.
LEMMA CallKeepsOwn ==
  ASSUME IInv, NEW c \in Calls, Enter(c) \/ Gates(c) \/ Commit(c) \/ Crash(c)
  PROVE  \A d \in Calls : Own(d)'
<1> USE DEF IInv, TypeInv, Goto, AddReasons, OpenAuthority
<1>0. evidence0' = evidence0
  BY DEF Enter, Gates, Commit, Crash, ProposalRejected, ProposalBound,
         CalledDirectly, Begin, ReadAgent, ReadEvidence, LeaseMissing, ReadLease,
         WalkBroken, WalkRecord, ReadTarget, Mutate, PutReceipt, ReplayRegistry,
         ReplayTarget, history
<1>1. \A d \in Calls \ {c} : Own(d)'
  <2>1. \A d \in Calls \ {c} :
          /\ pc'[d] = pc[d] /\ call'[d] = call[d] /\ seen'[d] = seen[d]
          /\ reasons'[d] = reasons[d] /\ effects'[d] = effects[d]
          /\ receipts'[d] = receipts[d]
    BY DEF TypeOK, Enter, Gates, Commit, Crash, ProposalRejected, ProposalBound,
           CalledDirectly, Begin, ReadAgent, ReadEvidence, LeaseMissing, ReadLease,
           WalkBroken, WalkRecord, ReadTarget, Mutate, PutReceipt, ReplayRegistry,
           ReplayTarget, locals, outcome
  <2> QED BY <1>0, <2>1, Frame
<1>2. Own(c)'
  <2>0. Own(c)
    OBVIOUS
  <2>1. CASE Enter(c)
    <3>1. /\ pc'[c] \in {"rejected", "begin"}
          /\ pc[c] = "idle"
          /\ reasons' = reasons
          /\ UNCHANGED <<effects, receipts>>
      BY <2>1 DEF Enter, ProposalRejected, ProposalBound, CalledDirectly, TypeOK,
                  locals, outcome
    <3> QED BY <2>0, <3>1 DEF Own, Progress, Settled
  <2>2. CASE Begin(c)
    BY <2>0, <2>2 DEF Begin, TypeOK, Own, Progress, Settled, outcome
  <2>3. CASE ReadAgent(c)
    <3> DEFINE agent == agents[call[c].identity.agent]
               faults == IdentityFaults(c, agent)
    <3>1. /\ pc[c] = "agent"
          /\ pc'[c] = IF faults = {} THEN "evidence" ELSE "receipt"
          /\ seen'[c].agent = agent
          /\ reasons'[c] = reasons[c] \cup faults
          /\ call' = call
          /\ UNCHANGED <<effects, receipts>>
      BY <2>3 DEF ReadAgent, TypeOK, Reads, outcome
    <3>2. effects[c] = NONE /\ receipts[c] = NONE
      BY <2>0, <3>1 DEF Own, Progress
    <3>3. faults = {} => /\ call[c].intent.agent = call[c].identity.agent
                         /\ Backed(call[c].identity.agent, agent)
      <4> SUFFICES ASSUME faults = {}
                   PROVE  /\ call[c].intent.agent = call[c].identity.agent
                          /\ Backed(call[c].identity.agent, agent)
        OBVIOUS
      <4>1. call[c].intent.agent = call[c].identity.agent /\ agent # NONE
        BY DEF IdentityFaults, When
      <4>2. call[c].identity.agent \in Actors
        BY <3>1 DEF WellStaged, DirectCall, Identity
      <4> QED BY <4>1, <4>2 DEF RegistryBacked
    <3>4. CASE faults = {}
      BY <1>0, <3>1, <3>2, <3>3, <3>4 DEF Own, Progress, Settled, Backed
    <3>5. CASE faults # {}
      BY <3>1, <3>2, <3>5 DEF Own, Progress, Settled
    <3> QED BY <3>4, <3>5
  <2>4. CASE ReadEvidence(c)
    <3> DEFINE id == seen[c].agent.observed[call[c].intent.action]
               faults == CapabilityFaults(IF id = NONE THEN NONE ELSE evidence[id])
    <3>1. /\ pc[c] = "evidence" /\ pc'[c] = "lease"
          /\ seen'[c].evidence_id = id
          /\ seen'[c].agent = seen[c].agent
          /\ reasons'[c] = reasons[c] \cup faults
          /\ call' = call
          /\ UNCHANGED <<effects, receipts>>
      BY <2>4 DEF ReadEvidence, TypeOK, Reads, outcome
    <3>2. faults = {} => id # NONE
      BY DEF CapabilityFaults, When
    <3> QED BY <1>0, <2>0, <3>1, <3>2 DEF Own, Progress, Settled, Backed
  <2>5. CASE LeaseMissing(c) \/ ReadLease(c) \/ WalkBroken(c) \/ WalkRecord(c)
    <3>1. /\ pc[c] \in {"lease", "walk"} /\ pc'[c] \in {"walk", "target"}
          /\ seen'[c].evidence_id = seen[c].evidence_id
          /\ seen'[c].agent = seen[c].agent
          /\ reasons[c] \subseteq reasons'[c]
          /\ call' = call
          /\ UNCHANGED <<effects, receipts>>
      BY <2>5 DEF LeaseMissing, ReadLease, WalkBroken, WalkRecord, TypeOK, Reads,
                  outcome
    <3> QED BY <1>0, <2>0, <3>1 DEF Own, Progress, Settled, Backed
  <2>6. CASE ReadTarget(c)
    <3> DEFINE target == targets[call[c].intent.target]
               found  == reasons[c] \cup TargetFaults(c, target)
    <3>1. /\ pc[c] = "target"
          /\ pc'[c] = IF found = {} THEN "mutate" ELSE "receipt"
          /\ seen'[c].evidence_id = seen[c].evidence_id
          /\ seen'[c].agent = seen[c].agent
          /\ seen'[c].target = target
          /\ reasons'[c] = found
          /\ call' = call
          /\ UNCHANGED <<effects, receipts>>
      BY <2>6 DEF ReadTarget, TypeOK, Reads, outcome
    <3>2. found = {} => /\ reasons[c] = {}
                        /\ call[c].intent.hash = TargetHash(call[c].intent.target, target)
      BY DEF TargetFaults, When
    <3> QED BY <1>0, <2>0, <3>1, <3>2 DEF Own, Progress, Settled, Backed
  <2>7. CASE Mutate(c)
    <3>1. /\ pc[c] = "mutate" /\ pc'[c] = "receipt"
          /\ effects'[c] = Payload(c)
          /\ reasons' = reasons /\ seen' = seen /\ call' = call /\ receipts' = receipts
      BY <2>7 DEF Mutate, TypeOK, locals
    <3>2. Payload(c)' = Payload(c) /\ Payload(c).hash = call[c].intent.hash
      BY <2>0, <3>1 DEF Payload, Own, Progress
    <3>3. reasons[c] = {} /\ receipts[c] = NONE /\ seen[c].evidence_id # NONE
      BY <2>0, <3>1 DEF WellStaged, Own, Progress
    <3>4. Payload(c) # NONE
      <4>1. call[c] \in DirectCall /\ seen[c].target \in Target
        BY <3>1 DEF WellStaged, TypeOK, Reads
      <4>2. call[c].intent.target \in TargetIds
        BY <4>1 DEF DirectCall, Intent
      <4>3. Payload(c) \in Effect
        BY <4>1, <4>2, HashTyped DEF Payload, Effect, DirectCall, Intent, Identity
      <4> QED BY <4>3, InputAssumption
    <3>5. Binds(evidence0[seen[c].evidence_id], call[c].identity.agent,
                call[c].intent.action)
      <4>1. call[c].intent.action \in Actions
        BY <3>1 DEF WellStaged, DirectCall, Intent
      <4> QED BY <2>0, <3>1, <3>3, <4>1 DEF Own, Progress, Backed
    <3> QED BY <1>0, <3>1, <3>2, <3>3, <3>4, <3>5 DEF Own, Progress, Settled
  <2>8. CASE PutReceipt(c)
    <3> DEFINE receipt == Receipt(c, IF reasons[c] = {} THEN "ALLOW" ELSE "BLOCK")
    <3>1. /\ pc[c] = "receipt" /\ pc'[c] = "replay_registry"
          /\ receipts'[c] = receipt
          /\ reasons' = reasons /\ seen' = seen /\ call' = call /\ effects' = effects
      BY <2>8 DEF PutReceipt, TypeOK, locals
    <3>2. Payload(c)' = Payload(c)
      BY <3>1 DEF Payload
    <3>3. receipt' = receipt
      BY <3>1, <3>2 DEF Receipt
    <3>4. Settled(c)
      BY <2>0 DEF Own
    <3>7. receipt # NONE
      BY <3>1, ReceiptTyped, InputAssumption
    <3>5. Settled(c)'
      BY <1>0, <3>1, <3>2, <3>3, <3>4, <3>7 DEF Settled
    <3>6. Progress(c)'
      BY <3>1 DEF Progress
    <3> QED BY <3>5, <3>6 DEF Own
  <2>9. CASE ReplayRegistry(c) \/ ReplayTarget(c) \/ Crash(c)
    <3>1. /\ pc'[c] \in {"replay_target", "done", "crashed"}
          /\ pc'[c] # "crashed" => pc[c] \in {"replay_registry", "replay_target"}
          /\ reasons' = reasons /\ seen' = seen /\ call' = call /\ effects' = effects
          /\ receipts' = receipts
      BY <2>9 DEF ReplayRegistry, ReplayTarget, Crash, TypeOK, locals, outcome
    <3>2. Payload(c)' = Payload(c)
      BY <3>1 DEF Payload
    <3>3. \A x \in {"ALLOW", "BLOCK"} : Receipt(c, x)' = Receipt(c, x)
      BY <3>1, <3>2 DEF Receipt
    <3> QED BY <1>0, <2>0, <3>1, <3>2, <3>3 DEF Own, Progress, Settled
  <2> QED BY <2>1, <2>2, <2>3, <2>4, <2>5, <2>6, <2>7, <2>8, <2>9
             DEF Gates, Commit
<1> QED BY <1>1, <1>2

LEMMA NextIInv == IInv /\ [Next]_vars => IInv'
<1> SUFFICES ASSUME IInv, [Next]_vars PROVE IInv'
  OBVIOUS
<1> USE DEF IInv
<1>1. TypeInv'
  BY CallTypeInv, AroundTyped, Stutter DEF Next
<1>2. CASE UNCHANGED vars
  BY <1>1, <1>2, Frame
     DEF vars, registries, locals, outcome, writers, history, RegistryBacked, Backed
<1>3. CASE Next
  <2>1. RegistryBacked'
    BY <1>3, RegistryStaysBacked
  <2>2. \A c \in Calls : Own(c)'
    <3>1. CASE (\E p \in Promoters : Promote(p)) \/ Environment
      <4>1. UNCHANGED <<locals, outcome, pc, evidence0>>
        BY <3>1, AroundCalls
      <4> QED BY <4>1, Frame DEF locals, outcome
    <3> QED BY <1>3, <3>1, CallKeepsOwn DEF Next
  <2> QED BY <1>1, <2>1, <2>2
<1> QED BY <1>2, <1>3

THEOREM Inductive == Spec => []IInv
  BY InitIInv, NextIInv, PTL DEF Spec

\* However promotions, epoch advances and losses of evidence interleave with a call,
\* its material effect rests on a runtime observation of that agent having that
\* very capability.
THEOREM EffectsAreObserved == Spec => []EffectIsObserved
<1>1. IInv => EffectIsObserved
  <2> SUFFICES ASSUME IInv, NEW c \in Calls, effects[c] # NONE
               PROVE  /\ seen[c].evidence_id # NONE
                      /\ Binds(evidence0[seen[c].evidence_id], effects[c].agent,
                               effects[c].action)
    BY DEF EffectIsObserved
  <2>1. Settled(c)
    BY DEF IInv, Own
  <2>2. /\ effects[c].agent = call[c].identity.agent
        /\ effects[c].action = call[c].intent.action
    BY <2>1 DEF Settled, Payload
  <2> QED BY <2>1, <2>2 DEF Settled
<1> QED BY <1>1, Inductive, PTL

\* In every behaviour, crashes included, a receipt and the effect of its run agree:
\* ALLOW with the effect it hashes, BLOCK with none.
THEOREM ReceiptsMatchEffects == Spec => []ReceiptMatchesEffect
<1>1. IInv => ReceiptMatchesEffect
  <2> SUFFICES ASSUME IInv, NEW c \in Calls
               PROVE  IF receipts[c] = NONE
                      THEN effects[c] # NONE => pc[c] \in {"receipt", "crashed"}
                      ELSE /\ receipts[c].decision = "ALLOW" <=> effects[c] # NONE
                           /\ effects[c] # NONE =>
                                /\ receipts[c].result = ResultHash(c, effects[c])
                                /\ receipts[c].hash = effects[c].hash
                                /\ receipts[c].agent = effects[c].agent
    BY DEF ReceiptMatchesEffect
  <2>1. Settled(c)
    BY DEF IInv, Own
  <2>2. CASE receipts[c] = NONE
    BY <2>1, <2>2 DEF Settled
  <2>3. CASE receipts[c] # NONE
    <3>1. /\ receipts[c] = Receipt(c, IF reasons[c] = {} THEN "ALLOW" ELSE "BLOCK")
          /\ reasons[c] = {} <=> effects[c] # NONE
      BY <2>1, <2>3 DEF Settled
    <3>2. receipts[c].decision = "ALLOW" <=> effects[c] # NONE
      BY <3>1 DEF Receipt
    <3>3. effects[c] # NONE =>
            /\ effects[c] = Payload(c)
            /\ effects[c].agent = call[c].identity.agent
            /\ call[c].intent.hash = effects[c].hash
      BY <2>1 DEF Settled, Payload
    <3>4. effects[c] # NONE =>
            /\ receipts[c].result = ResultHash(c, Payload(c))
            /\ receipts[c].hash = call[c].intent.hash
            /\ receipts[c].agent = call[c].identity.agent
      BY <3>1 DEF Receipt
    <3> QED BY <2>3, <3>2, <3>3, <3>4
  <2> QED BY <2>2, <2>3
<1> QED BY <1>1, Inductive, PTL

-----------------------------------------------------------------------------
(* How long a call can take.                                                 *)

Unread(c) == Cardinality(ProvIds \ walk[c].visited)

LEMMA StepsCounted ==
  ASSUME NEW c \in Calls, TypeInv
  PROVE  /\ Unread(c) \in 0..Cardinality(ProvIds)
         /\ StagesLeft[pc[c]] \in 0..11
         /\ StepsLeft(c) \in 0..(Cardinality(ProvIds) + 11)
<1>1. Unread(c) \in 0..Cardinality(ProvIds) /\ Cardinality(ProvIds) \in Nat
  BY UnreadIsFinite, StoreAssumption, FS_CardinalityType DEF Unread
<1>2. pc[c] \in Stages
  BY DEF TypeInv, TypeOK
<1>3. StagesLeft[pc[c]] \in 0..11
  BY <1>2 DEF StagesLeft, Stages, Terminal
<1>4. StepsLeft(c) = StagesLeft[pc[c]] + Unread(c)
  BY DEF StepsLeft, Unread
<1> QED BY <1>1, <1>3, <1>4

\* A step that moves a call to a stage with less ahead, and makes it forget no record
\* it has read, uses up a step of the call.
LEMMA StageFalls ==
  ASSUME NEW c \in Calls, TypeInv, TypeInv',
         walk'[c].visited = walk[c].visited,
         StagesLeft[pc'[c]] < StagesLeft[pc[c]]
  PROVE  StepsLeft(c)' < StepsLeft(c)
<1>1. Unread(c)' = Unread(c)
  BY DEF Unread
<1>2. /\ StepsLeft(c) = StagesLeft[pc[c]] + Unread(c)
      /\ StepsLeft(c)' = StagesLeft[pc'[c]] + Unread(c)'
  BY DEF StepsLeft, Unread
<1>3. /\ Unread(c) \in Int
      /\ StagesLeft[pc[c]] \in Int
      /\ StagesLeft[pc'[c]] \in Int
  <2>1. TypeInv => Unread(c) \in Int /\ StagesLeft[pc[c]] \in Int
    BY StepsCounted
  <2>2. pc'[c] \in Stages
    BY DEF TypeInv, TypeOK
  <2>3. StagesLeft[pc'[c]] \in Int
    BY <2>2 DEF StagesLeft, Stages, Terminal
  <2> QED BY <2>1, <2>3
<1> QED BY <1>1, <1>2, <1>3

\* A step of a call touches no other call.
LEMMA OthersUntouched ==
  ASSUME TypeOK, NEW c \in Calls, NEW d \in Calls, d # c,
         Enter(c) \/ Gates(c) \/ Commit(c) \/ Crash(c)
  PROVE  Untouched(d)
<1> USE DEF TypeOK, Untouched, Goto, AddReasons, locals, outcome
<1>1. CASE Enter(c)
  BY <1>1 DEF Enter, ProposalRejected, ProposalBound, CalledDirectly
<1>2. CASE Begin(c) \/ ReadAgent(c) \/ ReadEvidence(c) \/ LeaseMissing(c)
  BY <1>2 DEF Begin, ReadAgent, ReadEvidence, LeaseMissing
<1>3. CASE ReadLease(c) \/ WalkBroken(c) \/ WalkRecord(c) \/ ReadTarget(c)
  BY <1>3 DEF ReadLease, WalkBroken, WalkRecord, ReadTarget
<1>4. CASE Commit(c) \/ Crash(c)
  BY <1>4 DEF Commit, Mutate, PutReceipt, ReplayRegistry, ReplayTarget, Crash
<1> QED BY <1>1, <1>2, <1>3, <1>4 DEF Gates

\* A step of a call uses up a step of it.
LEMMA OwnStepFalls ==
  ASSUME NEW c \in Calls, TypeInv, TypeInv',
         Enter(c) \/ Gates(c) \/ Commit(c) \/ Crash(c)
  PROVE  StepsLeft(c)' < StepsLeft(c)
<1> USE DEF Goto
<1>1. pc \in [Calls -> Stages] /\ walk \in [Calls -> Walk]
  BY DEF TypeInv, TypeOK
<1>2. CASE WalkRecord(c)
  <2> DEFINE record == records[walk[c].current]
  <2>1. /\ pc[c] = "walk"
        /\ walk[c].current \notin walk[c].visited
        /\ pc'[c] \in {"walk", "target"}
        /\ walk' = [walk EXCEPT ![c] =
              [current |-> record.parent, child |-> record,
               visited |-> walk[c].visited \cup {walk[c].current}]]
    BY <1>1, <1>2 DEF WalkRecord
  <2>2. walk'[c].visited = walk[c].visited \cup {walk[c].current}
    BY <1>1, <2>1
  <2>3. walk[c].current \in ProvIds
    BY <1>1, <2>1 DEF TypeInv, WellStaged, Walk
  <2>4. Unread(c)' = Unread(c) - 1
    BY <2>1, <2>2, <2>3, OneReadLess DEF Unread
  <2>5. StagesLeft[pc[c]] = 6 /\ StagesLeft[pc'[c]] \in {5, 6}
    BY <2>1 DEF StagesLeft
  <2>6. Unread(c) \in Nat
    BY StepsCounted
  <2>7. /\ StepsLeft(c) = StagesLeft[pc[c]] + Unread(c)
        /\ StepsLeft(c)' = StagesLeft[pc'[c]] + Unread(c)'
    BY DEF StepsLeft, Unread
  <2> QED BY <2>4, <2>5, <2>6, <2>7
<1>3. CASE ~WalkRecord(c)
  <2>1. walk'[c].visited = walk[c].visited
    <3>1. CASE ReadLease(c)
      BY <1>1, <3>1 DEF ReadLease, Walk
    <3>2. CASE ~ReadLease(c)
      BY <1>3, <3>2 DEF Enter, Gates, Commit, Crash, ProposalRejected, ProposalBound,
         CalledDirectly, Begin, ReadAgent, ReadEvidence, LeaseMissing, WalkBroken,
         ReadTarget, Mutate, PutReceipt, ReplayRegistry, ReplayTarget, locals
    <3> QED BY <3>1, <3>2
  <2>2. StagesLeft[pc'[c]] < StagesLeft[pc[c]]
    <3>1. CASE Enter(c)
      <4>1. pc[c] = "idle" /\ pc'[c] \in {"rejected", "begin"}
        BY <1>1, <3>1 DEF Enter, ProposalRejected, ProposalBound, CalledDirectly
      <4> QED BY <4>1 DEF StagesLeft
    <3>2. CASE Gates(c)
      <4>1. CASE Begin(c) \/ ReadAgent(c) \/ ReadEvidence(c)
        <5>1. \/ pc[c] = "begin" /\ pc'[c] = "agent"
              \/ pc[c] = "agent" /\ pc'[c] \in {"evidence", "receipt"}
              \/ pc[c] = "evidence" /\ pc'[c] = "lease"
          BY <1>1, <4>1 DEF Begin, ReadAgent, ReadEvidence
        <5> QED BY <5>1 DEF StagesLeft
      <4>2. CASE LeaseMissing(c) \/ ReadLease(c)
        <5>1. pc[c] = "lease" /\ pc'[c] \in {"walk", "target"}
          BY <1>1, <4>2 DEF LeaseMissing, ReadLease
        <5> QED BY <5>1 DEF StagesLeft
      <4>3. CASE WalkBroken(c)
        <5>1. pc[c] = "walk" /\ pc'[c] = "target"
          BY <1>1, <4>3 DEF WalkBroken
        <5> QED BY <5>1 DEF StagesLeft
      <4>4. CASE ReadTarget(c)
        <5>1. pc[c] = "target" /\ pc'[c] \in {"mutate", "receipt"}
          BY <1>1, <4>4 DEF ReadTarget
        <5> QED BY <5>1 DEF StagesLeft
      <4> QED BY <1>3, <3>2, <4>1, <4>2, <4>3, <4>4 DEF Gates
    <3>3. CASE Commit(c)
      <4>1. \/ pc[c] = "mutate" /\ pc'[c] = "receipt"
            \/ pc[c] = "receipt" /\ pc'[c] = "replay_registry"
            \/ pc[c] = "replay_registry" /\ pc'[c] = "replay_target"
            \/ pc[c] = "replay_target" /\ pc'[c] = "done"
        BY <1>1, <3>3 DEF Commit, Mutate, PutReceipt, ReplayRegistry, ReplayTarget
      <4> QED BY <4>1 DEF StagesLeft
    <3>4. CASE Crash(c)
      BY <1>1, <3>4 DEF Crash, StagesLeft, Stages, Terminal
    <3> QED BY <3>1, <3>2, <3>3, <3>4
  <2> QED BY <2>1, <2>2, StageFalls
<1> QED BY <1>2, <1>3

\* A call takes at most eleven steps more than the store has records.  None of its
\* steps leads back to an earlier gate, and nothing that goes on around it, another
\* call, a promotion, a revocation or a put, gives it more to do.
THEOREM CallsAreBounded ==
  Spec => /\ [](\A c \in Calls : StepsLeft(c) \in 0..(Cardinality(ProvIds) + 11))
          /\ CallsRunOut
<1> DEFINE Bounded == \A c \in Calls : StepsLeft(c) \in 0..(Cardinality(ProvIds) + 11)
           Falls == \A c \in Calls : Untouched(c) \/ StepsLeft(c)' < StepsLeft(c)
<1>1. TypeInv => Bounded
  BY StepsCounted
<1>2. TypeInv /\ [Next]_vars => TypeInv'
  BY CallTypeInv, AroundTyped, Stutter DEF Next
<1>3. TypeInv /\ TypeInv' /\ [Next]_vars => [Falls]_vars
  <2> SUFFICES ASSUME TypeInv, TypeInv', Next, NEW d \in Calls
               PROVE  Untouched(d) \/ StepsLeft(d)' < StepsLeft(d)
    OBVIOUS
  <2>1. CASE (\E p \in Promoters : Promote(p)) \/ Environment
    BY <2>1, AroundCalls DEF Untouched, locals, outcome
  <2>2. ASSUME NEW c \in Calls, Enter(c) \/ Gates(c) \/ Commit(c) \/ Crash(c)
        PROVE  Untouched(d) \/ StepsLeft(d)' < StepsLeft(d)
    <3>1. CASE d = c
      BY <2>2, <3>1, OwnStepFalls
    <3>2. CASE d # c
      BY <2>2, <3>2, OthersUntouched DEF TypeInv
    <3> QED BY <3>1, <3>2
  <2> QED BY <2>1, <2>2 DEF Next
<1> HIDE DEF Bounded, Falls
<1>4. Spec => []Bounded /\ [][Falls]_vars
  BY <1>1, <1>2, <1>3, InitTypeInv, PTL DEF Spec
<1> QED BY <1>4, PTL DEF CallsRunOut, Falls, Bounded
=============================================================================
