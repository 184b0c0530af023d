--------------------------- MODULE ReceiptReplayProofs ---------------------------
(***************************************************************************)
(* Theorems about ReceiptReplay: what a replay shows, however late it is     *)
(* made, how often, and of a receipt altered in the store.                   *)
(***************************************************************************)
EXTENDS ReceiptReplay, AuthorizationProofs

Replaying == {"replay_registry", "replay_target", "done"}

\* A target never goes, and the one a call has read is as it was unless one was put
\* in its place; what was amiss with it the call's reasons say.
TargetTraced(c) ==
  LET id == call[c].intent.target
  IN /\ targets[id] = NONE => seen[c].target = NONE
     /\ ~touched[c] => targets[id] = seen[c].target
     /\ seen[c].target = NONE => "TARGET_UNKNOWN" \in reasons[c]
     /\ (seen[c].target # NONE /\ call[c].intent.hash # TargetHash(id, seen[c].target))
          => "TARGET_HASH_MISMATCH" \in reasons[c]

\* What a call has looked up, and the reasons it gave for what it did not find.
Asked == {"evidence", "lease", "walk", "target", "mutate", "receipt"} \cup Replaying
Leased == {"walk", "target", "mutate", "receipt"} \cup Replaying

EvidenceTraced(c) ==
  /\ pc[c] = "evidence" =>
       \A x \in Actions : LET id == seen[c].agent.observed[x]
                          IN id # NONE => evidence0[id] # NONE
  /\ seen[c].evidence_id # NONE => evidence0[seen[c].evidence_id] # NONE

Traced(c) ==
  /\ (pc[c] \in Asked /\ agents[call[c].identity.agent] = NONE)
       => "IDENTITY_UNKNOWN" \in reasons[c]
  /\ EvidenceTraced(c)
  /\ (pc[c] \in Leased /\ leases[call[c].lease] = NONE)
       => "AUTHORITY_LEASE_MISSING" \in reasons[c] \/ NotLookedUp(c)
  /\ pc[c] \in Decided => NotLookedUp(c) \/ TargetTraced(c)

\* What it wrote, whatever became of the receipt's hashes.
Written(c) ==
  /\ effects[c] # NONE =>
       /\ effects[c] = Payload(c)
       /\ pc[c] \in {"receipt", "crashed"} \cup Replaying
       /\ reasons[c] = {}
  /\ pc[c] = "receipt" /\ reasons[c] = {} => effects[c] # NONE
  /\ pc[c] \in Replaying =>
       /\ receipts[c] # NONE
       /\ receipts[c].agent = call[c].identity.agent
       /\ receipts[c].lease = call[c].lease
       /\ receipts[c].refs = {seen[c].evidence_id} \ {NONE}
       /\ receipts[c].target = call[c].intent.target
       /\ receipts[c].decision = "ALLOW" => effects[c] # NONE

\* The causes of what a replay found in the registry ...
RegistryCauses(c) ==
  /\ "MISSING_AGENT" \in mismatches[c] => "IDENTITY_UNKNOWN" \in reasons[c]
  /\ "MISSING_LEASE" \in mismatches[c] =>
       "AUTHORITY_LEASE_MISSING" \in reasons[c] \/ NotLookedUp(c)
  /\ "MISSING_EVIDENCE" \in mismatches[c] => seen[c].evidence_id \in lost

\* ... of what it found of target and effect ...
TargetCauses(c) ==
  /\ "MISSING_TARGET" \in mismatches[c] => "TARGET_UNKNOWN" \in reasons[c] \/ NotLookedUp(c)
  /\ "TARGET_HASH_CHANGED" \in mismatches[c] =>
       \/ "TARGET_HASH_MISMATCH" \in reasons[c]
       \/ NotLookedUp(c)
       \/ receipts[c].hash # call[c].intent.hash
       \/ touched[c]
  /\ "MISSING_EXECUTOR_RESULT_HASH" \in mismatches[c] => receipts[c].result = NONE
  /\ "EXECUTOR_RESULT_NOT_RECONSTRUCTABLE" \in mismatches[c] =>
       receipts[c].result # ResultHash(c, Payload(c))

\* ... and what it means that it found nothing.
Vouched(c) ==
  receipts[c].decision = "ALLOW" /\ mismatches[c] = {} =>
    /\ effects[c] # NONE
    /\ receipts[c].result = ResultHash(c, effects[c])
    /\ receipts[c].hash # effects[c].hash => touched[c]

Replayed(c) ==
  /\ pc[c] \in {"replay_target", "done"} => RegistryCauses(c)
  /\ pc[c] = "replay_target" =>
       mismatches[c] \subseteq {"MISSING_AGENT", "MISSING_LEASE", "MISSING_EVIDENCE"}
  /\ pc[c] = "done" => TargetCauses(c) /\ Vouched(c)

\* Evidence seeded is in the store unless it was lost.
EvidenceKept ==
  \A e \in EvidenceIds : evidence0[e] # NONE /\ e \notin lost => evidence[e] # NONE

\* The inductive invariant behind both properties.
ReplayInv ==
  /\ TypeInv
  /\ RegistryBacked
  /\ EvidenceKept
  /\ \A c \in Calls : Traced(c) /\ Written(c) /\ Replayed(c)

-----------------------------------------------------------------------------
\* The effect and receipt of a call depend on nothing but its own locals.
LEMMA PayloadKept ==
  ASSUME NEW c, call'[c] = call[c], seen'[c] = seen[c]
  PROVE  Payload(c)' = Payload(c)
  BY DEF Payload

\* No agent, lease or target goes, evidence lost stays on the record, and a target
\* put after a call has decided is noted for that call.
RegistriesKept ==
  /\ \A a \in Actors : agents'[a] = NONE => agents[a] = NONE
  /\ \A l \in LeaseIds : leases'[l] = NONE => leases[l] = NONE
  /\ \A id \in TargetIds : targets'[id] = NONE => targets[id] = NONE
  /\ lost \subseteq lost'
  /\ evidence0' = evidence0

TouchNoted(d) ==
  /\ touched[d] => touched'[d]
  /\ pc[d] \in Decided /\ ~touched'[d] =>
       targets'[call[d].intent.target] = targets[call[d].intent.target]

\* A call that takes no step keeps all this.
LEMMA ReplayFrame ==
  ASSUME NEW d \in Calls, TypeInv, Traced(d), Written(d), Replayed(d), RegistriesKept,
         TouchNoted(d),
         pc'[d] = pc[d], call'[d] = call[d], seen'[d] = seen[d],
         reasons'[d] = reasons[d], effects'[d] = effects[d],
         receipts'[d] = receipts[d], mismatches'[d] = mismatches[d]
  PROVE  Traced(d)' /\ Written(d)' /\ Replayed(d)'
<1>1. /\ Payload(d)' = Payload(d)
      /\ ResultHash(d, Payload(d))' = ResultHash(d, Payload(d))
      /\ ResultHash(d, effects[d])' = ResultHash(d, effects[d])
      /\ NotLookedUp(d)' = NotLookedUp(d)
  BY PayloadKept DEF ResultHash, NotLookedUp
<1>2. pc[d] \notin {"idle", "rejected"} =>
        /\ call[d].identity.agent \in Actors
        /\ call[d].lease \in LeaseIds
        /\ call[d].intent.target \in TargetIds
  BY DEF TypeInv, WellStaged, DirectCall, Identity, Intent
<1>3. Traced(d)'
  <2>1. ASSUME pc[d] \in Decided, TargetTraced(d) PROVE TargetTraced(d)'
    <3>1. call[d].intent.target \in TargetIds
      BY <1>2, <2>1 DEF Decided
    <3> QED
      BY <2>1, <3>1 DEF TargetTraced, RegistriesKept, TouchNoted, TargetHash
  <2>2. pc[d] \in Decided => (NotLookedUp(d) \/ TargetTraced(d))'
    BY <1>1, <2>1 DEF Traced
  <2>3. EvidenceTraced(d)'
    BY DEF Traced, EvidenceTraced, RegistriesKept
  <2>4. /\ (pc[d] \in Asked /\ agents'[call[d].identity.agent] = NONE)
             => "IDENTITY_UNKNOWN" \in reasons[d]
        /\ (pc[d] \in Leased /\ leases'[call[d].lease] = NONE)
             => "AUTHORITY_LEASE_MISSING" \in reasons[d] \/ NotLookedUp(d)
    BY <1>2 DEF Traced, RegistriesKept, Asked, Leased, Replaying
  <2> QED
    BY <1>1, <2>2, <2>3, <2>4 DEF Traced
<1>4. Written(d)'
  BY <1>1 DEF Written, Replaying
<1>5. Replayed(d)'
  <2>1. RegistryCauses(d) => RegistryCauses(d)'
    BY <1>1 DEF RegistryCauses, RegistriesKept
  <2>2. TargetCauses(d) => TargetCauses(d)'
    BY <1>1 DEF TargetCauses, TouchNoted
  <2>3. Vouched(d) => Vouched(d)'
    BY <1>1 DEF Vouched, TouchNoted
  <2> QED
    BY <2>1, <2>2, <2>3 DEF Replayed
<1> QED
  BY <1>3, <1>4, <1>5

-----------------------------------------------------------------------------
\* The documents put are documents: nothing that goes on around the calls removes
\* an agent, a lease or a target, and what it does to evidence and targets is noted.
LEMMA AroundKept ==
  ASSUME TypeInv, EvidenceKept, (\E p \in Promoters : Promote(p)) \/ Environment
  PROVE  /\ RegistriesKept
         /\ EvidenceKept'
         /\ \A d \in Calls : TouchNoted(d)
<1> USE DEF TypeInv, TypeOK
<1>0. UNCHANGED <<locals, outcome, pc, evidence0>>
  BY AroundCalls
<1>1. \A l \in LeaseIds : leases'[l] = NONE => leases[l] = NONE
  <2>1. CASE RevokeWrite
    <3>1. PICK t \in 0..clock :
            leases' = [leases EXCEPT ![revocation.lease] =
                         [revocation.copy EXCEPT !.revoked_at = t]]
      BY <2>1 DEF RevokeWrite
    <3>2. revocation.copy \in Lease /\ t \in Nat
      BY <2>1, <3>1 DEF RevokeWrite
    <3>3. [revocation.copy EXCEPT !.revoked_at = t] \in Lease
      BY <3>2 DEF Lease, Instant
    <3> QED
      BY <3>1, <3>3, InputAssumption
  <2>2. ASSUME NEW put \in LeasePuts, PutLease(put[1], put[2])
        PROVE  \A l \in LeaseIds : leases'[l] = NONE => leases[l] = NONE
    <3>1. put[2] \in Lease
      BY InputAssumption
    <3> QED
      BY <2>2, <3>1, InputAssumption DEF PutLease
  <2>3. CASE \/ \E p \in Promoters : Promote(p)
             \/ \E a \in Actors : AdvanceRead(a)
             \/ AdvanceWrite
             \/ \E l \in RevocableLeases : RevokeRead(l)
             \/ \E id \in RevocableRecords : RevokeRecord(id)
             \/ \E put \in AgentPuts : PutAgent(put[1], put[2])
             \/ \E put \in RecordPuts : PutRecord(put[1], put[2])
             \/ \E put \in TargetPuts : PutTarget(put[1], put[2])
             \/ \E e \in LosableEvidence : LoseEvidence(e) \/ PutEvidence(e)
             \/ Tick
    BY <2>3 DEF Promote, PromoteRead, PromoteCheck, PromoteWrite, AdvanceRead,
                AdvanceWrite, RevokeRead, RevokeRecord, PutAgent, PutRecord, PutTarget,
                LoseEvidence, PutEvidence, Tick, registries
  <2> QED
    BY <2>1, <2>2, <2>3 DEF Environment
<1>2. \A a \in Actors : agents'[a] = NONE => agents[a] = NONE
  <2>1. ASSUME NEW p \in Promoters, PromoteWrite(p)
        PROVE  \A a \in Actors : agents'[a] = NONE => agents[a] = NONE
    <3>1. PICK new : /\ agents' = [agents EXCEPT ![promoter[p].promotion.agent] = new]
                     /\ new = [promoter[p].copy EXCEPT
                                 !.observed[promoter[p].promotion.capability] =
                                   promoter[p].promotion.evidence]
      BY <2>1 DEF PromoteWrite
    <3>2. promoter[p].promotion \in Promotion /\ promoter[p].copy \in Agent
      BY <2>1 DEF PromoteWrite, WellStaged
    <3>3. new \in Agent
      BY <3>1, <3>2 DEF Agent, Promotion
    <3> QED
      BY <3>1, <3>3, InputAssumption
  <2>2. CASE AdvanceWrite
    <3>1. PICK new : /\ agents' = [agents EXCEPT ![advance.agent] = new]
                     /\ new = [advance.copy EXCEPT !.epoch = @ + 1]
      BY <2>2 DEF AdvanceWrite
    <3>2. new \in Agent
      BY <2>2, <3>1 DEF AdvanceWrite, Agent
    <3> QED
      BY <3>1, <3>2, InputAssumption
  <2>3. ASSUME NEW put \in AgentPuts, PutAgent(put[1], put[2])
        PROVE  \A a \in Actors : agents'[a] = NONE => agents[a] = NONE
    <3>1. put[2] \in Agent
      BY InputAssumption
    <3> QED
      BY <2>3, <3>1, InputAssumption DEF PutAgent
  <2>4. CASE \/ \E p \in Promoters : PromoteRead(p) \/ PromoteCheck(p)
             \/ \E a \in Actors : AdvanceRead(a)
             \/ \E l \in RevocableLeases : RevokeRead(l)
             \/ RevokeWrite
             \/ \E id \in RevocableRecords : RevokeRecord(id)
             \/ \E put \in LeasePuts : PutLease(put[1], put[2])
             \/ \E put \in RecordPuts : PutRecord(put[1], put[2])
             \/ \E put \in TargetPuts : PutTarget(put[1], put[2])
             \/ \E e \in LosableEvidence : LoseEvidence(e) \/ PutEvidence(e)
             \/ Tick
    BY <2>4 DEF PromoteRead, PromoteCheck, AdvanceRead, RevokeRead, RevokeWrite,
                RevokeRecord, PutLease, PutRecord, PutTarget, LoseEvidence, PutEvidence,
                Tick, registries
  <2> QED
    BY <2>1, <2>2, <2>3, <2>4 DEF Promote, Environment
<1>3. lost \subseteq lost' /\ EvidenceKept'
  <2>1. ASSUME NEW e \in LosableEvidence, LoseEvidence(e)
        PROVE  lost \subseteq lost' /\ EvidenceKept'
    BY <1>0, <2>1 DEF LoseEvidence, EvidenceKept
  <2>2. ASSUME NEW e \in LosableEvidence, PutEvidence(e)
        PROVE  lost \subseteq lost' /\ EvidenceKept'
    BY <1>0, <2>2 DEF PutEvidence, EvidenceKept, history
  <2>3. CASE \/ \E p \in Promoters : Promote(p)
             \/ \E a \in Actors : AdvanceRead(a)
             \/ AdvanceWrite
             \/ \E l \in RevocableLeases : RevokeRead(l)
             \/ RevokeWrite
             \/ \E id \in RevocableRecords : RevokeRecord(id)
             \/ \E put \in AgentPuts : PutAgent(put[1], put[2])
             \/ \E put \in LeasePuts : PutLease(put[1], put[2])
             \/ \E put \in RecordPuts : PutRecord(put[1], put[2])
             \/ \E put \in TargetPuts : PutTarget(put[1], put[2])
             \/ Tick
    <3>1. UNCHANGED <<evidence, lost>>
      BY <2>3 DEF Promote, PromoteRead, PromoteCheck, PromoteWrite, AdvanceRead,
                  AdvanceWrite, RevokeRead, RevokeWrite, RevokeRecord, PutAgent, PutLease,
                  PutRecord, PutTarget, Tick, registries, history
    <3> QED
      BY <1>0, <3>1 DEF EvidenceKept
  <2> QED
    BY <2>1, <2>2, <2>3 DEF Environment
<1>4. /\ \A id \in TargetIds : targets'[id] = NONE => targets[id] = NONE
      /\ \A d \in Calls : TouchNoted(d)
  <2>1. ASSUME NEW put \in TargetPuts, PutTarget(put[1], put[2])
        PROVE  /\ \A id \in TargetIds : targets'[id] = NONE => targets[id] = NONE
               /\ \A d \in Calls : TouchNoted(d)
    <3>1. put[2] \in Target /\ put[1] \in TargetIds
      BY InputAssumption
    <3>2. \A id \in TargetIds : targets'[id] = NONE => targets[id] = NONE
      BY <2>1, <3>1, InputAssumption DEF PutTarget
    <3>3. ASSUME NEW d \in Calls PROVE TouchNoted(d)
      <4>1. targets' = [targets EXCEPT ![put[1]] = put[2]]
        BY <2>1 DEF PutTarget
      <4>2. /\ touched[d] => touched'[d]
            /\ pc[d] \in Decided /\ call[d].intent.target = put[1] => touched'[d]
        BY <2>1 DEF PutTarget
      <4> QED
        BY <3>1, <4>1, <4>2 DEF TouchNoted
    <3> QED
      BY <3>2, <3>3
  <2>2. CASE \/ \E p \in Promoters : Promote(p)
             \/ \E a \in Actors : AdvanceRead(a)
             \/ AdvanceWrite
             \/ \E l \in RevocableLeases : RevokeRead(l)
             \/ RevokeWrite
             \/ \E id \in RevocableRecords : RevokeRecord(id)
             \/ \E put \in AgentPuts : PutAgent(put[1], put[2])
             \/ \E put \in LeasePuts : PutLease(put[1], put[2])
             \/ \E put \in RecordPuts : PutRecord(put[1], put[2])
             \/ \E e \in LosableEvidence : LoseEvidence(e) \/ PutEvidence(e)
             \/ Tick
    <3>1. UNCHANGED <<targets, touched>>
      BY <2>2 DEF Promote, PromoteRead, PromoteCheck, PromoteWrite, AdvanceRead,
                  AdvanceWrite, RevokeRead, RevokeWrite, RevokeRecord, PutAgent, PutLease,
                  PutRecord, LoseEvidence, PutEvidence, Tick, registries, history
    <3> QED
      BY <3>1 DEF TouchNoted
  <2> QED
    BY <2>1, <2>2 DEF Environment
<1> QED
  BY <1>0, <1>1, <1>2, <1>3, <1>4 DEF RegistriesKept

\* The steps of a call, and what may be done to its receipt.
Steps(c) == Enter(c) \/ Gates(c) \/ Commit(c) \/ Crash(c)
Tampers(c) == ReplayAgain(c) \/ TamperTarget(c) \/ TamperResult(c)

\* Neither changes anything of the registries.
LEMMA CallKept ==
  ASSUME NEW c \in Calls, Steps(c) \/ Tampers(c)
  PROVE  /\ UNCHANGED <<registries, evidence0, lost, touched>>
         /\ RegistriesKept
<1>1. UNCHANGED <<registries, evidence0, lost, touched>>
  BY DEF Steps, Tampers, Enter, Gates, Commit, Crash, ProposalRejected, ProposalBound,
         CalledDirectly, Begin, ReadAgent, ReadEvidence, LeaseMissing, ReadLease,
         WalkBroken, WalkRecord, ReadTarget, Mutate, PutReceipt, ReplayRegistry,
         ReplayTarget, ReplayAgain, TamperTarget, TamperResult, OpenAuthority, history
<1> QED
  BY <1>1 DEF RegistriesKept, registries

\* The other calls are left alone.
LEMMA OthersApart ==
  ASSUME TypeInv, NEW c \in Calls, Steps(c) \/ Tampers(c)
  PROVE  \A d \in Calls \ {c} :
           /\ pc'[d] = pc[d] /\ call'[d] = call[d] /\ seen'[d] = seen[d]
           /\ reasons'[d] = reasons[d] /\ effects'[d] = effects[d]
           /\ receipts'[d] = receipts[d] /\ mismatches'[d] = mismatches[d]
<1> USE DEF TypeInv, TypeOK
<1>1. CASE Steps(c)
  <2>1. \A d \in Calls \ {c} : mismatches'[d] = mismatches[d]
    BY <1>1 DEF Steps, Enter, Gates, Commit, Crash, ProposalRejected, ProposalBound,
                CalledDirectly, Begin, ReadAgent, ReadEvidence, LeaseMissing, ReadLease,
                WalkBroken, WalkRecord, ReadTarget, Mutate, PutReceipt, ReplayRegistry,
                ReplayTarget, outcome
  <2> QED
    BY <1>1, <2>1, CallsApart DEF Steps
<1>2. CASE ReplayAgain(c)
  BY <1>2 DEF ReplayAgain, Goto, locals, outcome
<1>3. CASE TamperTarget(c)
  BY <1>3 DEF TamperTarget, locals
<1>4. CASE TamperResult(c)
  BY <1>4 DEF TamperResult, locals
<1> QED
  BY <1>1, <1>2, <1>3, <1>4 DEF Tampers

\* A receipt tampered with is a receipt all the same, of the same run, and only its
\* hashes have changed.
LEMMA TamperedType ==
  ASSUME TypeInv, NEW c \in Calls, Written(c), Tampers(c)
  PROVE  /\ TypeInv'
         /\ UNCHANGED <<call, seen, reasons, effects, mismatches>>
         /\ pc[c] \in {"replay_registry", "done"} /\ pc'[c] = "replay_registry"
         /\ receipts'[c] # NONE
         /\ receipts'[c].agent = receipts[c].agent
         /\ receipts'[c].lease = receipts[c].lease
         /\ receipts'[c].refs = receipts[c].refs
         /\ receipts'[c].target = receipts[c].target
         /\ receipts'[c].decision = receipts[c].decision
<1> USE DEF TypeInv
<1>1. CASE ReplayAgain(c)
  <2>1. /\ pc' = [pc EXCEPT ![c] = "replay_registry"] /\ pc[c] = "done"
        /\ UNCHANGED <<registries, locals, outcome, writers, history, clock>>
    BY <1>1 DEF ReplayAgain, Goto
  <2>2. TypeOK'
    BY <2>1 DEF TypeOK, Stages, registries, locals, outcome, writers, history
  <2>3. WellStaged'
    BY <2>1 DEF TypeOK, WellStaged, locals, writers
  <2> QED
    BY <2>1, <2>2, <2>3 DEF TypeOK, Written, Replaying, locals, outcome
<1>2. ASSUME TamperTarget(c) \/ TamperResult(c)
      PROVE  \E new \in ReceiptType :
               /\ receipts' = [receipts EXCEPT ![c] = new]
               /\ new.agent = receipts[c].agent
               /\ new.lease = receipts[c].lease
               /\ new.refs = receipts[c].refs
               /\ new.target = receipts[c].target
               /\ new.decision = receipts[c].decision
  <2>1. pc[c] = "replay_registry"
    BY <1>2 DEF TamperTarget, TamperResult
  <2>2. receipts[c] \in ReceiptType
    BY <2>1 DEF Written, Replaying, TypeOK
  <2>3. CASE TamperTarget(c)
    <3>1. PICK other \in AlteredVersions :
            receipts' = [receipts EXCEPT ![c].hash[2].version = other]
      BY <2>3 DEF TamperTarget
    <3>2. other \in Nat /\ receipts[c].hash \in TargetIds \X Target
      BY <2>2, AlterationAssumption DEF ReceiptType, Hash
    <3>3. [receipts[c].hash EXCEPT ![2].version = other] \in TargetIds \X Target
      BY <3>2 DEF Target
    <3>4. [receipts[c] EXCEPT !.hash[2].version = other] \in ReceiptType
      BY <2>2, <3>3 DEF ReceiptType, Hash
    <3> QED
      BY <2>2, <3>1, <3>4 DEF ReceiptType
  <2>4. CASE TamperResult(c)
    <3>1. ASSUME NEW other \in AlteredVersions,
                 receipts' = [receipts EXCEPT ![c].result =
                   ResultHash(c, [effects[c] EXCEPT !.hash[2].version = other])]
          PROVE  \E result \in (Calls \X Effect) \cup {NONE} :
                   receipts' = [receipts EXCEPT ![c].result = result]
      <4>1. other \in Nat /\ effects[c] \in Effect /\ effects[c].hash \in TargetIds \X Target
        BY <2>1, <2>4, AlterationAssumption
           DEF TamperResult, Written, Replaying, TypeOK, Effect, Hash
      <4>2. [effects[c].hash EXCEPT ![2].version = other] \in TargetIds \X Target
        BY <4>1 DEF Target
      <4>3. [effects[c] EXCEPT !.hash[2].version = other] \in Effect
        BY <4>1, <4>2 DEF Effect, Hash
      <4> QED
        BY <3>1, <4>3 DEF ResultHash
    <3>5. PICK result \in (Calls \X Effect) \cup {NONE} :
            receipts' = [receipts EXCEPT ![c].result = result]
      BY <2>4, <3>1 DEF TamperResult
    <3>6. PICK new : new = [receipts[c] EXCEPT !.result = result]
      OBVIOUS
    <3>7. new \in ReceiptType /\ receipts' = [receipts EXCEPT ![c] = new]
      BY <2>2, <3>5, <3>6 DEF ReceiptType
    <3>8. /\ new.agent = receipts[c].agent
          /\ new.lease = receipts[c].lease
          /\ new.refs = receipts[c].refs
          /\ new.target = receipts[c].target
          /\ new.decision = receipts[c].decision
      BY <2>2, <3>6 DEF ReceiptType
    <3> QED
      BY <3>7, <3>8
  <2> QED
    BY <1>2, <2>3, <2>4
<1>3. ASSUME TamperTarget(c) \/ TamperResult(c)
      PROVE  /\ pc[c] = "replay_registry" /\ pc' = pc
             /\ UNCHANGED <<registries, locals, effects, mismatches, writers, history, clock>>
  BY <1>3 DEF TamperTarget, TamperResult
<1>4. CASE TamperTarget(c) \/ TamperResult(c)
  <2>1. PICK new \in ReceiptType :
          /\ receipts' = [receipts EXCEPT ![c] = new]
          /\ new.agent = receipts[c].agent
          /\ new.lease = receipts[c].lease
          /\ new.refs = receipts[c].refs
          /\ new.target = receipts[c].target
          /\ new.decision = receipts[c].decision
    BY <1>2, <1>4
  <2>2. TypeOK'
    BY <1>3, <1>4, <2>1 DEF TypeOK, registries, locals, writers, history
  <2>3. WellStaged'
    BY <1>3, <1>4 DEF TypeOK, WellStaged, locals, writers
  <2> QED
    BY <1>3, <1>4, <2>1, <2>2, <2>3, InputAssumption DEF TypeOK, locals
<1> QED
  BY <1>1, <1>4 DEF Tampers

-----------------------------------------------------------------------------
(* The steps of a call, from its first read to its last.                     *)

Kept(c) == Traced(c) /\ Written(c) /\ Replayed(c)

\* Before the gates there is nothing to trace, and a crash ends the tracing.
LEMMA OutsideKeeps ==
  ASSUME ReplayInv, NEW c \in Calls, Enter(c) \/ Begin(c) \/ Crash(c)
  PROVE  Kept(c)'
<1> USE DEF ReplayInv, TypeInv, TypeOK, Goto
<1>1. /\ pc'[c] \in {"rejected", "begin", "agent", "crashed"}
      /\ pc[c] \in {"idle", "begin"} \/ pc'[c] = "crashed"
      /\ UNCHANGED <<seen, reasons, effects, evidence0>>
      /\ pc'[c] = "crashed" => call' = call
  BY DEF Enter, ProposalRejected, ProposalBound, CalledDirectly, Begin, Crash, locals,
         outcome, history
<1>2. pc'[c] = "crashed" => Payload(c)' = Payload(c)
  BY <1>1 DEF Payload
<1>3. Traced(c)'
  BY <1>1 DEF Traced, EvidenceTraced, Asked, Leased, Decided, Replaying
<1>4. Written(c)'
  BY <1>1, <1>2 DEF Written, Replaying
<1>5. Replayed(c)'
  BY <1>1 DEF Replayed
<1> QED
  BY <1>3, <1>4, <1>5 DEF Kept

LEMMA ReadAgentKeeps ==
  ASSUME ReplayInv, NEW c \in Calls, ReadAgent(c)
  PROVE  Kept(c)'
<1> USE DEF ReplayInv, TypeInv, TypeOK, Goto, AddReasons
<1> DEFINE agent == agents[call[c].identity.agent]
           faults == IdentityFaults(c, agent)
<1>1. /\ pc[c] = "agent"
      /\ pc'[c] = IF faults = {} THEN "evidence" ELSE "receipt"
      /\ seen'[c].agent = agent
      /\ seen'[c].evidence_id = seen[c].evidence_id
      /\ reasons'[c] = reasons[c] \cup faults
      /\ UNCHANGED <<registries, evidence0, call, effects>>
  BY DEF ReadAgent, Reads, outcome, history
<1>2. call[c].identity.agent \in Actors /\ agent \in Agent \cup {NONE}
  BY <1>1 DEF WellStaged, DirectCall, Identity
<1>3. agent = NONE => "IDENTITY_UNKNOWN" \in faults
  BY DEF IdentityFaults, When
<1>4. faults \subseteq {"IDENTITY_NOT_AUTHENTICATED", "IDENTITY_UNKNOWN",
                        "IDENTITY_INTENT_MISMATCH"}
  BY DEF IdentityFaults, When
<1>5. faults # {} => NotLookedUp(c)'
  BY <1>1, <1>4 DEF NotLookedUp
<1>6. faults = {} => \A x \in Actions : agent.observed[x] # NONE =>
                                          evidence0[agent.observed[x]] # NONE
  BY <1>2, <1>3 DEF RegistryBacked, Backed, Binds
<1>7. EvidenceTraced(c)'
  BY <1>1, <1>6 DEF Traced, EvidenceTraced
<1>8. Traced(c)'
  BY <1>1, <1>3, <1>5, <1>7 DEF Traced, Leased, Decided, Replaying, registries
<1>9. Written(c)'
  BY <1>1 DEF Written, Replaying
<1>10. Replayed(c)'
  BY <1>1 DEF Replayed
<1> QED
  BY <1>8, <1>9, <1>10 DEF Kept

\* The gates between the first and the last.
LEMMA MiddleKeeps ==
  ASSUME ReplayInv, NEW c \in Calls,
         ReadEvidence(c) \/ LeaseMissing(c) \/ ReadLease(c) \/ WalkBroken(c) \/ WalkRecord(c)
  PROVE  Kept(c)'
<1> USE DEF ReplayInv, TypeInv, TypeOK, Goto, AddReasons
<1>1. /\ pc[c] \in {"evidence", "lease", "walk"}
      /\ pc'[c] \in {"lease", "walk", "target"}
      /\ reasons[c] \subseteq reasons'[c]
      /\ UNCHANGED <<registries, evidence0, call, effects>>
  <2>1. CASE ReadEvidence(c)
    BY <2>1 DEF ReadEvidence, outcome, history
  <2>2. CASE LeaseMissing(c)
    BY <2>2 DEF LeaseMissing, OpenAuthority, outcome
  <2>3. CASE ReadLease(c)
    BY <2>3 DEF ReadLease, OpenAuthority, outcome
  <2>4. CASE WalkBroken(c)
    BY <2>4 DEF WalkBroken, outcome, history
  <2>5. CASE WalkRecord(c)
    BY <2>5 DEF WalkRecord, outcome, history
  <2> QED
    BY <2>1, <2>2, <2>3, <2>4, <2>5
<1>2. NotLookedUp(c) => NotLookedUp(c)'
  BY <1>1 DEF NotLookedUp
<1>3. EvidenceTraced(c)'
  <2>1. CASE ReadEvidence(c)
    <3>1. /\ pc[c] = "evidence"
          /\ pc'[c] = "lease"
          /\ seen'[c].evidence_id = seen[c].agent.observed[call[c].intent.action]
      BY <2>1 DEF ReadEvidence, Reads
    <3>2. call[c].intent.action \in Actions
      BY <3>1 DEF WellStaged, DirectCall, Intent
    <3> QED
      BY <1>1, <3>1, <3>2 DEF Traced, EvidenceTraced
  <2>2. CASE LeaseMissing(c) \/ ReadLease(c) \/ WalkBroken(c) \/ WalkRecord(c)
    <3>1. seen'[c].evidence_id = seen[c].evidence_id
      BY <2>2 DEF LeaseMissing, ReadLease, WalkBroken, WalkRecord, Reads
    <3> QED
      BY <1>1, <3>1 DEF Traced, EvidenceTraced
  <2> QED
    BY <2>1, <2>2
<1>4. pc'[c] \in Leased /\ leases[call[c].lease] = NONE =>
        ("AUTHORITY_LEASE_MISSING" \in reasons[c] \/ NotLookedUp(c))'
  <2>1. CASE ReadEvidence(c)
    BY <2>1 DEF ReadEvidence, Leased, Replaying
  <2>2. CASE LeaseMissing(c)
    BY <2>2 DEF LeaseMissing
  <2>3. CASE ReadLease(c)
    BY <2>3 DEF ReadLease
  <2>4. CASE WalkBroken(c) \/ WalkRecord(c)
    <3>1. pc[c] = "walk"
      BY <2>4 DEF WalkBroken, WalkRecord
    <3> QED
      BY <1>1, <1>2, <3>1 DEF Traced, Leased
  <2> QED
    BY <2>1, <2>2, <2>3, <2>4
<1>5. Traced(c)'
  BY <1>1, <1>3, <1>4 DEF Traced, Asked, Leased, Decided, Replaying, registries
<1>6. Written(c)'
  BY <1>1 DEF Written, Replaying
<1>7. Replayed(c)'
  BY <1>1 DEF Replayed
<1> QED
  BY <1>5, <1>6, <1>7 DEF Kept

LEMMA ReadTargetKeeps ==
  ASSUME ReplayInv, NEW c \in Calls, ReadTarget(c)
  PROVE  Kept(c)'
<1> USE DEF ReplayInv, TypeInv, TypeOK, Goto
<1> DEFINE id == call[c].intent.target
           target == targets[id]
           faults == TargetFaults(c, target)
<1>1. /\ pc[c] = "target"
      /\ pc'[c] = IF reasons'[c] = {} THEN "mutate" ELSE "receipt"
      /\ seen'[c].target = target
      /\ seen'[c].evidence_id = seen[c].evidence_id
      /\ reasons'[c] = reasons[c] \cup faults
      /\ UNCHANGED <<registries, evidence0, call, effects>>
  BY DEF ReadTarget, Reads, outcome, history
<1>2. id \in TargetIds /\ target \in Target \cup {NONE}
  BY <1>1 DEF WellStaged, DirectCall, Intent
<1>3. /\ target = NONE => "TARGET_UNKNOWN" \in faults
      /\ (target # NONE /\ call[c].intent.hash # TargetHash(id, target))
           => "TARGET_HASH_MISMATCH" \in faults
  BY DEF TargetFaults, When
<1>5. TargetTraced(c)'
  BY <1>1, <1>3 DEF TargetTraced, TargetHash, registries
<1>6. EvidenceTraced(c)'
  BY <1>1 DEF Traced, EvidenceTraced
<1>7. NotLookedUp(c) => NotLookedUp(c)'
  BY <1>1 DEF NotLookedUp
<1>8. Traced(c)'
  BY <1>1, <1>5, <1>6, <1>7 DEF Traced, Asked, Leased, Replaying, registries
<1>9. Written(c)'
  BY <1>1 DEF Written, Replaying
<1>10. Replayed(c)'
  BY <1>1 DEF Replayed
<1> QED
  BY <1>8, <1>9, <1>10 DEF Kept

LEMMA WriteKeeps ==
  ASSUME ReplayInv, NEW c \in Calls, Mutate(c) \/ PutReceipt(c)
  PROVE  Kept(c)'
<1> USE DEF ReplayInv, TypeInv, TypeOK, Goto
<1>1. /\ pc[c] \in {"mutate", "receipt"}
      /\ pc'[c] \in {"receipt", "replay_registry"}
      /\ pc'[c] = "receipt" <=> pc[c] = "mutate"
      /\ UNCHANGED <<registries, evidence0, touched, call, seen, reasons>>
  BY DEF Mutate, PutReceipt, locals, history
<1>2. Payload(c)' = Payload(c)
  BY <1>1 DEF Payload
<1>3. NotLookedUp(c)' = NotLookedUp(c) /\ TargetTraced(c)' = TargetTraced(c)
  BY <1>1 DEF NotLookedUp, TargetTraced, TargetHash, registries
<1>4. EvidenceTraced(c)'
  BY <1>1 DEF Traced, EvidenceTraced
<1>5. Traced(c)'
  BY <1>1, <1>3, <1>4 DEF Traced, Asked, Leased, Decided, Replaying, registries
<1>6. CASE Mutate(c)
  <2>1. /\ pc[c] = "mutate" /\ pc'[c] = "receipt"
        /\ effects'[c] = Payload(c)
        /\ reasons[c] = {}
    BY <1>6 DEF Mutate, WellStaged
  <2>2. Payload(c) # NONE
    <3>1. call[c] \in DirectCall /\ seen[c].target \in Target
      BY <2>1 DEF WellStaged, Reads
    <3>2. call[c].intent.target \in TargetIds
      BY <3>1 DEF DirectCall, Intent
    <3>3. Payload(c) \in Effect
      BY <3>1, <3>2, HashTyped DEF Payload, Effect, DirectCall, Intent, Identity
    <3> QED
      BY <3>3, InputAssumption
  <2>3. Written(c)'
    BY <1>1, <1>2, <2>1, <2>2 DEF Written, Replaying
  <2> QED
    BY <1>5, <2>1, <2>3 DEF Kept, Replayed
<1>7. CASE PutReceipt(c)
  <2> DEFINE decision == IF reasons[c] = {} THEN "ALLOW" ELSE "BLOCK"
  <2>1. /\ pc[c] = "receipt" /\ pc'[c] = "replay_registry"
        /\ receipts'[c] = Receipt(c, decision)
        /\ effects' = effects
    BY <1>7 DEF PutReceipt
  <2>2. Receipt(c, decision) # NONE
    BY <2>1, ReceiptTyped, InputAssumption
  <2>3. /\ Receipt(c, decision).agent = call[c].identity.agent
        /\ Receipt(c, decision).lease = call[c].lease
        /\ Receipt(c, decision).refs = {seen[c].evidence_id} \ {NONE}
        /\ Receipt(c, decision).target = call[c].intent.target
        /\ Receipt(c, decision).decision = decision
    BY DEF Receipt
  <2>4. decision = "ALLOW" => effects[c] # NONE
    BY <2>1 DEF Written
  <2>5. Written(c)'
    BY <1>1, <1>2, <2>1, <2>2, <2>3, <2>4 DEF Written, Replaying
  <2> QED
    BY <1>5, <2>1, <2>5 DEF Kept, Replayed
<1> QED
  BY <1>6, <1>7

\* A replay or a tampering leaves what the call read and wrote as it was.
LEMMA ReplayingKeeps ==
  ASSUME ReplayInv, NEW c \in Calls, pc[c] \in Replaying, pc'[c] \in Replaying,
         UNCHANGED <<registries, evidence0, touched, call, seen, reasons, effects>>,
         receipts'[c] # NONE,
         receipts'[c].agent = receipts[c].agent,
         receipts'[c].lease = receipts[c].lease,
         receipts'[c].refs = receipts[c].refs,
         receipts'[c].target = receipts[c].target,
         receipts'[c].decision = receipts[c].decision
  PROVE  Traced(c)' /\ Written(c)'
<1> USE DEF ReplayInv
<1>1. Payload(c)' = Payload(c)
  BY DEF Payload
<1>2. NotLookedUp(c)' = NotLookedUp(c) /\ TargetTraced(c)' = TargetTraced(c)
  BY DEF NotLookedUp, TargetTraced, TargetHash, registries
<1>3. EvidenceTraced(c)'
  BY DEF Traced, EvidenceTraced, Replaying
<1>4. Traced(c)'
  BY <1>2, <1>3 DEF Traced, Asked, Leased, Decided, Replaying, registries
<1>5. Written(c)'
  BY <1>1 DEF Written, Replaying
<1> QED
  BY <1>4, <1>5

LEMMA ReplayRegistryKeeps ==
  ASSUME ReplayInv, NEW c \in Calls, ReplayRegistry(c)
  PROVE  Kept(c)'
<1> USE DEF ReplayInv, TypeInv, TypeOK, Goto
<1> DEFINE r == receipts[c]
<1>1. /\ pc[c] = "replay_registry" /\ pc'[c] = "replay_target"
      /\ UNCHANGED <<registries, evidence0, lost, touched>>
      /\ UNCHANGED <<call, seen, reasons, effects, receipts>>
  BY DEF ReplayRegistry, locals, history
<1>2. mismatches'[c] = When(agents[r.agent] = NONE, "MISSING_AGENT")
                         \cup When(leases[r.lease] = NONE, "MISSING_LEASE")
                         \cup When(\E e \in r.refs : evidence[e] = NONE, "MISSING_EVIDENCE")
  BY DEF ReplayRegistry
<1>3. /\ r # NONE
      /\ r.agent = call[c].identity.agent
      /\ r.lease = call[c].lease
      /\ r.refs = {seen[c].evidence_id} \ {NONE}
  BY <1>1 DEF Written, Replaying
<1>4. Traced(c)' /\ Written(c)'
  BY <1>1, <1>3, ReplayingKeeps DEF Replaying
<1>5. /\ mismatches'[c] \subseteq {"MISSING_AGENT", "MISSING_LEASE", "MISSING_EVIDENCE"}
      /\ "MISSING_AGENT" \in mismatches'[c] => agents[r.agent] = NONE
      /\ "MISSING_LEASE" \in mismatches'[c] => leases[r.lease] = NONE
      /\ "MISSING_EVIDENCE" \in mismatches'[c] => \E e \in r.refs : evidence[e] = NONE
  BY <1>2 DEF When
<1>6. /\ "MISSING_AGENT" \in mismatches'[c] => "IDENTITY_UNKNOWN" \in reasons[c]
      /\ "MISSING_LEASE" \in mismatches'[c] =>
           "AUTHORITY_LEASE_MISSING" \in reasons[c] \/ NotLookedUp(c)
  BY <1>1, <1>3, <1>5 DEF Traced, Asked, Leased, Replaying
<1>7. "MISSING_EVIDENCE" \in mismatches'[c] => seen[c].evidence_id \in lost
  BY <1>3, <1>5 DEF Traced, EvidenceTraced, EvidenceKept, Reads
<1>8. RegistryCauses(c)'
  BY <1>1, <1>6, <1>7 DEF RegistryCauses, NotLookedUp, registries
<1> QED
  BY <1>1, <1>4, <1>5, <1>8 DEF Kept, Replayed

LEMMA ReplayTargetKeeps ==
  ASSUME ReplayInv, NEW c \in Calls, ReplayTarget(c)
  PROVE  Kept(c)'
<1> USE DEF ReplayInv, TypeInv, TypeOK, Goto
<1> DEFINE r == receipts[c]
           id == call[c].intent.target
           target == targets[id]
           checked == seen[c].target
<1>1. /\ pc[c] = "replay_target" /\ pc'[c] = "done"
      /\ UNCHANGED <<registries, evidence0, lost, touched>>
      /\ UNCHANGED <<call, seen, reasons, effects, receipts>>
  BY DEF ReplayTarget, locals, history
<1>2. mismatches'[c] = mismatches[c]
          \cup When(targets[r.target] = NONE, "MISSING_TARGET")
          \cup When(targets[r.target] # NONE /\ r.hash # TargetHash(r.target, targets[r.target]),
                    "TARGET_HASH_CHANGED")
          \cup When(r.decision = "ALLOW" /\ r.result = NONE,
                    "MISSING_EXECUTOR_RESULT_HASH")
          \cup When(/\ r.decision = "ALLOW"
                    /\ r.result # NONE
                    /\ effects[c] = NONE \/ ResultHash(c, effects[c]) # r.result,
                    "EXECUTOR_RESULT_NOT_RECONSTRUCTABLE")
  BY DEF ReplayTarget
<1>3. /\ r # NONE
      /\ r.target = id
      /\ r.decision = "ALLOW" => effects[c] # NONE
      /\ effects[c] # NONE => effects[c] = Payload(c) /\ reasons[c] = {}
  BY <1>1 DEF Written, Replaying
<1>4. Traced(c)' /\ Written(c)'
  BY <1>1, <1>3, ReplayingKeeps DEF Written, Replaying
<1>5. mismatches[c] \subseteq {"MISSING_AGENT", "MISSING_LEASE", "MISSING_EVIDENCE"}
  BY <1>1 DEF Replayed
<1>6. /\ mismatches[c] \subseteq mismatches'[c]
      /\ \A m \in {"MISSING_AGENT", "MISSING_LEASE", "MISSING_EVIDENCE"} :
           m \in mismatches'[c] => m \in mismatches[c]
      /\ "MISSING_TARGET" \in mismatches'[c] <=> target = NONE
      /\ "TARGET_HASH_CHANGED" \in mismatches'[c] <=>
           target # NONE /\ r.hash # TargetHash(id, target)
      /\ "MISSING_EXECUTOR_RESULT_HASH" \in mismatches'[c] <=>
           r.decision = "ALLOW" /\ r.result = NONE
      /\ "EXECUTOR_RESULT_NOT_RECONSTRUCTABLE" \in mismatches'[c] <=>
           /\ r.decision = "ALLOW"
           /\ r.result # NONE
           /\ effects[c] = NONE \/ ResultHash(c, effects[c]) # r.result
  BY <1>2, <1>3, <1>5 DEF When
<1>7. /\ Payload(c)' = Payload(c)
      /\ ResultHash(c, Payload(c))' = ResultHash(c, Payload(c))
      /\ NotLookedUp(c)' = NotLookedUp(c)
  BY <1>1 DEF Payload, ResultHash, NotLookedUp
<1>9. ~NotLookedUp(c) => TargetTraced(c)
  BY <1>1 DEF Traced, Decided
<1>10. ASSUME ~NotLookedUp(c)
       PROVE  /\ target = NONE => "TARGET_UNKNOWN" \in reasons[c]
              /\ ~touched[c] => target = checked
  BY <1>9, <1>10 DEF TargetTraced
<1>11. RegistryCauses(c)'
  BY <1>1, <1>6, <1>7 DEF Replayed, RegistryCauses, registries
<1>12. TargetCauses(c)'
  <2>1. "MISSING_TARGET" \in mismatches'[c] => "TARGET_UNKNOWN" \in reasons[c] \/ NotLookedUp(c)
    BY <1>6, <1>10
  <2>2. ASSUME "TARGET_HASH_CHANGED" \in mismatches'[c],
               ~NotLookedUp(c), r.hash = call[c].intent.hash, ~touched[c]
        PROVE  "TARGET_HASH_MISMATCH" \in reasons[c]
    <3>1. target = checked /\ checked # NONE
      BY <1>6, <1>10, <2>2
    <3> QED
      BY <1>6, <1>9, <2>2, <3>1 DEF TargetTraced
  <2>3. /\ "MISSING_EXECUTOR_RESULT_HASH" \in mismatches'[c] => r.result = NONE
        /\ "EXECUTOR_RESULT_NOT_RECONSTRUCTABLE" \in mismatches'[c] =>
             r.result # ResultHash(c, Payload(c))
    BY <1>3, <1>6
  <2> QED
    BY <1>1, <1>7, <2>1, <2>2, <2>3 DEF TargetCauses, registries
<1>13. Vouched(c)'
  <2>1. ASSUME r.decision = "ALLOW", mismatches'[c] = {}
        PROVE  /\ effects[c] # NONE
               /\ r.result = ResultHash(c, effects[c])
               /\ r.hash # effects[c].hash => touched[c]
    <3>1. /\ effects[c] # NONE
          /\ effects[c].hash = TargetHash(id, checked)
          /\ effects[c].hash[2] = checked
          /\ ~NotLookedUp(c)
      BY <1>3, <2>1 DEF Payload, TargetHash, NotLookedUp
    <3>2. /\ r.result = ResultHash(c, effects[c])
          /\ target # NONE /\ r.hash = TargetHash(id, target)
      BY <1>6, <2>1, <3>1
    <3> QED
      BY <1>10, <3>1, <3>2
  <2>2. ResultHash(c, effects[c])' = ResultHash(c, effects[c])
    BY <1>1 DEF ResultHash
  <2> QED
    BY <1>1, <2>1, <2>2 DEF Vouched, registries
<1> QED
  BY <1>1, <1>4, <1>11, <1>12, <1>13 DEF Kept, Replayed

LEMMA TamperKeeps ==
  ASSUME ReplayInv, NEW c \in Calls, Tampers(c)
  PROVE  Kept(c)'
<1>1. /\ pc[c] \in {"replay_registry", "done"} /\ pc'[c] = "replay_registry"
      /\ UNCHANGED <<registries, evidence0, touched, call, seen, reasons, effects>>
      /\ receipts'[c] # NONE
      /\ receipts'[c].agent = receipts[c].agent
      /\ receipts'[c].lease = receipts[c].lease
      /\ receipts'[c].refs = receipts[c].refs
      /\ receipts'[c].target = receipts[c].target
      /\ receipts'[c].decision = receipts[c].decision
  BY TamperedType, CallKept DEF ReplayInv
<1>2. Traced(c)' /\ Written(c)'
  BY <1>1, ReplayingKeeps DEF Replaying
<1> QED
  BY <1>1, <1>2 DEF Kept, Replayed
-----------------------------------------------------------------------------
LEMMA InitReplayInv == Init => ReplayInv
<1> SUFFICES ASSUME Init PROVE ReplayInv
  OBVIOUS
<1>1. TypeInv /\ RegistryBacked /\ EvidenceKept
  BY InitIInv DEF IInv, Init, EvidenceKept
<1>2. \A c \in Calls : pc[c] = "idle" /\ effects[c] = NONE /\ seen[c].evidence_id = NONE
  BY DEF Init, NothingSeen
<1>3. \A c \in Calls : Traced(c) /\ Written(c) /\ Replayed(c)
  BY <1>2 DEF Traced, EvidenceTraced, Written, Replayed, Asked, Leased, Decided, Replaying
<1> QED
  BY <1>1, <1>3 DEF ReplayInv

LEMMA NextReplayInv == ReplayInv /\ [ReplayNext]_vars => ReplayInv'
<1> SUFFICES ASSUME ReplayInv, [ReplayNext]_vars PROVE ReplayInv'
  OBVIOUS
<1>0. TypeInv /\ RegistryBacked /\ EvidenceKept /\ \A c \in Calls : Kept(c)
  BY DEF ReplayInv, Kept
<1>1. ASSUME NEW c \in Calls, Steps(c) \/ Tampers(c)
      PROVE  \A d \in Calls : Kept(d)'
  <2>1. Kept(c)'
    <3>1. CASE Tampers(c)
      BY <3>1, TamperKeeps
    <3>2. CASE Steps(c)
      BY <3>2, OutsideKeeps, ReadAgentKeeps, MiddleKeeps, ReadTargetKeeps, WriteKeeps,
         ReplayRegistryKeeps, ReplayTargetKeeps DEF Steps, Gates, Commit
    <3> QED
      BY <1>1, <3>1, <3>2
  <2>2. \A d \in Calls \ {c} : Kept(d)'
    <3>1. \A d \in Calls : TouchNoted(d)
      BY <1>1, CallKept DEF TouchNoted, registries
    <3> QED
      BY <1>0, <1>1, <3>1, CallKept, OthersApart, ReplayFrame DEF Kept
  <2> QED
    BY <2>1, <2>2
<1>2. CASE Next
  <2>1. TypeInv'
    BY <1>0, <1>2, CallTypeInv, AroundTyped DEF Next
  <2>2. RegistryBacked'
    BY <1>0, <1>2, RegistryStaysBacked
  <2>3. CASE (\E p \in Promoters : Promote(p)) \/ Environment
    <3>1. UNCHANGED <<locals, outcome, pc>>
      BY <2>3, AroundCalls
    <3>2. RegistriesKept /\ EvidenceKept' /\ \A d \in Calls : TouchNoted(d)
      BY <1>0, <2>3, AroundKept
    <3>3. \A d \in Calls : Kept(d)'
      BY <1>0, <3>1, <3>2, ReplayFrame DEF Kept, locals, outcome
    <3> QED
      BY <2>1, <2>2, <3>2, <3>3 DEF ReplayInv, Kept
  <2>4. CASE \E c \in Calls : Steps(c)
    <3>1. EvidenceKept'
      BY <1>0, <2>4, CallKept DEF EvidenceKept, registries
    <3> QED
      BY <1>1, <2>1, <2>2, <2>4, <3>1 DEF ReplayInv, Kept
  <2> QED
    BY <1>2, <2>3, <2>4 DEF Next, Steps
<1>3. ASSUME NEW c \in Calls, Tampers(c)
      PROVE  ReplayInv'
  <2>1. TypeInv'
    BY <1>0, <1>3, TamperedType DEF Kept
  <2>2. UNCHANGED <<agents, evidence, evidence0, lost, promoter, advance>>
    BY <1>3 DEF Tampers, ReplayAgain, TamperTarget, TamperResult, registries, writers,
                history
  <2>3. RegistryBacked' /\ EvidenceKept'
    BY <1>0, <2>2 DEF RegistryBacked, Backed, EvidenceKept
  <2> QED
    BY <1>1, <1>3, <2>1, <2>3 DEF ReplayInv, Kept
<1>4. CASE UNCHANGED vars
  <2>1. TypeInv'
    BY <1>0, <1>4, Stutter
  <2>2. RegistryBacked' /\ EvidenceKept'
    BY <1>0, <1>4 DEF vars, registries, writers, history, RegistryBacked, Backed, EvidenceKept
  <2>3. RegistriesKept /\ \A d \in Calls : TouchNoted(d)
    BY <1>4 DEF vars, registries, history, RegistriesKept, TouchNoted
  <2>4. \A d \in Calls : Kept(d)'
    BY <1>0, <1>4, <2>3, ReplayFrame DEF Kept, vars, locals, outcome
  <2> QED
    BY <2>1, <2>2, <2>4 DEF ReplayInv, Kept
<1> QED
  BY <1>2, <1>3, <1>4 DEF ReplayNext, Tampers

LEMMA ReplayInductive == ReplaySpec => []ReplayInv
  BY InitReplayInv, NextReplayInv, PTL DEF ReplaySpec

\* However late a receipt is replayed, how often, and whatever was done to its hashes,
\* each mismatch has a cause: what the decision did not find or match, evidence lost,
\* a target put anew since, or a receipt that is not the one written.
THEOREM MismatchesAreExplained == ReplaySpec => []ReplayIsExplained
<1>1. ReplayInv => ReplayIsExplained
  <2> SUFFICES ASSUME ReplayInv, NEW c \in Calls, pc[c] = "done"
               PROVE  RegistryCauses(c) /\ TargetCauses(c)
    BY DEF ReplayIsExplained, RegistryCauses, TargetCauses
  <2> QED
    BY DEF ReplayInv, Replayed
<1> QED
  BY <1>1, ReplayInductive, PTL

\* An ALLOW receipt whose replay finds nothing names an effect that is in the store
\* with the result recorded, bound to the target recorded unless record and target
\* were both changed.
THEOREM PassesVouch == ReplaySpec => []PassVouches
<1>1. ReplayInv => PassVouches
  BY DEF ReplayInv, Replayed, Vouched, PassVouches
<1> QED
  BY <1>1, ReplayInductive, PTL
=============================================================================
