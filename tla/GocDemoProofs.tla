----------------------------- MODULE GocDemoProofs -----------------------------
(***************************************************************************)
(* For any number of requests: a request that no other overlaps ends as     *)
(* documented, and with MemoryStore every request does.                     *)
(***************************************************************************)
EXTENDS GocDemo, TLAPS

-----------------------------------------------------------------------------
(* Types.                                                                    *)

\* What a request finds written at its stage, by itself or by another: a document,
\* once there, is only ever replaced.  It acts just before its receipt.
Present(r) ==
  /\ pc[r] \notin {"idle", "put_agent"} \cup Ended => agent[StoreOf(r)] # NONE
  /\ pc[r] \in {"get_lease", "revoke_lease", "get_agent", "advance_epoch",
                "propose", "read_lease"} => lease[StoreOf(r)] # NONE
  /\ pc[r] \in {"promote_write", "advance_epoch"} => copy[r] \in Agent
  /\ pc[r] = "revoke_lease" => copy[r] \in Lease
  /\ pc[r] \notin {"idle"} \cup Ended => case[r] \in Cases /\ proposal[r] \in Proposal
  /\ r \in effects => pc[r] \in {"receipt"} \cup Ended

TypeInv == TypeOK /\ \A r \in Requests : Present(r)
Step(r) == Bootstrap(r) \/ RunCase(r) \/ Crash(r)

LEMMA StoreTyped == ASSUME NEW r \in Requests PROVE StoreOf(r) \in Stores
  BY DEF StoreOf, Stores

\* What is written is a document, whether fresh or a copy that was changed.
LEMMA FreshTyped == FreshAgent \in Agent \ {NONE} /\ FreshLease \in Lease \ {NONE}
<1>1. FreshAgent \in Agent /\ FreshLease \in Lease
  BY DEF FreshAgent, FreshLease, Agent, Lease
<1> QED
  BY <1>1, ConstantsAssumption

LEMMA AgentWritten ==
  ASSUME NEW c \in Agent
  PROVE  /\ [c EXCEPT !.observed = TRUE] \in Agent \ {NONE}
         /\ [c EXCEPT !.epoch = @ + 1] \in Agent \ {NONE}
<1>1. [c EXCEPT !.observed = TRUE] \in Agent
  BY DEF Agent
<1>2. [c EXCEPT !.epoch = @ + 1] \in Agent
  <2>1. c.observed \in BOOLEAN /\ c.epoch + 1 \in Nat
    BY DEF Agent
  <2>2. [c EXCEPT !.epoch = @ + 1] = [observed |-> c.observed, epoch |-> c.epoch + 1]
    BY DEF Agent
  <2> QED
    BY <2>1, <2>2 DEF Agent
<1> QED
  BY <1>1, <1>2, ConstantsAssumption

LEMMA LeaseWritten ==
  ASSUME NEW c \in Lease, NEW t \in Nat
  PROVE  [c EXCEPT !.revoked_at = t - 1] \in Lease \ {NONE}
<1>1. [c EXCEPT !.revoked_at = t - 1] \in Lease
  BY DEF Lease
<1> QED
  BY <1>1, ConstantsAssumption

\* A step of one request leaves the locals of the others alone, and no document of
\* any store disappears.
LEMMA StepIsLocal ==
  ASSUME TypeInv, NEW r \in Requests, Step(r), NEW q \in Requests \ {r}
  PROVE  /\ pc'[q] = pc[q] /\ case'[q] = case[q] /\ proposal'[q] = proposal[q]
         /\ now'[q] = now[q] /\ copy'[q] = copy[q] /\ epoch'[q] = epoch[q]
         /\ reasons'[q] = reasons[q] /\ answer'[q] = answer[q]
         /\ q \in effects' <=> q \in effects
  BY DEF TypeInv, TypeOK, Step, Bootstrap, RunCase, request, Goto, Answer,
    BadRequest, Arrive, PutAgent, PromoteRead, PromoteWrite, PutLease, GetLease,
    RevokeLease, GetAgent, AdvanceEpoch, RejectProposal, ReadAgent, ReadLease,
    Mutate, PutReceipt, Crash

\* The service stays as it was deployed, and so does the store of each request.
LEMMA StepKeepsStores ==
  ASSUME NEW r \in Requests, Step(r)
  PROVE  /\ deployment' = deployment
         /\ \A q \in Requests : StoreOf(q)' = StoreOf(q)
<1>1. deployment' = deployment
  BY DEF Step, Bootstrap, RunCase, request, BadRequest, Arrive, PutAgent, PromoteRead,
    PromoteWrite, PutLease, GetLease, RevokeLease, GetAgent, AdvanceEpoch,
    RejectProposal, ReadAgent, ReadLease, Mutate, PutReceipt, Crash
<1> QED
  BY <1>1 DEF StoreOf

\* What was asked, and whom a request met, is settled when a request arrives.
LEMMA StepKeepsRequests ==
  ASSUME NEW r \in Requests, Step(r), ~Arrive(r)
  PROVE  /\ case' = case /\ proposal' = proposal /\ now' = now /\ overlap' = overlap
         /\ pc[r] = "idle" => BadRequest(r)
  BY DEF Step, Bootstrap, RunCase, request, Goto, BadRequest, PutAgent, PromoteRead,
    PromoteWrite, PutLease, GetLease, RevokeLease, GetAgent, AdvanceEpoch,
    RejectProposal, ReadAgent, ReadLease, Mutate, PutReceipt, Crash, UnderWay

LEMMA StepKeepsDocuments ==
  ASSUME TypeInv, NEW r \in Requests, Step(r), NEW s \in Stores
  PROVE  /\ agent[s] # NONE => agent'[s] # NONE
         /\ lease[s] # NONE => lease'[s] # NONE
         /\ s # StoreOf(r) => agent'[s] = agent[s] /\ lease'[s] = lease[s]
<1> USE DEF TypeInv, TypeOK, request, Goto, Answer
<1>r. StoreOf(r) \in Stores
  BY StoreTyped
<1>p. Present(r)
  BY DEF TypeInv
<1>1. CASE PutAgent(r)
  BY <1>1, <1>r, FreshTyped DEF PutAgent
<1>2. CASE PromoteWrite(r)
  BY <1>2, <1>r, <1>p, AgentWritten DEF PromoteWrite, Present
<1>3. CASE AdvanceEpoch(r)
  BY <1>3, <1>r, <1>p, AgentWritten DEF AdvanceEpoch, Present
<1>4. CASE PutLease(r)
  BY <1>4, <1>r, FreshTyped DEF PutLease
<1>5. CASE RevokeLease(r)
  BY <1>5, <1>r, <1>p, LeaseWritten DEF RevokeLease, Present
<1>6. CASE UNCHANGED <<agent, lease>>
  BY <1>6
<1> QED
  BY <1>1, <1>2, <1>3, <1>4, <1>5, <1>6
    DEF Step, Bootstrap, RunCase, BadRequest, Arrive, PromoteRead, GetLease,
      GetAgent, RejectProposal, ReadAgent, ReadLease, Mutate, PutReceipt, Crash

LEMMA InitTypeInv == Init => TypeInv
  BY DEF Init, TypeInv, TypeOK, Present, Stores

\* The other requests still find what they found.
LEMMA OthersPresent ==
  ASSUME TypeInv, NEW r \in Requests, Step(r), NEW q \in Requests \ {r}
  PROVE  Present(q)'
<1>1. Present(q) /\ StoreOf(q) \in Stores /\ StoreOf(q)' = StoreOf(q)
  BY StoreTyped, StepKeepsStores DEF TypeInv
<1> QED
  BY <1>1, StepIsLocal, StepKeepsDocuments DEF Present

LEMMA StepTypeInv ==
  ASSUME TypeInv, NEW r \in Requests, Step(r)
  PROVE  TypeInv'
<1> USE DEF TypeOK, request, Goto, Answer, Ended
<1>r. StoreOf(r) \in Stores /\ StoreOf(r)' = StoreOf(r)
  BY StoreTyped, StepKeepsStores
<1>p. TypeOK /\ Present(r)
  BY DEF TypeInv
<1>o. Present(r)' => \A q \in Requests : Present(q)'
  BY OthersPresent
<1> SUFFICES TypeOK' /\ Present(r)'
  BY <1>o DEF TypeInv
<1>1. CASE BadRequest(r)
  BY <1>1, <1>p, <1>r DEF BadRequest, Present, Answers
<1>2. CASE Arrive(r)
  <2>1. case' \in [Requests -> Cases \cup {NONE}] /\ case'[r] \in Cases
    BY <1>2, <1>p, ConstantsAssumption DEF Arrive, Deployment
  <2>2. \A c \in Cases : DefaultProposal(c) \in Proposal
    BY DEF DefaultProposal, Proposal
  <2>3. /\ deployment.cases \subseteq Cases
        /\ \A c \in Cases : deployment.proposals \cup {DefaultProposal(c)} \subseteq Proposal
    BY <1>p, <2>2, ConstantsAssumption DEF Deployment
  <2>4. proposal' \in [Requests -> Proposal \cup {NONE}] /\ proposal'[r] \in Proposal
    BY <1>2, <1>p, <2>3 DEF Arrive
  <2>5. now' \in [Requests -> Nat]
    BY <1>2, <1>p, ConstantsAssumption DEF Arrive
  <2>6. overlap' \in [Requests -> SUBSET Requests]
    BY <1>2, <1>p DEF Arrive, UnderWay
  <2> QED
    BY <1>2, <1>p, <2>1, <2>4, <2>5, <2>6 DEF Arrive, Present
<1>3. CASE PutAgent(r)
  BY <1>3, <1>p, <1>r, FreshTyped DEF PutAgent, Present
<1>4. CASE PromoteRead(r)
  BY <1>4, <1>p, <1>r DEF PromoteRead, Present
<1>5. CASE PromoteWrite(r)
  <2>1. copy[r] \in Agent /\ agent'[StoreOf(r)] = [copy[r] EXCEPT !.observed = TRUE]
    BY <1>5, <1>p, <1>r DEF PromoteWrite, Present
  <2>2. agent'[StoreOf(r)] \in Agent \ {NONE}
    BY <2>1, AgentWritten
  <2> QED
    BY <1>5, <1>p, <1>r, <2>1, <2>2 DEF PromoteWrite, Present
<1>6. CASE PutLease(r)
  BY <1>6, <1>p, <1>r, FreshTyped DEF PutLease, Present, AfterBootstrap
<1>7. CASE GetLease(r)
  BY <1>7, <1>p, <1>r DEF GetLease, Present
<1>8. CASE RevokeLease(r)
  BY <1>8, <1>p, <1>r, LeaseWritten DEF RevokeLease, Present
<1>9. CASE GetAgent(r)
  BY <1>9, <1>p, <1>r DEF GetAgent, Present
<1>10. CASE AdvanceEpoch(r)
  <2>1. copy[r] \in Agent /\ agent'[StoreOf(r)] = [copy[r] EXCEPT !.epoch = @ + 1]
    BY <1>10, <1>p, <1>r DEF AdvanceEpoch, Present
  <2>2. agent'[StoreOf(r)] \in Agent \ {NONE}
    BY <2>1, AgentWritten
  <2> QED
    BY <1>10, <1>p, <1>r, <2>1, <2>2 DEF AdvanceEpoch, Present
<1>11. CASE RejectProposal(r)
  BY <1>11, <1>p, <1>r DEF RejectProposal, Present, Answers
<1>12. CASE ReadAgent(r)
  <2>1. agent[StoreOf(r)].epoch \in Nat
    BY <1>12, <1>p, <1>r DEF ReadAgent, Present, Agent
  <2>2. \A b : When(b, "CAPABILITY_NOT_OBSERVED") \subseteq Reasons
    BY DEF When, Reasons
  <2> QED
    BY <1>12, <1>p, <1>r, <2>1, <2>2 DEF ReadAgent, Present
<1>13. CASE ReadLease(r)
  <2>1. reasons' \in [Requests -> SUBSET Reasons]
    <3>1. \A b : /\ When(b, "AUTHORITY_REVOKED") \subseteq Reasons
                /\ When(b, "AUTHORITY_EPOCH_STALE") \subseteq Reasons
      BY DEF When, Reasons
    <3>2. {"AUTHORITY_OUT_OF_SCOPE", "TARGET_ACTION_NOT_ALLOWED"} \subseteq Reasons
      BY DEF Reasons
    <3> QED
      BY <1>13, <1>p, <3>1, <3>2 DEF ReadLease
  <2> QED
    BY <1>13, <1>p, <1>r, <2>1 DEF ReadLease, Present
<1>14. CASE Mutate(r)
  BY <1>14, <1>p, <1>r DEF Mutate, Present
<1>15. CASE PutReceipt(r)
  BY <1>15, <1>p, <1>r DEF PutReceipt, Present, Answers
<1>16. CASE Crash(r)
  BY <1>16, <1>p, <1>r DEF Crash, Present, UnderWay
<1> QED
  BY <1>1, <1>2, <1>3, <1>4, <1>5, <1>6, <1>7, <1>8, <1>9, <1>10, <1>11, <1>12,
    <1>13, <1>14, <1>15, <1>16 DEF Step, Bootstrap, RunCase

LEMMA StutterTypeInv == TypeInv /\ UNCHANGED vars => TypeInv'
  BY DEF TypeInv, TypeOK, Present, vars, request, Ended, StoreOf

\* Registered documents and locals of any number of requests keep their types.
THEOREM TypeCorrect == Spec => []TypeOK
<1>1. TypeInv /\ [Next]_vars => TypeInv'
  BY StepTypeInv, StutterTypeInv DEF Next, Step
<1>2. TypeInv => TypeOK
  BY DEF TypeInv
<1> QED
  BY <1>1, <1>2, InitTypeInv, PTL DEF Spec

-----------------------------------------------------------------------------
(* Outcomes.                                                                 *)

\* A request under way has met every other one that is.
MetAll == \A r \in UnderWay : UnderWay \ {r} \subseteq overlap[r]

\* Nobody else writes the documents of this request.
Alone(r) == deployment.mode = "memory" \/ overlap[r] = {}

CaseEpoch(r) == IF case[r] = "policy_epoch_stale" THEN 8 ELSE 7
CaseLease(r) ==
  [epoch |-> 7,
   revoked_at |-> IF case[r] = "revoked_authority" THEN now[r] - 1 ELSE NONE]
Observed(e) == [observed |-> TRUE, epoch |-> e]

\* What the documents of a request's store hold at each stage before the gates.
Documents(r) ==
  LET a == agent[StoreOf(r)]
      l == lease[StoreOf(r)]
  IN /\ pc[r] = "promote_read" => a = FreshAgent
     /\ pc[r] = "promote_write" => copy[r] = FreshAgent
     /\ pc[r] = "put_lease" => a = Observed(7)
     /\ pc[r] = "get_lease" =>
          a = Observed(7) /\ l = FreshLease /\ case[r] = "revoked_authority"
     /\ pc[r] = "revoke_lease" =>
          a = Observed(7) /\ copy[r] = FreshLease /\ case[r] = "revoked_authority"
     /\ pc[r] = "get_agent" =>
          a = Observed(7) /\ l = FreshLease /\ case[r] = "policy_epoch_stale"
     /\ pc[r] = "advance_epoch" =>
          /\ copy[r] = Observed(7)
          /\ l = FreshLease
          /\ case[r] = "policy_epoch_stale"
     /\ pc[r] = "propose" => a = Observed(CaseEpoch(r)) /\ l = CaseLease(r)
     /\ pc[r] = "read_lease" =>
          l = CaseLease(r) /\ epoch[r] = CaseEpoch(r)

\* What the gates have found, at each stage from the first of them on.
Verdict(r) ==
  /\ pc[r] \in {"read_lease", "mutate", "receipt"} => proposal[r].target = "pump_A"
  /\ pc[r] = "read_lease" =>
       reasons[r] = When(proposal[r].action # "work_order", "CAPABILITY_NOT_OBSERVED")
  /\ pc[r] \in {"mutate", "receipt"} => reasons[r] = DocumentedReasons(r)
  /\ pc[r] = "mutate" => reasons[r] = {}
  /\ pc[r] = "receipt" => (r \in effects <=> reasons[r] = {})
  /\ Answered(r) => AsDocumented(r)

OnTrack(r) == Alone(r) => Documents(r) /\ Verdict(r)
IInv == TypeInv /\ MetAll /\ \A r \in Requests : OnTrack(r)

LEMMA InitIInv == Init => IInv
<1> SUFFICES ASSUME Init PROVE IInv
  OBVIOUS
<1>1. TypeInv
  BY InitTypeInv
<1>2. MetAll /\ \A r \in Requests : OnTrack(r)
  BY DEF Init, MetAll, UnderWay, OnTrack, Documents, Verdict, Answered
<1> QED
  BY <1>1, <1>2 DEF IInv

\* A request that arrives meets those under way, and they meet it.
LEMMA StepMetAll ==
  ASSUME TypeInv, MetAll, NEW r \in Requests, Step(r)
  PROVE  MetAll'
<1> USE DEF TypeInv, TypeOK, MetAll, UnderWay, request, Goto, Ended
<1>1. CASE Arrive(r)
  BY <1>1 DEF Arrive
<1>2. CASE ~Arrive(r)
  <2>1. overlap' = overlap
    BY <1>2, StepKeepsRequests
  <2>2. r \in UnderWay' => r \in UnderWay
    BY <1>2, StepKeepsRequests DEF BadRequest, Step, Bootstrap, RunCase, PutAgent,
      PromoteRead, PromoteWrite, PutLease, GetLease, RevokeLease, GetAgent,
      AdvanceEpoch, RejectProposal, ReadAgent, ReadLease, Mutate, PutReceipt, Crash
  <2>3. UnderWay' \subseteq UnderWay
    BY <2>2, StepIsLocal
  <2> QED
    BY <2>1, <2>3
<1> QED
  BY <1>1, <1>2

\* What another request does to the documents of one that stays alone: nothing.
LEMMA OthersOnTrack ==
  ASSUME TypeInv, MetAll, NEW r \in Requests, Step(r),
         NEW q \in Requests \ {r}, OnTrack(q)
  PROVE  OnTrack(q)'
<1> SUFFICES ASSUME Alone(q)' PROVE Documents(q)' /\ Verdict(q)'
  BY DEF OnTrack
<1>l. StoreOf(q)' = StoreOf(q) /\ StoreOf(q) \in Stores
  BY StoreTyped, StepKeepsStores
<1>1. Alone(q) /\ (q \in UnderWay => deployment.mode = "memory" \/ ~Arrive(r))
  <2>1. CASE Arrive(r)
    BY <2>1 DEF Arrive, Alone, TypeInv, TypeOK
  <2>2. CASE ~Arrive(r)
    BY <2>2, StepKeepsRequests, StepKeepsStores DEF Alone
  <2> QED
    BY <2>1, <2>2
<1>2. q \in UnderWay =>
        agent'[StoreOf(q)] = agent[StoreOf(q)] /\ lease'[StoreOf(q)] = lease[StoreOf(q)]
  <2> SUFFICES ASSUME q \in UnderWay
               PROVE  /\ agent'[StoreOf(q)] = agent[StoreOf(q)]
                      /\ lease'[StoreOf(q)] = lease[StoreOf(q)]
    OBVIOUS
  <2>1. CASE deployment.mode = "memory"
    BY <2>1, <1>l, StepKeepsDocuments DEF StoreOf
  <2>2. CASE deployment.mode # "memory"
    <3>1. overlap[q] = {} /\ ~Arrive(r)
      BY <1>1, <2>2 DEF Alone
    <3>2. r \notin UnderWay
      BY <3>1 DEF MetAll
    <3>3. BadRequest(r)
      BY <3>1, <3>2 DEF Step, Bootstrap, RunCase, PutAgent, PromoteRead,
        PromoteWrite, PutLease, GetLease, RevokeLease, GetAgent, AdvanceEpoch,
        RejectProposal, ReadAgent, ReadLease, Mutate, PutReceipt, Crash, Goto,
        UnderWay, Ended
    <3> QED
      BY <3>3 DEF BadRequest
  <2> QED
    BY <2>1, <2>2
<1>3. Documents(q) /\ Verdict(q)
  BY <1>1 DEF OnTrack
<1>4. Documents(q)'
  <2>1. CASE q \in UnderWay
    BY <2>1, <1>l, <1>2, <1>3, StepIsLocal
      DEF Documents, CaseEpoch, CaseLease, Observed
  <2>2. CASE q \notin UnderWay
    BY <2>2, StepIsLocal DEF Documents, UnderWay, Ended
  <2> QED
    BY <2>1, <2>2
<1>5. Verdict(q)'
  BY <1>3, StepIsLocal
    DEF Verdict, Answered, AsDocumented, DocumentedReasons, When
<1> QED
  BY <1>4, <1>5

\* The copies a request writes back when what it read is what it wrote.
LEMMA PromotedCopy == [FreshAgent EXCEPT !.observed = TRUE] = Observed(7)
<1> DEFINE c == [FreshAgent EXCEPT !.observed = TRUE]
<1>1. c \in Agent /\ c.observed = TRUE /\ c.epoch = 7
  BY FreshTyped, AgentWritten DEF FreshAgent
<1>2. c = Observed(7)
  <2> HIDE DEF c
  <2>1. c = [observed |-> c.observed, epoch |-> c.epoch]
    BY <1>1 DEF Agent
  <2> QED
    BY <1>1, <2>1 DEF Observed
<1> QED
  BY <1>2

LEMMA AdvancedCopy == [Observed(7) EXCEPT !.epoch = @ + 1] = Observed(8)
<1>1. Observed(7) \in Agent /\ Observed(7).epoch + 1 = 8 /\ Observed(7).observed = TRUE
  BY DEF Observed, Agent
<1>2. ASSUME NEW c \in Agent
      PROVE  [c EXCEPT !.epoch = @ + 1] = [observed |-> c.observed, epoch |-> c.epoch + 1]
  BY DEF Agent
<1>3. [Observed(7) EXCEPT !.epoch = @ + 1]
        = [observed |-> Observed(7).observed, epoch |-> Observed(7).epoch + 1]
  BY <1>1, <1>2, Zenon
<1> QED
  BY <1>1, <1>3, Zenon DEF Observed

\* Each step of a request that stays alone finds the documents as the steps before
\* left them.
LEMMA OwnOnTrack ==
  ASSUME TypeInv, NEW r \in Requests, Step(r), OnTrack(r)
  PROVE  OnTrack(r)'
<1> USE DEF TypeOK, request, Goto, Ended, Answered, Alone, Documents, Verdict,
      CaseEpoch, CaseLease
<1>r. StoreOf(r) \in Stores /\ StoreOf(r)' = StoreOf(r)
  BY StoreTyped, StepKeepsStores
<1>p. TypeOK /\ Present(r)
  BY DEF TypeInv
<1>s. ~Arrive(r) =>
        overlap' = overlap /\ case' = case /\ proposal' = proposal /\ now' = now
  BY StepKeepsRequests
<1>1. CASE Arrive(r)
  BY <1>1, <1>p DEF OnTrack, Arrive
<1> SUFFICES ASSUME ~Arrive(r), Alone(r), Documents(r), Verdict(r)
             PROVE  Documents(r)' /\ Verdict(r)'
  BY <1>1, <1>s, StepKeepsStores DEF OnTrack
<1>2. CASE BadRequest(r)
  BY <1>2, <1>p DEF BadRequest, Answer
<1>3. CASE PutAgent(r)
  BY <1>3, <1>p, <1>r DEF PutAgent
<1>4. CASE PromoteRead(r)
  BY <1>4, <1>p, <1>r DEF PromoteRead
<1>5. CASE PromoteWrite(r)
  <2>1. /\ copy[r] = FreshAgent
        /\ agent' = [agent EXCEPT ![StoreOf(r)] = [copy[r] EXCEPT !.observed = TRUE]]
    BY <1>5 DEF PromoteWrite
  <2>2. agent'[StoreOf(r)] = Observed(7)
    BY <2>1, <1>p, <1>r, PromotedCopy
  <2> QED
    BY <1>5, <1>p, <1>r, <2>2 DEF PromoteWrite
<1>6. CASE PutLease(r)
  BY <1>6, <1>p, <1>r DEF PutLease, AfterBootstrap, FreshLease
<1>7. CASE GetLease(r)
  BY <1>7, <1>p, <1>r DEF GetLease
<1>8. CASE RevokeLease(r)
  <2>1. [FreshLease EXCEPT !.revoked_at = now[r] - 1]
          = [epoch |-> 7, revoked_at |-> now[r] - 1]
    BY DEF FreshLease
  <2> QED
    BY <1>8, <1>p, <1>r, <1>s, <2>1 DEF RevokeLease
<1>9. CASE GetAgent(r)
  BY <1>9, <1>p, <1>r DEF GetAgent
<1>10. CASE AdvanceEpoch(r)
  <2>1. /\ copy[r] = Observed(7)
        /\ agent' = [agent EXCEPT ![StoreOf(r)] = [copy[r] EXCEPT !.epoch = @ + 1]]
    BY <1>10 DEF AdvanceEpoch
  <2>2. agent'[StoreOf(r)] = Observed(8)
    BY <2>1, <1>p, <1>r, AdvancedCopy
  <2> QED
    BY <1>10, <1>p, <1>r, <1>s, <2>2 DEF AdvanceEpoch, FreshLease
<1>11. CASE RejectProposal(r)
  BY <1>11, <1>p, <1>s DEF RejectProposal, Answer, Present, AsDocumented
<1>12. CASE ReadAgent(r)
  <2>1. agent[StoreOf(r)] = Observed(CaseEpoch(r)) /\ lease[StoreOf(r)] = CaseLease(r)
    BY <1>12 DEF ReadAgent
  <2>2. /\ agent[StoreOf(r)].observed = TRUE
        /\ agent[StoreOf(r)].epoch = CaseEpoch(r)
    BY <2>1 DEF Observed
  <2>3. epoch'[r] = CaseEpoch(r) /\ pc'[r] = "read_lease" /\ proposal[r].target = "pump_A"
    BY <1>12, <1>p, <2>2 DEF ReadAgent
  <2>4. reasons'[r] = When(proposal[r].action # "work_order", "CAPABILITY_NOT_OBSERVED")
    BY <1>12, <1>p, <2>2 DEF ReadAgent
  <2> QED
    BY <1>12, <1>r, <1>s, <2>1, <2>3, <2>4 DEF ReadAgent
<1>13. CASE ReadLease(r)
  <2> DEFINE l     == lease[StoreOf(r)]
             other == IF proposal[r].action = "work_order" THEN {}
                      ELSE {"AUTHORITY_OUT_OF_SCOPE", "TARGET_ACTION_NOT_ALLOWED"}
             found == reasons[r]
                        \cup When(l.revoked_at # NONE /\ l.revoked_at <= now[r],
                                  "AUTHORITY_REVOKED")
                        \cup When(l.epoch # epoch[r], "AUTHORITY_EPOCH_STALE")
                        \cup other
  <2>1. /\ pc'[r] = IF found = {} THEN "mutate" ELSE "receipt"
        /\ reasons'[r] = found
        /\ effects' = effects
        /\ pc[r] = "read_lease"
    BY <1>13, <1>p DEF ReadLease
  <2>2. l = CaseLease(r) /\ epoch[r] = CaseEpoch(r)
    BY <2>1
  <2>3. (l.epoch # epoch[r]) <=> case[r] = "policy_epoch_stale"
    BY <2>2
  <2>4. (l.revoked_at # NONE /\ l.revoked_at <= now[r]) <=> case[r] = "revoked_authority"
    <3>1. now[r] \in Nat /\ now[r] - 1 # NONE
      BY <1>p, ConstantsAssumption
    <3> QED
      BY <2>2, <3>1
  <2>5. reasons[r] = When(proposal[r].action # "work_order", "CAPABILITY_NOT_OBSERVED")
    BY <2>1
  <2>6. found = DocumentedReasons(r)
    BY <2>3, <2>4, <2>5 DEF When, DocumentedReasons
  <2>7. r \notin effects /\ DocumentedReasons(r)' = DocumentedReasons(r)
    BY <1>p, <1>s, <2>1 DEF Present, DocumentedReasons
  <2> HIDE DEF found
  <2> QED
    BY <1>s, <2>1, <2>6, <2>7
<1>14. CASE Mutate(r)
  BY <1>14, <1>p, <1>s DEF Mutate, DocumentedReasons
<1>15. CASE PutReceipt(r)
  BY <1>15, <1>p, <1>s DEF PutReceipt, Answer, AsDocumented, DocumentedReasons
<1>16. CASE Crash(r)
  BY <1>16, <1>p DEF Crash
<1> QED
  BY <1>2, <1>3, <1>4, <1>5, <1>6, <1>7, <1>8, <1>9, <1>10, <1>11, <1>12,
    <1>13, <1>14, <1>15, <1>16 DEF Step, Bootstrap, RunCase

LEMMA StepIInv ==
  ASSUME IInv, NEW r \in Requests, Step(r)
  PROVE  IInv'
<1>1. TypeInv' /\ MetAll'
  BY StepTypeInv, StepMetAll DEF IInv
<1>2. \A q \in Requests : OnTrack(q)'
  BY OwnOnTrack, OthersOnTrack DEF IInv
<1> QED
  BY <1>1, <1>2 DEF IInv

LEMMA StutterIInv == IInv /\ UNCHANGED vars => IInv'
<1> SUFFICES ASSUME IInv, UNCHANGED vars PROVE IInv'
  OBVIOUS
<1>1. TypeInv' /\ MetAll'
  BY StutterTypeInv DEF IInv, MetAll, UnderWay, vars, request
<1>2. \A q \in Requests : OnTrack(q)'
  BY DEF IInv, OnTrack, Alone, Documents, Verdict, Answered, AsDocumented,
    DocumentedReasons, CaseEpoch, CaseLease, StoreOf, vars, request
<1> QED
  BY <1>1, <1>2 DEF IInv

LEMMA IInvInvariant == Spec => []IInv
<1>1. IInv /\ [Next]_vars => IInv'
  BY StepIInv, StutterIInv DEF Next, Step
<1> QED
  BY <1>1, InitIInv, PTL DEF Spec

\* Any number of requests one after the other, each of which may be stopped at any
\* step, cannot make the next one's answer, reasons or effect other than documented.
THEOREM Undisturbed == Spec => []UndisturbedOutcome
<1>1. IInv => UndisturbedOutcome
  BY DEF IInv, OnTrack, Alone, Verdict, UndisturbedOutcome
<1> QED
  BY <1>1, IInvInvariant, PTL

\* With a MemoryStore per request, neither can any number of requests that overlap.
THEOREM MemoryOutcome == Spec => []OutcomeAsDocumented
<1>1. IInv => OutcomeAsDocumented
  BY DEF IInv, OnTrack, Alone, Verdict, OutcomeAsDocumented
<1> QED
  BY <1>1, IInvInvariant, PTL

-----------------------------------------------------------------------------
(* Where a reason the case does not explain comes from.                      *)

SomeRevoker(r) == \E q \in overlap[r] \cup {r} : case[q] = "revoked_authority"

\* From its own PutLease to its read of the lease, a request finds a lease revoked
\* only by a request it met, or by itself; the gates keep what they found.
Sourced(r) ==
  /\ case[r] = "revoked_authority" => pc[r] # "idle"
  /\ pc[r] \in {"get_lease", "revoke_lease"} => case[r] = "revoked_authority"
  /\ /\ pc[r] \in {"get_lease", "revoke_lease", "get_agent", "advance_epoch",
                   "propose", "read_lease"}
     /\ lease[StoreOf(r)].revoked_at # NONE
     => SomeRevoker(r)
  /\ "AUTHORITY_REVOKED" \in reasons[r] => SomeRevoker(r)
  /\ reasons[r] # {} => pc[r] \in {"read_lease", "mutate", "receipt"} \cup Ended
  /\ pc[r] \in {"read_lease", "mutate", "receipt"} => proposal[r].target = "pump_A"
  /\ Answered(r) /\ proposal[r].target # "pump_A" => reasons[r] = {}

AllSourced == \A r \in Requests : Sourced(r)
SourceInv == IInv /\ AllSourced

LEMMA InitSourceInv == Init => SourceInv
<1>1. Init => AllSourced
  BY ConstantsAssumption DEF Init, AllSourced, Sourced, Answered, Cases
<1> QED
  BY <1>1, InitIInv DEF SourceInv

\* A request keeps whoever explains it: only an arrival changes what was asked and
\* who was met, and only of a request that explained nothing yet.
LEMMA RevokersStay ==
  ASSUME TypeInv, AllSourced, NEW r \in Requests, Step(r), NEW q \in Requests,
         q = r => ~Arrive(r), SomeRevoker(q)
  PROVE  SomeRevoker(q)'
<1>1. PICK w \in overlap[q] \cup {q} : case[w] = "revoked_authority"
  BY DEF SomeRevoker
<1>2. w \in Requests
  BY <1>1 DEF TypeInv, TypeOK
<1>3. pc[w] # "idle"
  BY <1>1, <1>2 DEF AllSourced, Sourced
<1>4. case'[w] = case[w] /\ overlap[q] \subseteq overlap'[q]
  <2>1. CASE Arrive(r)
    <3>1. w # r /\ q # r
      BY <2>1, <1>3 DEF Arrive, Goto
    <3> QED
      BY <2>1, <3>1, <1>2, StepIsLocal DEF Arrive, TypeInv, TypeOK
  <2>2. CASE ~Arrive(r)
    BY <2>2, StepKeepsRequests
  <2> QED
    BY <2>1, <2>2
<1> QED
  BY <1>1, <1>4 DEF SomeRevoker

\* A revocation by another request is one by a request that was met.
LEMMA OthersSourced ==
  ASSUME TypeInv, MetAll, AllSourced, NEW r \in Requests, Step(r),
         NEW q \in Requests \ {r}
  PROVE  Sourced(q)'
<1>q. Sourced(q) /\ Sourced(r)
  BY DEF AllSourced
<1>l. /\ StoreOf(q)' = StoreOf(q) /\ StoreOf(q) \in Stores
      /\ StoreOf(r) \in Stores
  BY StoreTyped, StepKeepsStores
<1>s. SomeRevoker(q) => SomeRevoker(q)'
  BY RevokersStay
<1>1. ASSUME pc[q] \in {"get_lease", "revoke_lease", "get_agent", "advance_epoch",
                        "propose", "read_lease"},
             lease'[StoreOf(q)].revoked_at # NONE
      PROVE  SomeRevoker(q)'
  <2>1. CASE lease'[StoreOf(q)] = lease[StoreOf(q)]
    BY <1>1, <2>1, <1>q, <1>s DEF Sourced
  <2>2. CASE PutLease(r)
    BY <1>1, <2>1, <2>2, <1>l DEF PutLease, FreshLease, TypeInv, TypeOK
  <2>3. CASE RevokeLease(r)
    <3>1. q \in UnderWay /\ r \in UnderWay /\ case[r] = "revoked_authority"
      BY <1>1, <2>3, <1>q DEF UnderWay, Ended, RevokeLease, Goto, Sourced
    <3>2. r \in overlap[q]
      BY <3>1 DEF MetAll
    <3> QED
      BY <3>1, <3>2, <1>s DEF SomeRevoker
  <2>4. CASE lease' = lease
    BY <2>1, <2>4
  <2> QED
    BY <2>2, <2>3, <2>4 DEF Step, Bootstrap, RunCase, BadRequest, Arrive, PutAgent,
      PromoteRead, PromoteWrite, GetLease, GetAgent, AdvanceEpoch, RejectProposal,
      ReadAgent, ReadLease, Mutate, PutReceipt, Crash
<1> QED
  BY <1>1, <1>q, <1>l, <1>s, StepIsLocal DEF Sourced, Answered, Ended

LEMMA OwnSourced ==
  ASSUME TypeInv, AllSourced, NEW r \in Requests, Step(r)
  PROVE  Sourced(r)'
<1> USE DEF TypeOK, request, Goto, Ended, Answered, Sourced
<1>r. StoreOf(r) \in Stores /\ StoreOf(r)' = StoreOf(r)
  BY StoreTyped, StepKeepsStores
<1>p. TypeOK /\ Present(r) /\ Sourced(r)
  BY DEF TypeInv, AllSourced
<1>s. ~Arrive(r) => /\ SomeRevoker(r) => SomeRevoker(r)'
                    /\ case' = case /\ proposal' = proposal
  BY RevokersStay, StepKeepsRequests
<1>1. CASE Arrive(r)
  BY <1>1, <1>p DEF Arrive
<1>2. CASE BadRequest(r)
  BY <1>2, <1>p, <1>s DEF BadRequest, Answer, Arrive
<1>3. CASE PutAgent(r)
  BY <1>3, <1>p, <1>s DEF PutAgent, Arrive
<1>4. CASE PromoteRead(r)
  BY <1>4, <1>p, <1>s DEF PromoteRead, Arrive
<1>5. CASE PromoteWrite(r)
  BY <1>5, <1>p, <1>s DEF PromoteWrite, Arrive
<1>6. CASE PutLease(r)
  BY <1>6, <1>p, <1>r, <1>s DEF PutLease, AfterBootstrap, FreshLease, Arrive
<1>7. CASE GetLease(r)
  BY <1>7, <1>p, <1>r, <1>s DEF GetLease, Arrive
<1>8. CASE RevokeLease(r)
  BY <1>8, <1>p, <1>s DEF RevokeLease, SomeRevoker, Arrive
<1>9. CASE GetAgent(r)
  BY <1>9, <1>p, <1>r, <1>s DEF GetAgent, Arrive
<1>10. CASE AdvanceEpoch(r)
  BY <1>10, <1>p, <1>r, <1>s DEF AdvanceEpoch, Arrive
<1>11. CASE RejectProposal(r)
  BY <1>11, <1>p, <1>s DEF RejectProposal, Answer, Arrive
<1>12. CASE ReadAgent(r)
  BY <1>12, <1>p, <1>r, <1>s DEF ReadAgent, When, Arrive
<1>13. CASE ReadLease(r)
  <2>1. "AUTHORITY_REVOKED" \in reasons'[r] => SomeRevoker(r)
    BY <1>13, <1>p DEF ReadLease, When
  <2> QED
    BY <1>13, <1>p, <1>s, <2>1 DEF ReadLease, Arrive
<1>14. CASE Mutate(r)
  BY <1>14, <1>p, <1>s DEF Mutate, Arrive
<1>15. CASE PutReceipt(r)
  BY <1>15, <1>p, <1>s DEF PutReceipt, Answer, Arrive
<1>16. CASE Crash(r)
  BY <1>16, <1>p, <1>s DEF Crash, UnderWay, Arrive
<1> QED
  BY <1>1, <1>2, <1>3, <1>4, <1>5, <1>6, <1>7, <1>8, <1>9, <1>10, <1>11, <1>12,
    <1>13, <1>14, <1>15, <1>16 DEF Step, Bootstrap, RunCase

LEMMA StepSourceInv ==
  ASSUME SourceInv, NEW r \in Requests, Step(r)
  PROVE  SourceInv'
<1>1. IInv' /\ TypeInv /\ MetAll /\ AllSourced
  BY StepIInv DEF SourceInv, IInv
<1>2. \A q \in Requests : Sourced(q)'
  BY <1>1, OwnSourced, OthersSourced
<1> QED
  BY <1>1, <1>2 DEF SourceInv, AllSourced

LEMMA StutterSourceInv == SourceInv /\ UNCHANGED vars => SourceInv'
<1> SUFFICES ASSUME SourceInv, UNCHANGED vars PROVE SourceInv'
  OBVIOUS
<1>1. \A q \in Requests : Sourced(q)'
  BY DEF SourceInv, AllSourced, Sourced, SomeRevoker, Answered, StoreOf, vars, request
<1> QED
  BY <1>1, StutterIInv DEF SourceInv, AllSourced

\* With any number of overlapping requests on one store, a decision's reason that
\* its case does not give comes from a request that overlapped it, and a revocation
\* from one that asked for the revoked case.
THEOREM SurplusTraced == Spec => []SurplusHasSource
<1>1. SourceInv /\ [Next]_vars => SourceInv'
  BY StepSourceInv, StutterSourceInv DEF Next, Step
<1>2. ASSUME SourceInv, NEW r \in Requests, Answered(r)
      PROVE  LET surplus == reasons[r] \ DocumentedReasons(r)
             IN /\ surplus # {} => overlap[r] # {}
                /\ "AUTHORITY_REVOKED" \in surplus =>
                     \E q \in overlap[r] : case[q] = "revoked_authority"
  <2>1. Sourced(r) /\ (Alone(r) => AsDocumented(r))
    BY <1>2 DEF SourceInv, AllSourced, IInv, OnTrack, Verdict
  <2>2. overlap[r] = {} => reasons[r] \ DocumentedReasons(r) = {}
    BY <2>1, <1>2 DEF Sourced, Alone, AsDocumented
  <2>3. "AUTHORITY_REVOKED" \in reasons[r] \ DocumentedReasons(r)
          => case[r] # "revoked_authority" /\ SomeRevoker(r)
    BY <2>1 DEF Sourced, DocumentedReasons, When
  <2> QED
    BY <2>2, <2>3 DEF SomeRevoker
<1>3. SourceInv => SurplusHasSource
  BY <1>2 DEF SurplusHasSource
<1> QED
  BY <1>1, <1>3, InitSourceInv, PTL DEF Spec
=============================================================================
