---------------------- MODULE AuthorityProvenanceProofs ----------------------
(***************************************************************************)
(* Proofs about the walk over a delegation chain, for every store, lease,   *)
(* instant and order of revocations.                                       *)
(***************************************************************************)
EXTENDS AuthorityProvenance, ProvenanceRulesProofs

\* Of every record, only the revocation may have been added since the call.
OnlyRevoked ==
  \A id \in ProvIds :
    /\ records[id] = NONE <=> records0[id] = NONE
    /\ records[id] # NONE => SameGrant(records0[id], records[id])

Last == lineage[Len(lineage)]

\* Where the walk stands, as long as it has found no fault.
Position ==
  /\ pc = "call" => lineage = << >> /\ child = NONE
  /\ lineage = << >> => child = NONE /\ (pc = "walk" => current = lease.provenance)
  /\ pc = "returned" /\ reasons = {} => lineage # << >>
  /\ lineage # << >> /\ reasons = {} =>
       /\ child # NONE
       /\ SameGrant(records0[Last], child)
       /\ pc = "walk" => child.parent = current
       /\ pc = "returned" => child.parent = NONE /\ child.issuer \in TrustedRoots

\* What a faultless prefix of the chain has established of the store at the call.
FirstBacks ==
  lineage # << >> /\ reasons = {} =>
    /\ lineage[1] = lease.provenance
    /\ records0[lineage[1]].subject = lease.agent
    /\ records0[lineage[1]].issuer = lease.issuer
    /\ records0[lineage[1]].epoch = lease.epoch

InForce(id) ==
  /\ records0[id] # NONE
  /\ records0[id].issued_at <= now
  /\ records0[id].revoked_at = NONE \/ records0[id].revoked_at > now
  /\ lease.scope \subseteq records0[id].scope

AllInForce == reasons = {} => \A i \in 1..Len(lineage) : InForce(lineage[i])

Linked(id, next) ==
  /\ records0[id].parent = next
  /\ records0[id].issuer = records0[next].subject
  /\ records0[id].scope \subseteq records0[next].scope

AllLinked ==
  reasons = {} => \A i \in 1..(Len(lineage) - 1) : Linked(lineage[i], lineage[i + 1])

IInv ==
  /\ TypeOK
  /\ OnlyRevoked
  /\ Position
  /\ FirstBacks
  /\ AllInForce
  /\ AllLinked

-----------------------------------------------------------------------------
\* The faults of one iteration are reasons the function can return.
LEMMA FaultsTyped ==
  ASSUME NEW l, NEW k, NEW r, NEW t
  PROVE  Faults(l, k, r, t) \subseteq Reasons
<1>1. RecordFaults(r, t) \subseteq Reasons
  BY DEF RecordFaults, When, Reasons
<1>2. LeaseFaults(l, r) \subseteq Reasons
  BY DEF LeaseFaults, When, Reasons
<1>3. DelegationFaults(k, r) \subseteq Reasons
  BY DEF DelegationFaults, When, Reasons
<1>4. RootFaults(r) \subseteq Reasons
  BY DEF RootFaults, When, Reasons
<1> QED BY <1>1, <1>2, <1>3, <1>4 DEF Faults

-----------------------------------------------------------------------------
\* Every local of verify_authority_provenance keeps its type, in any store.
THEOREM TypeCorrect == Spec => []TypeOK
<1>1. Init => TypeOK
  BY InputAssumption DEF Init, TypeOK, Instant
<1>2. TypeOK /\ [Next]_vars => TypeOK'
  <2> SUFFICES ASSUME TypeOK, [Next]_vars PROVE TypeOK'
    OBVIOUS
  <2> USE DEF TypeOK
  <2>1. CASE NoProvenance
    BY <2>1 DEF NoProvenance, input, Reasons
  <2>2. CASE Enter
    BY <2>2 DEF Enter, input, Lease
  <2>3. CASE Cycle
    BY <2>3 DEF Cycle, input, Reasons
  <2>4. CASE RecordMissing
    <3>1. current \in ProvIds
      BY <2>4 DEF RecordMissing, Visit
    <3> QED BY <2>4, <3>1 DEF RecordMissing, Visit, input, Reasons
  <2>5. CASE ReachRoot
    <3>1. current \in ProvIds
      BY <2>5 DEF ReachRoot, Visit
    <3> QED BY <2>5, <3>1, FaultsTyped DEF ReachRoot, Visit, Inspect, input
  <2>6. CASE Climb
    <3>1. current \in ProvIds
      BY <2>6 DEF Climb, Visit
    <3> QED BY <2>6, <3>1, FaultsTyped DEF Climb, Visit, Inspect, input, Record
  <2>7. ASSUME NEW id \in ProvIds, Revoke(id) PROVE TypeOK'
    BY <2>7, InputAssumption DEF Revoke, input, Record, Instant
  <2>8. CASE UNCHANGED vars
    BY <2>8 DEF vars
  <2> QED BY <2>1, <2>2, <2>3, <2>4, <2>5, <2>6, <2>7, <2>8 DEF Next, Step
<1> QED BY <1>1, <1>2, PTL DEF Spec

-----------------------------------------------------------------------------
\* What a record read now, and found faultless, says of the store at the call.
LEMMA ReadNow ==
  ASSUME TypeOK, OnlyRevoked, records[current] # NONE, current \in ProvIds,
         Faults(lease, child, records[current], now) = {}
  PROVE  /\ SameGrant(records0[current], records[current])
         /\ records[current] # NONE
         /\ records0[current] # NONE
         /\ records0[current].issued_at <= now
         /\ records0[current].revoked_at = NONE \/ records0[current].revoked_at > now
<1>1. /\ SameGrant(records0[current], records[current])
      /\ records0[current] # NONE
  BY DEF OnlyRevoked
<1>2. records[current] \in Record /\ records0[current] \in Record /\ now \in Nat
  BY <1>1 DEF TypeOK, Instant
<1>3. /\ ~(records[current].issued_at > now)
      /\ ~(records[current].revoked_at # NONE /\ records[current].revoked_at <= now)
  BY NoFaults
<1>4. /\ records[current].issued_at \in Nat
      /\ records[current].revoked_at \in Nat \cup {NONE}
      /\ records0[current].issued_at \in Nat
      /\ records0[current].revoked_at \in Nat \cup {NONE}
  BY <1>2 DEF Record, Instant
<1>5. records0[current].issued_at <= now
  BY <1>1, <1>2, <1>3, <1>4 DEF SameGrant
<1>6. records0[current].revoked_at = NONE \/ records0[current].revoked_at > now
  BY <1>1, <1>2, <1>3, <1>4 DEF SameGrant
<1> QED BY <1>1, <1>5, <1>6

\* An iteration that reads a record without fault extends the sound prefix by it.
LEMMA Extend ==
  ASSUME IInv, Visit, records[current] # NONE, Inspect(records[current]),
         UNCHANGED <<input, records>>
  PROVE  /\ lineage' # << >>
         /\ Last' = current
         /\ child' = records[current]
         /\ child' # NONE
         /\ reasons' = {} => SameGrant(records0[Last], child)'
         /\ FirstBacks'
         /\ AllInForce'
         /\ AllLinked'
<1> USE DEF IInv
<1>1. /\ current \in ProvIds
      /\ lineage \in Seq(ProvIds)
      /\ Len(lineage) \in Nat
      /\ lineage' = Append(lineage, current)
      /\ Len(lineage') = Len(lineage) + 1
      /\ lineage'[Len(lineage) + 1] = current
      /\ \A i \in 1..Len(lineage) : lineage'[i] = lineage[i]
  BY DEF Visit, TypeOK
<1>2. /\ lineage' # << >>
      /\ Last' = current
      /\ child' = records[current]
      /\ child' # NONE
  BY <1>1 DEF Last, Inspect
<1>3. /\ records' = records
      /\ records0' = records0
      /\ lease' = lease
      /\ now' = now
  BY DEF input
<1>4. reasons' = {} => /\ reasons = {}
                       /\ Faults(lease, child, records[current], now) = {}
  BY DEF Inspect
<1>5. CASE reasons' # {}
  BY <1>2, <1>5 DEF FirstBacks, AllInForce, AllLinked
<1>6. CASE reasons' = {}
  <2>1. /\ reasons = {}
        /\ SameGrant(records0[current], records[current])
        /\ records0[current] # NONE
        /\ records0[current].issued_at <= now
        /\ records0[current].revoked_at = NONE \/ records0[current].revoked_at > now
    BY <1>1, <1>4, <1>6, ReadNow
  <2>2. /\ child = NONE => /\ records[current].subject = lease.agent
                           /\ records[current].issuer = lease.issuer
                           /\ records[current].epoch = lease.epoch
                           /\ lease.scope \subseteq records[current].scope
        /\ child # NONE => /\ child.issuer = records[current].subject
                           /\ child.scope \subseteq records[current].scope
    BY <1>4, <1>6, NoFaults
  <2>3. lineage = << >> <=> child = NONE
    BY <2>1 DEF Position
  <2>4. FirstBacks'
    <3>1. CASE lineage = << >>
      <4>1. Len(lineage) = 0 /\ lineage'[1] = current
        BY <1>1, <3>1
      <4>2. current = lease.provenance
        BY <3>1 DEF Position, Visit
      <4> QED BY <1>3, <2>1, <2>2, <2>3, <3>1, <4>1, <4>2 DEF FirstBacks, SameGrant
    <3>2. CASE lineage # << >>
      <4>1. lineage'[1] = lineage[1]
        BY <1>1, <3>2
      <4> QED BY <1>3, <2>1, <3>2, <4>1 DEF FirstBacks
    <3> QED BY <3>1, <3>2
  <2>5. lease.scope \subseteq records0[current].scope
    <3>1. CASE lineage = << >>
      BY <2>1, <2>2, <2>3, <3>1 DEF SameGrant
    <3>2. CASE lineage # << >>
      <4>1. InForce(Last) /\ SameGrant(records0[Last], child)
        BY <1>1, <2>1, <3>2 DEF AllInForce, Last, Position
      <4> QED BY <2>1, <2>2, <2>3, <3>2, <4>1 DEF InForce, SameGrant
    <3> QED BY <3>1, <3>2
  <2>6. AllInForce'
    <3>1. InForce(current)
      BY <2>1, <2>5 DEF InForce
    <3>2. \A i \in 1..Len(lineage) : InForce(lineage[i])
      BY <2>1 DEF AllInForce
    <3>3. \A i \in 1..Len(lineage') : InForce(lineage'[i])
      BY <1>1, <3>1, <3>2
    <3> QED BY <1>3, <3>3 DEF AllInForce, InForce
  <2>7. AllLinked'
    <3>1. \A i \in 1..(Len(lineage) - 1) : Linked(lineage[i], lineage[i + 1])
      BY <2>1 DEF AllLinked
    <3>2. lineage # << >> => Linked(Last, current)
      <4>1. lineage # << >> => /\ SameGrant(records0[Last], child)
                               /\ child.parent = current
                               /\ child # NONE
        BY <2>1 DEF Position, Visit
      <4> QED BY <2>1, <2>2, <4>1 DEF Linked, SameGrant
    <3>3. \A i \in 1..(Len(lineage') - 1) : Linked(lineage'[i], lineage'[i + 1])
      <4> SUFFICES ASSUME NEW i \in 1..Len(lineage)
                   PROVE  Linked(lineage'[i], lineage'[i + 1])
        BY <1>1
      <4>1. CASE i = Len(lineage)
        BY <1>1, <3>2, <4>1 DEF Last
      <4>2. CASE i # Len(lineage)
        BY <1>1, <3>1, <4>2
      <4> QED BY <4>1, <4>2
    <3> QED BY <1>3, <3>3 DEF AllLinked, Linked
  <2> QED BY <1>2, <1>3, <1>6, <2>1, <2>4, <2>6, <2>7 DEF SameGrant
<1> QED BY <1>5, <1>6

LEMMA InitIInv == Init => IInv
<1> SUFFICES ASSUME Init PROVE IInv
  OBVIOUS
<1>1. TypeOK
  BY InputAssumption DEF Init, TypeOK, Instant
<1>2. OnlyRevoked
  BY DEF Init, OnlyRevoked, SameGrant
<1>3. Position /\ FirstBacks /\ AllInForce /\ AllLinked
  BY DEF Init, Position, FirstBacks, AllInForce, AllLinked
<1> QED BY <1>1, <1>2, <1>3 DEF IInv

LEMMA NextIInv == IInv /\ TypeOK' /\ [Next]_vars => IInv'
<1> SUFFICES ASSUME IInv, TypeOK', [Next]_vars PROVE IInv'
  OBVIOUS
<1> USE DEF IInv
<1>1. CASE NoProvenance
  BY <1>1 DEF NoProvenance, input, OnlyRevoked, Position, FirstBacks, AllInForce,
              InForce, AllLinked, Linked, SameGrant
<1>2. CASE Enter
  <2>1. lineage' = << >> /\ child' = NONE
    BY <1>2 DEF Enter, Position
  <2> QED BY <1>2, <2>1 DEF Enter, input, OnlyRevoked, Position, FirstBacks,
             AllInForce, AllLinked, SameGrant
<1>3. CASE Cycle
  <2>1. reasons' # {}
    BY <1>3 DEF Cycle
  <2> QED BY <1>3, <2>1 DEF Cycle, input, OnlyRevoked, Position, FirstBacks,
             AllInForce, AllLinked, SameGrant
<1>4. CASE RecordMissing
  <2>1. reasons' # {} /\ lineage' # << >>
    BY <1>4 DEF RecordMissing, Visit, TypeOK
  <2> QED BY <1>4, <2>1 DEF RecordMissing, input, OnlyRevoked, Position, FirstBacks,
             AllInForce, AllLinked, SameGrant
<1>5. CASE ReachRoot
  <2>1. /\ lineage' # << >>
        /\ child' = records[current]
        /\ child' # NONE
        /\ reasons' = {} => SameGrant(records0[Last], child)'
        /\ FirstBacks'
        /\ AllInForce'
        /\ AllLinked'
    BY <1>5, Extend DEF ReachRoot
  <2>2. reasons' = {} => child'.parent = NONE /\ child'.issuer \in TrustedRoots
    <3>1. reasons' = {} => Faults(lease, child, records[current], now) = {}
      BY <1>5 DEF ReachRoot, Inspect
    <3> QED BY <1>5, <2>1, <3>1, NoFaults DEF ReachRoot
  <2>3. Position'
    BY <1>5, <2>1, <2>2 DEF ReachRoot, Position
  <2>4. OnlyRevoked'
    BY <1>5 DEF ReachRoot, OnlyRevoked, input, SameGrant
  <2> QED BY <2>1, <2>3, <2>4
<1>6. CASE Climb
  <2>1. /\ lineage' # << >>
        /\ child' = records[current]
        /\ child' # NONE
        /\ reasons' = {} => SameGrant(records0[Last], child)'
        /\ FirstBacks'
        /\ AllInForce'
        /\ AllLinked'
    BY <1>6, Extend DEF Climb
  <2>2. pc' = "walk" /\ child'.parent = current'
    BY <1>6, <2>1 DEF Climb, Visit
  <2>3. Position'
    BY <2>1, <2>2 DEF Position
  <2>4. OnlyRevoked'
    BY <1>6 DEF Climb, OnlyRevoked, input, SameGrant
  <2> QED BY <2>1, <2>3, <2>4
<1>7. ASSUME NEW id \in ProvIds, Revoke(id) PROVE IInv'
  <2>1. OnlyRevoked'
    <3>1. PICK t \in RevocationInstants :
            records' = [records EXCEPT ![id].revoked_at = t]
      BY <1>7 DEF Revoke
    <3>2. records0' = records0 /\ records[id] # NONE /\ records[id].revoked_at = NONE
      BY <1>7 DEF Revoke, input
    <3>3. records \in [ProvIds -> Record \cup {NONE}] /\ records[id] \in Record
      BY <3>2 DEF TypeOK
    <3>4. records'[id] \in Record /\ records'[id] # NONE
      BY <3>1, <3>3, InputAssumption, NoneAssumption DEF Record, Instant
    <3>5. SameGrant(records0[id], records'[id])
      <4>1. SameGrant(records0[id], records[id])
        BY <3>2 DEF OnlyRevoked
      <4>2. /\ records'[id].subject = records[id].subject
            /\ records'[id].issuer = records[id].issuer
            /\ records'[id].scope = records[id].scope
            /\ records'[id].epoch = records[id].epoch
            /\ records'[id].issued_at = records[id].issued_at
            /\ records'[id].parent = records[id].parent
        BY <3>1, <3>3 DEF Record
      <4> QED BY <3>2, <4>1, <4>2 DEF SameGrant
    <3>6. \A other \in ProvIds \ {id} : records'[other] = records[other]
      BY <3>1, <3>3
    <3>7. \A other \in ProvIds :
            /\ records'[other] = NONE <=> records0[other] = NONE
            /\ records'[other] # NONE => SameGrant(records0[other], records'[other])
      BY <3>2, <3>4, <3>5, <3>6 DEF OnlyRevoked
    <3> QED BY <3>2, <3>7 DEF OnlyRevoked, SameGrant
  <2>2. UNCHANGED <<input, pc, current, child, visited, lineage, reasons>>
    BY <1>7 DEF Revoke
  <2>3. Position' /\ FirstBacks' /\ AllInForce' /\ AllLinked'
    BY <2>2 DEF input, Position, Last, FirstBacks, AllInForce, InForce, AllLinked,
                Linked, SameGrant
  <2> QED BY <2>1, <2>3
<1>8. CASE UNCHANGED vars
  BY <1>8 DEF vars, input, OnlyRevoked, Position, Last, FirstBacks, AllInForce,
              InForce, AllLinked, Linked, SameGrant
<1> QED BY <1>1, <1>2, <1>3, <1>4, <1>5, <1>6, <1>7, <1>8 DEF Next, Step

THEOREM PrefixIsSound == Spec => []IInv
<1>1. IInv /\ TypeOK' /\ [Next]_vars => IInv'
  BY NextIInv
<1> QED BY <1>1, InitIInv, TypeCorrect, PTL DEF Spec

\* Whatever delegation records a store holds and whoever revokes them meanwhile, a
\* lease that verify_authority_provenance accepts was backed, at the moment of the
\* call, by the whole chain it returns in lineage_ids.
THEOREM Soundness == Spec => []AcceptedIsBacked
<1>1. IInv => AcceptedIsBacked
  <2> SUFFICES ASSUME IInv, Accepted PROVE Backs(records0, lease, now, lineage)
    BY DEF AcceptedIsBacked
  <2> USE DEF IInv
  <2>1. reasons = {} /\ pc = "returned" /\ lineage # << >>
    BY DEF Accepted, Position
  <2>2. /\ SameGrant(records0[Last], child)
        /\ child.parent = NONE
        /\ child.issuer \in TrustedRoots
    BY <2>1 DEF Position
  <2>3. records0[Last].parent = NONE /\ records0[Last].issuer \in TrustedRoots
    BY <2>2 DEF SameGrant
  <2>4. \A i \in 1..Len(lineage) : InForce(lineage[i])
    BY <2>1 DEF AllInForce
  <2>5. \A i \in 1..(Len(lineage) - 1) : Linked(lineage[i], lineage[i + 1])
    BY <2>1 DEF AllLinked
  <2>6. PathIn(records0, lease, lineage)
    BY <2>1, <2>3, <2>4, <2>5 DEF PathIn, Last, InForce, Linked, FirstBacks
  <2> QED BY <2>1, <2>3, <2>4, <2>5, <2>6 DEF Backs, Last, InForce, Linked, FirstBacks
<1> QED BY <1>1, PrefixIsSound, PTL

-----------------------------------------------------------------------------
\* A walk follows every chain of its lease, as far as it has come.
Follows(ids) ==
  \E k \in 0..(Len(ids) - 1) :
    Standing(records, ids, k, visited, child) /\ current = ids[k + 1]

CauseInv ==
  /\ TypeOK
  /\ pc = "call" => visited = {} /\ child = NONE /\ reasons = {}
  /\ \A ids \in Chains :
       /\ reasons # {} => ~Backs(records, lease, now, ids)
       /\ pc = "walk" /\ PathIn(records, lease, ids) => Follows(ids)

\* An iteration that reads a record goes one step up every chain.
LEMMA FollowsUp ==
  ASSUME CauseInv, NEW ids \in Chains, Visit, records[current] # NONE,
         Inspect(records[current]), UNCHANGED <<input, records>>
  PROVE  /\ reasons' # {} => ~Backs(records, lease, now, ids)
         /\ PathIn(records, lease, ids) /\ records[current].parent # NONE
              /\ current' = records[current].parent => Follows(ids)'
<1>1. PathIn(records, lease, ids) =>
        \E k \in 0..(Len(ids) - 1) :
          Standing(records, ids, k, visited, child) /\ current = ids[k + 1]
  BY DEF CauseInv, Visit, Follows
<1>2. ASSUME Backs(records, lease, now, ids)
      PROVE  reasons' = {}
  <2>1. PICK k \in 0..(Len(ids) - 1) :
          Standing(records, ids, k, visited, child) /\ current = ids[k + 1]
    BY <1>1, <1>2 DEF Backs
  <2>2. reasons = {}
    BY <1>2 DEF CauseInv
  <2>3. Faults(lease, child, records[current], now) = {}
    BY <1>2, <2>1, FaultBreaks DEF CauseInv, TypeOK, Instant
  <2> QED
    BY <2>2, <2>3 DEF Inspect
<1>3. ASSUME PathIn(records, lease, ids), records[current].parent # NONE,
             current' = records[current].parent
      PROVE  Follows(ids)'
  <2>1. PICK k \in 0..(Len(ids) - 1) :
          Standing(records, ids, k, visited, child) /\ current = ids[k + 1]
    BY <1>1, <1>3
  <2>2. /\ Standing(records, ids, k + 1, visited \cup {current}, records[current])
        /\ k + 1 \in 0..(Len(ids) - 1)
        /\ records[current].parent = ids[k + 2]
    BY <1>3, <2>1, StandsHigher
  <2>3. visited' = visited \cup {current} /\ child' = records[current] /\ records' = records
    BY DEF Visit, Inspect
  <2>4. Standing(records, ids, k + 1, visited, child)'
    BY <2>2, <2>3 DEF Standing
  <2>5. current' = ids[(k + 1) + 1]
    BY <1>3, <2>2
  <2> QED
    BY <2>2, <2>4, <2>5 DEF Follows
<1> QED
  BY <1>2, <1>3

LEMMA NextCauseInv == CauseInv /\ TypeOK' /\ [Next]_vars => CauseInv'
<1> SUFFICES ASSUME CauseInv, TypeOK', [Next]_vars PROVE CauseInv'
  OBVIOUS
<1> USE DEF CauseInv
<1>1. CASE NoProvenance
  <2>1. ASSUME NEW ids \in Chains
        PROVE  ~Backs(records, lease, now, ids)
    <3>1. PathIn(records, lease, ids) => 1 \in 1..Len(ids) /\ ids[1] = NONE
      <4>1. ids # <<>> => Len(ids) \in Nat /\ Len(ids) # 0
        BY ChainIsSeq, EmptySeq
      <4> QED
        BY <1>1, <4>1 DEF NoProvenance, PathIn
    <3> QED
      BY <3>1, ChainIsSeq, NoneAssumption DEF Backs
  <2> QED
    BY <1>1, <2>1 DEF NoProvenance, input, Backs, PathIn
<1>2. CASE Enter
  <2>1. ASSUME NEW ids \in Chains, PathIn(records, lease, ids)
        PROVE  Follows(ids)'
    <3>1. Len(ids) \in Nat /\ Len(ids) # 0 /\ ids[1] = lease.provenance
      BY <2>1, ChainIsSeq, EmptySeq DEF PathIn
    <3>2. Standing(records, ids, 0, visited, child)'
      BY <1>2 DEF Enter, Standing
    <3> QED
      BY <1>2, <3>1, <3>2 DEF Enter, Follows
  <2> QED
    BY <1>2, <2>1 DEF Enter, input, Backs, PathIn
<1>3. CASE Cycle
  <2>1. \A ids \in Chains : ~PathIn(records, lease, ids)
    BY <1>3, NotBeenThere DEF Cycle, Follows
  <2> QED
    BY <1>3, <2>1 DEF Cycle, input, Backs, PathIn
<1>4. CASE RecordMissing
  <2>1. \A ids \in Chains : ~PathIn(records, lease, ids)
    BY <1>4, StandsHigher DEF RecordMissing, Visit, Follows
  <2> QED
    BY <1>4, <2>1 DEF RecordMissing, Visit, input, Backs, PathIn
<1>5. CASE ReachRoot
  <2>1. \A ids \in Chains : reasons' # {} => ~Backs(records, lease, now, ids)
    BY <1>5, FollowsUp DEF ReachRoot
  <2> QED
    BY <1>5, <2>1 DEF ReachRoot, input, Backs, PathIn
<1>6. CASE Climb
  <2>1. \A ids \in Chains :
          /\ reasons' # {} => ~Backs(records, lease, now, ids)
          /\ PathIn(records, lease, ids) => Follows(ids)'
    BY <1>6, FollowsUp DEF Climb
  <2>2. pc' = "walk"
    BY <1>6 DEF Climb, Visit
  <2> QED
    BY <1>6, <2>1, <2>2 DEF Climb, input, Backs, PathIn
<1>7. ASSUME NEW id \in ProvIds, Revoke(id) PROVE CauseInv'
  <2>1. PICK t \in RevocationInstants : records' = [records EXCEPT ![id].revoked_at = t]
    BY <1>7 DEF Revoke
  <2>2. /\ records[id] \in Record /\ records[id] # NONE /\ records[id].revoked_at = NONE
        /\ records \in [ProvIds -> Record \cup {NONE}]
    BY <1>7 DEF Revoke, TypeOK
  <2>3. /\ records'[id] \in Record /\ records'[id] # NONE
        /\ SameGrant(records[id], records'[id])
    <3>1. t \in Nat
      BY InputAssumption
    <3>2. [records[id] EXCEPT !.revoked_at = t] \in Record
      BY <2>2, <3>1 DEF Record, Instant
    <3>3. SameGrant(records[id], [records[id] EXCEPT !.revoked_at = t])
      BY <2>2 DEF Record, SameGrant
    <3> QED
      BY <2>1, <2>2, <3>2, <3>3, NoneAssumption
  <2>4. \A other \in ProvIds :
          /\ records'[other] = NONE <=> records[other] = NONE
          /\ records[other] # NONE => SameGrant(records[other], records'[other])
    <3>1. \A other \in ProvIds \ {id} : records'[other] = records[other]
      BY <2>1, <2>2
    <3> QED
      BY <2>2, <2>3, <3>1 DEF SameGrant
  <2>5. UNCHANGED <<input, pc, current, child, visited, lineage, reasons>>
    BY <1>7 DEF Revoke
  <2>6. ASSUME NEW ids \in Chains
        PROVE  /\ PathIn(records', lease, ids) => PathIn(records, lease, ids)
               /\ Backs(records', lease, now, ids) => Backs(records, lease, now, ids)
    BY <2>4, RevokingAddsNoChain
  <2>7. ASSUME NEW ids \in Chains, Follows(ids), PathIn(records, lease, ids)
        PROVE  Follows(ids)'
    <3>1. PICK k \in 0..(Len(ids) - 1) :
            Standing(records, ids, k, visited, child) /\ current = ids[k + 1]
      BY <2>7 DEF Follows
    <3>2. k > 0 => ids[k] \in ProvIds /\ records[ids[k]] # NONE
      BY <2>7, ChainIsSeq DEF PathIn
    <3>3. Standing(records, ids, k, visited, child)'
      BY <2>4, <2>5, <3>1, <3>2 DEF Standing, SameGrant
    <3> QED
      BY <2>5, <3>1, <3>3 DEF Follows
  <2>8. ASSUME NEW ids \in Chains
        PROVE  /\ PathIn(records, lease, ids)' = PathIn(records', lease, ids)
               /\ Backs(records, lease, now, ids)' = Backs(records', lease, now, ids)
    BY <2>5 DEF input, PathIn, Backs
  <2> QED
    BY <2>5, <2>6, <2>7, <2>8
<1>8. CASE UNCHANGED vars
  BY <1>8 DEF vars, Follows, Standing, Backs, PathIn
<1> QED
  BY <1>1, <1>2, <1>3, <1>4, <1>5, <1>6, <1>7, <1>8 DEF Next, Step

\* Whatever the store holds and whoever revokes meanwhile, a walk that returns reasons
\* leaves behind it a store in which no chain backs the lease.
THEOREM RefusalHasCause == Spec => []RefusedForCause
<1>1. Init => CauseInv
  BY InputAssumption DEF Init, CauseInv, TypeOK, Instant
<1>2. CauseInv /\ TypeOK' /\ [Next]_vars => CauseInv'
  BY NextCauseInv
<1>3. CauseInv => RefusedForCause
  BY DEF CauseInv, RefusedForCause, HasValidChain
<1> QED
  BY <1>1, <1>2, <1>3, TypeCorrect, PTL DEF Spec

-----------------------------------------------------------------------------
\* A walk takes at most two steps more than the store has records, each of which
\* uses one up, and no revocation gives one back: with the fairness of its thread it
\* returns, whatever the parents say and however long owners go on revoking.
THEOREM RunsOut ==
  Spec => [](StepsLeft \in 0..(Cardinality(ProvIds) + 2)) /\ WalkRunsOut
<1> DEFINE Unread == Cardinality(ProvIds \ visited)
           Bounded == StepsLeft \in 0..(Cardinality(ProvIds) + 2)
           Falls == IF UNCHANGED records THEN StepsLeft' < StepsLeft
                                         ELSE StepsLeft' = StepsLeft
<1>1. TypeOK => Bounded
  <2> SUFFICES ASSUME TypeOK PROVE Bounded
    OBVIOUS
  <2>1. Unread \in 0..Cardinality(ProvIds) /\ Cardinality(ProvIds) \in Nat
    BY UnreadIsFinite, StoreAssumption, FS_CardinalityType
  <2>2. [call |-> 2, walk |-> 1, returned |-> 0][pc] \in 0..2
    BY DEF TypeOK
  <2> HIDE DEF Unread
  <2>3. [call |-> 2, walk |-> 1, returned |-> 0][pc] + Unread
          \in 0..(Cardinality(ProvIds) + 2)
    BY <2>1, <2>2
  <2> QED BY <2>3 DEF StepsLeft, Unread
<1>2. TypeOK /\ [Next]_vars => [Falls]_vars
  <2> SUFFICES ASSUME TypeOK, Next PROVE Falls
    OBVIOUS
  <2>1. Unread \in Nat
    BY UnreadIsFinite
  <2>2. pc = "call" => StepsLeft = 2 + Unread
    BY DEF StepsLeft
  <2>3. pc = "walk" => StepsLeft = 1 + Unread
    BY DEF StepsLeft
  <2>4. pc' = "walk" => StepsLeft' = 1 + Unread'
    BY DEF StepsLeft
  <2>5. pc' = "returned" => StepsLeft' = Unread'
    BY <2>1, UnreadIsFinite DEF StepsLeft
  <2>6. visited' = visited => Unread' = Unread
    OBVIOUS
  <2>7. Visit => pc = "walk" /\ Unread' = Unread - 1
    BY OneReadLess DEF Visit, TypeOK
  <2> HIDE DEF Unread
  <2>8. ASSUME NEW id \in ProvIds, Revoke(id) PROVE Falls
    <3>1. StepsLeft' = StepsLeft
      BY <2>8 DEF Revoke, StepsLeft
    <3>2. records[id] \in Record
      BY <2>8 DEF Revoke, TypeOK
    <3>3. PICK t \in RevocationInstants : records' = [records EXCEPT ![id].revoked_at = t]
      BY <2>8 DEF Revoke
    <3>4. records'[id].revoked_at = t /\ t # NONE
      BY <3>2, <3>3, InputAssumption, NoneAssumption DEF TypeOK, Record, Instant
    <3>5. records' # records
      BY <2>8, <3>4 DEF Revoke
    <3> QED BY <3>1, <3>5
  <2>9. CASE NoProvenance
    BY <2>1, <2>2, <2>5, <2>6, <2>9 DEF NoProvenance
  <2>10. CASE Enter
    BY <2>1, <2>2, <2>4, <2>6, <2>10 DEF Enter
  <2>11. CASE Cycle
    BY <2>1, <2>3, <2>5, <2>6, <2>11 DEF Cycle
  <2>12. CASE RecordMissing
    BY <2>1, <2>3, <2>5, <2>7, <2>12 DEF RecordMissing
  <2>13. CASE ReachRoot
    BY <2>1, <2>3, <2>5, <2>7, <2>13 DEF ReachRoot
  <2>14. CASE Climb
    <3>1. pc' = "walk" /\ UNCHANGED records
      BY <2>7, <2>14 DEF Climb
    <3> QED BY <2>1, <2>3, <2>4, <2>7, <2>14, <3>1 DEF Climb
  <2> QED BY <2>8, <2>9, <2>10, <2>11, <2>12, <2>13, <2>14 DEF Next, Step
<1> HIDE DEF Bounded, Falls
<1>3. Spec => []Bounded /\ [][Falls]_vars
  BY <1>1, <1>2, TypeCorrect, PTL DEF Spec
<1> QED BY <1>3, PTL DEF WalkRunsOut, Falls, Bounded
=============================================================================
