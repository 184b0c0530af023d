--------------------------- MODULE AuthorizationProofs ---------------------------
(***************************************************************************)
(* Proofs about the authority of a call of ControlPlane: that an effect had *)
(* it, that a refusal for want of it is due, and that the control plane     *)
(* implements GovernedAction, for every store and every order of            *)
(* revocations and puts between the reads of a call.                        *)
(***************************************************************************)
EXTENDS ControlPlaneProofs, ProvenanceRulesProofs

USE DEF Instant

\* Of a delegation record, only the revocation may have been added.
OnlyRevoked(old, new) ==
  \/ new = old
  \/ /\ old # NONE
     /\ old.revoked_at = NONE
     /\ \E t \in Nat : new = [old EXCEPT !.revoked_at = t]

InForce(record, lease, instant) ==
  /\ record # NONE
  /\ record.issued_at <= instant
  /\ record.revoked_at = NONE \/ record.revoked_at > instant
  /\ lease.scope \subseteq record.scope

Linked(record, id, above) ==
  /\ record.parent = id
  /\ record.issuer = above.subject
  /\ record.scope \subseteq above.scope

\* ids is the faultless beginning of a chain that backs the lease in a store; child
\* is the record it ends with, as it was read.
Prefix(store, lease, instant, ids, child) ==
  /\ ids \in Seq(ProvIds)
  /\ ids = <<>> => child = NONE
  /\ ids # <<>> =>
       /\ child # NONE
       /\ OnlyRevoked(store[ids[Len(ids)]], child)
       /\ ids[1] = lease.provenance
       /\ store[ids[1]].subject = lease.agent
       /\ store[ids[1]].issuer = lease.issuer
       /\ store[ids[1]].epoch = lease.epoch
  /\ \A i \in 1..Len(ids) : InForce(store[ids[i]], lease, instant)
  /\ \A i \in 1..(Len(ids) - 1) : Linked(store[ids[i]], ids[i + 1], store[ids[i + 1]])

\* What the store may have been when the call read its lease.
Since(store) ==
  /\ store \in [ProvIds -> Record \cup {NONE}]
  /\ \A id \in ProvIds : OnlyRevoked(store[id], records[id])

\* The lease itself is good, and what was walked of its chain backed it then.
Climbing(c) ==
  \E store \in [ProvIds -> Record \cup {NONE}], ids \in Seq(ProvIds) :
    /\ Since(store)
    /\ HasValidChain(store, seen[c].lease, now[c]) => authority[c] = "held"
    /\ Prefix(store, seen[c].lease, now[c], ids, walk[c].child)
    /\ walk[c].current = IF ids = <<>> THEN seen[c].lease.provenance
                                       ELSE walk[c].child.parent
    /\ Len(ids) = Cardinality(walk[c].visited)

\* The stages before a call's authority is in question.
Unopened == {"idle", "rejected", "begin", "agent", "evidence", "lease"}

Lawful(c) ==
  /\ pc[c] \in Unopened =>
       authority[c] = "unopened" /\ ~torn[c] /\ walk[c] = NotWalking
  /\ pc[c] \in {"walk", "target", "mutate"} \/ torn[c] => authority[c] # "unopened"
  /\ ~torn[c] =>
       /\ pc[c] = "walk" /\ reasons[c] = {} => Climbing(c)
       /\ pc[c] \in {"target", "mutate"} /\ reasons[c] = {} => authority[c] = "held"
       /\ effects[c] # NONE => authority[c] = "held"

\* The inductive invariant behind EffectIsAuthorized.
LawInv == IInv /\ \A c \in Calls : Lawful(c)

-----------------------------------------------------------------------------
\* What a revocation leaves of a record.
LEMMA RevokedRecord ==
  ASSUME NEW old \in Record, NEW new, OnlyRevoked(old, new)
  PROVE  /\ new \in Record
         /\ old # NONE /\ new # NONE
         /\ new.subject = old.subject
         /\ new.issuer = old.issuer
         /\ new.scope = old.scope
         /\ new.epoch = old.epoch
         /\ new.issued_at = old.issued_at
         /\ new.parent = old.parent
         /\ old.revoked_at = NONE \/ new.revoked_at = old.revoked_at
  BY NoneAssumption DEF OnlyRevoked, Record

\* A revocation is made once.
LEMMA RevokedOnce ==
  ASSUME NEW old \in Record \cup {NONE}, NEW mid, NEW new,
         OnlyRevoked(old, mid), OnlyRevoked(mid, new)
  PROVE  OnlyRevoked(old, new)
<1>1. CASE mid = old
  BY <1>1
<1>2. CASE mid # old
  <2>1. PICK t \in Nat : /\ old # NONE
                         /\ old.revoked_at = NONE
                         /\ mid = [old EXCEPT !.revoked_at = t]
    BY <1>2 DEF OnlyRevoked
  <2>2. mid.revoked_at = t
    BY <2>1 DEF Record
  <2>3. new = mid
    BY <2>2, NoneAssumption DEF OnlyRevoked
  <2> QED
    BY <2>3
<1> QED
  BY <1>1, <1>2

\* An iteration without faults extends the prefix, and at the root completes it.
LEMMA Extend ==
  ASSUME NEW store \in [ProvIds -> Record \cup {NONE}], NEW lease, NEW instant \in Nat,
         NEW ids \in Seq(ProvIds), NEW child, NEW id \in ProvIds, NEW record \in Record,
         Prefix(store, lease, instant, ids, child),
         OnlyRevoked(store[id], record),
         Faults(lease, child, record, instant) = {},
         id = IF ids = <<>> THEN lease.provenance ELSE child.parent
  PROVE  /\ Prefix(store, lease, instant, Append(ids, id), record)
         /\ record.parent = NONE => Backs(store, lease, instant, Append(ids, id))
<1> DEFINE longer == Append(ids, id)
           n == Len(ids)
<1>1. /\ n \in Nat
      /\ longer \in Seq(ProvIds)
      /\ longer # <<>>
      /\ Len(longer) = n + 1
      /\ longer[n + 1] = id
      /\ \A i \in 1..n : longer[i] = ids[i] /\ ids[i] \in ProvIds
      /\ ids = <<>> <=> n = 0
  <2>1. n \in Nat /\ (ids = <<>> <=> n = 0)
    BY EmptySeq, LenProperties
  <2>2. /\ longer \in Seq(ProvIds)
        /\ Len(longer) = n + 1
        /\ longer[n + 1] = id
        /\ \A i \in 1..n : longer[i] = ids[i]
    BY AppendProperties
  <2>3. \A i \in 1..n : ids[i] \in ProvIds
    BY ElementOfSeq
  <2>4. longer # <<>>
    BY <2>1, <2>2
  <2> QED
    BY <2>1, <2>2, <2>3, <2>4
<1> HIDE DEF longer
<1>2. store[id] \in Record
  <2>1. CASE store[id] = NONE
    BY <2>1, NoneAssumption DEF OnlyRevoked
  <2>2. CASE store[id] # NONE
    BY <2>2
  <2> QED
    BY <2>1, <2>2
<1>3. /\ store[id] # NONE /\ record # NONE
      /\ record.subject = store[id].subject
      /\ record.issuer = store[id].issuer
      /\ record.scope = store[id].scope
      /\ record.epoch = store[id].epoch
      /\ record.issued_at = store[id].issued_at
      /\ record.parent = store[id].parent
      /\ store[id].revoked_at = NONE \/ record.revoked_at = store[id].revoked_at
  BY <1>2, RevokedRecord
<1>4. /\ ~(record.issued_at > instant)
      /\ ~(record.revoked_at # NONE /\ record.revoked_at <= instant)
      /\ child = NONE => /\ record.subject = lease.agent
                         /\ record.issuer = lease.issuer
                         /\ record.epoch = lease.epoch
                         /\ lease.scope \subseteq record.scope
      /\ child # NONE => /\ child.issuer = record.subject
                         /\ child.scope \subseteq record.scope
      /\ record.parent = NONE => record.issuer \in TrustedRoots
  BY NoFaults
<1>5. /\ store[id].issued_at <= instant
      /\ store[id].revoked_at = NONE \/ store[id].revoked_at > instant
  BY <1>2, <1>3, <1>4 DEF Record
<1>6. n > 0 => /\ child # NONE
               /\ store[ids[n]] \in Record
               /\ InForce(store[ids[n]], lease, instant)
               /\ child.parent = store[ids[n]].parent
               /\ child.issuer = store[ids[n]].issuer
               /\ child.scope = store[ids[n]].scope
  <2> SUFFICES ASSUME n > 0
               PROVE  /\ child # NONE
                      /\ store[ids[n]] \in Record
                      /\ InForce(store[ids[n]], lease, instant)
                      /\ child.parent = store[ids[n]].parent
                      /\ child.issuer = store[ids[n]].issuer
                      /\ child.scope = store[ids[n]].scope
    OBVIOUS
  <2>1. /\ child # NONE
        /\ OnlyRevoked(store[ids[n]], child)
        /\ InForce(store[ids[n]], lease, instant)
    BY <1>1 DEF Prefix
  <2>2. store[ids[n]] \in Record
    BY <1>1, <2>1 DEF InForce
  <2> QED
    BY <2>1, <2>2, RevokedRecord
<1>7. InForce(store[id], lease, instant)
  <2>1. CASE n = 0
    BY <1>1, <1>3, <1>4, <1>5, <2>1 DEF InForce, Prefix
  <2>2. CASE n > 0
    BY <1>3, <1>4, <1>5, <1>6, <2>2 DEF InForce
  <2> QED
    BY <1>1, <2>1, <2>2
<1>8. \A i \in 1..Len(longer) : InForce(store[longer[i]], lease, instant)
  BY <1>1, <1>7 DEF Prefix
<1>9. \A i \in 1..(Len(longer) - 1) : Linked(store[longer[i]], longer[i + 1], store[longer[i + 1]])
  <2> SUFFICES ASSUME NEW i \in 1..n
               PROVE  Linked(store[longer[i]], longer[i + 1], store[longer[i + 1]])
    BY <1>1
  <2>1. CASE i = n
    BY <1>1, <1>3, <1>4, <1>6, <2>1 DEF Linked
  <2>2. CASE i # n
    <3>1. i \in 1..(n - 1) /\ i + 1 \in 1..n
      BY <1>1, <2>2
    <3>2. Linked(store[ids[i]], ids[i + 1], store[ids[i + 1]])
      BY <3>1 DEF Prefix
    <3> QED
      BY <1>1, <3>1, <3>2
  <2> QED
    BY <2>1, <2>2
<1>10. /\ longer[1] = lease.provenance
       /\ store[longer[1]].subject = lease.agent
       /\ store[longer[1]].issuer = lease.issuer
       /\ store[longer[1]].epoch = lease.epoch
  <2>1. CASE n = 0
    BY <1>1, <1>3, <1>4, <2>1 DEF Prefix
  <2>2. CASE n > 0
    BY <1>1, <2>2 DEF Prefix
  <2> QED
    BY <1>1, <2>1, <2>2
<1>11. Prefix(store, lease, instant, longer, record)
  BY <1>1, <1>3, <1>8, <1>9, <1>10 DEF Prefix
<1>12. ASSUME record.parent = NONE PROVE Backs(store, lease, instant, longer)
  <2>1. PathIn(store, lease, longer)
    BY <1>1, <1>3, <1>8, <1>9, <1>10, <1>12 DEF PathIn, InForce, Linked
  <2> QED
    BY <1>1, <1>3, <1>4, <1>8, <1>9, <1>10, <1>12, <2>1 DEF Backs, InForce, Linked
<1> QED
  BY <1>11, <1>12 DEF longer

-----------------------------------------------------------------------------
\* What the store was when a call read its lease stays so under revocations ...
LEMMA SinceKept ==
  ASSUME NEW store, Since(store),
         \A id \in ProvIds : OnlyRevoked(records[id], records'[id])
  PROVE  Since(store)'
<1>1. ASSUME NEW id \in ProvIds
      PROVE  OnlyRevoked(store[id], records'[id])
  <2>1. /\ store[id] \in Record \cup {NONE}
        /\ OnlyRevoked(store[id], records[id])
        /\ OnlyRevoked(records[id], records'[id])
    BY DEF Since
  <2> QED
    BY <2>1, RevokedOnce
<1> QED
  BY <1>1 DEF Since, OnlyRevoked

\* ... and so does all that a call has established while it takes no step itself, unless
\* its walk is torn.
LEMMA LawFrame ==
  ASSUME NEW d \in Calls, IInv, Lawful(d),
         pc'[d] = pc[d], call'[d] = call[d], now'[d] = now[d], seen'[d] = seen[d],
         walk'[d] = walk[d], reasons'[d] = reasons[d], effects'[d] = effects[d],
         authority'[d] = authority[d],
         torn[d] => torn'[d],
         torn'[d] => torn[d] \/ pc[d] = "walk",
         pc[d] = "walk" /\ ~torn'[d] =>
           \A id \in ProvIds : OnlyRevoked(records[id], records'[id])
  PROVE  Lawful(d)'
<1>2. ASSUME pc[d] = "walk", ~torn'[d], Climbing(d)
      PROVE  Climbing(d)'
  <2>1. PICK store \in [ProvIds -> Record \cup {NONE}], ids \in Seq(ProvIds) :
          /\ Since(store)
          /\ HasValidChain(store, seen[d].lease, now[d]) => authority[d] = "held"
          /\ Prefix(store, seen[d].lease, now[d], ids, walk[d].child)
          /\ walk[d].current = IF ids = <<>> THEN seen[d].lease.provenance
                                             ELSE walk[d].child.parent
          /\ Len(ids) = Cardinality(walk[d].visited)
    BY <1>2 DEF Climbing
  <2>2. Since(store)'
    BY <1>2, <2>1, SinceKept
  <2>3. HasValidChain(store, seen[d].lease, now[d])'
          = HasValidChain(store, seen[d].lease, now[d])
    BY DEF HasValidChain, Backs, PathIn
  <2>4. Prefix(store, seen[d].lease, now[d], ids, walk[d].child)'
    BY <2>1 DEF Prefix, OnlyRevoked, InForce, Linked
  <2>5. Cardinality(walk[d].visited)' = Cardinality(walk[d].visited)
    OBVIOUS
  <2> QED
    BY <2>1, <2>2, <2>3, <2>4, <2>5 DEF Climbing
<1> QED
  BY <1>2 DEF Lawful, Unopened

LEMMA InitLaw == Init => LawInv
<1> SUFFICES ASSUME Init PROVE LawInv
  OBVIOUS
<1>1. IInv
  BY InitIInv
<1>2. \A c \in Calls : Lawful(c)
  BY DEF Init, Lawful, Unopened
<1> QED
  BY <1>1, <1>2 DEF LawInv

\* The instant is taken, and identity and evidence are read, before authority is in
\* question.
LEMMA UnopenedStays ==
  ASSUME LawInv, NEW c \in Calls,
         Enter(c) \/ Begin(c) \/ ReadAgent(c) \/ ReadEvidence(c)
  PROVE  Lawful(c)'
<1> USE DEF LawInv, IInv, TypeInv, TypeOK, Goto
<1>1. /\ pc[c] \in Unopened
      /\ pc'[c] \in Unopened \cup {"receipt"}
      /\ UNCHANGED <<walk, authority, torn, effects>>
  <2>1. CASE Enter(c)
    BY <2>1 DEF Enter, ProposalRejected, ProposalBound, CalledDirectly, locals, outcome,
                history, Unopened
  <2>2. CASE Begin(c) \/ ReadAgent(c) \/ ReadEvidence(c)
    BY <2>2 DEF Begin, ReadAgent, ReadEvidence, outcome, history, Unopened
  <2> QED
    BY <2>1, <2>2
<1>2. effects[c] = NONE
  BY <1>1 DEF Own, Progress, Unopened
<1> QED
  BY <1>1, <1>2 DEF Lawful, Unopened

\* A lease without faults leaves only its chain in doubt.
LEMMA LeaseLaw ==
  ASSUME LawInv, NEW c \in Calls, ReadLease(c)
  PROVE  Lawful(c)'
<1> DEFINE lease == leases[call[c].lease]
           walks == RequireProvenance /\ lease.provenance # NONE
           holds == Authorizes(lease, call[c].intent, now[c], records)
<1>1. /\ pc[c] = "lease" /\ pc'[c] = IF walks THEN "walk" ELSE "target"
      /\ lease # NONE
      /\ seen'[c].lease = lease
      /\ walk'[c] = [walk[c] EXCEPT !.current = IF walks THEN lease.provenance ELSE NONE]
      /\ reasons'[c] = reasons[c] \cup AuthorityFaults(c, lease)
      /\ now'[c] = now[c]
      /\ authority'[c] = IF holds THEN "held" ELSE "lacking"
      /\ UNCHANGED <<leases, records, call, torn, effects>>
  BY DEF ReadLease, OpenAuthority, Goto, AddReasons, LawInv, IInv, TypeInv, TypeOK, Reads,
         Walk, registries, outcome
<1>2. /\ ~torn[c]
      /\ walk[c] = NotWalking
      /\ effects[c] = NONE
      /\ call[c].intent.agent = call[c].identity.agent
      /\ now[c] \in Nat
      /\ lease \in Lease
      /\ records \in [ProvIds -> Record \cup {NONE}]
  BY <1>1 DEF LawInv, Lawful, Unopened, IInv, Own, Progress, TypeInv, TypeOK, WellStaged,
              DirectCall
<1>3. authority'[c] # "unopened" /\ pc'[c] \notin Unopened
  BY <1>1 DEF Unopened
<1>4. CASE reasons'[c] # {}
  BY <1>1, <1>2, <1>3, <1>4 DEF Lawful
<1>5. CASE reasons'[c] = {}
  <2>1. /\ lease.agent = call[c].intent.agent
        /\ call[c].intent.action \in lease.scope
        /\ ~RevokedBy(lease, now[c])
        /\ ~(lease.expires_at <= now[c])
        /\ ~(RequireProvenance /\ lease.provenance = NONE)
    BY <1>1, <1>2, <1>5 DEF AuthorityFaults, When
  <2>2. /\ lease.expires_at > now[c]
        /\ lease.revoked_at = NONE \/ lease.revoked_at > now[c]
    BY <1>2, <2>1 DEF Lease, RevokedBy
  <2>3. (RequireProvenance => HasValidChain(records, lease, now[c])) => authority'[c] = "held"
    BY <1>1, <2>1, <2>2 DEF Authorizes
  <2>4. CASE ~walks
    BY <1>1, <1>2, <1>3, <2>1, <2>3, <2>4 DEF Lawful
  <2>5. CASE walks
    <3> DEFINE none == <<>>
    <3>1. /\ none \in Seq(ProvIds) /\ Len(none) = 0
          /\ Cardinality(walk'[c].visited) = 0
      BY <1>1, <1>2, EmptySeq, FS_EmptySet DEF NotWalking
    <3>2. Prefix(records, lease, now[c], none, NONE)
      BY <3>1 DEF Prefix
    <3>3. Since(records)'
      BY <1>1, <1>2 DEF Since, OnlyRevoked
    <3>4. HasValidChain(records, seen[c].lease, now[c])' => authority'[c] = "held"
      BY <1>1, <2>3 DEF HasValidChain, Backs, PathIn
    <3>5. walk'[c].child = NONE /\ walk'[c].current = lease.provenance
      BY <1>1, <1>2, <2>5 DEF NotWalking
    <3>6. Prefix(records, seen[c].lease, now[c], none, walk[c].child)'
      BY <1>1, <3>2, <3>5 DEF Prefix, OnlyRevoked, InForce, Linked
    <3>7. Climbing(c)'
      BY <1>1, <1>2, <3>1, <3>3, <3>4, <3>5, <3>6 DEF Climbing
    <3> QED
      BY <1>1, <1>2, <1>3, <2>5, <3>7 DEF Lawful
  <2> QED
    BY <2>4, <2>5
<1> QED
  BY <1>4, <1>5

\* A record without faults lengthens the prefix by one; the root completes a chain.
LEMMA WalkLaw ==
  ASSUME LawInv, NEW c \in Calls, WalkRecord(c)
  PROVE  Lawful(c)'
<1> DEFINE id     == walk[c].current
           record == records[id]
           faults == Faults(seen[c].lease, walk[c].child, record, now[c])
<1>1. /\ pc[c] = "walk" /\ pc'[c] = IF record.parent = NONE THEN "target" ELSE "walk"
      /\ id \notin walk[c].visited
      /\ record # NONE
      /\ walk'[c] = [current |-> record.parent, child |-> record,
                     visited |-> walk[c].visited \cup {id}]
      /\ reasons'[c] = reasons[c] \cup faults
      /\ UNCHANGED <<leases, records, call, now, seen, authority, torn, effects>>
  BY DEF WalkRecord, Goto, AddReasons, LawInv, IInv, TypeInv, TypeOK, registries,
         outcome, history
<1>2. /\ authority[c] # "unopened"
      /\ reasons[c] = {} /\ ~torn[c] => Climbing(c)
      /\ pc'[c] \notin Unopened
      /\ effects[c] = NONE
      /\ now[c] \in Nat
      /\ id \in ProvIds
      /\ record \in Record
      /\ walk[c].visited \in SUBSET ProvIds
  BY <1>1 DEF LawInv, Lawful, Unopened, IInv, Own, Progress, TypeInv, TypeOK, WellStaged,
              Walk
<1>3. CASE reasons'[c] # {} \/ torn[c]
  BY <1>1, <1>2, <1>3 DEF Lawful
<1>4. CASE reasons'[c] = {} /\ ~torn[c]
  <2>1. reasons[c] = {} /\ faults = {}
    BY <1>1, <1>4
  <2>2. PICK store \in [ProvIds -> Record \cup {NONE}], ids \in Seq(ProvIds) :
          /\ Since(store)
          /\ HasValidChain(store, seen[c].lease, now[c]) => authority[c] = "held"
          /\ Prefix(store, seen[c].lease, now[c], ids, walk[c].child)
          /\ id = IF ids = <<>> THEN seen[c].lease.provenance ELSE walk[c].child.parent
          /\ Len(ids) = Cardinality(walk[c].visited)
    BY <1>2, <1>4, <2>1 DEF Climbing
  <2>3. OnlyRevoked(store[id], record)
    BY <1>2, <2>2 DEF Since
  <2>4. PICK longer \in Seq(ProvIds) : longer = Append(ids, id)
    BY <1>2, AppendProperties
  <2>5. /\ Prefix(store, seen[c].lease, now[c], longer, record)
        /\ record.parent = NONE => Backs(store, seen[c].lease, now[c], longer)
    BY <1>2, <2>1, <2>2, <2>3, <2>4, Extend
  <2>6. /\ longer # <<>>
        /\ Len(longer) = Len(ids) + 1
        /\ longer[Len(longer)] = id
        /\ Len(ids) \in Nat
        /\ longer \in [1..Len(longer) -> ProvIds]
    <3>1. /\ longer # <<>> /\ Len(longer) = Len(ids) + 1
          /\ longer[Len(ids) + 1] = id
      BY <1>2, <2>4, AppendProperties
    <3>2. longer \in [1..Len(longer) -> ProvIds] /\ Len(ids) \in Nat
      BY LenProperties
    <3> QED
      BY <3>1, <3>2
  <2>7. /\ Len(longer) = Cardinality(walk[c].visited \cup {id})
        /\ Len(longer) <= Cardinality(ProvIds)
    <3>1. IsFiniteSet(walk[c].visited)
      BY <1>2, StoreAssumption, FS_Subset
    <3>2. Cardinality(walk[c].visited \cup {id}) = Cardinality(walk[c].visited) + 1
      BY <1>1, <3>1, FS_AddElement
    <3>3. walk[c].visited \cup {id} \in SUBSET ProvIds
      BY <1>2
    <3>4. Cardinality(walk[c].visited \cup {id}) <= Cardinality(ProvIds)
      BY <3>3, StoreAssumption, FS_Subset
    <3> QED
      BY <2>2, <2>6, <3>2, <3>4
  <2>8. CASE record.parent = NONE
    <3>1. longer \in Chains
      <4>1. Cardinality(ProvIds) \in Nat
        BY StoreAssumption, FS_CardinalityType
      <4>2. Len(longer) \in 1..Cardinality(ProvIds)
        BY <2>6, <2>7, <4>1
      <4> QED
        BY <2>6, <4>2 DEF Chains
    <3>2. authority[c] = "held"
      BY <2>2, <2>5, <2>8, <3>1 DEF HasValidChain
    <3> QED
      BY <1>1, <1>2, <2>8, <3>2 DEF Lawful
  <2>9. CASE record.parent # NONE
    <3>1. Since(store)'
      BY <1>1, <2>2 DEF Since, OnlyRevoked
    <3>2. HasValidChain(store, seen[c].lease, now[c])' => authority'[c] = "held"
      BY <1>1, <2>2 DEF HasValidChain, Backs, PathIn
    <3>3. /\ walk'[c].child = record /\ walk'[c].current = record.parent
          /\ walk'[c].visited = walk[c].visited \cup {id}
      BY <1>1
    <3>4. Prefix(store, seen[c].lease, now[c], longer, walk[c].child)'
      BY <1>1, <2>5, <3>3 DEF Prefix, OnlyRevoked, InForce, Linked
    <3>5. Cardinality(walk[c].visited)' = Len(longer)
      BY <2>7, <3>3
    <3>6. Climbing(c)'
      BY <2>2, <2>6, <3>1, <3>2, <3>3, <3>4, <3>5 DEF Climbing
    <3> QED
      BY <1>1, <1>2, <2>9, <3>6 DEF Lawful
  <2> QED
    BY <2>8, <2>9
<1> QED
  BY <1>3, <1>4

\* The other steps of a call add a reason, pass on what was established, or come
\* before or after the decision.
LEMMA OtherLaw ==
  ASSUME LawInv, NEW c \in Calls,
         LeaseMissing(c) \/ WalkBroken(c) \/ ReadTarget(c) \/ Commit(c) \/ Crash(c)
  PROVE  Lawful(c)'
<1> USE DEF LawInv, IInv, TypeInv, TypeOK, Goto, AddReasons, Unopened
<1>1. CASE LeaseMissing(c)
  <2>1. /\ pc[c] = "lease" /\ pc'[c] = "target"
        /\ reasons'[c] # {}
        /\ authority'[c] \in {"held", "lacking"}
        /\ UNCHANGED <<walk, torn, effects>>
    BY <1>1 DEF LeaseMissing, OpenAuthority, outcome
  <2>2. effects[c] = NONE /\ ~torn[c]
    BY <2>1 DEF Own, Progress, Lawful
  <2> QED
    BY <2>1, <2>2 DEF Lawful
<1>2. CASE WalkBroken(c)
  <2>1. PICK reason \in {"PROVENANCE_CYCLE", "PROVENANCE_RECORD_MISSING"} :
          reasons' = [reasons EXCEPT ![c] = @ \cup {reason}]
    BY <1>2 DEF WalkBroken
  <2>2. /\ pc[c] = "walk" /\ pc'[c] = "target"
        /\ UNCHANGED <<walk, authority, torn, effects>>
    BY <1>2 DEF WalkBroken, outcome, history
  <2>3. effects[c] = NONE /\ reasons'[c] # {}
    BY <2>1, <2>2 DEF Own, Progress
  <2> QED
    BY <2>2, <2>3 DEF Lawful
<1>3. CASE ReadTarget(c)
  <2>1. /\ pc[c] = "target" /\ pc'[c] \in {"mutate", "receipt"}
        /\ reasons[c] \subseteq reasons'[c]
        /\ UNCHANGED <<walk, authority, torn, effects>>
    BY <1>3 DEF ReadTarget, outcome, history
  <2> QED
    BY <2>1 DEF Lawful
<1>4. CASE Mutate(c)
  <2>1. /\ pc[c] = "mutate" /\ pc'[c] = "receipt"
        /\ UNCHANGED <<walk, authority, torn, reasons>>
    BY <1>4 DEF Mutate, locals, history
  <2>2. reasons[c] = {}
    BY <2>1 DEF WellStaged
  <2> QED
    BY <2>1, <2>2 DEF Lawful
<1>5. CASE PutReceipt(c) \/ ReplayRegistry(c) \/ ReplayTarget(c)
  <2>1. /\ pc[c] \in {"receipt", "replay_registry", "replay_target"}
        /\ pc'[c] \in {"replay_registry", "replay_target", "done"}
        /\ UNCHANGED <<walk, authority, torn, effects>>
    BY <1>5 DEF PutReceipt, ReplayRegistry, ReplayTarget, locals, history
  <2> QED
    BY <2>1 DEF Lawful
<1>6. CASE Crash(c)
  <2>1. /\ pc'[c] = "crashed"
        /\ UNCHANGED <<walk, authority, torn, effects>>
    BY <1>6 DEF Crash, locals, outcome, history
  <2> QED
    BY <2>1 DEF Lawful
<1> QED
  BY <1>1, <1>2, <1>3, <1>4, <1>5, <1>6 DEF Commit

\* A call takes its steps on its own locals, and writes nothing the others read.
LEMMA CallsApart ==
  ASSUME TypeOK, NEW c \in Calls, Enter(c) \/ Gates(c) \/ Commit(c) \/ Crash(c)
  PROVE  /\ UNCHANGED <<leases, records, torn>>
         /\ \A d \in Calls \ {c} :
              /\ pc'[d] = pc[d] /\ call'[d] = call[d] /\ now'[d] = now[d]
              /\ seen'[d] = seen[d] /\ walk'[d] = walk[d] /\ reasons'[d] = reasons[d]
              /\ effects'[d] = effects[d] /\ receipts'[d] = receipts[d]
              /\ authority'[d] = authority[d]
<1> USE DEF TypeOK, Goto, AddReasons, OpenAuthority, registries, locals, outcome, history
<1>1. CASE Enter(c) \/ Crash(c)
  BY <1>1 DEF Enter, Crash, ProposalRejected, ProposalBound, CalledDirectly
<1>2. CASE Begin(c) \/ ReadAgent(c) \/ ReadEvidence(c) \/ LeaseMissing(c)
  BY <1>2 DEF Begin, ReadAgent, ReadEvidence, LeaseMissing
<1>3. CASE ReadLease(c) \/ WalkBroken(c) \/ WalkRecord(c) \/ ReadTarget(c)
  BY <1>3 DEF ReadLease, WalkBroken, WalkRecord, ReadTarget
<1>4. CASE Commit(c)
  BY <1>4 DEF Commit, Mutate, PutReceipt, ReplayRegistry, ReplayTarget
<1> QED
  BY <1>1, <1>2, <1>3, <1>4 DEF Gates

\* Around the calls, records are only ever revoked, or the walks under way are torn.
LEMMA AroundTears ==
  ASSUME TypeOK, (\E p \in Promoters : Promote(p)) \/ Environment, NEW d \in Calls
  PROVE  /\ torn[d] => torn'[d]
         /\ torn'[d] => torn[d] \/ pc[d] = "walk"
         /\ pc[d] = "walk" /\ ~torn'[d] =>
              \A id \in ProvIds : OnlyRevoked(records[id], records'[id])
<1>1. ASSUME NEW id \in RevocableRecords, RevokeRecord(id)
      PROVE  torn' = torn /\ \A k \in ProvIds : OnlyRevoked(records[k], records'[k])
  <2>1. PICK t \in 0..clock : records' = [records EXCEPT ![id].revoked_at = t]
    BY <1>1 DEF RevokeRecord
  <2>2. t \in Nat /\ records[id] # NONE /\ records[id].revoked_at = NONE /\ torn' = torn
    BY <1>1, <2>1 DEF RevokeRecord, TypeOK, history
  <2> QED
    BY <2>1, <2>2 DEF TypeOK, OnlyRevoked
<1>2. ASSUME NEW put \in RecordPuts, PutRecord(put[1], put[2])
      PROVE  torn'[d] = (torn[d] \/ pc[d] = "walk")
  BY <1>2 DEF PutRecord
<1>3. CASE \/ \E p \in Promoters : Promote(p)
           \/ \E a \in Actors : AdvanceRead(a)
           \/ AdvanceWrite
           \/ \E l \in RevocableLeases : RevokeRead(l)
           \/ RevokeWrite
           \/ \E put \in AgentPuts : PutAgent(put[1], put[2])
           \/ \E put \in LeasePuts : PutLease(put[1], put[2])
           \/ \E put \in TargetPuts : PutTarget(put[1], put[2])
           \/ \E e \in LosableEvidence : LoseEvidence(e) \/ PutEvidence(e)
           \/ Tick
  <2>1. UNCHANGED <<records, torn>>
    BY <1>3 DEF Promote, PromoteRead, PromoteCheck, PromoteWrite, AdvanceRead, AdvanceWrite,
                RevokeRead, RevokeWrite, PutAgent, PutLease, PutTarget, LoseEvidence,
                PutEvidence, Tick, registries, history
  <2> QED
    BY <2>1 DEF OnlyRevoked
<1> QED
  BY <1>1, <1>2, <1>3 DEF Environment, TypeOK

LEMMA NextLaw == LawInv /\ [Next]_vars => LawInv'
<1> SUFFICES ASSUME LawInv, [Next]_vars PROVE LawInv'
  OBVIOUS
<1>1. IInv'
  BY NextIInv DEF LawInv
<1>2. TypeOK
  BY DEF LawInv, IInv, TypeInv
<1>3. ASSUME NEW c \in Calls, Enter(c) \/ Gates(c) \/ Commit(c) \/ Crash(c)
      PROVE  \A d \in Calls : Lawful(d)'
  <2>1. Lawful(c)'
    BY <1>3, UnopenedStays, LeaseLaw, WalkLaw, OtherLaw DEF Gates
  <2>2. \A d \in Calls \ {c} : Lawful(d)'
    BY <1>2, <1>3, CallsApart, LawFrame DEF LawInv, OnlyRevoked
  <2> QED
    BY <2>1, <2>2
<1>4. CASE (\E p \in Promoters : Promote(p)) \/ Environment
  <2>1. UNCHANGED <<locals, outcome, pc, authority>>
    BY <1>4, AroundCalls
  <2> QED
    BY <1>1, <1>2, <1>4, <2>1, AroundTears, LawFrame DEF LawInv, locals, outcome
<1>5. CASE UNCHANGED vars
  BY <1>1, <1>5, LawFrame
     DEF LawInv, OnlyRevoked, vars, registries, locals, outcome, history
<1> QED
  BY <1>1, <1>3, <1>4, <1>5 DEF Next, LawInv

LEMMA LawInductive == Spec => []LawInv
  BY InitLaw, NextLaw, PTL DEF Spec

\* However revocations and puts fall between the reads of a call, a material effect had
\* authority: the lease it acted on, and the whole chain in the store as it stood when
\* that lease was read, were in force as of the call's decision instant, unless a record
\* was put while the call walked the chain.
THEOREM EffectsAreAuthorized == Spec => []EffectIsAuthorized
<1>1. LawInv => EffectIsAuthorized
  BY DEF LawInv, Lawful, EffectIsAuthorized
<1> QED
  BY <1>1, LawInductive, PTL

-----------------------------------------------------------------------------
\* What the contract sees of a call: its authority, its effect and its verdict.
ContractAuthority == [c \in Calls |-> IF torn[c] THEN "torn" ELSE authority[c]]

LEMMA ContractBlind ==
  ASSUME UNCHANGED <<authority, torn, effects, receipts>>
  PROVE  UNCHANGED Contract!vars
  BY DEF Contract!vars

\* A call on its way to its effect is undecided.
LEMMA StillUndecided ==
  ASSUME LawInv, NEW c \in Calls, pc[c] \in {"lease", "walk", "mutate"}
  PROVE  Contract!Undecided(c)
<1>1. effects[c] = NONE /\ receipts[c] = NONE
  BY DEF LawInv, IInv, Own, Progress
<1> QED
  BY <1>1 DEF Contract!Undecided

LEMMA LeaseOpens ==
  ASSUME LawInv, NEW c \in Calls, LeaseMissing(c) \/ ReadLease(c)
  PROVE  Contract!Open(c)
<1>1. PICK a \in {"held", "lacking"} : authority' = [authority EXCEPT ![c] = a]
  BY DEF LeaseMissing, ReadLease, OpenAuthority
<1>2. /\ pc[c] = "lease"
      /\ UNCHANGED <<torn, effects, receipts>>
  BY DEF LeaseMissing, ReadLease, OpenAuthority, Goto, outcome
<1>3. authority[c] = "unopened" /\ ~torn[c]
  BY <1>2 DEF LawInv, Lawful, Unopened
<1>4. authority \in [Calls -> {"unopened", "held", "lacking"}]
  BY DEF LawInv, IInv, TypeInv, TypeOK
<1>5. ContractAuthority' = [ContractAuthority EXCEPT ![c] = a] /\ ContractAuthority[c] = "unopened"
  BY <1>1, <1>2, <1>3, <1>4 DEF ContractAuthority
<1>6. Contract!Undecided(c)
  BY <1>2, StillUndecided
<1> QED
  BY <1>2, <1>5, <1>6 DEF Contract!Open, ContractAuthority

\* A record put under a walk tears it, and no call that is not walking.
LEMMA PutTears ==
  ASSUME LawInv, NEW id, NEW document, PutRecord(id, document)
  PROVE  Contract!Tear
<1> DEFINE readers == {c \in Calls : pc[c] = "walk"}
<1>1. /\ torn' = [c \in Calls |-> torn[c] \/ pc[c] = "walk"]
      /\ UNCHANGED <<authority, effects, receipts>>
  BY DEF PutRecord, outcome
<1>2. ASSUME NEW c \in readers
      PROVE  ContractAuthority[c] # "unopened" /\ Contract!Undecided(c)
  <2>1. authority[c] # "unopened"
    BY DEF LawInv, Lawful
  <2> QED
    BY <2>1, StillUndecided DEF ContractAuthority
<1>3. ContractAuthority' = [c \in Calls |-> IF c \in readers THEN "torn"
                                                            ELSE ContractAuthority[c]]
  BY <1>1 DEF ContractAuthority
<1>4. readers \in SUBSET {c \in Calls : ContractAuthority[c] # "unopened"
                                         /\ Contract!Undecided(c)}
  BY <1>2
<1> HIDE DEF readers
<1> QED
  BY <1>1, <1>3, <1>4 DEF Contract!Tear, ContractAuthority

LEMMA MutateActs ==
  ASSUME LawInv, NEW c \in Calls, Mutate(c)
  PROVE  Contract!Act(c)
<1>1. /\ pc[c] = "mutate"
      /\ effects' = [effects EXCEPT ![c] = Payload(c)]
      /\ UNCHANGED <<authority, torn, receipts>>
  BY DEF Mutate, Goto, history
<1>2. /\ reasons[c] = {}
      /\ effects[c] = NONE
      /\ call[c] \in DirectCall /\ seen[c].target \in Target
      /\ effects \in [Calls -> Effect \cup {NONE}]
  BY <1>1 DEF LawInv, IInv, TypeInv, TypeOK, WellStaged, Own, Progress, Reads
<1>3. ContractAuthority[c] \in {"held", "torn"}
  BY <1>1, <1>2 DEF LawInv, Lawful, ContractAuthority
<1>4. Payload(c) # NONE
  <2>1. call[c].intent.target \in TargetIds
    BY <1>2 DEF DirectCall, Intent
  <2>2. Payload(c) \in Effect
    BY <1>2, <2>1, HashTyped DEF Payload, Effect, DirectCall, Intent, Identity
  <2> QED
    BY <2>2, InputAssumption
<1>5. {d \in Calls : effects'[d] # NONE} = {d \in Calls : effects[d] # NONE} \cup {c}
  BY <1>1, <1>2, <1>4
<1>6. Contract!Undecided(c)
  BY <1>1, StillUndecided
<1> QED
  BY <1>1, <1>3, <1>5, <1>6 DEF Contract!Act, ContractAuthority

LEMMA PutReceiptDecides ==
  ASSUME LawInv, NEW c \in Calls, PutReceipt(c)
  PROVE  Contract!Decide(c)
<1> DEFINE decision == IF reasons[c] = {} THEN "ALLOW" ELSE "BLOCK"
           verdict  == [d \in Calls |-> IF receipts[d] = NONE THEN "none"
                                                             ELSE receipts[d].decision]
<1>1. /\ pc[c] = "receipt"
      /\ receipts' = [receipts EXCEPT ![c] = Receipt(c, decision)]
      /\ UNCHANGED <<authority, torn, effects>>
  BY DEF PutReceipt, Goto, history
<1>2. /\ receipts[c] = NONE
      /\ reasons[c] = {} <=> effects[c] # NONE
      /\ receipts \in [Calls -> ReceiptType \cup {NONE}]
      /\ TypeInv
  BY <1>1 DEF LawInv, IInv, TypeInv, TypeOK, Own, Settled
<1>3. Receipt(c, decision) # NONE
  BY <1>1, <1>2, ReceiptTyped, InputAssumption
<1>4. Receipt(c, decision).decision = decision
  BY DEF Receipt
<1>5. receipts'[c] = Receipt(c, decision) /\ \A d \in Calls \ {c} : receipts'[d] = receipts[d]
  BY <1>1, <1>2
<1>6. verdict' = [verdict EXCEPT ![c] = decision]
  BY <1>3, <1>4, <1>5
<1>7. decision = IF c \in {d \in Calls : effects[d] # NONE} THEN "ALLOW" ELSE "BLOCK"
  BY <1>2
<1> QED
  BY <1>1, <1>2, <1>6, <1>7 DEF Contract!Decide

\* Every step opens, tears, acts on or decides a call of the contract, or is invisible
\* to it.
LEMMA StepImplements ==
  LawInv /\ [Next]_vars => [Contract!Next]_(Contract!vars)
<1> SUFFICES ASSUME LawInv, [Next]_vars
             PROVE  Contract!Next \/ UNCHANGED Contract!vars
  OBVIOUS
<1>1. ASSUME NEW c \in Calls, Enter(c) \/ Gates(c) \/ Commit(c) \/ Crash(c)
      PROVE  Contract!Next \/ UNCHANGED Contract!vars
  <2>1. CASE LeaseMissing(c) \/ ReadLease(c)
    BY <2>1, LeaseOpens DEF Contract!Next
  <2>2. CASE Mutate(c)
    BY <2>2, MutateActs DEF Contract!Next
  <2>3. CASE PutReceipt(c)
    BY <2>3, PutReceiptDecides DEF Contract!Next
  <2>4. CASE Begin(c) \/ ReadAgent(c) \/ ReadEvidence(c) \/ WalkBroken(c)
               \/ WalkRecord(c) \/ ReadTarget(c)
    <3>1. UNCHANGED <<authority, torn, effects, receipts>>
      BY <2>4 DEF Begin, ReadAgent, ReadEvidence, WalkBroken, WalkRecord, ReadTarget,
                  outcome, history
    <3> QED
      BY <3>1, ContractBlind
  <2>5. CASE Enter(c) \/ Crash(c) \/ ReplayRegistry(c) \/ ReplayTarget(c)
    <3>1. UNCHANGED <<authority, torn, effects, receipts>>
      BY <2>5 DEF Enter, ProposalRejected, ProposalBound, CalledDirectly, Crash,
                  ReplayRegistry, ReplayTarget, outcome, history
    <3> QED
      BY <3>1, ContractBlind
  <2> QED
    BY <1>1, <2>1, <2>2, <2>3, <2>4, <2>5 DEF Gates, Commit
<1>2. CASE (\E p \in Promoters : Promote(p)) \/ Environment
  <2>1. CASE \E put \in RecordPuts : PutRecord(put[1], put[2])
    BY <2>1, PutTears DEF Contract!Next
  <2>2. CASE ~\E put \in RecordPuts : PutRecord(put[1], put[2])
    <3>1. UNCHANGED torn
      BY <1>2, <2>2
         DEF Promote, PromoteRead, PromoteCheck, PromoteWrite, Environment, AdvanceRead,
             AdvanceWrite, RevokeRead, RevokeWrite, RevokeRecord, PutAgent, PutLease,
             PutTarget, LoseEvidence, PutEvidence, Tick, history
    <3>2. UNCHANGED <<authority, effects, receipts>>
      BY <1>2, AroundCalls DEF outcome
    <3> QED
      BY <3>1, <3>2, ContractBlind
  <2> QED
    BY <2>1, <2>2
<1>3. CASE UNCHANGED vars
  BY <1>3, ContractBlind DEF vars, outcome, history
<1> QED
  BY <1>1, <1>2, <1>3 DEF Next

\* The control plane implements GovernedAction: seen only by its authority, its effect
\* and its verdict, every call opens at most once, acts at most once and only under
\* authority, unless the records were put anew under its walk, and is decided at most
\* once, ALLOW exactly when it acted.
THEOREM Refines == Spec => ImplementsContract
<1>1. Init => Contract!Init
  BY DEF Init, Contract!Init
<1> QED
  BY <1>1, LawInductive, StepImplements, PTL DEF Spec, ImplementsContract, Contract!Spec

-----------------------------------------------------------------------------
\* The walk of a call follows every chain of the lease it read, as far as it has come.
FollowsChains(c) ==
  \A ids \in Chains : PathIn(records, seen[c].lease, ids) =>
    \E k \in 0..(Len(ids) - 1) :
      /\ Standing(records, ids, k, walk[c].visited, walk[c].child)
      /\ walk[c].current = ids[k + 1]

\* The inductive invariant behind RefusalIsDue.
Due(c) ==
  /\ pc[c] \in Unopened => seen[c].lease = NONE
  /\ pc[c] = "walk" => RequireProvenance
  /\ pc[c] = "walk" /\ ~torn[c] => FollowsChains(c)

DueInv == LawInv /\ \A c \in Calls : Due(c)

\* Whether a delegation record differs only by its revocation, as a grant.
LEMMA GrantKept ==
  ASSUME NEW old \in Record \cup {NONE}, NEW new, OnlyRevoked(old, new)
  PROVE  /\ new = NONE <=> old = NONE
         /\ old # NONE => SameGrant(old, new)
<1>1. CASE old = NONE
  BY <1>1 DEF OnlyRevoked, SameGrant
<1>2. CASE old # NONE
  BY <1>2, RevokedRecord DEF SameGrant
<1> QED
  BY <1>1, <1>2

\* The walk still follows them while the call takes no step itself, unless it is torn.
LEMMA DueFrame ==
  ASSUME NEW d \in Calls, IInv, Due(d),
         pc'[d] = pc[d], seen'[d] = seen[d], walk'[d] = walk[d],
         torn[d] => torn'[d],
         pc[d] = "walk" /\ ~torn'[d] =>
           \A id \in ProvIds : OnlyRevoked(records[id], records'[id])
  PROVE  Due(d)'
<1>1. records \in [ProvIds -> Record \cup {NONE}]
  BY DEF IInv, TypeInv, TypeOK
<1>2. ASSUME pc[d] = "walk", ~torn'[d]
      PROVE  FollowsChains(d)'
  <2>1. \A id \in ProvIds : /\ records'[id] = NONE <=> records[id] = NONE
                            /\ records[id] # NONE => SameGrant(records[id], records'[id])
    BY <1>1, <1>2, GrantKept
  <2>2. ASSUME NEW ids \in Chains, PathIn(records', seen[d].lease, ids)
        PROVE  \E k \in 0..(Len(ids) - 1) :
                 /\ Standing(records', ids, k, walk[d].visited, walk[d].child)
                 /\ walk[d].current = ids[k + 1]
    <3>1. PathIn(records, seen[d].lease, ids)
      BY <2>1, <2>2, RevokingAddsNoChain
    <3>2. PICK k \in 0..(Len(ids) - 1) :
            /\ Standing(records, ids, k, walk[d].visited, walk[d].child)
            /\ walk[d].current = ids[k + 1]
      BY <1>2, <3>1 DEF Due, FollowsChains
    <3>3. k > 0 => ids[k] \in ProvIds /\ records[ids[k]] # NONE
      BY <3>1, ChainIsSeq DEF PathIn
    <3>4. Standing(records', ids, k, walk[d].visited, walk[d].child)
      BY <2>1, <3>2, <3>3 DEF Standing, SameGrant
    <3> QED
      BY <3>2, <3>4
  <2> QED
    BY <2>2 DEF FollowsChains
<1> QED
  BY <1>2 DEF Due, Unopened

\* Where the walk stands on every path, a break or a fault means that no chain backs
\* the lease.
LEMMA NoChainHere ==
  ASSUME DueInv, NEW c \in Calls, pc[c] = "walk", ~torn[c],
         LET id == walk[c].current
             record == records[id]
         IN \/ id \in walk[c].visited
            \/ record = NONE
            \/ Faults(seen[c].lease, walk[c].child, record, now[c]) # {}
  PROVE  ~Authorizes(seen[c].lease, call[c].intent, now[c], records)
<1>0. PICK lease, id, record, visited, child :
        /\ lease = seen[c].lease
        /\ id = walk[c].current /\ record = records[id]
        /\ visited = walk[c].visited /\ child = walk[c].child
  OBVIOUS
<1>1. /\ RequireProvenance
      /\ \A ids \in Chains : PathIn(records, lease, ids) =>
           \E k \in 0..(Len(ids) - 1) :
             Standing(records, ids, k, visited, child) /\ id = ids[k + 1]
      /\ now[c] \in Nat
      /\ records \in [ProvIds -> Record \cup {NONE}]
  BY <1>0 DEF DueInv, Due, FollowsChains, LawInv, IInv, TypeInv, TypeOK
<1>2. ASSUME NEW ids \in Chains, Backs(records, lease, now[c], ids)
      PROVE  FALSE
  <2>1. PathIn(records, lease, ids)
    BY <1>2 DEF Backs
  <2>2. PICK k \in 0..(Len(ids) - 1) :
          Standing(records, ids, k, visited, child) /\ id = ids[k + 1]
    BY <1>1, <2>1
  <2>3. id \notin visited
    BY <2>1, <2>2, NotBeenThere
  <2>4. records[ids[k + 1]] # NONE
    BY <2>1, <2>2, StandsHigher
  <2>5. Faults(lease, child, records[ids[k + 1]], now[c]) = {}
    BY <1>1, <1>2, <2>2, FaultBreaks
  <2>6. record = records[ids[k + 1]]
    BY <1>0, <2>2
  <2> QED
    BY <1>0, <2>3, <2>4, <2>5, <2>6
<1> QED
  BY <1>0, <1>1, <1>2 DEF Authorizes, HasValidChain

\* Without a record under the lease's provenance id no chain backs it.
LEMMA NoChainOfNone ==
  ASSUME NEW store, NEW lease, NEW instant, lease.provenance = NONE
  PROVE  ~HasValidChain(store, lease, instant)
<1> SUFFICES ASSUME NEW ids \in Chains, Backs(store, lease, instant, ids) PROVE FALSE
  BY DEF HasValidChain
<1>1. ids # <<>> /\ ids[1] = NONE
  BY DEF Backs, PathIn
<1>2. Len(ids) \in Nat /\ Len(ids) # 0 /\ \A i \in 1..Len(ids) : ids[i] \in ProvIds
  BY <1>1, ChainIsSeq, EmptySeq
<1> QED
  BY <1>1, <1>2, NoneAssumption

\* A lease that gives a reason about authority carries none.
LEMMA RefusingLease ==
  ASSUME NEW c \in Calls, NEW lease \in Lease,
         now[c] \in Nat, call[c].intent.agent = call[c].identity.agent,
         AuthorityFaults(c, lease) \cap AuthorityReasons # {}
  PROVE  ~Authorizes(lease, call[c].intent, now[c], records)
<1>1. \/ lease.agent # call[c].identity.agent
      \/ call[c].intent.action \notin lease.scope
      \/ RevokedBy(lease, now[c])
      \/ lease.expires_at <= now[c]
      \/ RequireProvenance /\ lease.provenance = NONE
  <2> SUFFICES ASSUME lease.agent = call[c].identity.agent,
                      call[c].intent.action \in lease.scope,
                      ~RevokedBy(lease, now[c]),
                      ~(lease.expires_at <= now[c]),
                      ~(RequireProvenance /\ lease.provenance = NONE)
               PROVE  FALSE
    OBVIOUS
  <2>1. AuthorityFaults(c, lease) \subseteq {"AUTHORITY_EPOCH_STALE"}
    BY DEF AuthorityFaults, When
  <2>2. "AUTHORITY_EPOCH_STALE" \notin AuthorityReasons
    BY DEF AuthorityReasons
  <2> QED
    BY <2>1, <2>2
<1>2. RevokedBy(lease, now[c]) => ~(lease.revoked_at = NONE \/ lease.revoked_at > now[c])
  BY DEF RevokedBy, Lease
<1>3. lease.expires_at <= now[c] => ~(lease.expires_at > now[c])
  BY DEF Lease
<1> QED
  BY <1>1, <1>2, <1>3, NoChainOfNone DEF Authorizes

\* The gates before the lease and after it speak of other things than authority.
LEMMA OtherReasons ==
  ASSUME NEW c, NEW agent, NEW item, NEW target
  PROVE  /\ IdentityFaults(c, agent) \cap AuthorityReasons = {}
         /\ CapabilityFaults(item) \cap AuthorityReasons = {}
         /\ TargetFaults(c, target) \cap AuthorityReasons = {}
<1>1. IdentityFaults(c, agent) \subseteq
        {"IDENTITY_NOT_AUTHENTICATED", "IDENTITY_UNKNOWN", "IDENTITY_INTENT_MISMATCH"}
  BY DEF IdentityFaults, When
<1>2. CapabilityFaults(item) \subseteq {"CAPABILITY_NOT_OBSERVED"}
  BY DEF CapabilityFaults, When
<1>3. TargetFaults(c, target) \subseteq
        {"TARGET_UNKNOWN", "TARGET_HASH_MISMATCH", "TARGET_ACTION_NOT_ALLOWED"}
  BY DEF TargetFaults, When
<1> QED
  BY <1>1, <1>2, <1>3 DEF AuthorityReasons

\* Every reason about authority is due at the step that gives it.
GivesDue(c) ==
  /\ (reasons'[c] \ reasons[c]) \cap AuthorityReasons # {}
  /\ ~torn[c]
  => ~Authorizes(seen'[c].lease, call[c].intent, now[c], records)

LEMMA StepGivesDue ==
  ASSUME DueInv, NEW c \in Calls, Enter(c) \/ Gates(c) \/ Commit(c) \/ Crash(c)
  PROVE  GivesDue(c)
<1> USE DEF TypeOK, Goto, AddReasons
<1>0. /\ TypeOK /\ Due(c)
      /\ pc[c] = "lease" => /\ call[c].lease \in LeaseIds
                            /\ call[c].intent.agent = call[c].identity.agent
  BY DEF DueInv, LawInv, IInv, TypeInv, WellStaged, DirectCall, Own, Progress
<1>1. CASE Enter(c) \/ Begin(c) \/ Commit(c) \/ Crash(c)
  <2>1. reasons' = reasons
    BY <1>1 DEF Enter, ProposalRejected, ProposalBound, CalledDirectly, Begin, Commit,
                Mutate, PutReceipt, ReplayRegistry, ReplayTarget, Crash, locals
  <2> QED
    BY <2>1 DEF GivesDue
<1>2. CASE ReadAgent(c) \/ ReadEvidence(c) \/ ReadTarget(c)
  <2>1. CASE ReadAgent(c)
    <3>1. reasons'[c] = reasons[c] \cup IdentityFaults(c, agents[call[c].identity.agent])
      BY <1>0, <2>1 DEF ReadAgent
    <3> QED
      BY <3>1, OtherReasons DEF GivesDue
  <2>2. CASE ReadEvidence(c)
    <3>1. PICK item : reasons'[c] = reasons[c] \cup CapabilityFaults(item)
      BY <1>0, <2>2 DEF ReadEvidence
    <3> QED
      BY <3>1, OtherReasons DEF GivesDue
  <2>3. CASE ReadTarget(c)
    <3>1. reasons'[c] = reasons[c] \cup TargetFaults(c, targets[call[c].intent.target])
      BY <1>0, <2>3 DEF ReadTarget
    <3> QED
      BY <3>1, OtherReasons DEF GivesDue
  <2> QED
    BY <1>2, <2>1, <2>2, <2>3
<1>3. CASE LeaseMissing(c)
  <2>1. pc[c] = "lease" /\ seen' = seen
    BY <1>3 DEF LeaseMissing
  <2>2. seen'[c].lease = NONE
    BY <1>0, <2>1 DEF Due, Unopened
  <2> QED
    BY <2>2 DEF GivesDue, Authorizes
<1>4. CASE ReadLease(c)
  <2> DEFINE lease == leases[call[c].lease]
  <2>1. /\ pc[c] = "lease" /\ lease # NONE
        /\ seen'[c].lease = lease
        /\ reasons'[c] = reasons[c] \cup AuthorityFaults(c, lease)
    BY <1>0, <1>4 DEF ReadLease, Reads
  <2>2. lease \in Lease /\ now[c] \in Nat
    BY <1>0, <2>1
  <2> QED
    BY <1>0, <2>1, <2>2, RefusingLease DEF GivesDue
<1>5. CASE WalkBroken(c)
  <2>1. /\ pc[c] = "walk" /\ seen' = seen
        /\ walk[c].current \in walk[c].visited \/ records[walk[c].current] = NONE
    BY <1>5 DEF WalkBroken
  <2> QED
    BY <2>1, NoChainHere DEF GivesDue
<1>6. CASE WalkRecord(c)
  <2>1. /\ pc[c] = "walk" /\ seen' = seen
        /\ reasons'[c] = reasons[c] \cup
             Faults(seen[c].lease, walk[c].child, records[walk[c].current], now[c])
    BY <1>0, <1>6 DEF WalkRecord
  <2> QED
    BY <2>1, NoChainHere DEF GivesDue
<1> QED
  BY <1>1, <1>2, <1>3, <1>4, <1>5, <1>6 DEF Gates

\* A step of a call keeps it on its chains.
LEMMA StepKeepsDue ==
  ASSUME DueInv, NEW c \in Calls, Enter(c) \/ Gates(c) \/ Commit(c) \/ Crash(c)
  PROVE  Due(c)'
<1> USE DEF TypeOK, Goto, AddReasons
<1>0. /\ TypeOK /\ Due(c)
      /\ pc[c] = "lease" => walk[c] = NotWalking
  BY DEF DueInv, LawInv, Lawful, Unopened, IInv, TypeInv
<1>1. CASE ~(ReadLease(c) \/ WalkRecord(c))
  <2>1. /\ pc'[c] # "walk"
        /\ pc'[c] \in Unopened => pc[c] \in Unopened /\ seen'[c].lease = seen[c].lease
    <3>1. CASE Enter(c) \/ Commit(c) \/ Crash(c)
      BY <1>0, <3>1 DEF Enter, ProposalRejected, ProposalBound, CalledDirectly, Commit,
         Mutate, PutReceipt, ReplayRegistry, ReplayTarget, Crash, Unopened, locals
    <3>2. CASE Begin(c)
      BY <1>0, <3>2 DEF Begin, Unopened
    <3>3. CASE ReadAgent(c) \/ ReadEvidence(c)
      <4>1. \E v : \/ seen' = [seen EXCEPT ![c].agent = v]
                    \/ seen' = [seen EXCEPT ![c].evidence_id = v]
        BY <3>3 DEF ReadAgent, ReadEvidence
      <4>2. seen'[c].lease = seen[c].lease
        BY <1>0, <4>1 DEF Reads
      <4>3. pc[c] \in {"agent", "evidence"} /\ pc'[c] \in {"evidence", "lease", "receipt"}
        BY <1>0, <3>3 DEF ReadAgent, ReadEvidence
      <4> QED
        BY <4>2, <4>3 DEF Unopened
    <3>4. CASE LeaseMissing(c) \/ WalkBroken(c) \/ ReadTarget(c)
      BY <1>0, <3>4 DEF LeaseMissing, WalkBroken, ReadTarget, Unopened
    <3> QED
      BY <1>1, <3>1, <3>2, <3>3, <3>4 DEF Gates
  <2> QED
    BY <1>0, <2>1 DEF Due
<1>2. CASE ReadLease(c)
  <2> DEFINE lease == leases[call[c].lease]
             walks == RequireProvenance /\ lease.provenance # NONE
  <2>1. /\ pc'[c] = IF walks THEN "walk" ELSE "target"
        /\ seen'[c].lease = lease
        /\ pc[c] = "lease"
        /\ walk'[c] = [walk[c] EXCEPT !.current = IF walks THEN lease.provenance ELSE NONE]
        /\ records' = records
    BY <1>0, <1>2 DEF ReadLease, Reads, Walk, registries
  <2>2. ASSUME walks
        PROVE  FollowsChains(c)'
    <3>1. walk'[c].child = NONE /\ walk'[c].visited = {} /\ walk'[c].current = lease.provenance
      BY <1>0, <2>1, <2>2 DEF NotWalking
    <3>2. ASSUME NEW ids \in Chains, PathIn(records, lease, ids)
          PROVE  /\ 0 \in 0..(Len(ids) - 1)
                 /\ Standing(records, ids, 0, {}, NONE)
                 /\ lease.provenance = ids[0 + 1]
      <4>1. Len(ids) \in Nat /\ Len(ids) # 0 /\ ids[1] = lease.provenance
        BY <3>2, ChainIsSeq, EmptySeq DEF PathIn
      <4> QED
        BY <4>1 DEF Standing
    <3> QED
      BY <2>1, <3>1, <3>2 DEF FollowsChains, PathIn, Standing
  <2> QED
    BY <2>1, <2>2 DEF Due, Unopened
<1>3. CASE WalkRecord(c)
  <2>0. PICK lease, id, record, visited, child :
          /\ lease = seen[c].lease
          /\ id = walk[c].current /\ record = records[id]
          /\ visited = walk[c].visited /\ child = walk[c].child
    OBVIOUS
  <2>1. /\ pc[c] = "walk"
        /\ pc'[c] = IF record.parent = NONE THEN "target" ELSE "walk"
        /\ walk'[c] = [current |-> record.parent, child |-> record,
                       visited |-> visited \cup {id}]
        /\ UNCHANGED <<records, seen, torn>>
    BY <1>0, <1>3, <2>0 DEF WalkRecord, registries, history
  <2>2. ASSUME ~torn[c], record.parent # NONE, NEW ids \in Chains, PathIn(records, lease, ids)
        PROVE  \E k \in 0..(Len(ids) - 1) :
                 /\ Standing(records, ids, k, visited \cup {id}, record)
                 /\ record.parent = ids[k + 1]
    <3>1. PICK k \in 0..(Len(ids) - 1) :
            Standing(records, ids, k, visited, child) /\ id = ids[k + 1]
      BY <1>0, <2>0, <2>1, <2>2 DEF Due, FollowsChains
    <3>2. record = records[ids[k + 1]] /\ id = ids[k + 1]
      BY <2>0, <3>1
    <3>3. /\ Standing(records, ids, k + 1, visited \cup {ids[k + 1]}, records[ids[k + 1]])
          /\ k + 1 \in 0..(Len(ids) - 1)
          /\ records[ids[k + 1]].parent = ids[k + 2]
      BY <2>2, <3>1, <3>2, StandsHigher
    <3>4. record.parent = ids[(k + 1) + 1]
      BY <3>2, <3>3
    <3> QED
      BY <3>2, <3>3, <3>4
  <2>3. ASSUME pc'[c] = "walk", ~torn[c]
        PROVE  FollowsChains(c)'
    <3>1. /\ record.parent # NONE
          /\ walk'[c].current = record.parent /\ walk'[c].child = record
          /\ walk'[c].visited = visited \cup {id}
          /\ seen'[c].lease = lease /\ records' = records
      BY <2>0, <2>1, <2>3
    <3> QED
      BY <2>2, <2>3, <3>1 DEF FollowsChains, PathIn, Standing
  <2> QED
    BY <1>0, <2>1, <2>3 DEF Due, Unopened
<1> QED
  BY <1>1, <1>2, <1>3

LEMMA NextDue == DueInv /\ [Next]_vars => DueInv'
<1> SUFFICES ASSUME DueInv, [Next]_vars PROVE DueInv'
  OBVIOUS
<1>1. LawInv'
  BY NextLaw DEF DueInv
<1>2. TypeOK /\ IInv
  BY DEF DueInv, LawInv, IInv, TypeInv
<1>3. ASSUME NEW c \in Calls, Enter(c) \/ Gates(c) \/ Commit(c) \/ Crash(c)
      PROVE  \A d \in Calls : Due(d)'
  <2>1. Due(c)'
    BY <1>3, StepKeepsDue
  <2>2. \A d \in Calls \ {c} : Due(d)'
    BY <1>2, <1>3, CallsApart, DueFrame DEF DueInv, OnlyRevoked
  <2> QED
    BY <2>1, <2>2
<1>4. CASE (\E p \in Promoters : Promote(p)) \/ Environment
  <2>1. UNCHANGED <<locals, outcome, pc, authority>>
    BY <1>4, AroundCalls
  <2> QED
    BY <1>1, <1>2, <1>4, <2>1, AroundTears, DueFrame DEF DueInv, locals
<1>5. CASE UNCHANGED vars
  BY <1>1, <1>2, <1>5, DueFrame DEF DueInv, OnlyRevoked, vars, registries, locals, history
<1> QED
  BY <1>1, <1>3, <1>4, <1>5 DEF Next, DueInv

\* A call is refused for its authority only when it has none: whatever is revoked or put
\* between its reads, at the step at which a reason about authority is given the store
\* backs the lease that was read by no chain as of the decision instant, or the lease
\* itself is not in force, unless a record was put while the call walked the chain.
THEOREM RefusalsAreDue == Spec => RefusalIsDue
<1> DEFINE AllDue == \A c \in Calls : GivesDue(c)
<1>1. Init => DueInv
  BY InitLaw DEF Init, DueInv, Due, Unopened, NothingSeen
<1>2. DueInv /\ [Next]_vars => [AllDue]_vars
  <2> SUFFICES ASSUME DueInv, Next, NEW d \in Calls PROVE GivesDue(d)
    OBVIOUS
  <2>1. TypeOK
    BY DEF DueInv, LawInv, IInv, TypeInv
  <2>2. ASSUME NEW c \in Calls, Enter(c) \/ Gates(c) \/ Commit(c) \/ Crash(c)
        PROVE  GivesDue(d)
    <3>1. d # c => reasons'[d] = reasons[d]
      BY <2>1, <2>2, CallsApart
    <3> QED
      BY <2>2, <3>1, StepGivesDue DEF GivesDue
  <2>3. CASE (\E p \in Promoters : Promote(p)) \/ Environment
    BY <2>3, AroundCalls DEF GivesDue, locals
  <2> QED
    BY <2>2, <2>3 DEF Next
<1> HIDE DEF AllDue
<1>3. Spec => [][AllDue]_vars
  BY <1>1, <1>2, NextDue, PTL DEF Spec
<1> QED
  BY <1>3, PTL DEF RefusalIsDue, AllDue, GivesDue
=============================================================================
