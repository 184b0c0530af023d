------------------------- MODULE ProvenanceRulesProofs -------------------------
(***************************************************************************)
(* Lemmas about chains of delegation records: what the checks of a record   *)
(* say of the chain it belongs to, and that no chain repeats a record.      *)
(***************************************************************************)
EXTENDS ProvenanceRules, SequenceTheorems, FiniteSetTheorems, TLAPS

\* A record without faults passed every check of its iteration.
LEMMA NoFaults ==
  ASSUME NEW l, NEW k, NEW r, NEW t, Faults(l, k, r, t) = {}
  PROVE  /\ ~(r.issued_at > t)
         /\ ~(r.revoked_at # NONE /\ r.revoked_at <= t)
         /\ k = NONE => /\ r.subject = l.agent
                        /\ r.issuer = l.issuer
                        /\ r.epoch = l.epoch
                        /\ l.scope \subseteq r.scope
         /\ k # NONE => /\ k.issuer = r.subject
                        /\ k.scope \subseteq r.scope
         /\ r.parent = NONE => r.issuer \in TrustedRoots
<1>1. RecordFaults(r, t) = {} /\ RootFaults(r) = {}
  BY DEF Faults
<1>2. k = NONE => LeaseFaults(l, r) = {}
  BY DEF Faults
<1>3. k # NONE => DelegationFaults(k, r) = {}
  BY DEF Faults
<1>4. ~(r.issued_at > t) /\ ~(r.revoked_at # NONE /\ r.revoked_at <= t)
  BY <1>1 DEF RecordFaults, RevokedBy, When
<1>5. k = NONE => /\ r.subject = l.agent
                  /\ r.issuer = l.issuer
                  /\ r.epoch = l.epoch
                  /\ l.scope \subseteq r.scope
  BY <1>2 DEF LeaseFaults, When
<1>6. k # NONE => k.issuer = r.subject /\ k.scope \subseteq r.scope
  BY <1>3 DEF DelegationFaults, When
<1>7. r.parent = NONE => r.issuer \in TrustedRoots
  BY <1>1 DEF RootFaults, When
<1> QED
  BY <1>4, <1>5, <1>6, <1>7

\* Conversely, a record that passes every check has no fault.
LEMMA Faultless ==
  ASSUME NEW l, NEW k, NEW r, NEW t,
         ~(r.issued_at > t),
         ~(r.revoked_at # NONE /\ r.revoked_at <= t),
         k = NONE => /\ r.subject = l.agent
                     /\ r.issuer = l.issuer
                     /\ r.epoch = l.epoch
                     /\ l.scope \subseteq r.scope,
         k # NONE => /\ k.issuer = r.subject
                     /\ k.scope \subseteq r.scope,
         r.parent = NONE => r.issuer \in TrustedRoots
  PROVE  Faults(l, k, r, t) = {}
<1>1. RecordFaults(r, t) = {} /\ RootFaults(r) = {}
  BY DEF RecordFaults, RootFaults, RevokedBy, When
<1>2. k = NONE => LeaseFaults(l, r) = {}
  BY DEF LeaseFaults, When
<1>3. k # NONE => DelegationFaults(k, r) = {}
  BY DEF DelegationFaults, When
<1> QED
  BY <1>1, <1>2, <1>3 DEF Faults

\* A set of naturals has a least element.
Less == {pair \in Nat \X Nat : pair[1] < pair[2]}

LEMMA Least ==
  ASSUME NEW T, T \subseteq Nat, T # {}
  PROVE  \E m \in T : \A k \in T : ~(k < m)
<1>1. IsWellFoundedOn(Less, Nat)
  BY NatLessThanWellFounded DEF OpToRel, Less
<1>2. PICK m \in T : \A k \in T : ~(<<k, m>> \in Less)
  BY <1>1, WFMin
<1>3. \A k \in T : k < m => <<k, m>> \in Less
  BY DEF Less
<1> QED
  BY <1>2, <1>3

\* A chain is a sequence of ids.
LEMMA ChainIsSeq ==
  ASSUME NEW ids \in Chains
  PROVE  /\ ids \in Seq(ProvIds)
         /\ Len(ids) \in Nat
         /\ \A i \in 1..Len(ids) : ids[i] \in ProvIds
<1>1. Cardinality(ProvIds) \in Nat
  BY StoreAssumption, FS_CardinalityType
<1>2. PICK n \in 1..Cardinality(ProvIds) : ids \in [1..n -> ProvIds]
  BY DEF Chains
<1>3. ids \in Seq(ProvIds)
  BY <1>1, <1>2, SeqDef
<1> QED
  BY <1>3, LenProperties, ElementOfSeq

\* A record's parent is the next of the chain, and the last has none.
LEMMA ParentInPath ==
  ASSUME NEW store, NEW lease, NEW ids \in Chains, PathIn(store, lease, ids),
         NEW i \in 1..Len(ids)
  PROVE  /\ ids[i] \in ProvIds
         /\ store[ids[i]].parent = NONE <=> i = Len(ids)
         /\ i < Len(ids) => store[ids[i]].parent = ids[i + 1]
<1>1. /\ Len(ids) \in Nat
      /\ \A k \in 1..Len(ids) : ids[k] \in ProvIds /\ ids[k] # NONE
  BY ChainIsSeq, NoneAssumption
<1>2. i < Len(ids) => i \in 1..(Len(ids) - 1) /\ i + 1 \in 1..Len(ids)
  BY <1>1
<1> QED
  BY <1>1, <1>2 DEF PathIn

\* No chain repeats a record: behind the last repetition there would be another.
LEMMA NoRepetition ==
  ASSUME NEW store, NEW lease, NEW ids \in Chains, PathIn(store, lease, ids),
         NEW j \in 1..Len(ids), NEW k \in 1..Len(ids), ids[j] = ids[k]
  PROVE  j = k
<1> DEFINE Distance(m) == \E a, b \in 1..Len(ids) : /\ a < b
                                                    /\ ids[a] = ids[b]
                                                    /\ m = Len(ids) - b
           T == {m \in Nat : Distance(m)}
<1>1. Len(ids) \in Nat
  BY ChainIsSeq
<1>2. ASSUME T # {}
      PROVE  FALSE
  <2>1. PICK m \in T : \A n \in T : ~(n < m)
    BY <1>2, Least
  <2>2. PICK a \in 1..Len(ids), b \in 1..Len(ids) :
          a < b /\ ids[a] = ids[b] /\ m = Len(ids) - b
    BY <2>1
  <2>3. a < Len(ids) /\ store[ids[a]].parent # NONE /\ store[ids[a]].parent = ids[a + 1]
    BY <1>1, <2>2, ParentInPath
  <2>4. b < Len(ids) /\ store[ids[b]].parent = ids[b + 1]
    BY <1>1, <2>2, <2>3, ParentInPath
  <2>5. /\ a + 1 \in 1..Len(ids) /\ b + 1 \in 1..Len(ids) /\ a + 1 < b + 1
        /\ m - 1 \in Nat
        /\ ids[a + 1] = ids[b + 1] /\ m - 1 = Len(ids) - (b + 1)
    BY <1>1, <2>2, <2>3, <2>4
  <2>6. Distance(m - 1)
    BY <2>5
  <2>7. m - 1 \in T /\ m - 1 < m
    BY <2>1, <2>5, <2>6
  <2> QED
    BY <2>1, <2>7
<1>3. ASSUME NEW a \in 1..Len(ids), NEW b \in 1..Len(ids), a < b, ids[a] = ids[b]
      PROVE  FALSE
  <2>1. Len(ids) - b \in Nat /\ Distance(Len(ids) - b)
    BY <1>1, <1>3
  <2> QED
    BY <1>2, <2>1
<1> QED
  BY <1>1, <1>3

-----------------------------------------------------------------------------
\* Of a record, only the revocation may have been added.
SameGrant(old, new) ==
  /\ old.subject = new.subject
  /\ old.issuer = new.issuer
  /\ old.scope = new.scope
  /\ old.epoch = new.epoch
  /\ old.issued_at = new.issued_at
  /\ old.parent = new.parent
  /\ old.revoked_at = NONE \/ old.revoked_at = new.revoked_at

\* Revocations leave the paths, and take chains away but add none.
LEMMA RevokingAddsNoChain ==
  ASSUME NEW store, NEW later,
         \A id \in ProvIds : /\ later[id] = NONE <=> store[id] = NONE
                             /\ store[id] # NONE => SameGrant(store[id], later[id]),
         NEW lease, NEW instant, NEW ids \in Chains
  PROVE  /\ PathIn(later, lease, ids) => PathIn(store, lease, ids)
         /\ Backs(later, lease, instant, ids) => Backs(store, lease, instant, ids)
<1>1. /\ Len(ids) \in Nat
      /\ \A i \in 1..Len(ids) : ids[i] \in ProvIds
  BY ChainIsSeq
<1>2. ASSUME PathIn(later, lease, ids)
      PROVE  /\ PathIn(store, lease, ids)
             /\ Len(ids) \in 1..Len(ids)
             /\ \A i \in 1..Len(ids) : /\ store[ids[i]] # NONE
                                       /\ SameGrant(store[ids[i]], later[ids[i]])
  <2>1. Len(ids) \in 1..Len(ids)
    <3>1. Len(ids) # 0
      BY <1>2, ChainIsSeq, EmptySeq DEF PathIn
    <3> QED
      BY <1>1, <3>1
  <2>2. \A i \in 1..Len(ids) : /\ store[ids[i]] # NONE
                               /\ SameGrant(store[ids[i]], later[ids[i]])
    BY <1>1, <1>2 DEF PathIn
  <2>3. \A i \in 1..(Len(ids) - 1) : store[ids[i]].parent = ids[i + 1]
    <3>1. \A i \in 1..(Len(ids) - 1) : i \in 1..Len(ids)
      BY <1>1
    <3> QED
      BY <1>2, <2>2, <3>1 DEF PathIn, SameGrant
  <2> QED
    BY <1>2, <2>1, <2>2, <2>3 DEF PathIn, SameGrant
<1>3. ASSUME Backs(later, lease, instant, ids)
      PROVE  Backs(store, lease, instant, ids)
  <2>1. /\ PathIn(later, lease, ids)
        /\ Len(ids) \in 1..Len(ids) /\ 1 \in 1..Len(ids)
        /\ \A i \in 1..Len(ids) : SameGrant(store[ids[i]], later[ids[i]])
        /\ PathIn(store, lease, ids)
    BY <1>1, <1>2, <1>3 DEF Backs
  <2>2. \A i \in 1..Len(ids) :
          /\ store[ids[i]].issued_at <= instant
          /\ store[ids[i]].revoked_at = NONE \/ store[ids[i]].revoked_at > instant
          /\ lease.scope \subseteq store[ids[i]].scope
    BY <1>3, <2>1 DEF Backs, SameGrant
  <2>3. \A i \in 1..(Len(ids) - 1) :
          /\ store[ids[i]].issuer = store[ids[i + 1]].subject
          /\ store[ids[i]].scope \subseteq store[ids[i + 1]].scope
    <3>1. \A i \in 1..(Len(ids) - 1) : i \in 1..Len(ids) /\ i + 1 \in 1..Len(ids)
      BY <1>1
    <3> QED
      BY <1>3, <2>1, <3>1 DEF Backs, SameGrant
  <2> QED
    BY <1>3, <2>1, <2>2, <2>3 DEF Backs, SameGrant
<1> QED
  BY <1>2, <1>3

\* A walk has come so far up a chain: it has visited the first k records, and read the
\* last of them.
Standing(store, ids, k, visited, child) ==
  /\ visited = {ids[i] : i \in 1..k}
  /\ child = NONE <=> k = 0
  /\ k > 0 => child.issuer = store[ids[k]].issuer /\ child.scope = store[ids[k]].scope

\* It has not been where it goes next ...
LEMMA NotBeenThere ==
  ASSUME NEW store, NEW lease, NEW ids \in Chains, PathIn(store, lease, ids),
         NEW k \in 0..(Len(ids) - 1), NEW visited, NEW child,
         Standing(store, ids, k, visited, child)
  PROVE  ids[k + 1] \notin visited
<1>1. Len(ids) \in Nat /\ k + 1 \in 1..Len(ids) /\ \A i \in 1..k : i \in 1..Len(ids) /\ i # k + 1
  BY ChainIsSeq
<1> QED
  BY <1>1, NoRepetition DEF Standing

\* ... and a fault it finds there means that the chain backs nothing.
LEMMA FaultBreaks ==
  ASSUME NEW store, NEW lease, NEW instant \in Nat, NEW ids \in Chains,
         store \in [ProvIds -> Record \cup {NONE}],
         NEW k \in 0..(Len(ids) - 1), NEW visited, NEW child,
         Standing(store, ids, k, visited, child),
         Backs(store, lease, instant, ids)
  PROVE  Faults(lease, child, store[ids[k + 1]], instant) = {}
<1> DEFINE record == store[ids[k + 1]]
<1>1. Len(ids) \in Nat /\ k + 1 \in 1..Len(ids) /\ ids[k + 1] \in ProvIds
  BY ChainIsSeq
<1>2. PathIn(store, lease, ids) /\ record \in Record
  BY <1>1 DEF Backs, PathIn
<1>3. /\ record.issued_at <= instant
      /\ record.revoked_at = NONE \/ record.revoked_at > instant
      /\ lease.scope \subseteq record.scope
  BY <1>1 DEF Backs
<1>4. ~(record.issued_at > instant) /\ ~(record.revoked_at # NONE /\ record.revoked_at <= instant)
  BY <1>2, <1>3 DEF Record, Instant
<1>5. child = NONE => /\ record.subject = lease.agent
                      /\ record.issuer = lease.issuer
                      /\ record.epoch = lease.epoch
                      /\ lease.scope \subseteq record.scope
  BY <1>3 DEF Standing, Backs
<1>6. child # NONE => child.issuer = record.subject /\ child.scope \subseteq record.scope
  <2> SUFFICES ASSUME child # NONE
               PROVE  child.issuer = record.subject /\ child.scope \subseteq record.scope
    OBVIOUS
  <2>1. k \in 1..(Len(ids) - 1)
    BY <1>1 DEF Standing
  <2>2. child.issuer = store[ids[k]].issuer /\ child.scope = store[ids[k]].scope
    BY <2>1 DEF Standing
  <2>3. /\ store[ids[k]].issuer = store[ids[k + 1]].subject
        /\ store[ids[k]].scope \subseteq store[ids[k + 1]].scope
    BY <2>1 DEF Backs
  <2> QED
    BY <2>2, <2>3
<1>7. record.parent = NONE => record.issuer \in TrustedRoots
  BY <1>1, <1>2, ParentInPath DEF Backs
<1> QED
  BY <1>4, <1>5, <1>6, <1>7, Faultless

\* Having read that record, it stands one higher, and is at the top of the chain or
\* goes on to the next record of it.
LEMMA StandsHigher ==
  ASSUME NEW store, NEW lease, NEW ids \in Chains, PathIn(store, lease, ids),
         NEW k \in 0..(Len(ids) - 1), NEW visited, NEW child,
         Standing(store, ids, k, visited, child)
  PROVE  /\ store[ids[k + 1]] # NONE
         /\ Standing(store, ids, k + 1, visited \cup {ids[k + 1]}, store[ids[k + 1]])
         /\ store[ids[k + 1]].parent # NONE =>
              /\ k + 1 \in 0..(Len(ids) - 1)
              /\ store[ids[k + 1]].parent = ids[k + 2]
<1>1. Len(ids) \in Nat /\ k \in Nat /\ k + 1 \in 1..Len(ids)
  BY ChainIsSeq
<1>2. store[ids[k + 1]] # NONE
  BY <1>1 DEF PathIn
<1>3. 1..(k + 1) = (1..k) \cup {k + 1}
  BY <1>1
<1>4. Standing(store, ids, k + 1, visited \cup {ids[k + 1]}, store[ids[k + 1]])
  BY <1>1, <1>2, <1>3 DEF Standing
<1>5. ASSUME store[ids[k + 1]].parent # NONE
      PROVE  k + 1 \in 0..(Len(ids) - 1) /\ store[ids[k + 1]].parent = ids[k + 2]
  <2>1. k + 1 < Len(ids) /\ store[ids[k + 1]].parent = ids[(k + 1) + 1]
    BY <1>1, <1>5, ParentInPath
  <2> QED
    BY <1>1, <2>1
<1> QED
  BY <1>2, <1>4, <1>5

-----------------------------------------------------------------------------
\* The records a walk has not read are finitely many, never more than there are.
LEMMA UnreadIsFinite ==
  ASSUME NEW visited
  PROVE  /\ IsFiniteSet(ProvIds \ visited)
         /\ Cardinality(ProvIds \ visited) \in 0..Cardinality(ProvIds)
<1>1. ProvIds \ visited \in SUBSET ProvIds
  OBVIOUS
<1>2. /\ IsFiniteSet(ProvIds \ visited)
      /\ Cardinality(ProvIds \ visited) <= Cardinality(ProvIds)
  BY ONLY <1>1, StoreAssumption, FS_Subset
<1>3. Cardinality(ProvIds \ visited) \in Nat /\ Cardinality(ProvIds) \in Nat
  BY <1>2, StoreAssumption, FS_CardinalityType
<1> QED
  BY <1>2, <1>3

\* Reading one of them leaves one fewer.
LEMMA OneReadLess ==
  ASSUME NEW visited, NEW id \in ProvIds, id \notin visited
  PROVE  Cardinality(ProvIds \ (visited \cup {id})) = Cardinality(ProvIds \ visited) - 1
<1>1. ProvIds \ (visited \cup {id}) = (ProvIds \ visited) \ {id}
  OBVIOUS
<1>2. id \in ProvIds \ visited
  OBVIOUS
<1> QED
  BY <1>1, <1>2, UnreadIsFinite, FS_RemoveElement
=============================================================================
