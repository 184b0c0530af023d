--------------------------- MODULE ProvenanceRules ---------------------------
(***************************************************************************)
(* The checks poiex_runtime/authority_provenance.py makes of a delegation   *)
(* record, as constant-level operators, and the meaning of a valid chain   *)
(* that the walk is measured against.  Instants are natural numbers; NONE  *)
(* is Python's None.                                                       *)
(***************************************************************************)
EXTENDS Integers, Sequences, FiniteSets

CONSTANTS
  ProvIds,       \* provenance_id values
  Actors,        \* agents and authority issuers
  Actions,       \* action types, the members of a scope
  TrustedRoots,  \* trusted_root_issuers
  NONE

Instant == Nat
Record == [subject: Actors, issuer: Actors, scope: SUBSET Actions,
           epoch: Nat, issued_at: Instant,
           revoked_at: Instant \cup {NONE}, parent: ProvIds \cup {NONE}]

ASSUME NoneAssumption == NONE \notin Record \cup ProvIds \cup Nat

\* A store holds finitely many records.
ASSUME StoreAssumption == IsFiniteSet(ProvIds)

\* if condition: reasons.append(reason)
When(condition, reason) == IF condition THEN {reason} ELSE {}

\* Mutants: a revocation takes effect an instant late, or whatever its instant.
RevokedBefore(item, now) == item.revoked_at # NONE /\ item.revoked_at < now
EverRevoked(item, now) == item.revoked_at # NONE

RevokedBy(item, now) == item.revoked_at # NONE /\ item.revoked_at <= now

(***************************************************************************)
(* One iteration of the loop, check by check.                              *)
(***************************************************************************)
RecordFaults(record, now) ==
  When(record.issued_at > now, "PROVENANCE_NOT_YET_VALID")
    \cup When(RevokedBy(record, now), "PROVENANCE_REVOKED")

LeaseFaults(lease, record) ==
  When(record.subject # lease.agent, "PROVENANCE_SUBJECT_MISMATCH")
    \cup When(record.issuer # lease.issuer, "PROVENANCE_ISSUER_MISMATCH")
    \cup When(record.epoch # lease.epoch, "PROVENANCE_EPOCH_MISMATCH")
    \cup When(~(lease.scope \subseteq record.scope), "PROVENANCE_SCOPE_MISMATCH")

DelegationFaults(child, record) ==
  When(child.issuer # record.subject, "PROVENANCE_DELEGATION_GAP")
    \cup When(~(child.scope \subseteq record.scope), "PROVENANCE_SCOPE_ESCALATION")

\* Mutant: the trust check is made of every record, not of the root alone.
RootFaultsOfEveryRecord(record) ==
  When(record.issuer \notin TrustedRoots, "PROVENANCE_UNTRUSTED_ROOT")

RootFaults(record) ==
  When(record.parent = NONE /\ record.issuer \notin TrustedRoots,
       "PROVENANCE_UNTRUSTED_ROOT")

\* Mutant: issue and revocation instants are checked on the first record only.
FaultsOfLeafInstants(lease, child, record, now) ==
  (IF child = NONE
   THEN LeaseFaults(lease, record) \cup RecordFaults(record, now)
   ELSE DelegationFaults(child, record))
    \cup RootFaults(record)

\* child is None exactly while first is True: both change with the first record.
Faults(lease, child, record, now) ==
  RecordFaults(record, now)
    \cup (IF child = NONE THEN LeaseFaults(lease, record)
                          ELSE DelegationFaults(child, record))
    \cup RootFaults(record)

(***************************************************************************)
(* What the walk must establish, stated over a whole chain at once.        *)
(***************************************************************************)
\* ids is the chain of stored records the lease names and their parents name.
PathIn(records, lease, ids) ==
  /\ ids # << >>
  /\ ids[1] = lease.provenance
  /\ \A i \in 1..Len(ids) : records[ids[i]] # NONE
  /\ \A i \in 1..(Len(ids) - 1) : records[ids[i]].parent = ids[i + 1]
  /\ records[ids[Len(ids)]].parent = NONE

\* Every record of the chain is in force, each issuer was the subject of the
\* record above, no record grants less than the lease claims, and the top of the
\* chain was issued by a trusted root.
Backs(records, lease, now, ids) ==
  /\ PathIn(records, lease, ids)
  /\ records[ids[1]].subject = lease.agent
  /\ records[ids[1]].issuer = lease.issuer
  /\ records[ids[1]].epoch = lease.epoch
  /\ \A i \in 1..Len(ids) :
       /\ records[ids[i]].issued_at <= now
       /\ records[ids[i]].revoked_at = NONE \/ records[ids[i]].revoked_at > now
       /\ lease.scope \subseteq records[ids[i]].scope
  /\ \A i \in 1..(Len(ids) - 1) :
       /\ records[ids[i]].issuer = records[ids[i + 1]].subject
       /\ records[ids[i]].scope \subseteq records[ids[i + 1]].scope
  /\ records[ids[Len(ids)]].issuer \in TrustedRoots

\* A chain that backs a lease visits no record twice, so its length is bounded.
Chains == UNION {[1..n -> ProvIds] : n \in 1..Cardinality(ProvIds)}
HasValidChain(records, lease, now) ==
  \E ids \in Chains : Backs(records, lease, now, ids)
=============================================================================
