------------------------- MODULE AuthorityProvenance -------------------------
(***************************************************************************)
(* verify_authority_provenance of poiex_runtime/authority_provenance.py: a  *)
(* walk up the delegation chain of a lease, one store read per iteration,  *)
(* while owners revoke records in the same store.                          *)
(***************************************************************************)
EXTENDS ProvenanceRules

CONSTANTS
  Stores,              \* the stores a walk may start from
  Leases,              \* the leases a walk may be asked about
  Instants,            \* the instants a walk may be asked about
  RevocationInstants   \* revoked_at values an owner may write

Lease == [agent: Actors, issuer: Actors, scope: SUBSET Actions, epoch: Nat,
          provenance: ProvIds \cup {NONE}]

ASSUME InputAssumption ==
  /\ Stores \subseteq [ProvIds -> Record \cup {NONE}]
  /\ Leases \subseteq Lease
  /\ Instants \subseteq Nat
  /\ RevocationInstants \subseteq Nat

VARIABLES
  records,   \* the store's authority_provenance collection
  lease,
  now,
  pc,        \* "call", "walk" or "returned"
  current,   \* current_id
  child,     \* the record read in the previous iteration, or NONE
  visited,
  lineage,
  reasons,
  records0   \* history: the store at the moment of the call

vars == <<records, lease, now, pc, current, child, visited, lineage, reasons,
          records0>>
input == <<lease, now, records0>>

Init ==
  /\ records \in Stores
  /\ lease \in Leases
  /\ now \in Instants
  /\ pc = "call"
  /\ current = NONE
  /\ child = NONE
  /\ visited = {}
  /\ lineage = << >>
  /\ reasons = {}
  /\ records0 = records

NoProvenance ==
  /\ pc = "call"
  /\ lease.provenance = NONE
  /\ pc' = "returned"
  /\ reasons' = {"PROVENANCE_MISSING"}
  /\ UNCHANGED <<input, records, current, child, visited, lineage>>

Enter ==
  /\ pc = "call"
  /\ lease.provenance # NONE
  /\ pc' = "walk"
  /\ current' = lease.provenance
  /\ UNCHANGED <<input, records, child, visited, lineage, reasons>>

\* Mutant: continue where the code says break.
CycleContinues ==
  /\ pc = "walk"
  /\ current \in visited
  /\ reasons' = reasons \cup {"PROVENANCE_CYCLE"}
  /\ UNCHANGED <<input, records, pc, current, child, visited, lineage>>

Cycle ==
  /\ pc = "walk"
  /\ current \in visited
  /\ pc' = "returned"
  /\ reasons' = reasons \cup {"PROVENANCE_CYCLE"}
  /\ UNCHANGED <<input, records, current, child, visited, lineage>>

\* visited.add, lineage.append and the store read: the head of an iteration.
Visit ==
  /\ pc = "walk"
  /\ current \notin visited
  /\ visited' = visited \cup {current}
  /\ lineage' = Append(lineage, current)

RecordMissing ==
  /\ Visit
  /\ records[current] = NONE
  /\ pc' = "returned"
  /\ reasons' = reasons \cup {"PROVENANCE_RECORD_MISSING"}
  /\ UNCHANGED <<input, records, current, child>>

\* Mutant: the id becomes the next child, not the record.
InspectKeepsId(record) ==
  /\ reasons' = reasons \cup Faults(lease, child, record, now)
  /\ child' = current

\* A record that was found adds its faults and becomes the next child.
Inspect(record) ==
  /\ reasons' = reasons \cup Faults(lease, child, record, now)
  /\ child' = record

ReachRoot ==
  /\ Visit
  /\ records[current] # NONE
  /\ records[current].parent = NONE
  /\ Inspect(records[current])
  /\ pc' = "returned"
  /\ UNCHANGED <<input, records, current>>

Climb ==
  /\ Visit
  /\ records[current] # NONE
  /\ records[current].parent # NONE
  /\ Inspect(records[current])
  /\ current' = records[current].parent
  /\ UNCHANGED <<input, records, pc>>

\* put_authority_provenance of a record with revoked_at set, at any moment.
Revoke(id) ==
  /\ records[id] # NONE
  /\ records[id].revoked_at = NONE
  /\ \E t \in RevocationInstants :
       records' = [records EXCEPT ![id].revoked_at = t]
  /\ UNCHANGED <<input, pc, current, child, visited, lineage, reasons>>

Step == NoProvenance \/ Enter \/ Cycle \/ RecordMissing \/ ReachRoot \/ Climb
Next == Step \/ \E id \in ProvIds : Revoke(id)

Spec == Init /\ [][Next]_vars
FairSpec == Spec /\ WF_vars(Step)

Accepted == pc = "returned" /\ reasons = {}

-----------------------------------------------------------------------------
Reasons ==
  {"PROVENANCE_MISSING", "PROVENANCE_CYCLE", "PROVENANCE_RECORD_MISSING",
   "PROVENANCE_NOT_YET_VALID", "PROVENANCE_REVOKED",
   "PROVENANCE_SUBJECT_MISMATCH", "PROVENANCE_ISSUER_MISMATCH",
   "PROVENANCE_EPOCH_MISMATCH", "PROVENANCE_SCOPE_MISMATCH",
   "PROVENANCE_DELEGATION_GAP", "PROVENANCE_SCOPE_ESCALATION",
   "PROVENANCE_UNTRUSTED_ROOT"}

\* Every local of verify_authority_provenance keeps its type, and the loop runs
\* only with an id to read.
TypeOK ==
  /\ records \in [ProvIds -> Record \cup {NONE}]
  /\ records0 \in [ProvIds -> Record \cup {NONE}]
  /\ lease \in Lease
  /\ now \in Instant
  /\ pc \in {"call", "walk", "returned"}
  /\ current \in ProvIds \cup {NONE}
  /\ pc = "walk" => current # NONE
  /\ child \in Record \cup {NONE}
  /\ visited \subseteq ProvIds
  /\ lineage \in Seq(ProvIds)
  /\ reasons \subseteq Reasons

\* An accepted lease is backed by the chain reported in lineage_ids, and was so
\* at the moment of the call: although the walk reads one record at a time, a
\* revocation that lands between two reads cannot make it accept a chain that
\* was already broken, and a record revoked before the call is never accepted.
AcceptedIsBacked == Accepted => Backs(records0, lease, now, lineage)

\* The walk refuses only for cause: when it returns reasons, no chain in the
\* store backs the lease at the moment it returns.
\* (The checks are local to an edge, the definition quantifies over chains.)
RefusedForCause ==
  (pc = "returned" /\ reasons # {}) => ~HasValidChain(records, lease, now)

\* Every walk returns, whatever the parents say, cycles included.
Terminates == <>(pc = "returned")

\* What is left of a walk: no record is read twice, and then it returns.
StepsLeft ==
  [call |-> 2, walk |-> 1, returned |-> 0][pc] + Cardinality(ProvIds \ visited)

\* Each step of the walk uses up one of the finitely many it has, whatever the
\* parents say, and a revocation gives none back: owners who revoke without end
\* cannot keep a walk from returning.
WalkRunsOut ==
  [][IF UNCHANGED records THEN StepsLeft' < StepsLeft
                          ELSE StepsLeft' = StepsLeft]_vars
=============================================================================
