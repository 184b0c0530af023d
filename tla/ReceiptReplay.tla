----------------------------- MODULE ReceiptReplay -----------------------------
(***************************************************************************)
(* What happens to a receipt after its call: it is replayed again at any    *)
(* later time, and, as poiex_runtime/fault_harness.py does, altered in the   *)
(* store before a replay.  Everything else goes on as in ControlPlane.       *)
(***************************************************************************)
EXTENDS ControlPlane

CONSTANT AlteredVersions  \* the target versions a receipt may be altered to name

ASSUME AlterationAssumption == AlteredVersions \subseteq Nat

\* ControlPlane.replay of a receipt already replayed.
ReplayAgain(c) ==
  /\ Goto(c, "done", "replay_registry")
  /\ UNCHANGED <<registries, locals, outcome, writers, history, clock>>

\* Another target hash is put in place of the one recorded ...
TamperTarget(c) ==
  /\ pc[c] = "replay_registry"
  /\ \E other \in AlteredVersions :
       /\ other # receipts[c].hash[2].version
       /\ receipts' = [receipts EXCEPT ![c].hash[2].version = other]
  /\ UNCHANGED <<registries, locals, effects, mismatches, writers, history,
                 clock, pc>>

\* ... or another result hash, of an effect this call has not had, or none at all.
TamperResult(c) ==
  /\ pc[c] = "replay_registry"
  /\ receipts[c].decision = "ALLOW"
  /\ \/ receipts' = [receipts EXCEPT ![c].result = NONE]
     \/ \E other \in AlteredVersions \ {effects[c].hash[2].version} :
          receipts' = [receipts EXCEPT ![c].result =
            ResultHash(c, [effects[c] EXCEPT !.hash[2].version = other])]
  /\ UNCHANGED <<registries, locals, effects, mismatches, writers, history,
                 clock, pc>>

ReplayNext ==
  \/ Next
  \/ \E c \in Calls : ReplayAgain(c) \/ TamperTarget(c) \/ TamperResult(c)

ReplaySpec == Init /\ [][ReplayNext]_vars

-----------------------------------------------------------------------------
\* A call that was refused before its lease, evidence and target were looked up.
NotLookedUp(c) ==
  reasons[c] \cap {"IDENTITY_NOT_AUTHENTICATED", "IDENTITY_UNKNOWN",
                   "IDENTITY_INTENT_MISMATCH"} # {}

\* Each mismatch of a replay, however late and however often it is made, has a
\* cause: what the decision itself could not find or match, evidence that was lost,
\* a target put anew since the decision, or a receipt that is not what the call wrote.
ReplayIsExplained ==
  \A c \in Calls : pc[c] = "done" =>
    LET Finds(mismatch, cause) == mismatch \in mismatches[c] => cause
    IN /\ Finds("MISSING_AGENT", "IDENTITY_UNKNOWN" \in reasons[c])
       /\ Finds("MISSING_LEASE", \/ "AUTHORITY_LEASE_MISSING" \in reasons[c]
                                 \/ NotLookedUp(c))
       /\ Finds("MISSING_EVIDENCE", seen[c].evidence_id \in lost)
       /\ Finds("MISSING_TARGET", \/ "TARGET_UNKNOWN" \in reasons[c]
                                  \/ NotLookedUp(c))
       /\ Finds("TARGET_HASH_CHANGED",
                \/ "TARGET_HASH_MISMATCH" \in reasons[c]
                \/ NotLookedUp(c)
                \/ receipts[c].hash # call[c].intent.hash
                \/ touched[c])
       /\ Finds("MISSING_EXECUTOR_RESULT_HASH", receipts[c].result = NONE)
       /\ Finds("EXECUTOR_RESULT_NOT_RECONSTRUCTABLE",
                receipts[c].result # ResultHash(c, Payload(c)))

\* What a replay that finds nothing vouches for, of an ALLOW: the effect is in the
\* store with the very result recorded, and it was bound to the target recorded,
\* unless the record was altered and the target put anew to match it.
PassVouches ==
  \A c \in Calls :
    (pc[c] = "done" /\ receipts[c].decision = "ALLOW" /\ mismatches[c] = {}) =>
      /\ effects[c] # NONE
      /\ receipts[c].result = ResultHash(c, effects[c])
      /\ receipts[c].hash # effects[c].hash => touched[c]
=============================================================================
