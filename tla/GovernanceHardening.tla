-------------------------- MODULE GovernanceHardening --------------------------
(***************************************************************************)
(* Two audits of poiex_runtime/governance_hardening.py whose verdict rests   *)
(* on more than one comparison: audit_memory_readback over a growing set of  *)
(* witnesses, and audit_observer_nonmint over the transitions of an observed *)
(* system, with the progress it let through.                                 *)
(***************************************************************************)
EXTENDS Integers

CONSTANTS
  Bases, Memories, Kernels,          \* what a witness names
  SystemStates, RootSets, Configs,   \* what a transition goes between
  Claims,                            \* progress units claimed in one transition
  MaxAdmitted                        \* bound on the progress let through

\* Any other claim is refused with ValueError before the audit looks at it.
ASSUME ClaimsAssumption == Claims \subseteq Nat

VARIABLES
  witnesses,   \* the witnesses gathered so far
  observed,    \* system state, evidence roots and observer configuration
  admitted,    \* progress units let through to downstream adjudication
  past         \* history: how the transitions so far have gone

readbackVars == witnesses
observerVars == <<observed, admitted, past>>
hardeningVars == <<readbackVars, observerVars>>

Witness == [base: Bases, memory: Memories, kernel: Kernels]
Observed == [system: SystemStates, roots: RootSets, config: Configs]

HardeningInit ==
  /\ witnesses = {}
  /\ observed \in Observed
  /\ admitted = 0
  /\ past = [moved |-> FALSE,            \* system state or roots changed
             reparameterized |-> FALSE,  \* the observer's configuration changed
             still |-> FALSE]            \* a transition changed nothing at all

-----------------------------------------------------------------------------
(* audit_memory_readback                                                     *)

Gather ==
  /\ \E w \in Witness : witnesses' = witnesses \cup {w}
  /\ UNCHANGED observerVars

Group(b) == {w \in witnesses : w.base = b}

\* Mutant: a base is split by the memory values of its witnesses alone.
SplitByMemory(b) == \E v, w \in Group(b) : v.memory # w.memory

\* At least two memory values and at least two kernels.
Split(b) ==
  /\ \E v, w \in Group(b) : v.memory # w.memory
  /\ \E v, w \in Group(b) : v.kernel # w.kernel

TestedBases == {w.base : w \in witnesses}
SplitBases == {b \in TestedBases : Split(b)}

-----------------------------------------------------------------------------
(* audit_observer_nonmint                                                    *)

\* Mutant: only a claim of more than one unit is looked at.
MintsBeyondOne(before, after, claimed) ==
  /\ claimed > 1
  /\ before.system = after.system
  /\ before.roots = after.roots
  /\ before.config # after.config

Mints(before, after, claimed) ==
  /\ claimed > 0
  /\ before.system = after.system
  /\ before.roots = after.roots
  /\ before.config # after.config

\* Mutant: what a reparameterization claims is taken off what was let through.
AdmissibleOrWithdrawn(before, after, claimed) ==
  IF Mints(before, after, claimed) THEN -claimed ELSE claimed

Admissible(before, after, claimed) ==
  IF Mints(before, after, claimed) THEN 0 ELSE claimed

\* A transition is audited, and what is admissible of its claim is admitted.
Transition ==
  /\ \E after \in Observed, claimed \in Claims :
       /\ observed' = after
       /\ admitted' = admitted + Admissible(observed, after, claimed)
       /\ admitted' <= MaxAdmitted
       /\ past' = [moved |-> past.moved \/ after.system # observed.system
                                        \/ after.roots # observed.roots,
                   reparameterized |-> past.reparameterized
                                         \/ after.config # observed.config,
                   still |-> past.still \/ after = observed]
  /\ UNCHANGED readbackVars

-----------------------------------------------------------------------------
HardeningNext == Gather \/ Transition
HardeningSpec == HardeningInit /\ [][HardeningNext]_hardeningVars

\* Witnesses and transitions are well-formed, and progress is a natural number.
HardeningTypeOK ==
  /\ witnesses \subseteq Witness
  /\ observed \in Observed
  /\ admitted \in Nat
  /\ past \in [moved: BOOLEAN, reparameterized: BOOLEAN, still: BOOLEAN]

MemoriesAt(b) == {w.memory : w \in Group(b)}
KernelsAt(b, m) == {w.kernel : w \in {v \in Group(b) : v.memory = m}}

\* Whether two memory values of a base lead to different kernels.
SplitByReadback(b) ==
  \E m, n \in MemoriesAt(b) : KernelsAt(b, m) # KernelsAt(b, n)

\* However the witnesses of all bases are mixed, audit_memory_readback reports every
\* base at which two memory values lead to different kernels; and where each memory
\* value leads to one kernel it reports no other.
ReadbackIsReported ==
  \A b \in Bases :
    /\ SplitByReadback(b) => b \in SplitBases
    /\ (b \in SplitBases /\ \A m \in MemoriesAt(b) : \A k, l \in KernelsAt(b, m) : k = l)
         => SplitByReadback(b)

\* "persistent history is not called operationally load-bearing memory unless
\* matched-current tests show memory-state changes split the declared future
\* decision/action kernel": what audit_memory_readback reports as load-bearing
\* readback is a base at which two memory values lead to different kernels, also
\* where one memory value leads to several.
ReadbackNeedsMemory == \A b \in SplitBases : SplitByReadback(b)

\* Progress is let through while system state and evidence roots have never moved
\* only if some transition changed nothing whatever: no succession of changes of
\* the observer's configuration admits any by itself.
NoMintByReparameterizing ==
  (admitted > 0 /\ ~past.moved) => past.still

\* "evaluator/model/window/threshold/routing reparameterization cannot mint
\* evidence or progress when system state and independent evidence roots are
\* unchanged": after the observer was reparameterized, no progress is let through
\* as long as nothing else has ever moved.
ObserverMintsNothing ==
  [][past.reparameterized /\ ~past'.moved => admitted' = admitted]_hardeningVars
=============================================================================
