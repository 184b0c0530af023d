------------------------------ MODULE StateAudits ------------------------------
(***************************************************************************)
(* The audits of poiex_runtime/future_state_sufficiency.py,                 *)
(* action_capacity.py and action_independence.py.  Each is a function of a   *)
(* list of rows.  Here the lists grow one row at a time, as for an operator  *)
(* who audits again after each observation, and every state stands for the   *)
(* reports on the rows so far.                                               *)
(***************************************************************************)
EXTENDS Integers, SequencesExt

CONSTANTS
  StateIds, CoarseStates, ContinuationKernels, Coordinates, Values,
  Bottom,                          \* a coordinate that a state does not have
  ActionIds,
  Scales, Ranks,                   \* integers, what a capacity series may give
  Scopes, TargetTypes, Effects,
  EvidenceLists,                   \* sequences of integers, for their order
  MaxStates, MaxPoints, MaxActions \* bounds

ASSUME InputsAssumption ==
  /\ Scales \cup Ranks \subseteq Int
  /\ ContinuationKernels # {}
  /\ Bottom \notin Values
  /\ EvidenceLists \subseteq Seq(Int)

VARIABLES
  states,    \* the underlying operational states
  series,    \* of each action, the points of its capacity series
  actions,   \* the action contract signatures, in the order given
  refused    \* whether a list was refused with ValueError

auditsVars == <<states, series, actions, refused>>

UnderlyingState == [id: StateIds, coarse: CoarseStates,
                    kernel: ContinuationKernels,
                    residual: [Coordinates -> Values \cup {Bottom}]]
Point == [scale: Scales, rank: Ranks]
Signature == [id: ActionIds, scope: Scopes, target: TargetTypes,
              evidence: EvidenceLists, effect: Effects]

AuditsInit ==
  /\ states = {}
  /\ series = [a \in ActionIds |-> <<>>]
  /\ actions = <<>>
  /\ refused = FALSE

-----------------------------------------------------------------------------
(* audit_future_state_sufficiency                                            *)

Fresh(s) == \A t \in states : t.id # s.id

AddState ==
  /\ ~refused
  /\ \E s \in UnderlyingState :
       IF Fresh(s)
       THEN states' = states \cup {s} /\ UNCHANGED refused
       ELSE refused' = TRUE /\ UNCHANGED states
  /\ Cardinality(states') <= MaxStates
  /\ UNCHANGED <<series, actions>>

Members(c) == {s \in states : s.coarse = c}

\* STATE_ALIAS_UNSAFE, of the states of one class.
Unsafe(S) == \E s, t \in S : s.kernel # t.kernel

\* Mutant: states without the coordinate are a group like any other.
ResidualsOrMissing(S) ==
  {k \in Coordinates :
     /\ Unsafe(S)
     /\ \A v \in Values \cup {Bottom} : ~Unsafe({s \in S : s.residual[k] = v})}

\* Mutant: one value that settles the kernel is enough.
ResidualsSomewhere(S) ==
  {k \in Coordinates :
     /\ Unsafe(S)
     /\ \A s \in S : s.residual[k] # Bottom
     /\ \E s \in S : ~Unsafe({t \in S : t.residual[k] = s.residual[k]})}

\* _minimal_residual_coordinates
Residuals(S) ==
  {k \in Coordinates :
     /\ Unsafe(S)
     /\ \A s \in S : s.residual[k] # Bottom
     /\ \A v \in Values : ~Unsafe({s \in S : s.residual[k] = v})}

-----------------------------------------------------------------------------
(* audit_action_capacity                                                     *)

\* Mutant: a scale may be given twice.
ExtendsOrRepeats(points, p) ==
  /\ p.scale > 0
  /\ p.rank >= 0
  /\ points # <<>> => Last(points).scale <= p.scale

\* ActionCapacitySeries.__post_init__, of one more point of a series.
Extends(points, p) ==
  /\ p.scale > 0
  /\ p.rank >= 0
  /\ points # <<>> => Last(points).scale < p.scale

AddPoint ==
  /\ ~refused
  /\ \E a \in ActionIds, p \in Point :
       /\ Len(series[a]) < MaxPoints
       /\ IF Extends(series[a], p)
          THEN series' = [series EXCEPT ![a] = Append(@, p)] /\ UNCHANGED refused
          ELSE refused' = TRUE /\ UNCHANGED series
  /\ UNCHANGED <<states, actions>>

\* A second series for an action is a duplicate action_id.
AddSeriesAgain ==
  /\ ~refused
  /\ \E a \in ActionIds : series[a] # <<>>
  /\ refused' = TRUE
  /\ UNCHANGED <<states, series, actions>>

Monotone(points) ==
  \A i \in 1..(Len(points) - 1) : points[i].rank <= points[i + 1].rank

\* Mutant: the last step of a series is all that counts as growth.
CapacityByLastStep(points) ==
  IF ~Monotone(points) THEN "nonmonotone"
  ELSE IF Len(points) > 1 /\ Last(points).rank > points[Len(points) - 1].rank
       THEN "growing"
       ELSE "bounded_or_flat"

Capacity(points) ==
  IF ~Monotone(points) THEN "nonmonotone"
  ELSE IF Last(points).rank > Head(points).rank THEN "growing"
  ELSE "bounded_or_flat"

-----------------------------------------------------------------------------
(* audit_action_independence                                                 *)

AddAction ==
  /\ ~refused
  /\ Len(actions) < MaxActions
  /\ \E a \in Signature : actions' = Append(actions, a)
  /\ UNCHANGED <<states, series, refused>>

\* Mutant: evidence in another order makes another effect.
EffectKeyAsListed(a) == <<a.scope, a.target, a.evidence, a.effect>>

Rearrangements(s) ==
  {[i \in DOMAIN s |-> s[p[i]]] : p \in Bijection(DOMAIN s, DOMAIN s)}

Sorted(s) ==
  CHOOSE t \in Rearrangements(s) : \A i, j \in DOMAIN t : i < j => t[i] <= t[j]

EffectKey(a) == <<a.scope, a.target, Sorted(a.evidence), a.effect>>

EffectClasses ==
  {{i \in DOMAIN actions : EffectKey(actions[i]) = key} :
     key \in {EffectKey(actions[i]) : i \in DOMAIN actions}}

-----------------------------------------------------------------------------
AuditsNext == AddState \/ AddPoint \/ AddSeriesAgain \/ AddAction
AuditsSpec == AuditsInit /\ [][AuditsNext]_auditsVars

\* What is audited is well-formed: no two states share an id, and the scales of a
\* series are positive and increase from its first point to its last.
AuditsTypeOK ==
  /\ states \subseteq UnderlyingState
  /\ \A s, t \in states : s.id = t.id => s = t
  /\ series \in [ActionIds -> Seq(Point)]
  /\ \A a \in ActionIds : \A i, j \in DOMAIN series[a] :
       /\ series[a][i].scale > 0
       /\ i < j => series[a][i].scale < series[a][j].scale
  /\ actions \in Seq(Signature)
  /\ refused \in BOOLEAN

\* A coordinate is named as sufficient for a class exactly if the coarse state alone
\* does not settle the future and the coordinate does by itself: every member has
\* it, and the kernel is a function of its value.  A class that only two of them
\* together would settle has none named.
ResidualsSettleTheFuture ==
  \A c \in CoarseStates, r \in Coordinates :
    r \in Residuals(Members(c)) <=>
      /\ ~\E k \in ContinuationKernels : \A s \in Members(c) : s.kernel = k
      /\ \E future \in [Values -> ContinuationKernels] :
           \A s \in Members(c) : /\ s.residual[r] \in Values
                                 /\ s.kernel = future[s.residual[r]]

Falls(points) ==
  \E i, j \in DOMAIN points : i < j /\ points[i].rank > points[j].rank
Rises(points) ==
  \E i, j \in DOMAIN points : i < j /\ points[i].rank < points[j].rank

\* The profile of a series, found by comparing neighbours and its two ends, is
\* that of every pair of its points: nonmonotone if capacity falls anywhere,
\* growing if it rises somewhere and falls nowhere, flat if it never changes.
ProfileHoldsOfAllPairs ==
  \A a \in ActionIds : series[a] # <<>> =>
    Capacity(series[a]) = IF Falls(series[a]) THEN "nonmonotone"
                          ELSE IF Rises(series[a]) THEN "growing"
                          ELSE "bounded_or_flat"

\* Two actions that differ in their names and in the order of their evidence.
Interchangeable(a, b) ==
  /\ a.scope = b.scope
  /\ a.target = b.target
  /\ a.effect = b.effect
  /\ ToBag(a.evidence) = ToBag(b.evidence)

\* Labels do not count: the number of independent effect classes is the size of the
\* largest choice of actions no two of which are interchangeable.
LabelsDoNotCount ==
  LET Independent == {S \in SUBSET DOMAIN actions :
                        \A i, j \in S : Interchangeable(actions[i], actions[j])
                                          => i = j}
  IN /\ \E S \in Independent : Cardinality(S) = Cardinality(EffectClasses)
     /\ \A S \in Independent : Cardinality(S) <= Cardinality(EffectClasses)

\* More rows never make a warning untrue: an unsafe class stays unsafe and gains no
\* sufficient coordinate, a nonmonotone series stays so, and a growing one never
\* turns flat.
WarningsStand ==
  [][/\ \A c \in CoarseStates : Unsafe(Members(c)) =>
          /\ Unsafe(Members(c))'
          /\ Residuals(Members(c))' \subseteq Residuals(Members(c))
     /\ \A a \in ActionIds : series[a] # <<>> =>
          /\ Capacity(series[a]) = "nonmonotone" =>
               Capacity(series'[a]) = "nonmonotone"
          /\ Capacity(series[a]) = "growing" =>
               Capacity(series'[a]) # "bounded_or_flat"]_auditsVars
=============================================================================
