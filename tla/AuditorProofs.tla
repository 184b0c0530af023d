----------------------------- MODULE AuditorProofs -----------------------------
(***************************************************************************)
(* Theorems about the auditors. CertifiedRepair: for any finite sets of     *)
(* obligations and candidates. StateAudits: for any number of states,       *)
(* points and actions and any sets of kernels, coordinates and values.      *)
(* GovernanceHardening: for any sets of bases, memories, kernels and        *)
(* observed values, and any number of witnesses and transitions.            *)
(***************************************************************************)
EXTENDS CertifiedRepair, StateAudits, GovernanceHardening, FiniteSetTheorems,
        FunctionTheorems, WellFoundedInduction, TLAPS

-----------------------------------------------------------------------------
(* Sums over finite sets.  The library defines them by a recursive function   *)
(* on the subsets; what is proved of every finite set here is proved of a     *)
(* smallest counterexample.                                                  *)

\* Of finite sets, one is minimal: what an induction on finite sets rests on.
LEMMA MinimalSet ==
  ASSUME NEW S, IsFiniteSet(S), NEW T, T \subseteq SUBSET S, T # {}
  PROVE  \E m \in T : \A k \in T : k \subseteq m => k = m
<1>1. T \subseteq FiniteSubsetsOf(S)
  BY FS_Subset DEF FiniteSubsetsOf
<1>2. IsWellFoundedOn(StrictSubsetOrdering(S), FiniteSubsetsOf(S))
  BY FS_StrictSubsetOrderingWellFounded
<1>3. PICK m \in T : \A k \in T : ~(<<k, m>> \in StrictSubsetOrdering(S))
  BY <1>1, <1>2, WFMin
<1>4. ASSUME NEW k \in T, k \subseteq m PROVE k = m
  <2>1. <<k, m>> \in (SUBSET S) \X (SUBSET S)
    OBVIOUS
  <2> QED
    BY <1>3, <1>4, <2>1 DEF StrictSubsetOrdering
<1> QED
  BY <1>4

Pick(s) == CHOOSE x \in s : TRUE
IsIter(it, f, S) ==
  it = [s \in SUBSET S |-> IF s = {} THEN 0 ELSE f[Pick(s)] + it[s \ {Pick(s)}]]

LEMMA SumIsIter ==
  ASSUME NEW f, NEW S
  PROVE  SumFunctionOnSet(f, S) = (CHOOSE it : IsIter(it, f, S))[S]
  BY DEF SumFunctionOnSet, FoldFunctionOnSet, MapThenFoldSet, IsIter, Pick

LEMMA PickIn == \A s : s # {} => Pick(s) \in s
  BY DEF Pick

\* Two partial sums agree where both are defined.
LEMMA IterAgree ==
  ASSUME NEW f, NEW S, NEW T, IsFiniteSet(S), NEW i, NEW j,
         IsIter(i, f, S), IsIter(j, f, T)
  PROVE  \A s \in SUBSET (S \cap T) : i[s] = j[s]
<1> DEFINE Bad == {s \in SUBSET (S \cap T) : i[s] # j[s]}
<1> SUFFICES ASSUME Bad # {} PROVE FALSE
  OBVIOUS
<1>1. PICK m \in Bad : \A k \in Bad : k \subseteq m => k = m
  <2>1. Bad \subseteq SUBSET S
    OBVIOUS
  <2> HIDE DEF Bad
  <2> QED
    BY <2>1, MinimalSet
<1>2. /\ i[m] = IF m = {} THEN 0 ELSE f[Pick(m)] + i[m \ {Pick(m)}]
      /\ j[m] = IF m = {} THEN 0 ELSE f[Pick(m)] + j[m \ {Pick(m)}]
  <2>1. m \in SUBSET S /\ m \in SUBSET T
    OBVIOUS
  <2> QED
    BY <2>1 DEF IsIter
<1>3. m # {} => m \ {Pick(m)} \notin Bad
  BY <1>1, PickIn
<1> QED
  BY <1>2, <1>3

\* The sum of a function over the empty set, and by way of the element that the
\* definition takes first.
LEMMA SumUnfold ==
  ASSUME NEW f, NEW S, IsFiniteSet(S)
  PROVE  SumFunctionOnSet(f, S) =
           IF S = {} THEN 0
           ELSE f[Pick(S)] + SumFunctionOnSet(f, S \ {Pick(S)})
<1> DEFINE Total(s) == SumFunctionOnSet(f, s)
           HasIter(s) == \E it : IsIter(it, f, s)
<1>1. ASSUME NEW A, IsFiniteSet(A), HasIter(A), NEW s \in SUBSET A, HasIter(s)
      PROVE  \A it : IsIter(it, f, A) => it[s] = Total(s)
  <2>1. IsIter((CHOOSE it : IsIter(it, f, s)), f, s)
    BY <1>1
  <2>2. Total(s) = (CHOOSE it : IsIter(it, f, s))[s]
    BY SumIsIter
  <2>3. s \in SUBSET (A \cap s)
    OBVIOUS
  <2> QED
    BY <1>1, <2>1, <2>2, <2>3, IterAgree
<1>2. ASSUME NEW A, IsFiniteSet(A), \A s \in SUBSET A : HasIter(s)
      PROVE  Total(A) = IF A = {} THEN 0 ELSE f[Pick(A)] + Total(A \ {Pick(A)})
  <2>1. PICK it : IsIter(it, f, A)
    BY <1>2
  <2>2. it[A] = IF A = {} THEN 0 ELSE f[Pick(A)] + it[A \ {Pick(A)}]
    BY <2>1 DEF IsIter
  <2>3. it[A] = Total(A) /\ it[A \ {Pick(A)}] = Total(A \ {Pick(A)})
    BY <1>1, <1>2, <2>1
  <2> QED
    BY <2>2, <2>3
<1>3. \A s \in SUBSET S : HasIter(s)
  <2> DEFINE Bad == {s \in SUBSET S : ~HasIter(s)}
  <2> SUFFICES ASSUME Bad # {} PROVE FALSE
    OBVIOUS
  <2>1. PICK m \in Bad : \A k \in Bad : k \subseteq m => k = m
    <3>1. Bad \subseteq SUBSET S
      OBVIOUS
    <3> HIDE DEF Bad
    <3> QED
      BY <3>1, MinimalSet
  <2>2. \A s \in SUBSET m : s # m => HasIter(s)
    BY <2>1
  <2> DEFINE g == [s \in SUBSET m |->
                     IF s = {} THEN 0 ELSE f[Pick(s)] + Total(s \ {Pick(s)})]
  <2>3. ASSUME NEW s \in SUBSET m, s # {}
        PROVE  g[s \ {Pick(s)}] = Total(s \ {Pick(s)})
    <3>1. PICK t : t = s \ {Pick(s)}
      OBVIOUS
    <3>2. t \in SUBSET m /\ t # m /\ IsFiniteSet(t)
      BY <2>3, <3>1, PickIn, FS_Subset
    <3>3. \A u \in SUBSET t : HasIter(u)
      BY <2>2, <3>2
    <3>4. Total(t) = IF t = {} THEN 0 ELSE f[Pick(t)] + Total(t \ {Pick(t)})
      BY <1>2, <3>2, <3>3
    <3> QED
      BY <3>1, <3>2, <3>4
  <2>4. IsIter(g, f, m)
    BY <2>3 DEF IsIter
  <2> QED
    BY <2>1, <2>4
<1> QED
  BY <1>2, <1>3

LEMMA SumEmpty == \A f : SumFunctionOnSet(f, {}) = 0
  BY SumUnfold, FS_EmptySet

LEMMA SumInt ==
  ASSUME NEW f, NEW S, IsFiniteSet(S), \A x \in S : f[x] \in Int
  PROVE  SumFunctionOnSet(f, S) \in Int
<1> DEFINE Bad == {s \in SUBSET S : SumFunctionOnSet(f, s) \notin Int}
<1> SUFFICES ASSUME Bad # {} PROVE FALSE
  OBVIOUS
<1>1. PICK m \in Bad : \A k \in Bad : k \subseteq m => k = m
  <2>1. Bad \subseteq SUBSET S
    OBVIOUS
  <2> HIDE DEF Bad
  <2> QED
    BY <2>1, MinimalSet
<1>2. m # {} => m \ {Pick(m)} \notin Bad /\ f[Pick(m)] \in Int
  BY <1>1, PickIn
<1>3. IsFiniteSet(m)
  BY FS_Subset
<1> QED
  BY <1>2, <1>3, SumUnfold

\* The sum does not depend on the element it starts with.
LEMMA SumAdd ==
  ASSUME NEW f, NEW S, IsFiniteSet(S), \A x \in S : f[x] \in Int, NEW x \in S
  PROVE  SumFunctionOnSet(f, S) = f[x] + SumFunctionOnSet(f, S \ {x})
<1> DEFINE Total(s) == SumFunctionOnSet(f, s)
           Bad == {s \in SUBSET S : \E y \in s : Total(s) # f[y] + Total(s \ {y})}
<1> SUFFICES ASSUME Bad # {} PROVE FALSE
  OBVIOUS
<1>1. PICK m \in Bad : \A k \in Bad : k \subseteq m => k = m
  <2>1. Bad \subseteq SUBSET S
    OBVIOUS
  <2> HIDE DEF Bad
  <2> QED
    BY <2>1, MinimalSet
<1>2. PICK y \in m : Total(m) # f[y] + Total(m \ {y})
  OBVIOUS
<1>3. PICK p : p = Pick(m)
  OBVIOUS
<1>4. p \in m /\ IsFiniteSet(m)
  BY <1>2, <1>3, PickIn, FS_Subset
<1>5. Total(m) = f[p] + Total(m \ {p})
  BY <1>3, <1>4, SumUnfold
<1>6. y # p
  BY <1>2, <1>5
<1>7. PICK rest : rest = (m \ {p}) \ {y}
  OBVIOUS
<1>8. Total(m \ {p}) = f[y] + Total(rest)
  <2>1. m \ {p} \in SUBSET S /\ m \ {p} \notin Bad /\ y \in m \ {p}
    BY <1>1, <1>4, <1>6
  <2> QED
    BY <2>1, <1>7
<1>9. Total(m \ {y}) = f[p] + Total(rest)
  <2>1. m \ {y} \in SUBSET S /\ m \ {y} \notin Bad /\ p \in m \ {y}
    BY <1>1, <1>2, <1>4, <1>6
  <2>2. rest = (m \ {y}) \ {p}
    BY <1>7
  <2> QED
    BY <2>1, <2>2
<1>10. Total(rest) \in Int /\ f[p] \in Int /\ f[y] \in Int
  <2>1. IsFiniteSet(rest) /\ \A z \in rest : f[z] \in Int
    BY <1>7, FS_Subset
  <2> QED
    BY <1>4, <2>1, SumInt
<1> HIDE DEF Total
<1> QED
  BY <1>2, <1>5, <1>8, <1>9, <1>10

\* A sum of naturals over more elements, of a function that is larger, is larger.
LEMMA SumMono ==
  ASSUME NEW f, NEW g, NEW T, IsFiniteSet(T), NEW S \in SUBSET T,
         \A x \in T : g[x] \in Nat,
         \A x \in S : f[x] \in Int /\ f[x] <= g[x]
  PROVE  SumFunctionOnSet(f, S) <= SumFunctionOnSet(g, T)
<1> DEFINE F(s) == SumFunctionOnSet(f, S \cap s)
           G(s) == SumFunctionOnSet(g, s)
           Bad == {s \in SUBSET T : ~(F(s) <= G(s))}
<1>0. S \cap T = S
  OBVIOUS
<1> SUFFICES ASSUME Bad # {} PROVE FALSE
  BY <1>0
<1>1. PICK m \in Bad : \A k \in Bad : k \subseteq m => k = m
  <2>1. Bad \subseteq SUBSET T
    OBVIOUS
  <2> HIDE DEF Bad
  <2> QED
    BY <2>1, MinimalSet
<1>2. CASE m = {}
  <2>1. S \cap {} = {}
    OBVIOUS
  <2> QED
    BY <1>2, <2>1, SumEmpty
<1>3. CASE m # {}
  <2>1. PICK p : p \in m
    BY <1>3
  <2>2. PICK rest : rest = m \ {p}
    OBVIOUS
  <2>3. F(rest) <= G(rest)
    BY <1>1, <2>1, <2>2
  <2>4. /\ IsFiniteSet(m) /\ IsFiniteSet(rest)
        /\ IsFiniteSet(S \cap m) /\ IsFiniteSet(S \cap rest)
    BY <2>2, FS_Subset
  <2>5. F(rest) \in Int /\ G(rest) \in Int
    BY <2>2, <2>4, SumInt
  <2>6. G(m) = g[p] + G(rest)
    BY <2>1, <2>2, <2>4, SumAdd
  <2>7. CASE p \in S
    <3>1. (S \cap m) \ {p} = S \cap rest /\ p \in S \cap m
      BY <2>1, <2>2, <2>7
    <3>2. F(m) = f[p] + F(rest)
      BY <2>4, <3>1, SumAdd
    <3>3. f[p] \in Int /\ g[p] \in Nat /\ f[p] <= g[p] /\ ~(F(m) <= G(m))
      BY <2>1, <2>7
    <3> HIDE DEF F, G
    <3> QED
      BY <2>3, <2>5, <2>6, <3>2, <3>3
  <2>8. CASE p \notin S
    <3>1. F(m) = F(rest)
      <4>1. S \cap m = S \cap rest
        BY <2>2, <2>8
      <4> QED
        BY <4>1
    <3>2. g[p] \in Nat /\ ~(F(m) <= G(m))
      BY <2>1
    <3> HIDE DEF F, G
    <3> QED
      BY <2>3, <2>5, <2>6, <3>1, <3>2
  <2> QED
    BY <2>7, <2>8
<1> QED
  BY <1>2, <1>3

\* What two sets share is counted once in the sum over both.
LEMMA SumUnion ==
  ASSUME NEW f, NEW S, NEW T, IsFiniteSet(S), IsFiniteSet(T),
         \A x \in S \cup T : f[x] \in Nat
  PROVE  SumFunctionOnSet(f, S \cup T)
           <= SumFunctionOnSet(f, S) + SumFunctionOnSet(f, T)
<1> DEFINE F(s) == SumFunctionOnSet(f, s)
           Bad == {s \in SUBSET T : ~(F(S \cup s) <= F(S) + F(s))}
<1>f. \A s \in SUBSET T : IsFiniteSet(s) /\ IsFiniteSet(S \cup s)
  BY FS_Subset, FS_Union
<1>t. F(S) \in Int /\ \A s \in SUBSET T : F(s) \in Int /\ F(S \cup s) \in Int
  BY <1>f, SumInt
<1> SUFFICES ASSUME Bad # {} PROVE FALSE
  OBVIOUS
<1>1. PICK m \in Bad : \A k \in Bad : k \subseteq m => k = m
  <2>1. Bad \subseteq SUBSET T
    OBVIOUS
  <2> HIDE DEF Bad
  <2> QED
    BY <2>1, MinimalSet
<1>2. CASE m = {}
  <2>1. S \cup {} = S /\ F({}) = 0
    BY SumEmpty
  <2>2. F(S) <= F(S) + 0
    <3> HIDE DEF F
    <3> QED
      BY <1>t
  <2> QED
    BY <1>2, <2>1, <2>2
<1>3. CASE m # {}
  <2>1. PICK p : p \in m
    BY <1>3
  <2>2. PICK rest : rest = m \ {p}
    OBVIOUS
  <2>3. F(S \cup rest) <= F(S) + F(rest)
    BY <1>1, <2>1, <2>2
  <2>4. F(m) = f[p] + F(rest)
    BY <1>f, <2>1, <2>2, SumAdd
  <2>5. F(S \cup m) = F(S \cup rest) \/ F(S \cup m) = f[p] + F(S \cup rest)
    <3>1. CASE p \in S
      <4>1. S \cup m = S \cup rest
        BY <2>2, <3>1
      <4> QED
        BY <4>1
    <3>2. CASE p \notin S
      <4>1. (S \cup m) \ {p} = S \cup rest /\ p \in S \cup m
        BY <2>1, <2>2, <3>2
      <4> QED
        BY <1>f, <4>1, SumAdd
    <3> QED
      BY <3>1, <3>2
  <2>6. /\ f[p] \in Nat /\ F(rest) \in Int /\ F(S \cup rest) \in Int /\ F(S) \in Int
        /\ ~(F(S \cup m) <= F(S) + F(m))
    BY <1>t, <2>1, <2>2
  <2> HIDE DEF F
  <2> QED
    BY <2>3, <2>4, <2>5, <2>6
<1> QED
  BY <1>2, <1>3

-----------------------------------------------------------------------------
(* Certified repair.                                                         *)

\* The weights that count, as one function, and what a set of candidates repairs.
Counted(b) == [o \in Ids |-> Weight(b, o)]
Covered(b, S) == {o \in Ids : \E c \in S : b.covers[c][o] > 0}

LEMMA BranchTyped ==
  ASSUME NEW b \in Branch
  PROVE  /\ b.necessary \subseteq Ids /\ IsFiniteSet(b.necessary)
         /\ b.budget \in Int
         /\ \A c \in Candidates : /\ b.cost[c] \in Nat
                                  /\ \A o \in Ids : b.covers[c][o] \in Nat
         /\ \A o \in Ids : Weight(b, o) \in Nat /\ Counted(b)[o] = Weight(b, o)
<1>1. /\ b.necessary \subseteq Ids
      /\ b.budget \in Int
      /\ \A c \in Candidates : b.cost[c] \in Nat
  <2>1. b.necessary \subseteq Ids /\ b.budget \in Budgets /\ b.cost \in [Candidates -> Costs]
    BY DEF Branch
  <2> QED
    BY <2>1, ConstantsAssumption
<1>2. \A c \in Candidates : \A o \in Ids : b.covers[c][o] \in Nat
  <2>1. b.covers \in [Candidates -> [Ids -> Times]] /\ Times \subseteq Nat
    BY ConstantsAssumption DEF Branch
  <2> QED
    BY <2>1
<1>3. \A o \in Ids : Weight(b, o) \in Nat
  <2>1. \A o \in Ids : b.weights[o] # NONE => b.weights[o] \in Int
    BY ConstantsAssumption DEF Branch
  <2> QED
    BY <2>1 DEF Weight, Misweighted
<1>4. IsFiniteSet(b.necessary)
  BY <1>1, ConstantsAssumption, FS_Subset
<1> QED
  BY <1>1, <1>2, <1>3, <1>4 DEF Counted

\* A candidate that the certificate does not overload costs at least what the
\* obligations it can repair weigh.
LEMMA CandidateCost ==
  ASSUME NEW b \in Branch, NEW c \in Candidates, c \notin Overloaded(b)
  PROVE  SumFunctionOnSet(Counted(b), Covered(b, {c})) <= b.cost[c]
<1> DEFINE load == [o \in Ids |-> b.covers[c][o] * Weight(b, o)]
<1>1. \A o \in Ids : load[o] \in Nat
  BY BranchTyped
<1>2. \A o \in Covered(b, {c}) :
        /\ o \in Ids
        /\ Counted(b)[o] \in Int
        /\ Counted(b)[o] <= load[o]
  <2> SUFFICES ASSUME NEW o \in Covered(b, {c})
               PROVE  o \in Ids /\ Counted(b)[o] \in Int /\ Counted(b)[o] <= load[o]
    OBVIOUS
  <2>1. /\ o \in Ids /\ b.covers[c][o] > 0
    BY DEF Covered
  <2>2. /\ b.covers[c][o] \in Nat /\ Weight(b, o) \in Nat
        /\ Counted(b)[o] = Weight(b, o) /\ load[o] = b.covers[c][o] * Weight(b, o)
    BY <2>1, BranchTyped
  <2>3. \A m, n \in Nat : m > 0 => n <= m * n
    OBVIOUS
  <2> QED
    BY <2>1, <2>2, <2>3
<1>3. Covered(b, {c}) \in SUBSET Ids /\ IsFiniteSet(Ids)
  BY ConstantsAssumption DEF Covered
<1>4. SumFunctionOnSet(Counted(b), Covered(b, {c})) <= SumFunctionOnSet(load, Ids)
  <2> HIDE DEF load
  <2> QED
    BY <1>1, <1>2, <1>3, SumMono
<1>5. SumFunctionOnSet(load, Ids) = Load(b, c)
  BY DEF Load, SumFunction
<1>6. Load(b, c) <= b.cost[c]
  <2>1. Load(b, c) \in Int
    <3> HIDE DEF load
    <3> QED
      BY <1>1, <1>3, <1>5, SumInt
  <2> QED
    BY <2>1, BranchTyped DEF Overloaded
<1>7. /\ SumFunctionOnSet(Counted(b), Covered(b, {c})) \in Int
      /\ SumFunctionOnSet(load, Ids) \in Int /\ b.cost[c] \in Int
  <2>1. IsFiniteSet(Covered(b, {c}))
    BY <1>3, FS_Subset
  <2>2. b.cost[c] \in Int
    BY BranchTyped
  <2> HIDE DEF load
  <2>3. SumFunctionOnSet(load, Ids) \in Int
    BY <1>1, <1>3, SumInt
  <2>4. SumFunctionOnSet(Counted(b), Covered(b, {c})) \in Int
    BY <1>2, <2>1, SumInt
  <2> QED
    BY <2>2, <2>3, <2>4
<1> HIDE DEF load
<1> QED
  BY <1>4, <1>5, <1>6, <1>7

\* So does any set of them: the certificate is a feasible solution of the dual of
\* the covering problem.
LEMMA CandidatesCost ==
  ASSUME NEW b \in Branch, Overloaded(b) = {}, NEW S \in SUBSET Candidates
  PROVE  SumFunctionOnSet(Counted(b), Covered(b, S)) <= CostOf(b, S)
<1> DEFINE Gain(s) == SumFunctionOnSet(Counted(b), Covered(b, s))
           Cost(s) == SumFunctionOnSet(b.cost, s)
           Bad == {s \in SUBSET S : ~(Gain(s) <= Cost(s))}
<1>f. \A s : /\ Covered(b, s) \in SUBSET Ids /\ IsFiniteSet(Covered(b, s))
             /\ \A o \in Covered(b, s) : Counted(b)[o] \in Nat
  <2>1. \A s : Covered(b, s) \in SUBSET Ids
    BY DEF Covered
  <2> QED
    BY <2>1, ConstantsAssumption, FS_Subset, BranchTyped
<1>s. IsFiniteSet(S) /\ \A s \in SUBSET S : IsFiniteSet(s)
  BY ConstantsAssumption, FS_Subset
<1>t. /\ \A s : Gain(s) \in Int
      /\ \A s \in SUBSET S : Cost(s) \in Int
  BY <1>f, <1>s, SumInt, BranchTyped
<1> SUFFICES ASSUME Bad # {} PROVE FALSE
  BY DEF CostOf
<1>1. PICK m \in Bad : \A k \in Bad : k \subseteq m => k = m
  <2>1. Bad \subseteq SUBSET S
    OBVIOUS
  <2> HIDE DEF Bad
  <2> QED
    BY <1>s, <2>1, MinimalSet
<1>2. CASE m = {}
  <2>1. Covered(b, {}) = {}
    BY DEF Covered
  <2>2. Gain({}) = 0 /\ Cost({}) = 0
    BY <2>1, SumEmpty
  <2> QED
    BY <1>2, <2>2
<1>3. CASE m # {}
  <2>1. PICK c : c \in m
    BY <1>3
  <2>2. PICK rest : rest = m \ {c}
    OBVIOUS
  <2>3. Gain(rest) <= Cost(rest)
    BY <1>1, <2>1, <2>2
  <2>4. Gain(m) <= Gain(rest) + Gain({c})
    <3>1. Covered(b, m) = Covered(b, rest) \cup Covered(b, {c})
      BY <2>1, <2>2 DEF Covered
    <3> QED
      BY <1>f, <3>1, SumUnion
  <2>5. Gain({c}) <= b.cost[c]
    BY <2>1, CandidateCost
  <2>6. Cost(m) = b.cost[c] + Cost(rest)
    <3>1. IsFiniteSet(m) /\ \A x \in m : b.cost[x] \in Int
      BY <1>s, BranchTyped
    <3> QED
      BY <2>1, <2>2, <3>1, SumAdd
  <2>7. /\ Gain(m) \in Int /\ Gain(rest) \in Int /\ Gain({c}) \in Int
        /\ Cost(rest) \in Int /\ b.cost[c] \in Int /\ ~(Gain(m) <= Cost(m))
    BY <1>t, <2>1, <2>2, BranchTyped
  <2> HIDE DEF Gain, Cost
  <2> QED
    BY <2>3, <2>4, <2>5, <2>6, <2>7
<1> QED
  BY <1>2, <1>3

LEMMA BoundTyped ==
  ASSUME NEW b \in Branch
  PROVE  LowerBound(b) \in Nat
<1>1. LowerBound(b) = SumFunctionOnSet(Counted(b), b.necessary)
  BY DEF LowerBound, Counted
<1>2. \A o \in b.necessary : Counted(b)[o] \in Nat
  BY BranchTyped
<1>3. /\ SumFunctionOnSet(Counted(b), {}) <= SumFunctionOnSet(Counted(b), b.necessary)
      /\ SumFunctionOnSet(Counted(b), b.necessary) \in Int
  BY <1>2, BranchTyped, SumMono, SumInt
<1> QED
  BY <1>1, <1>3, SumEmpty

\* Every repair covers what is necessary, so it costs at least the bound.
LEMMA RepairsCost ==
  ASSUME NEW b \in Branch, ~Invalid(b), NEW S \in Repairs(b)
  PROVE  /\ CostOf(b, S) \in Int
         /\ LowerBound(b) <= CostOf(b, S)
         /\ Uncovered(b) = {}
<1>1. S \in SUBSET Candidates /\ b.necessary \subseteq Covered(b, S)
  BY BranchTyped DEF Repairs, Covered
<1>2. /\ IsFiniteSet(Covered(b, S)) /\ IsFiniteSet(S)
      /\ \A o \in Covered(b, S) : Counted(b)[o] \in Nat
  <2>1. Covered(b, S) \in SUBSET Ids
    BY DEF Covered
  <2> QED
    BY <1>1, <2>1, ConstantsAssumption, FS_Subset, BranchTyped
<1>3. LowerBound(b) <= SumFunctionOnSet(Counted(b), Covered(b, S))
  <2>1. LowerBound(b) = SumFunctionOnSet(Counted(b), b.necessary)
    BY DEF LowerBound, Counted
  <2>2. \A o \in b.necessary : Counted(b)[o] \in Int /\ Counted(b)[o] <= Counted(b)[o]
    BY <1>1, <1>2
  <2> QED
    BY <1>1, <1>2, <2>1, <2>2, SumMono
<1>4. SumFunctionOnSet(Counted(b), Covered(b, S)) <= CostOf(b, S)
  BY <1>1, CandidatesCost DEF Invalid
<1>5. /\ LowerBound(b) \in Int /\ CostOf(b, S) \in Int
      /\ SumFunctionOnSet(Counted(b), Covered(b, S)) \in Int
  BY <1>1, <1>2, SumInt, BoundTyped, BranchTyped DEF CostOf
<1>6. Uncovered(b) = {}
  BY <1>1 DEF Uncovered, Repairs
<1> QED
  BY <1>3, <1>4, <1>5, <1>6

RepairInv ==
  /\ TypeOK
  /\ verdict \in {"CERTIFIED_PRUNE", "KEEP_SEARCH"} =>
       ~Invalid(branch) /\ lower_bound = LowerBound(branch)
  /\ verdict = "CERTIFIED_PRUNE" => Prunable(branch)

LEMMA RepairInvariant == Spec => []RepairInv
<1>1. Init => RepairInv
  BY ConstantsAssumption DEF Init, RepairInv, TypeOK
<1>2. RepairInv /\ [Next]_vars => RepairInv'
  <2> SUFFICES ASSUME RepairInv, [Next]_vars PROVE RepairInv'
    OBVIOUS
  <2>1. LowerBound(branch) \in Nat
    BY BoundTyped DEF RepairInv, TypeOK
  <2>2. CASE Refuse
    BY <2>2 DEF Refuse, RepairInv, TypeOK
  <2>3. CASE Reject \/ Prune \/ Keep
    <3>1. branch' = branch /\ lower_bound' = LowerBound(branch)
      BY <2>3 DEF Reject, Prune, Keep, Conclude
    <3>2. /\ Invalid(branch)' <=> Invalid(branch)
          /\ Prunable(branch)' <=> Prunable(branch)
          /\ LowerBound(branch)' = LowerBound(branch)
      BY <3>1
    <3> QED
      BY <2>1, <2>3, <3>1, <3>2 DEF Reject, Prune, Keep, Conclude, RepairInv, TypeOK
  <2>4. CASE UNCHANGED vars
    BY <2>4 DEF vars, RepairInv, TypeOK
  <2> QED
    BY <2>2, <2>3, <2>4 DEF Next
<1> QED
  BY <1>1, <1>2, PTL DEF Spec

\* Whatever the certificate and however many obligations and candidates there are,
\* the verdict is one the function has and the bound is not negative.
THEOREM RepairTypeCorrect == Spec => []TypeOK
  BY RepairInvariant, PTL DEF RepairInv

\* The bound of an accepted certificate is below the cost of every repair, for any
\* finite covering problem.
THEOREM BoundIsOne == Spec => []BoundHolds
<1>1. RepairInv => BoundHolds
  <2> SUFFICES ASSUME RepairInv, verdict \in {"CERTIFIED_PRUNE", "KEEP_SEARCH"},
                      NEW S \in Repairs(branch)
               PROVE  CostOf(branch, S) >= lower_bound
    BY DEF BoundHolds
  <2>1. branch \in Branch /\ ~Invalid(branch) /\ lower_bound = LowerBound(branch)
    BY DEF RepairInv, TypeOK
  <2>2. /\ CostOf(branch, S) \in Int /\ LowerBound(branch) <= CostOf(branch, S)
        /\ LowerBound(branch) \in Nat
    BY <2>1, RepairsCost, BoundTyped
  <2> QED
    BY <2>1, <2>2
<1> QED
  BY <1>1, RepairInvariant, PTL

\* A pruned branch has no repair within its budget, for any finite covering problem
\* and whatever weights the certificate gave.
THEOREM PruningIsSound == Spec => []PruneIsSound
<1>1. RepairInv => PruneIsSound
  <2> SUFFICES ASSUME RepairInv, verdict = "CERTIFIED_PRUNE",
                      NEW S \in Repairs(branch)
               PROVE  CostOf(branch, S) > branch.budget
    BY DEF PruneIsSound
  <2>1. branch \in Branch /\ ~Invalid(branch) /\ Prunable(branch)
    BY DEF RepairInv, TypeOK
  <2>2. /\ CostOf(branch, S) \in Int /\ LowerBound(branch) <= CostOf(branch, S)
        /\ Uncovered(branch) = {} /\ LowerBound(branch) \in Nat
        /\ branch.budget \in Int
    BY <2>1, RepairsCost, BoundTyped, BranchTyped
  <2>3. LowerBound(branch) > branch.budget
    BY <2>1, <2>2 DEF Prunable
  <2> QED
    BY <2>2, <2>3
<1> QED
  BY <1>1, RepairInvariant, PTL

-----------------------------------------------------------------------------
(* States and capacity series.                                               *)

LEMMA InputSets ==
  /\ Scales \cup Ranks \subseteq Int
  /\ ContinuationKernels # {}
  /\ Bottom \notin Values
  BY InputsAssumption

USE InputSets

\* A point that extends a series keeps its scales positive and increasing.
LEMMA ExtendedSeries ==
  ASSUME NEW points \in Seq(Point), NEW p \in Point, Extends(points, p),
         \A i, j \in DOMAIN points :
           /\ points[i].scale > 0
           /\ i < j => points[i].scale < points[j].scale
  PROVE  LET longer == Append(points, p)
         IN \A i, j \in DOMAIN longer :
              /\ longer[i].scale > 0
              /\ i < j => longer[i].scale < longer[j].scale
<1> DEFINE longer == Append(points, p)
           n == Len(points)
<1>1. /\ n \in Nat
      /\ DOMAIN longer = 1..(n + 1)
      /\ DOMAIN points = 1..n
      /\ longer[n + 1] = p
      /\ \A i \in 1..n : longer[i] = points[i]
  OBVIOUS
<1>2. \A i \in 1..n : points[i] \in Point
  OBVIOUS
<1>3. \A q \in Point : q.scale \in Int
  BY DEF Point
<1>4. n > 0 => points[n].scale < p.scale
  BY <1>1 DEF Extends, Last
<1>5. \A i \in 1..n : points[i].scale < p.scale
  <2> SUFFICES ASSUME NEW i \in 1..n PROVE points[i].scale < p.scale
    OBVIOUS
  <2>1. CASE i = n
    BY <1>4, <2>1
  <2>2. CASE i < n
    <3>1. points[i].scale < points[n].scale
      BY <1>1, <2>2
    <3>2. /\ points[i].scale \in Int
          /\ points[n].scale \in Int
          /\ p.scale \in Int
      BY <1>1, <1>2, <1>3, <2>2
    <3>3. points[n].scale < p.scale
      BY <1>1, <1>4, <2>2
    <3> QED
      BY <3>1, <3>2, <3>3
  <2>3. i = n \/ i < n
    <3>1. n \in Nat
      BY <1>1
    <3> QED
      BY <3>1
  <2> QED
    BY <2>1, <2>2, <2>3
<1> SUFFICES ASSUME NEW i \in 1..(n + 1), NEW j \in 1..(n + 1)
             PROVE  /\ longer[i].scale > 0
                    /\ i < j => longer[i].scale < longer[j].scale
  BY <1>1
<1>6. longer[i].scale > 0
  <2>1. CASE i = n + 1
    BY <1>1, <2>1 DEF Extends
  <2>2. CASE i \in 1..n
    BY <1>1, <2>2
  <2> QED
    BY <1>1, <2>1, <2>2
<1>7. ASSUME i < j PROVE longer[i].scale < longer[j].scale
  <2>1. i \in 1..n
    BY <1>1, <1>7
  <2>2. CASE j = n + 1
    BY <1>1, <1>5, <2>1, <2>2
  <2>3. CASE j \in 1..n
    BY <1>1, <1>7, <2>1, <2>3
  <2> QED
    BY <1>1, <2>2, <2>3
<1> QED
  BY <1>6, <1>7

\* Ids of states stay unique and the scales of a series positive and increasing,
\* however many rows were added.
THEOREM AuditsTypeCorrect == AuditsSpec => []AuditsTypeOK
<1>1. AuditsInit => AuditsTypeOK
  <2> SUFFICES ASSUME AuditsInit PROVE AuditsTypeOK
    OBVIOUS
  <2>1. /\ series \in [ActionIds -> Seq(Point)]
        /\ \A a \in ActionIds : DOMAIN series[a] = {}
    BY DEF AuditsInit
  <2>2. \A a \in ActionIds : \A i, j \in DOMAIN series[a] :
          /\ series[a][i].scale > 0
          /\ i < j => series[a][i].scale < series[a][j].scale
    BY <2>1
  <2>3. /\ states \subseteq UnderlyingState
        /\ \A s, t \in states : s.id = t.id => s = t
        /\ refused \in BOOLEAN
    BY DEF AuditsInit
  <2>4. actions \in Seq(Signature)
    <3>1. actions = <<>>
      BY DEF AuditsInit
    <3> HIDE DEF AuditsInit
    <3> QED
      BY <3>1
  <2> QED
    BY <2>1, <2>2, <2>3, <2>4 DEF AuditsTypeOK
<1>2. AuditsTypeOK /\ [AuditsNext]_auditsVars => AuditsTypeOK'
  <2> SUFFICES ASSUME AuditsTypeOK, [AuditsNext]_auditsVars PROVE AuditsTypeOK'
    OBVIOUS
  <2> USE DEF AuditsTypeOK
  <2>1. CASE AddState
    <3>1. PICK s \in UnderlyingState :
            IF Fresh(s)
            THEN states' = states \cup {s} /\ UNCHANGED refused
            ELSE refused' = TRUE /\ UNCHANGED states
      BY <2>1 DEF AddState
    <3>2. states' \subseteq UnderlyingState /\ refused' \in BOOLEAN
      BY <3>1
    <3>3. \A u, v \in states' : u.id = v.id => u = v
      BY <3>1 DEF Fresh
    <3> QED
      BY <2>1, <3>2, <3>3 DEF AddState
  <2>2. CASE AddPoint
    <3>1. PICK a \in ActionIds, p \in Point :
            IF Extends(series[a], p)
            THEN series' = [series EXCEPT ![a] = Append(@, p)] /\ UNCHANGED refused
            ELSE refused' = TRUE /\ UNCHANGED series
      BY <2>2 DEF AddPoint
    <3>2. CASE ~Extends(series[a], p)
      BY <2>2, <3>1, <3>2 DEF AddPoint
    <3>3. CASE Extends(series[a], p)
      <4>1. series' = [series EXCEPT ![a] = Append(series[a], p)]
        BY <3>1, <3>3
      <4>2. series' \in [ActionIds -> Seq(Point)]
        BY <4>1
      <4>3. ASSUME NEW x \in ActionIds
            PROVE  \A i, j \in DOMAIN series'[x] :
                     /\ series'[x][i].scale > 0
                     /\ i < j => series'[x][i].scale < series'[x][j].scale
        <5>1. CASE x = a
          <6>1. series'[x] = Append(series[a], p)
            BY <4>1, <5>1
          <6>2. series[a] \in Seq(Point)
            OBVIOUS
          <6> QED
            BY <3>3, <6>1, <6>2, ExtendedSeries
        <5>2. CASE x # a
          BY <4>1, <5>2
        <5> QED
          BY <5>1, <5>2
      <4> QED
        BY <2>2, <3>1, <3>3, <4>2, <4>3 DEF AddPoint
    <3> QED
      BY <3>2, <3>3
  <2>3. CASE AddSeriesAgain
    BY <2>3 DEF AddSeriesAgain
  <2>4. CASE AddAction
    BY <2>4 DEF AddAction
  <2>5. CASE UNCHANGED auditsVars
    BY <2>5 DEF auditsVars
  <2> QED
    BY <2>1, <2>2, <2>3, <2>4, <2>5 DEF AuditsNext
<1> QED
  BY <1>1, <1>2, PTL DEF AuditsSpec

\* A coordinate named as sufficient settles the future of its class, and every
\* coordinate that does is named: for classes of any size.
THEOREM ResidualsSettle == AuditsSpec => []ResidualsSettleTheFuture
<1>1. AuditsTypeOK => ResidualsSettleTheFuture
  <2> SUFFICES ASSUME AuditsTypeOK, NEW c \in CoarseStates, NEW r \in Coordinates
               PROVE  r \in Residuals(Members(c)) <=>
                        /\ ~\E k \in ContinuationKernels :
                              \A s \in Members(c) : s.kernel = k
                        /\ \E future \in [Values -> ContinuationKernels] :
                             \A s \in Members(c) :
                               /\ s.residual[r] \in Values
                               /\ s.kernel = future[s.residual[r]]
    BY DEF ResidualsSettleTheFuture
  <2> DEFINE S == Members(c)
  <2>1. \A s \in S : /\ s.kernel \in ContinuationKernels
                     /\ s.residual[r] \in Values \cup {Bottom}
    BY DEF AuditsTypeOK, Members, UnderlyingState
  <2> HIDE DEF S
  <2>2. ASSUME r \in Residuals(S)
        PROVE  /\ ~\E k \in ContinuationKernels : \A s \in S : s.kernel = k
               /\ \E future \in [Values -> ContinuationKernels] :
                    \A s \in S : /\ s.residual[r] \in Values
                                 /\ s.kernel = future[s.residual[r]]
    <3>1. /\ Unsafe(S)
          /\ \A s \in S : s.residual[r] \in Values
          /\ \A s, t \in S : s.residual[r] = t.residual[r] => s.kernel = t.kernel
      BY <2>1, <2>2 DEF Residuals, Unsafe
    <3> DEFINE With(v) == {s \in S : s.residual[r] = v}
               future == [v \in Values |->
                            IF With(v) = {} THEN CHOOSE k \in ContinuationKernels : TRUE
                            ELSE (CHOOSE s \in With(v) : TRUE).kernel]
    <3>2. \A v \in Values : With(v) # {} => (CHOOSE s \in With(v) : TRUE) \in With(v)
      OBVIOUS
    <3>3. future \in [Values -> ContinuationKernels]
      BY <2>1, <3>2
    <3>4. \A s \in S : s.kernel = future[s.residual[r]]
      <4> SUFFICES ASSUME NEW s \in S PROVE s.kernel = future[s.residual[r]]
        OBVIOUS
      <4>1. s \in With(s.residual[r]) /\ s.residual[r] \in Values
        BY <3>1
      <4>2. (CHOOSE t \in With(s.residual[r]) : TRUE) \in With(s.residual[r])
        BY <3>2, <4>1
      <4> QED
        BY <3>1, <4>1, <4>2
    <3>5. ~\E k \in ContinuationKernels : \A s \in S : s.kernel = k
      BY <3>1 DEF Unsafe
    <3> QED
      BY <3>1, <3>3, <3>4, <3>5
  <2>3. ASSUME ~\E k \in ContinuationKernels : \A s \in S : s.kernel = k,
               NEW future \in [Values -> ContinuationKernels],
               \A s \in S : /\ s.residual[r] \in Values
                            /\ s.kernel = future[s.residual[r]]
        PROVE  r \in Residuals(S)
    <3>1. PICK s \in S : TRUE
      BY <2>3
    <3>2. Unsafe(S)
      BY <2>1, <2>3, <3>1 DEF Unsafe
    <3>3. \A t \in S : t.residual[r] # Bottom
      BY <2>3
    <3>4. \A v \in Values : ~Unsafe({t \in S : t.residual[r] = v})
      BY <2>3 DEF Unsafe
    <3> QED
      BY <3>2, <3>3, <3>4 DEF Residuals
  <2> QED
    BY <2>2, <2>3 DEF S
<1> QED
  BY <1>1, AuditsTypeCorrect, PTL

\* A series that was not monotone is not when it is longer, and one that grew is
\* growing or no longer monotone.
LEMMA LongerSeries ==
  ASSUME NEW points \in Seq(Point), points # <<>>, NEW p \in Point
  PROVE  /\ Capacity(points) = "nonmonotone" =>
              Capacity(Append(points, p)) = "nonmonotone"
         /\ Capacity(points) = "growing" =>
              Capacity(Append(points, p)) # "bounded_or_flat"
<1> DEFINE longer == Append(points, p)
           n == Len(points)
<1>1. /\ n \in Nat
      /\ n > 0
      /\ Len(longer) = n + 1
      /\ longer[n + 1] = p
      /\ \A i \in 1..n : longer[i] = points[i] /\ points[i] \in Point
  OBVIOUS
<1>2. \A q \in Point : q.rank \in Int
  BY DEF Point
<1>3. Monotone(longer) => Monotone(points) /\ points[n].rank <= p.rank
  <2> SUFFICES ASSUME Monotone(longer)
               PROVE  Monotone(points) /\ points[n].rank <= p.rank
    OBVIOUS
  <2>1. \A i \in 1..n : longer[i].rank <= longer[i + 1].rank
    BY <1>1 DEF Monotone
  <2>2. points[n].rank <= p.rank
    BY <1>1, <2>1
  <2>3. \A i \in 1..(n - 1) : points[i].rank <= points[i + 1].rank
    <3> SUFFICES ASSUME NEW i \in 1..(n - 1)
                 PROVE  points[i].rank <= points[i + 1].rank
      OBVIOUS
    <3>1. i \in 1..n /\ i + 1 \in 1..n
      BY <1>1
    <3> QED
      BY <1>1, <2>1, <3>1
  <2> QED
    BY <2>2, <2>3 DEF Monotone
<1>4. /\ Head(points) = points[1]
      /\ Last(points) = points[n]
      /\ Head(longer) = points[1]
      /\ Last(longer) = p
  BY <1>1 DEF Last
<1>5. Capacity(points) = "nonmonotone" <=> ~Monotone(points)
  BY DEF Capacity
<1>6. Capacity(longer) = "nonmonotone" <=> ~Monotone(longer)
  BY DEF Capacity
<1>7. ASSUME Capacity(points) = "growing", Capacity(longer) = "bounded_or_flat"
      PROVE  FALSE
  <2>1. points[n].rank > points[1].rank
    BY <1>4, <1>7 DEF Capacity
  <2>2. Monotone(longer) /\ ~(p.rank > points[1].rank)
    BY <1>4, <1>7 DEF Capacity
  <2>3. /\ points[n].rank \in Int
        /\ points[1].rank \in Int
        /\ p.rank \in Int
    BY <1>1, <1>2
  <2>4. points[n].rank <= p.rank
    BY <1>3, <2>2
  <2> QED
    BY <2>1, <2>2, <2>3, <2>4
<1> QED
  BY <1>3, <1>5, <1>6, <1>7

\* No warning of an audit is taken back by more rows, however many: an unsafe class
\* stays unsafe and gains no sufficient coordinate, and a series that was not
\* monotone stays so.
THEOREM WarningsAreFinal == AuditsSpec => WarningsStand
<1>1. AuditsTypeOK /\ [AuditsNext]_auditsVars =>
        /\ \A c \in CoarseStates : Unsafe(Members(c)) =>
             /\ Unsafe(Members(c))'
             /\ Residuals(Members(c))' \subseteq Residuals(Members(c))
        /\ \A a \in ActionIds : series[a] # <<>> =>
             /\ Capacity(series[a]) = "nonmonotone" =>
                  Capacity(series'[a]) = "nonmonotone"
             /\ Capacity(series[a]) = "growing" =>
                  Capacity(series'[a]) # "bounded_or_flat"
  <2> SUFFICES ASSUME AuditsTypeOK, [AuditsNext]_auditsVars
               PROVE  /\ \A c \in CoarseStates : Unsafe(Members(c)) =>
                           /\ Unsafe(Members(c))'
                           /\ Residuals(Members(c))' \subseteq Residuals(Members(c))
                      /\ \A a \in ActionIds : series[a] # <<>> =>
                           /\ Capacity(series[a]) = "nonmonotone" =>
                                Capacity(series'[a]) = "nonmonotone"
                           /\ Capacity(series[a]) = "growing" =>
                                Capacity(series'[a]) # "bounded_or_flat"
    OBVIOUS
  <2>1. states \subseteq states'
    BY DEF AuditsNext, AddState, AddPoint, AddSeriesAgain, AddAction, auditsVars
  <2>2. ASSUME NEW c \in CoarseStates, Unsafe(Members(c))
        PROVE  /\ Unsafe(Members(c))'
               /\ Residuals(Members(c))' \subseteq Residuals(Members(c))
    <3>1. Members(c) \subseteq Members(c)'
      BY <2>1 DEF Members
    <3>2. Unsafe(Members(c))'
      BY <2>2, <3>1 DEF Unsafe
    <3>3. Residuals(Members(c))' \subseteq Residuals(Members(c))
      BY <2>2, <3>1 DEF Residuals, Unsafe
    <3> QED
      BY <3>2, <3>3
  <2>3. ASSUME NEW a \in ActionIds, series[a] # <<>>
        PROVE  /\ Capacity(series[a]) = "nonmonotone" =>
                    Capacity(series'[a]) = "nonmonotone"
               /\ Capacity(series[a]) = "growing" =>
                    Capacity(series'[a]) # "bounded_or_flat"
    <3>1. \/ series'[a] = series[a]
          \/ \E p \in Point : series'[a] = Append(series[a], p)
      BY DEF AuditsTypeOK, AuditsNext, AddState, AddPoint, AddSeriesAgain, AddAction, auditsVars
    <3>2. series[a] \in Seq(Point)
      BY DEF AuditsTypeOK
    <3>3. CASE series'[a] = series[a]
      BY <3>3 DEF Capacity
    <3>4. CASE \E p \in Point : series'[a] = Append(series[a], p)
      BY <2>3, <3>2, <3>4, LongerSeries
    <3> QED
      BY <3>1, <3>3, <3>4
  <2> QED
    BY <2>2, <2>3
<1> QED
  BY <1>1, AuditsTypeCorrect, PTL DEF AuditsSpec, WarningsStand

\* Neighbours that never fall are the same as no fall at all, one point at a time.
LEMMA OneMorePoint ==
  ASSUME NEW points \in Seq(Point), NEW p \in Point, Monotone(points) <=> ~Falls(points)
  PROVE  Monotone(Append(points, p)) <=> ~Falls(Append(points, p))
<1> DEFINE longer == Append(points, p)
           n == Len(points)
<1>1. /\ n \in Nat
      /\ Len(longer) = n + 1
      /\ DOMAIN longer = 1..(n + 1)
      /\ DOMAIN points = 1..n
      /\ longer[n + 1] = p
      /\ \A i \in 1..n : longer[i] = points[i] /\ points[i] \in Point
  OBVIOUS
<1>2. \A q \in Point : q.rank \in Int
  BY DEF Point
<1> HIDE DEF longer, n
<1>3. Monotone(longer) <=> Monotone(points) /\ (n > 0 => points[n].rank <= p.rank)
  <2>1. ASSUME Monotone(longer) PROVE Monotone(points) /\ (n > 0 => points[n].rank <= p.rank)
    <3>1. \A i \in 1..n : longer[i].rank <= longer[i + 1].rank
      BY <1>1, <2>1 DEF Monotone
    <3>2. \A i \in 1..(n - 1) : points[i].rank <= points[i + 1].rank
      BY <1>1, <3>1
    <3> QED
      BY <1>1, <3>1, <3>2 DEF Monotone, n
  <2>2. ASSUME Monotone(points), n > 0 => points[n].rank <= p.rank PROVE Monotone(longer)
    <3> SUFFICES ASSUME NEW i \in 1..n PROVE longer[i].rank <= longer[i + 1].rank
      BY <1>1 DEF Monotone
    <3>1. CASE i = n
      BY <1>1, <2>2, <3>1
    <3>2. CASE i # n
      <4>1. i \in 1..(n - 1)
        BY <1>1, <3>2
      <4> QED
        BY <1>1, <2>2, <4>1 DEF Monotone, n
    <3> QED
      BY <3>1, <3>2
  <2> QED
    BY <2>1, <2>2
<1>4. Falls(longer) <=> Falls(points) \/ \E i \in 1..n : points[i].rank > p.rank
  <2>1. ASSUME NEW i \in 1..(n + 1), NEW j \in 1..(n + 1), i < j,
               longer[i].rank > longer[j].rank
        PROVE  Falls(points) \/ \E h \in 1..n : points[h].rank > p.rank
    <3>1. i \in 1..n
      BY <1>1, <2>1
    <3>2. CASE j = n + 1
      BY <1>1, <2>1, <3>1, <3>2
    <3>3. CASE j \in 1..n
      BY <1>1, <2>1, <3>1, <3>3 DEF Falls
    <3> QED
      BY <1>1, <3>2, <3>3
  <2>2. Falls(points) => Falls(longer)
    BY <1>1 DEF Falls
  <2>3. ASSUME NEW i \in 1..n, points[i].rank > p.rank PROVE Falls(longer)
    BY <1>1, <2>3 DEF Falls
  <2> QED
    BY <1>1, <2>1, <2>2, <2>3 DEF Falls
<1>5. ASSUME ~Falls(points)
      PROVE  (\E i \in 1..n : points[i].rank > p.rank) <=> n > 0 /\ points[n].rank > p.rank
  <2>1. \A i \in 1..n : points[i].rank <= points[n].rank
    <3> SUFFICES ASSUME NEW i \in 1..n PROVE points[i].rank <= points[n].rank
      OBVIOUS
    <3>1. n \in 1..n
      BY <1>1
    <3>2. i < n => ~(points[i].rank > points[n].rank)
      BY <1>1, <1>5, <3>1 DEF Falls
    <3> QED
      BY <1>1, <1>2, <3>1, <3>2
  <2> QED
    BY <1>1, <1>2, <2>1
<1>6. n > 0 => (points[n].rank > p.rank <=> ~(points[n].rank <= p.rank))
  BY <1>1, <1>2
<1> QED
  BY <1>3, <1>4, <1>5, <1>6 DEF longer

\* The profile found from neighbours and the two ends of a series is that of all
\* pairs of its points, for series of any length.
THEOREM ProfileOfAllPairs == AuditsSpec => []ProfileHoldsOfAllPairs
<1> DEFINE Agree == \A a \in ActionIds : Monotone(series[a]) <=> ~Falls(series[a])
<1>1. AuditsInit => Agree
  BY DEF AuditsInit, Monotone, Falls
<1>2. AuditsTypeOK /\ Agree /\ [AuditsNext]_auditsVars => Agree'
  <2> SUFFICES ASSUME AuditsTypeOK, Agree, [AuditsNext]_auditsVars PROVE Agree'
    OBVIOUS
  <2>1. CASE AddPoint
    <3>1. PICK b \in ActionIds, p \in Point :
            series' = series \/ series' = [series EXCEPT ![b] = Append(@, p)]
      BY <2>1 DEF AddPoint
    <3>2. CASE series' = series
      BY <3>2
    <3>3. CASE series' = [series EXCEPT ![b] = Append(series[b], p)]
      <4>1. /\ series[b] \in Seq(Point)
            /\ series'[b] = Append(series[b], p)
            /\ \A a \in ActionIds \ {b} : series'[a] = series[a]
        BY <3>3 DEF AuditsTypeOK
      <4>2. Monotone(series'[b]) <=> ~Falls(series'[b])
        BY <4>1, OneMorePoint
      <4> QED
        BY <4>1, <4>2
    <3> QED
      BY <3>1, <3>2, <3>3
  <2>2. CASE AddState \/ AddSeriesAgain \/ AddAction \/ UNCHANGED auditsVars
    BY <2>2 DEF AddState, AddSeriesAgain, AddAction, auditsVars
  <2> QED
    BY <2>1, <2>2 DEF AuditsNext
<1>3. AuditsTypeOK /\ Agree => ProfileHoldsOfAllPairs
  <2> SUFFICES ASSUME AuditsTypeOK, Agree, NEW a \in ActionIds, series[a] # <<>>,
                      ~Falls(series[a])
               PROVE  Last(series[a]).rank > Head(series[a]).rank <=> Rises(series[a])
    BY DEF ProfileHoldsOfAllPairs, Capacity
  <2> DEFINE points == series[a]
             n == Len(points)
  <2>1. points \in Seq(Point)
    BY DEF AuditsTypeOK
  <2>2. /\ n \in Nat \ {0}
        /\ DOMAIN points = 1..n
        /\ Head(points) = points[1]
        /\ Last(points) = points[n]
        /\ \A i \in 1..n : points[i].rank \in Int
    <3>1. points # <<>>
      OBVIOUS
    <3> HIDE DEF points
    <3>2. \A i \in 1..n : points[i] \in Point
      BY <2>1
    <3>3. \A q \in Point : q.rank \in Int
      BY DEF Point
    <3>4. n \in Nat \ {0} /\ DOMAIN points = 1..n /\ Head(points) = points[1]
      BY <2>1, <3>1
    <3>5. Last(points) = points[n]
      BY DEF Last
    <3> QED
      BY <3>2, <3>3, <3>4, <3>5
  <2> HIDE DEF points, n
  <2>3. \A i, j \in 1..n : i < j => points[i].rank <= points[j].rank
    <3>1. ~Falls(points)
      BY DEF points
    <3> QED
      BY <2>2, <3>1 DEF Falls
  <2>4. ASSUME NEW i \in 1..n, NEW j \in 1..n, i < j, points[i].rank < points[j].rank
        PROVE  points[n].rank > points[1].rank
    <3>1. /\ 1 \in 1..n /\ n \in 1..n
          /\ points[1].rank <= points[i].rank
          /\ points[j].rank <= points[n].rank
      BY <2>2, <2>3
    <3> QED
      BY <2>2, <2>4, <3>1
  <2>5. points[n].rank > points[1].rank => Rises(points)
    BY <2>2 DEF Rises
  <2> QED
    BY <2>2, <2>4, <2>5 DEF Rises, points
<1> QED
  BY <1>1, <1>2, <1>3, AuditsTypeCorrect, PTL DEF AuditsSpec

-----------------------------------------------------------------------------
(* Effect classes.                                                           *)

HIDE InputSets

\* The places of a list.
LEMMA DomainOf ==
  ASSUME NEW s \in Seq(Int)
  PROVE  /\ DOMAIN s = 1..Len(s) /\ Len(s) \in Nat
         /\ IsFiniteSet(DOMAIN s) /\ Cardinality(DOMAIN s) = Len(s)
         /\ \A i \in DOMAIN s : s[i] \in Int
<1>1. DOMAIN s = 1..Len(s) /\ Len(s) \in Nat /\ \A i \in DOMAIN s : s[i] \in Int
  OBVIOUS
<1>2. IsFiniteSet(1..Len(s)) /\ Cardinality(1..Len(s)) = Len(s)
  BY <1>1, FS_Interval
<1> QED
  BY <1>1, <1>2

\* Every list has a sorted rearrangement: an element goes to the place that counts
\* the elements not after it.
LEMMA SortExists ==
  ASSUME NEW s \in Seq(Int)
  PROVE  \E t \in Rearrangements(s) : \A i, j \in DOMAIN t : i < j => t[i] <= t[j]
<1> DEFINE D == DOMAIN s
           Upto(i) == {j \in D : s[j] < s[i] \/ (s[j] = s[i] /\ j <= i)}
           rank == [i \in D |-> Cardinality(Upto(i))]
<1>d. D = 1..Len(s) /\ Len(s) \in Nat /\ IsFiniteSet(D) /\ Cardinality(D) = Len(s)
  BY DomainOf
<1>v. \A i \in D : s[i] \in Int /\ i \in Int
  BY DomainOf
<1> HIDE DEF D
<1>1. \A i \in D : /\ IsFiniteSet(Upto(i)) /\ i \in Upto(i)
                   /\ rank[i] = Cardinality(Upto(i)) /\ rank[i] \in D
  <2> SUFFICES ASSUME NEW i \in D
               PROVE  IsFiniteSet(Upto(i)) /\ i \in Upto(i) /\ Cardinality(Upto(i)) \in D
    OBVIOUS
  <2>1. i \in Upto(i)
    BY <1>v
  <2>2. Upto(i) \in SUBSET D
    OBVIOUS
  <2>3. IsFiniteSet(Upto(i)) /\ Cardinality(Upto(i)) <= Cardinality(D)
    BY <1>d, <2>2, FS_Subset
  <2>4. Cardinality(Upto(i)) \in Nat /\ Cardinality(Upto(i)) # 0
    BY <2>1, <2>3, FS_CardinalityType, FS_EmptySet
  <2> QED
    BY <1>d, <2>1, <2>3, <2>4
<1>2. ASSUME NEW i \in D, NEW j \in D, i # j, i \in Upto(j)
      PROVE  rank[i] < rank[j]
  <2>1. Upto(i) \subseteq Upto(j) /\ j \notin Upto(i)
    BY <1>2, <1>v
  <2>2. Upto(i) \in SUBSET Upto(j) /\ Upto(i) # Upto(j)
    BY <1>1, <2>1
  <2>3. /\ Cardinality(Upto(i)) <= Cardinality(Upto(j))
        /\ Cardinality(Upto(i)) # Cardinality(Upto(j))
    BY <1>1, <2>2, FS_Subset
  <2>4. /\ Cardinality(Upto(i)) \in Nat /\ Cardinality(Upto(j)) \in Nat
        /\ rank[i] = Cardinality(Upto(i)) /\ rank[j] = Cardinality(Upto(j))
    BY <1>1, FS_CardinalityType
  <2> HIDE DEF Upto, rank
  <2> QED
    BY <2>3, <2>4
<1>3. \A i, j \in D : i # j => i \in Upto(j) \/ j \in Upto(i)
  BY <1>v
<1>4. \A i \in D : rank[i] \in Int
  <2>1. \A k \in D : k \in Int
    BY <1>v
  <2>2. \A i \in D : rank[i] \in D
    BY <1>1
  <2> HIDE DEF rank
  <2> QED
    BY <2>1, <2>2
<1>5. rank \in Bijection(D, D)
  <2>1. rank \in [D -> D]
    BY <1>1
  <2> HIDE DEF rank, Upto
  <2>2. \A i, j \in D : rank[i] = rank[j] => i = j
    <3> SUFFICES ASSUME NEW i \in D, NEW j \in D, i # j PROVE rank[i] # rank[j]
      OBVIOUS
    <3>1. rank[i] < rank[j] \/ rank[j] < rank[i]
      BY <1>2, <1>3
    <3>2. rank[i] \in Int /\ rank[j] \in Int
      BY <1>4
    <3> QED
      BY <3>1, <3>2
  <2>3. rank \in Injection(D, D)
    BY <2>1, <2>2, Fun_IsInj
  <2>4. rank \in Surjection(D, D)
    BY <1>d, <2>3, FS_Injection
  <2> QED
    BY <2>3, <2>4, Fun_IsBij
<1>6. PICK place : place \in Bijection(D, D) /\ \A k \in D : rank[place[k]] = k
  <2> HIDE DEF rank
  <2>1. /\ Inverse(rank, D, D) \in Bijection(D, D)
        /\ \A i \in D : Inverse(rank, D, D)[rank[i]] = i
    BY <1>5, Fun_BijInverse
  <2>2. \A k \in D : \E i \in D : rank[i] = k
    BY <1>5, Fun_BijectionProperties
  <2>3. \A k \in D : rank[Inverse(rank, D, D)[k]] = k
    BY <2>1, <2>2
  <2> QED
    BY <2>1, <2>3
<1> DEFINE t == [k \in D |-> s[place[k]]]
<1>7. \A k \in D : place[k] \in D
  BY <1>6, Fun_BijectionProperties
<1>8. ASSUME NEW k \in D, NEW l \in D, k < l PROVE t[k] <= t[l]
  <2>1. place[k] \in D /\ place[l] \in D /\ rank[place[k]] = k /\ rank[place[l]] = l
    BY <1>6, <1>7
  <2>2. place[l] \notin Upto(place[k]) \/ place[l] = place[k]
    <3> HIDE DEF rank, Upto
    <3>1. k \in Int /\ l \in Int
      BY <1>v
    <3>2. ASSUME place[l] # place[k], place[l] \in Upto(place[k])
          PROVE  rank[place[l]] < rank[place[k]]
      BY <1>2, <2>1, <3>2
    <3>3. ~(rank[place[l]] < rank[place[k]])
      BY <1>8, <2>1, <3>1
    <3> QED
      BY <3>2, <3>3
  <2>3. place[k] # place[l]
    <3> HIDE DEF rank
    <3> QED
      BY <1>8, <1>v, <2>1
  <2>4. place[k] \in Upto(place[l])
    BY <1>3, <2>1, <2>2, <2>3
  <2>5. s[place[k]] \in Int /\ s[place[l]] \in Int
    BY <1>v, <2>1
  <2> QED
    BY <2>4, <2>5
<1>9. t \in Rearrangements(s) /\ DOMAIN t = D
  BY <1>6 DEF Rearrangements, D
<1> QED
  BY <1>8, <1>9

\* A rearrangement has the same elements, each as often.
LEMMA RearrangedBag ==
  ASSUME NEW s \in Seq(Int), NEW t \in Rearrangements(s)
  PROVE  ToBag(t) = ToBag(s)
<1> DEFINE D == DOMAIN s
           At(u, x) == {i \in D : u[i] = x}
<1>1. PICK p \in Bijection(D, D) : t = [i \in D |-> s[p[i]]]
  BY DEF Rearrangements
<1>2. /\ p \in [D -> D]
      /\ \A i, j \in D : p[i] = p[j] => i = j
      /\ \A k \in D : \E i \in D : p[i] = k
  BY Fun_BijectionProperties
<1>3. DOMAIN t = D /\ \A i \in D : t[i] = s[p[i]]
  BY <1>1
<1>f. IsFiniteSet(D)
  BY DomainOf
<1> HIDE DEF D
<1>4. ASSUME NEW x PROVE Cardinality(At(t, x)) = Cardinality(At(s, x))
  <2> DEFINE q == [i \in At(t, x) |-> p[i]]
  <2>1. q \in [At(t, x) -> At(s, x)]
    BY <1>2, <1>3
  <2>2. \A i, j \in At(t, x) : q[i] = q[j] => i = j
    BY <1>2
  <2>3. \A k \in At(s, x) : \E i \in At(t, x) : q[i] = k
    BY <1>2, <1>3
  <2>4. IsFiniteSet(At(t, x))
    <3>1. At(t, x) \in SUBSET D
      OBVIOUS
    <3> QED
      BY <1>f, <3>1, FS_Subset
  <2> HIDE DEF q, At
  <2>5. q \in Bijection(At(t, x), At(s, x))
    BY <2>1, <2>2, <2>3, Fun_IsBij
  <2>6. ExistsBijection(At(t, x), At(s, x))
    BY <2>5, Fun_ExistsBij
  <2> QED
    BY <2>4, <2>6, FS_Bijection
<1>5. Range(t) = Range(s)
  BY <1>2, <1>3 DEF Range, D
<1>6. ToBag(t) = [x \in Range(t) |-> Cardinality(At(t, x))]
  BY <1>3 DEF ToBag
<1>7. ToBag(s) = [x \in Range(s) |-> Cardinality(At(s, x))]
  BY DEF ToBag, D
<1> HIDE DEF At
<1> QED
  BY <1>4, <1>5, <1>6, <1>7

\* Lists with the same elements, each as often, are rearrangements of each other.
LEMMA BagRearranged ==
  ASSUME NEW a \in Seq(Int), NEW b \in Seq(Int), ToBag(a) = ToBag(b)
  PROVE  /\ DOMAIN a = DOMAIN b
         /\ \E q \in Bijection(DOMAIN a, DOMAIN b) :
              \A i \in DOMAIN a : b[q[i]] = a[i]
<1> DEFINE A(x) == {i \in DOMAIN a : a[i] = x}
           B(x) == {i \in DOMAIN b : b[i] = x}
<1>1. /\ ToBag(a) = [x \in Range(a) |-> Cardinality(A(x))]
      /\ ToBag(b) = [x \in Range(b) |-> Cardinality(B(x))]
  BY DEF ToBag
<1>2. /\ Range(a) = Range(b)
      /\ \A x \in Range(a) : Cardinality(A(x)) = Cardinality(B(x))
  <2> HIDE DEF A, B
  <2>1. DOMAIN ToBag(a) = Range(a) /\ DOMAIN ToBag(b) = Range(b)
    BY <1>1
  <2>2. Range(a) = Range(b)
    BY <2>1
  <2>3. \A x \in Range(a) : /\ ToBag(a)[x] = Cardinality(A(x))
                            /\ ToBag(b)[x] = Cardinality(B(x))
    BY <1>1, <2>2
  <2> QED
    BY <2>2, <2>3
<1>3. IsFiniteSet(DOMAIN a) /\ IsFiniteSet(DOMAIN b)
  BY DomainOf
<1>4. \A x \in Range(a) : Bijection(A(x), B(x)) # {}
  <2> SUFFICES ASSUME NEW x \in Range(a) PROVE Bijection(A(x), B(x)) # {}
    OBVIOUS
  <2>1. A(x) \in SUBSET DOMAIN a /\ B(x) \in SUBSET DOMAIN b
    OBVIOUS
  <2>2. IsFiniteSet(A(x)) /\ IsFiniteSet(B(x))
    BY <1>3, <2>1, FS_Subset
  <2> HIDE DEF A, B
  <2>3. ExistsBijection(A(x), B(x))
    BY <1>2, <2>2, FS_SameCardinalityBij
  <2> QED
    BY <2>3, Fun_ExistsBij
<1> DEFINE match == [x \in Range(a) |-> CHOOSE g : g \in Bijection(A(x), B(x))]
           q == [i \in DOMAIN a |-> match[a[i]][i]]
<1>5. ASSUME NEW x \in Range(a)
      PROVE  /\ match[x] \in [A(x) -> B(x)]
             /\ \A i, j \in A(x) : match[x][i] = match[x][j] => i = j
             /\ \A k \in B(x) : \E i \in A(x) : match[x][i] = k
  <2>1. match[x] \in Bijection(A(x), B(x))
    <3> HIDE DEF A, B
    <3> QED
      BY <1>4
  <2> HIDE DEF match, A, B
  <2> QED
    BY <2>1, Fun_BijectionProperties
<1>6. \A i \in DOMAIN a : a[i] \in Range(a) /\ i \in A(a[i]) /\ q[i] = match[a[i]][i]
  BY DEF Range
<1> HIDE DEF match, q
<1>7. \A i \in DOMAIN a : q[i] \in DOMAIN b /\ b[q[i]] = a[i]
  <2> SUFFICES ASSUME NEW i \in DOMAIN a PROVE q[i] \in B(a[i])
    OBVIOUS
  <2> HIDE DEF A, B
  <2> QED
    BY <1>5, <1>6
<1>8. \A i, j \in DOMAIN a : q[i] = q[j] => i = j
  <2> SUFFICES ASSUME NEW i \in DOMAIN a, NEW j \in DOMAIN a, q[i] = q[j] PROVE i = j
    OBVIOUS
  <2>1. a[i] = a[j]
    BY <1>7
  <2> HIDE DEF A, B
  <2> QED
    BY <1>5, <1>6, <2>1
<1>9. \A k \in DOMAIN b : \E i \in DOMAIN a : q[i] = k
  <2> SUFFICES ASSUME NEW k \in DOMAIN b PROVE \E i \in DOMAIN a : q[i] = k
    OBVIOUS
  <2>1. b[k] \in Range(a) /\ k \in B(b[k])
    BY <1>2 DEF Range
  <2>2. PICK i \in A(b[k]) : match[b[k]][i] = k
    BY <1>5, <2>1
  <2>3. i \in DOMAIN a /\ a[i] = b[k]
    OBVIOUS
  <2> QED
    BY <1>6, <2>2, <2>3
<1>10. q \in Bijection(DOMAIN a, DOMAIN b)
  <2>1. q \in [DOMAIN a -> DOMAIN b]
    BY <1>7 DEF q
  <2> QED
    BY <2>1, <1>8, <1>9, Fun_IsBij
<1>11. DOMAIN a = DOMAIN b
  <2>1. ExistsBijection(DOMAIN a, DOMAIN b)
    BY <1>10, Fun_ExistsBij
  <2>2. Cardinality(DOMAIN a) = Cardinality(DOMAIN b)
    BY <1>3, <2>1, FS_Bijection
  <2> QED
    BY <2>2, DomainOf
<1> QED
  BY <1>7, <1>10, <1>11

\* Equal keys are those of interchangeable actions.
LEMMA RearrangementsMeet ==
  ASSUME NEW a \in Seq(Int), NEW b \in Seq(Int), ToBag(a) = ToBag(b)
  PROVE  Rearrangements(a) \subseteq Rearrangements(b)
<1>1. PICK q : /\ DOMAIN a = DOMAIN b
               /\ q \in Bijection(DOMAIN a, DOMAIN b)
               /\ \A i \in DOMAIN a : b[q[i]] = a[i]
  BY BagRearranged
<1> SUFFICES ASSUME NEW p \in Bijection(DOMAIN a, DOMAIN a)
             PROVE  [i \in DOMAIN a |-> a[p[i]]] \in Rearrangements(b)
  BY DEF Rearrangements
<1> DEFINE both == [i \in DOMAIN a |-> q[p[i]]]
<1>2. both \in Bijection(DOMAIN b, DOMAIN b)
  BY <1>1, Fun_BijTransitive
<1>3. \A i \in DOMAIN a : p[i] \in DOMAIN a
  BY Fun_BijectionProperties
<1>4. [i \in DOMAIN a |-> a[p[i]]] = [i \in DOMAIN b |-> b[both[i]]]
  BY <1>1, <1>3
<1> QED
  BY <1>2, <1>4 DEF Rearrangements

LEMMA KeysOfInterchangeable ==
  ASSUME NEW a \in Signature, NEW b \in Signature
  PROVE  EffectKey(a) = EffectKey(b) <=> Interchangeable(a, b)
<1>1. a.evidence \in Seq(Int) /\ b.evidence \in Seq(Int)
  BY InputsAssumption DEF Signature
<1>2. ASSUME NEW s \in Seq(Int) PROVE ToBag(Sorted(s)) = ToBag(s)
  <2>1. Sorted(s) \in Rearrangements(s)
    BY SortExists DEF Sorted
  <2> QED
    BY <2>1, RearrangedBag
<1>3. ASSUME NEW s \in Seq(Int), NEW t \in Seq(Int), ToBag(s) = ToBag(t)
      PROVE  Sorted(s) = Sorted(t)
  <2>1. Rearrangements(s) = Rearrangements(t)
    BY <1>3, RearrangementsMeet
  <2> QED
    BY <2>1 DEF Sorted
<1>4. Sorted(a.evidence) = Sorted(b.evidence)
        <=> ToBag(a.evidence) = ToBag(b.evidence)
  BY <1>1, <1>2, <1>3
<1> QED
  BY <1>4 DEF EffectKey, Interchangeable

\* A choice of actions with different keys has at most one action of each class, and
\* one with an action of each has as many as there are classes.
LEMMA ClassesCount ==
  ASSUME actions \in Seq(Signature)
  PROVE  LabelsDoNotCount
<1> DEFINE D == DOMAIN actions
           Class(i) == {j \in D : EffectKey(actions[j]) = EffectKey(actions[i])}
           Same(i, j) == Interchangeable(actions[i], actions[j])
           Independent == {S \in SUBSET D : \A i, j \in S : Same(i, j) => i = j}
<1>1. IsFiniteSet(D) /\ \A i \in D : actions[i] \in Signature
  <2>1. D = 1..Len(actions) /\ Len(actions) \in Nat
    OBVIOUS
  <2> QED
    BY <2>1, FS_Interval
<1>2. EffectClasses = {Class(i) : i \in D}
  BY DEF EffectClasses
<1>3. \A i, j \in D : EffectKey(actions[i]) = EffectKey(actions[j]) <=> Same(i, j)
  BY <1>1, KeysOfInterchangeable
<1> HIDE DEF Same
<1>4. \A i, j \in D : /\ i \in Class(i)
                      /\ j \in Class(i) <=> Same(j, i)
                      /\ Class(i) = Class(j) <=> Same(i, j)
  BY <1>3
<1> HIDE DEF D, Class
<1>5. IsFiniteSet(EffectClasses)
  <2> DEFINE class == [i \in D |-> Class(i)]
  <2>1. class \in [D -> EffectClasses] /\ \A C \in EffectClasses : \E i \in D : class[i] = C
    BY <1>2
  <2> HIDE DEF class
  <2>2. class \in Surjection(D, EffectClasses)
    BY <2>1, Fun_IsSurj
  <2> QED
    BY <1>1, <2>2, FS_Surjection
<1>6. ASSUME NEW S \in Independent
      PROVE  Cardinality(S) <= Cardinality(EffectClasses)
  <2> DEFINE class == [i \in S |-> Class(i)]
  <2>1. class \in [S -> EffectClasses]
    BY <1>2
  <2>2. \A i, j \in S : class[i] = class[j] => i = j
    BY <1>4
  <2> HIDE DEF class
  <2>3. class \in Injection(S, EffectClasses)
    BY <2>1, <2>2, Fun_IsInj
  <2> QED
    BY <1>5, <2>3, FS_Injection
<1>7. \E S \in Independent : Cardinality(S) = Cardinality(EffectClasses)
  <2> DEFINE first == [C \in EffectClasses |-> CHOOSE i \in C : TRUE]
             S == {first[C] : C \in EffectClasses}
  <2>1. \A C \in EffectClasses : first[C] \in C /\ first[C] \in D /\ C = Class(first[C])
    <3> SUFFICES ASSUME NEW i \in D
                 PROVE  LET c == CHOOSE j \in Class(i) : TRUE
                        IN c \in Class(i) /\ c \in D /\ Class(i) = Class(c)
      BY <1>2
    <3>1. PICK c : c = CHOOSE j \in Class(i) : TRUE
      OBVIOUS
    <3>2. c \in Class(i) /\ c \in D
      BY <1>4, <3>1 DEF Class
    <3> QED
      BY <1>4, <3>1, <3>2
  <2>2. S \in Independent
    <3>1. S \in SUBSET D
      BY <2>1
    <3>2. ASSUME NEW B \in EffectClasses, NEW C \in EffectClasses, Same(first[B], first[C])
          PROVE  first[B] = first[C]
      <4>1. Class(first[B]) = Class(first[C])
        <5> HIDE DEF first
        <5> QED
          BY <1>4, <2>1, <3>2
      <4>2. B = Class(first[B]) /\ C = Class(first[C])
        BY <2>1
      <4> QED
        BY <4>1, <4>2
    <3> HIDE DEF first
    <3>3. \A i, j \in S : Same(i, j) => i = j
      BY <3>2
    <3> QED
      BY <3>1, <3>3
  <2>3. first \in [EffectClasses -> S]
    OBVIOUS
  <2>4. \A B, C \in EffectClasses : first[B] = first[C] => B = C
    BY <2>1
  <2>5. \A i \in S : \E C \in EffectClasses : first[C] = i
    OBVIOUS
  <2> HIDE DEF first, S
  <2>6. ExistsBijection(EffectClasses, S)
    BY <2>3, <2>4, <2>5, Fun_IsBij, Fun_ExistsBij
  <2>7. Cardinality(S) = Cardinality(EffectClasses)
    BY <1>5, <2>6, FS_Bijection
  <2> QED
    BY <2>2, <2>7
<1> QED
  BY <1>6, <1>7 DEF LabelsDoNotCount, Same, D

\* The number of independent effect classes is the size of the largest choice of
\* actions no two of which are interchangeable, for any number of actions with
\* evidence of any length: neither names nor the order of evidence count.
THEOREM LabelsNeverCount == AuditsSpec => []LabelsDoNotCount
<1>1. AuditsTypeOK => LabelsDoNotCount
  BY ClassesCount DEF AuditsTypeOK
<1> QED
  BY <1>1, AuditsTypeCorrect, PTL

-----------------------------------------------------------------------------
(* Readback and the observer.                                                *)

USE ClaimsAssumption

\* Witnesses, the observed system and the progress let through keep their types,
\* whatever number of units a transition claims.
THEOREM HardeningTypeCorrect == HardeningSpec => []HardeningTypeOK
<1>1. HardeningInit => HardeningTypeOK
  BY DEF HardeningInit, HardeningTypeOK
<1>2. HardeningTypeOK /\ [HardeningNext]_hardeningVars => HardeningTypeOK'
  <2> SUFFICES ASSUME HardeningTypeOK, [HardeningNext]_hardeningVars PROVE HardeningTypeOK'
    OBVIOUS
  <2>1. CASE Gather
    BY <2>1 DEF HardeningTypeOK, Gather, observerVars
  <2>2. CASE Transition
    <3>1. PICK after \in Observed, claimed \in Claims :
            /\ observed' = after
            /\ admitted' = admitted + Admissible(observed, after, claimed)
            /\ past' = [moved |-> past.moved \/ after.system # observed.system
                                             \/ after.roots # observed.roots,
                        reparameterized |-> past.reparameterized
                                              \/ after.config # observed.config,
                        still |-> past.still \/ after = observed]
      BY <2>2 DEF Transition
    <3>2. Admissible(observed, after, claimed) \in Nat
      BY DEF Admissible
    <3>3. past' \in [moved: BOOLEAN, reparameterized: BOOLEAN, still: BOOLEAN]
      BY <3>1, ZenonT(20) DEF HardeningTypeOK
    <3> QED
      BY <2>2, <3>1, <3>2, <3>3 DEF HardeningTypeOK, Transition, readbackVars
  <2>3. CASE UNCHANGED hardeningVars
    BY <2>3 DEF HardeningTypeOK, hardeningVars, readbackVars, observerVars
  <2> QED
    BY <2>1, <2>2, <2>3 DEF HardeningNext
<1> QED
  BY <1>1, <1>2, PTL DEF HardeningSpec

\* In any number of witnesses, every base at which two memory values lead to
\* different kernels is reported, and no other one is unless a memory value leads to
\* several kernels by itself.
THEOREM ReadbackReported == HardeningSpec => []ReadbackIsReported
<1>1. HardeningTypeOK => ReadbackIsReported
  <2> SUFFICES ASSUME HardeningTypeOK, NEW b \in Bases
               PROVE  /\ SplitByReadback(b) => b \in SplitBases
                      /\ (/\ b \in SplitBases
                          /\ \A m \in MemoriesAt(b) : \A k, l \in KernelsAt(b, m) : k = l)
                           => SplitByReadback(b)
    BY DEF ReadbackIsReported
  <2>1. ASSUME b \in SplitBases, ~SplitByReadback(b),
               NEW m \in MemoriesAt(b),
               \A k, l \in KernelsAt(b, m) : k = l
        PROVE  FALSE
    <3>1. PICK x, y \in Group(b) : x.kernel # y.kernel
      BY <2>1 DEF SplitBases, Split
    <3>2. /\ x.kernel \in KernelsAt(b, x.memory) /\ x.memory \in MemoriesAt(b)
          /\ y.kernel \in KernelsAt(b, y.memory) /\ y.memory \in MemoriesAt(b)
      BY DEF KernelsAt, MemoriesAt
    <3>3. x.kernel \in KernelsAt(b, m) /\ y.kernel \in KernelsAt(b, m)
      BY <2>1, <3>2 DEF SplitByReadback
    <3> QED
      BY <2>1, <3>1, <3>3
  <2>2. ASSUME b \in SplitBases PROVE MemoriesAt(b) # {}
    BY <2>2 DEF SplitBases, Split, MemoriesAt
  <2>3. ASSUME NEW m \in MemoriesAt(b), NEW n \in MemoriesAt(b),
               KernelsAt(b, m) # KernelsAt(b, n)
        PROVE  b \in SplitBases
    <3>1. PICK v, w \in Group(b) : v.memory = m /\ w.memory = n
      BY DEF MemoriesAt
    <3>2. /\ v.kernel \in KernelsAt(b, m)
          /\ w.kernel \in KernelsAt(b, n)
      BY <3>1 DEF KernelsAt
    <3>3. \E k, l \in KernelsAt(b, m) \cup KernelsAt(b, n) : k # l
      BY <2>3, <3>2
    <3>4. \E x, y \in Group(b) : x.kernel # y.kernel
      BY <3>3 DEF KernelsAt
    <3>5. b \in TestedBases
      BY <3>1 DEF TestedBases, Group
    <3>6. m # n
      BY <2>3
    <3> QED
      BY <3>1, <3>4, <3>5, <3>6 DEF SplitBases, Split
  <2> QED
    BY <2>1, <2>2, <2>3 DEF SplitByReadback
<1> QED
  BY <1>1, HardeningTypeCorrect, PTL

\* However the observer is reparameterized, and however often, progress is let
\* through without a move of the system or of its evidence roots only after a
\* transition in which nothing changed.
THEOREM NoMint == HardeningSpec => []NoMintByReparameterizing
<1>1. HardeningInit => NoMintByReparameterizing
  BY DEF HardeningInit, NoMintByReparameterizing
<1>2. HardeningTypeOK /\ NoMintByReparameterizing /\ [HardeningNext]_hardeningVars
        => NoMintByReparameterizing'
  <2> SUFFICES ASSUME HardeningTypeOK, NoMintByReparameterizing, [HardeningNext]_hardeningVars
               PROVE  NoMintByReparameterizing'
    OBVIOUS
  <2>1. CASE Gather
    BY <2>1 DEF NoMintByReparameterizing, Gather, observerVars
  <2>2. CASE Transition
    <3>1. PICK after \in Observed, claimed \in Claims :
            /\ observed' = after
            /\ admitted' = admitted + Admissible(observed, after, claimed)
            /\ past' = [moved |-> past.moved \/ after.system # observed.system
                                             \/ after.roots # observed.roots,
                        reparameterized |-> past.reparameterized
                                              \/ after.config # observed.config,
                        still |-> past.still \/ after = observed]
      BY <2>2 DEF Transition
    <3> SUFFICES ASSUME admitted' > 0, ~past'.moved PROVE past'.still
      BY DEF NoMintByReparameterizing
    <3>2. /\ ~past.moved
          /\ after.system = observed.system
          /\ after.roots = observed.roots
      BY <3>1
    <3>3. past'.still <=> past.still \/ after = observed
      BY <3>1
    <3>4. CASE admitted > 0
      BY <3>2, <3>3, <3>4 DEF NoMintByReparameterizing
    <3>5. CASE admitted = 0
      <4>1. Admissible(observed, after, claimed) > 0
        BY <3>1, <3>5 DEF Admissible
      <4>2. claimed > 0 /\ ~Mints(observed, after, claimed)
        BY <4>1 DEF Admissible
      <4>3. after.config = observed.config
        BY <3>2, <4>2 DEF Mints
      <4>4. after = observed
        BY <3>2, <4>3 DEF HardeningTypeOK, Observed
      <4> QED
        BY <3>3, <4>4
    <3> QED
      BY <3>4, <3>5 DEF HardeningTypeOK
  <2>3. CASE UNCHANGED hardeningVars
    BY <2>3 DEF NoMintByReparameterizing, hardeningVars, observerVars
  <2> QED
    BY <2>1, <2>2, <2>3 DEF HardeningNext
<1> QED
  BY <1>1, <1>2, HardeningTypeCorrect, PTL DEF HardeningSpec
=============================================================================
