--------------------------- MODULE FindsBest_proofs ---------------------------
(***************************************************************************)
(* The proof that the search implements BestAllocation: when it ends with  *)
(* success, no allocation that passes the checks and the kernel's tests    *)
(* has a higher score, for any number of layers and planes and any scene.  *)
(* And what follows for the result: composition is used for all that is    *)
(* left over or not at all, no layer is lost where composition is          *)
(* possible, and when all layers overlap the order of the planes is        *)
(* defined.                                                                *)
(***************************************************************************)
EXTENDS ChooseLayers_proofs, Numbers_proofs, FiniteSetTheorems

-----------------------------------------------------------------------------
(* The abstract specification has its own copies of the constraints        *)

LEMMA SameSets ==
    /\ Abstract!Planes = Planes /\ Abstract!Layers = Layers /\ Abstract!NULL = NULL
    /\ Abstract!Allocations = Allocations
    /\ Abstract!EmptyAllocation = EmptyAllocation
BY DEF Abstract!Planes, Planes, Abstract!Layers, Layers, Abstract!NULL, NULL,
       Abstract!Allocations, Allocations, Abstract!EmptyAllocation, EmptyAllocation

LEMMA SameCardinality == \A S : Abstract!Cardinality(S) = Cardinality(S)
BY DEF Abstract!Cardinality, Cardinality

LEMMA SameMax == \A S : Abstract!Max(S) = Max(S)
BY DEF Abstract!Max, Max

LEMMA SameAsInt == \A v : Abstract!AsInt(v) = AsInt(v)
BY DEF Abstract!AsInt, AsInt

LEMMA SameOver == \A s, l, m : Abstract!Over(s, l, m) = Over(s, l, m)
BY DEF Abstract!Over, Over, Abstract!Intersects, Intersects

LEMMA SameAllocated ==
    /\ \A a, p, l : Abstract!IsLayerAllocated(a, p, l) = IsLayerAllocated(a, p, l)
    /\ \A s, a, p : Abstract!AllocatedBefore(s, a, p) = AllocatedBefore(s, a, p)
BY DEF Abstract!IsLayerAllocated, IsLayerAllocated,
       Abstract!AllocatedBefore, AllocatedBefore, Abstract!NULL, NULL

LEMMA SameCompatible ==
    \A s, a, step, p, l :
        Abstract!CheckLayerPlaneCompatible(s, a, step, p, l)
            <=> CheckLayerPlaneCompatible(s, a, step, p, l)
<1> TAKE s, a, step, p, l
<1>1. Abstract!HasCompositedLayerOver(s, a, p, l) <=> HasCompositedLayerOver(s, a, p, l)
  BY SameSets, SameAllocated, SameOver
  DEF Abstract!HasCompositedLayerOver, HasCompositedLayerOver
<1>2. Abstract!HasAllocatedLayerOver(s, a, p, l) <=> HasAllocatedLayerOver(s, a, p, l)
  BY SameAllocated, SameOver DEF Abstract!HasAllocatedLayerOver, HasAllocatedLayerOver
<1>3. Abstract!HasAllocatedPlaneUnder(s, a, p, l) <=> HasAllocatedPlaneUnder(s, a, p, l)
  BY SameAllocated DEF Abstract!HasAllocatedPlaneUnder, HasAllocatedPlaneUnder,
                       Abstract!Intersects, Intersects
<1>4. Abstract!ZposCompatible(s, a, step, p, l) <=> ZposCompatible(s, a, step, p, l)
  BY <1>2, <1>3, SameAsInt DEF Abstract!ZposCompatible, ZposCompatible
<1> QED
  BY <1>1, <1>4, SameAllocated
  DEF Abstract!CheckLayerPlaneCompatible, CheckLayerPlaneCompatible

LEMMA SameChecks ==
    /\ \A s, p : Abstract!PlaneUsable(s, p) <=> PlaneUsable(s, p)
    /\ \A s, l : Abstract!LayerEligible(s, l) <=> LayerEligible(s, l)
    /\ \A s, config : Abstract!Accepts(s, config) <=> Accepts(s, config)
    /\ \A s, step : Abstract!CheckAllocValid(s, step) <=> CheckAllocValid(s, step)
<1>1. \A s, p : Abstract!PlaneUsable(s, p) <=> PlaneUsable(s, p)
  BY DEF Abstract!PlaneUsable, PlaneUsable
<1>2. \A s, l : Abstract!LayerEligible(s, l) <=> LayerEligible(s, l)
  BY DEF Abstract!LayerEligible, LayerEligible
<1>3. \A config : Abstract!Enabled(config) = Enabled(config)
  BY SameSets DEF Abstract!Enabled, Enabled
<1>4. \A s, config : Abstract!Accepts(s, config) <=> Accepts(s, config)
  BY <1>3, SameCardinality DEF Abstract!Accepts, Accepts
<1>5. \A s : Abstract!NonCompositionLayersLength(s) = NonCompositionLayersLength(s)
  BY SameCardinality DEF Abstract!NonCompositionLayersLength, NonCompositionLayersLength
<1>6. \A s, step : Abstract!CheckAllocValid(s, step) <=> CheckAllocValid(s, step)
  BY <1>5, SameSets DEF Abstract!CheckAllocValid, CheckAllocValid
<1> QED
  BY <1>1, <1>2, <1>4, <1>6

-----------------------------------------------------------------------------
(* The step of an allocation                                               *)

LEMMA ScoredFinite ==
    ASSUME NEW s, NEW a, NEW p \in Int
    PROVE  IsFiniteSet(Abstract!Scored(s, a, p))
<1>1. IsFiniteSet(1 .. p - 1)
  BY FS_Interval
<1>2. Abstract!Scored(s, a, p) \subseteq 1 .. p - 1
  BY DEF Abstract!Scored
<1> QED
  BY <1>1, <1>2, FS_Subset

\* Before the first plane.
LEMMA StepBeforeFirst ==
    ASSUME NEW s, NEW a
    PROVE  Abstract!StepBefore(s, a, 1) = FirstStep
<1>1. 1 .. 1 - 1 = {}
  OBVIOUS
<1>2. Abstract!Scored(s, a, 1) = {}
  BY <1>1 DEF Abstract!Scored
<1>3. Abstract!Ordered(s, a, 1) = {}
  BY <1>1 DEF Abstract!Ordered, Abstract!AllocatedBefore
<1>4. Abstract!Cardinality({}) = 0
  BY SameCardinality, FS_EmptySet
<1> QED
  BY <1>1, <1>2, <1>3, <1>4 DEF Abstract!StepBefore, FirstStep

\* A step depends only on the planes before it.
LEMMA StepBeforeSame ==
    ASSUME NEW s, NEW a, NEW b, NEW d \in 1 .. NumPlanes + 1,
           \A p \in 1 .. d - 1 : a[p] = b[p]
    PROVE  Abstract!StepBefore(s, a, d) = Abstract!StepBefore(s, b, d)
<1>1. Abstract!Scored(s, a, d) = Abstract!Scored(s, b, d)
  BY DEF Abstract!Scored
<1>2. Abstract!Ordered(s, a, d) = Abstract!Ordered(s, b, d)
  BY DEF Abstract!Ordered, Abstract!AllocatedBefore
<1> DEFINE O == Abstract!Ordered(s, a, d)
<1>3. O \subseteq 1 .. d - 1
  BY DEF Abstract!Ordered, Abstract!AllocatedBefore
<1>4. O # {} => Abstract!Max(O) \in 1 .. d - 1
  <2>1. d - 1 \in Nat
    BY NumPlanesAssumption
  <2> HIDE DEF O
  <2> QED BY <1>3, <2>1, HasMax, SameMax
<1> QED
  BY <1>1, <1>2, <1>4 DEF Abstract!StepBefore

\* Each plane adds to the step what plane_step_init_next adds.
LEMMA StepBeforeNext ==
    ASSUME NEW s, NEW a, NEW p \in Planes
    PROVE  Abstract!StepBefore(s, a, p + 1)
              = NextStep(s, Abstract!StepBefore(s, a, p), p, a[p])
<1>0. p \in Int /\ p + 1 \in Int /\ p \in 1 .. NumPlanes /\ (p + 1) - 1 = p
  BY NumPlanesAssumption DEF Planes
<1>1. \A q \in 1 .. p : q = p \/ q \in 1 .. p - 1
  BY <1>0
<1>2. p \in 1 .. p /\ p \notin 1 .. p - 1 /\ 1 .. p - 1 \subseteq 1 .. p
  BY <1>0
<1> DEFINE S(n) == Abstract!Scored(s, a, n)  O(n) == Abstract!Ordered(s, a, n)
<1>3. Cardinality(S(p + 1)) =
         IF a[p] \notin {NULL, s.composition} THEN Cardinality(S(p)) + 1 ELSE Cardinality(S(p))
  <2>1. IsFiniteSet(S(p)) /\ p \notin S(p)
    BY <1>0, <1>2, ScoredFinite DEF Abstract!Scored
  <2>2. CASE a[p] \notin {NULL, s.composition}
    <3>1. S(p + 1) = S(p) \cup {p}
      BY <1>0, <1>1, <1>2, <2>2, SameSets DEF Abstract!Scored
    <3> HIDE DEF S
    <3> QED BY <2>1, <2>2, <3>1, FS_AddElement
  <2>3. CASE a[p] \in {NULL, s.composition}
    <3>1. S(p + 1) = S(p)
      BY <1>0, <1>1, <1>2, <2>3, SameSets DEF Abstract!Scored
    <3> HIDE DEF S
    <3> QED BY <2>3, <3>1
  <2> QED BY <2>2, <2>3
<1> DEFINE Last(n) == IF O(n) = {} THEN INT_MAX ELSE AsInt(s.zpos[a[Abstract!Max(O(n))]])
<1>4. Last(p + 1) = IF a[p] # NULL /\ p \notin s.primary /\ s.zpos[a[p]] # NoProp
                    THEN AsInt(s.zpos[a[p]]) ELSE Last(p)
  <2>1. CASE a[p] # NULL /\ p \notin s.primary /\ s.zpos[a[p]] # NoProp
    <3>1. p \in O(p + 1) /\ O(p + 1) \subseteq 1 .. p
      BY <1>0, <1>2, <2>1, SameSets DEF Abstract!Ordered, Abstract!AllocatedBefore
    <3>2. Max(O(p + 1)) = p
      <4> HIDE DEF O
      <4>1. p \in Nat
        BY <1>0
      <4>2. Max(O(p + 1)) \in O(p + 1) /\ Max(O(p + 1)) >= p
        BY <3>1, <4>1, HasMax
      <4> QED BY <3>1, <4>1, <4>2
    <3> HIDE DEF O
    <3> QED BY <2>1, <3>1, <3>2, SameMax
  <2>2. CASE ~(a[p] # NULL /\ p \notin s.primary /\ s.zpos[a[p]] # NoProp)
    <3>1. O(p + 1) = O(p)
      BY <1>0, <1>1, <1>2, <2>2, SameSets DEF Abstract!Ordered, Abstract!AllocatedBefore
    <3> HIDE DEF O
    <3> QED BY <2>2, <3>1
  <2> QED BY <2>1, <2>2
<1> DEFINE C(n) == \E q \in 1 .. n - 1 : a[q] # NULL /\ a[q] = s.composition
<1>5. C(p + 1) = (C(p) \/ (a[p] # NULL /\ a[p] = s.composition))
  BY <1>0, <1>1, <1>2
<1>6. ASSUME NEW n \in {p, p + 1}
      PROVE  Abstract!StepBefore(s, a, n) =
                [score |-> Cardinality(S(n)), last_layer_zpos |-> Last(n), composited |-> C(n)]
  BY SameCardinality, SameAsInt, SameSets DEF Abstract!StepBefore
<1> HIDE DEF S, Last, C
<1> DEFINE st == Abstract!StepBefore(s, a, p)
<1>7. st.score = Cardinality(S(p)) /\ st.last_layer_zpos = Last(p) /\ st.composited = C(p)
  BY <1>6
<1>8. NextStep(s, st, p, a[p]) =
         [score |-> Cardinality(S(p + 1)), last_layer_zpos |-> Last(p + 1),
          composited |-> C(p + 1)]
  <2> HIDE DEF st
  <2> QED BY <1>3, <1>4, <1>5, <1>7 DEF NextStep
<1> QED BY <1>6, <1>8

\* A layer for each remaining plane is the best that can come.
LEMMA ScoreBound ==
    ASSUME NEW s, NEW a, NEW d \in 1 .. NumPlanes + 1
    PROVE  /\ Abstract!StepBefore(s, a, d).score \in Nat
           /\ Abstract!Score(s, a)
                 <= Abstract!StepBefore(s, a, d).score + (NumPlanes - (d - 1))
<1>0. NumPlanes \in Nat /\ d \in Int /\ NumPlanes + 1 \in Int
  BY NumPlanesAssumption
<1> DEFINE S == Abstract!Scored(s, a, d)
           R == d .. NumPlanes
           A == Abstract!Scored(s, a, NumPlanes + 1)
<1>1. IsFiniteSet(S) /\ IsFiniteSet(R)
  BY <1>0, ScoredFinite, FS_Interval
<1>2. Cardinality(R) = NumPlanes - (d - 1)
  <2>1. Cardinality(R) = IF d > NumPlanes THEN 0 ELSE NumPlanes - d + 1
    BY <1>0, FS_Interval
  <2> HIDE DEF R
  <2> QED BY <1>0, <2>1
<1>3. A \subseteq S \cup R
  BY <1>0 DEF Abstract!Scored
<1>4. Abstract!StepBefore(s, a, d).score = Cardinality(S)
  BY SameCardinality DEF Abstract!StepBefore
<1>5. Abstract!Score(s, a) = Cardinality(A)
  BY SameCardinality DEF Abstract!Score
<1> HIDE DEF S, R, A
<1>6. /\ IsFiniteSet(S \cup R)
      /\ Cardinality(S \cup R) = Cardinality(S) + Cardinality(R) - Cardinality(S \cap R)
  BY <1>1, FS_Union
<1>7. IsFiniteSet(S \cap R)
  BY <1>1, FS_Intersection
<1>8. Cardinality(S) \in Nat /\ Cardinality(R) \in Nat /\ Cardinality(S \cap R) \in Nat
  BY <1>1, <1>7, FS_CardinalityType
<1>9. IsFiniteSet(A) /\ Cardinality(A) <= Cardinality(S \cup R)
  BY <1>3, <1>6, FS_Subset
<1>10. Cardinality(A) \in Nat
  BY <1>9, FS_CardinalityType
<1> QED BY <1>0, <1>2, <1>4, <1>5, <1>6, <1>8, <1>9, <1>10

\* The checks on a plane depend only on the planes before it.
LEMMA CompatibleSame ==
    ASSUME NEW s, NEW a, NEW b, NEW step, NEW d, NEW l, \A p \in 1 .. d - 1 : a[p] = b[p]
    PROVE  CheckLayerPlaneCompatible(s, a, step, d, l)
              <=> CheckLayerPlaneCompatible(s, b, step, d, l)
<1>1. \A m : IsLayerAllocated(a, d, m) <=> IsLayerAllocated(b, d, m)
  BY DEF IsLayerAllocated
<1>2. HasCompositedLayerOver(s, a, d, l) <=> HasCompositedLayerOver(s, b, d, l)
  BY <1>1 DEF HasCompositedLayerOver
<1>3. AllocatedBefore(s, a, d) = AllocatedBefore(s, b, d)
  BY DEF AllocatedBefore
<1>4. \A p \in AllocatedBefore(s, a, d) : a[p] = b[p]
  BY DEF AllocatedBefore
<1>5. HasAllocatedLayerOver(s, a, d, l) <=> HasAllocatedLayerOver(s, b, d, l)
  BY <1>3, <1>4 DEF HasAllocatedLayerOver
<1>6. HasAllocatedPlaneUnder(s, a, d, l) <=> HasAllocatedPlaneUnder(s, b, d, l)
  BY <1>3, <1>4 DEF HasAllocatedPlaneUnder
<1>7. ZposCompatible(s, a, step, d, l) <=> ZposCompatible(s, b, step, d, l)
  BY <1>5, <1>6 DEF ZposCompatible
<1> QED BY <1>1, <1>2, <1>7 DEF CheckLayerPlaneCompatible

LEMMA PrefixSame ==
    ASSUME NEW a, NEW b, NEW d, \A p \in 1 .. d - 1 : a[p] = b[p], d \in 1 .. NumPlanes + 1
    PROVE  Abstract!Prefix(a, d) = Abstract!Prefix(b, d)
<1>1. \A p \in Planes : p < d => a[p] = b[p]
  BY NumPlanesAssumption DEF Planes
<1> QED BY <1>1, SameSets DEF Abstract!Prefix

LEMMA ScoreType ==
    ASSUME NEW s, NEW a
    PROVE  /\ Abstract!Score(s, a) \in Nat
           /\ Abstract!Score(s, a) = Abstract!StepBefore(s, a, NumPlanes + 1).score
<1>1. NumPlanes + 1 \in 1 .. NumPlanes + 1
  BY NumPlanesAssumption
<1>2. Abstract!StepBefore(s, a, NumPlanes + 1).score \in Nat
  BY <1>1, ScoreBound
<1> QED BY <1>2 DEF Abstract!Score, Abstract!StepBefore

\* What the kernel is asked about a candidate is the path with the candidate.
LEMMA AppliedConfiguration ==
    ASSUME TypeInv, RequestInv, ret = "searching", AtLayer,
           NEW a, \A p \in 1 .. depth - 1 : a[p] = alloc[p], a[depth] = Top.next
    PROVE  Configuration(Applied) = Abstract!Prefix(a, depth + 1)
<1>0. EntriesOfPath /\ OneEntryPerPlane /\ PathCovered
  BY DEF RequestInv
<1>1. depth \in 1 .. NumPlanes /\ depth \in Int /\ Len(req) \in Nat
  BY NumPlanesAssumption DEF AtLayer, TypeInv, TypeOK
<1> DEFINE n == Len(req) + 1
<1>2. /\ Len(Applied) = n
      /\ \A i \in 1 .. Len(req) : Applied[i] = req[i]
      /\ Applied[n].plane = depth /\ Applied[n].layer = Top.next
  BY DEF Applied, TypeInv, TypeOK
<1>3. \A i \in 1 .. n : i = n \/ i \in 1 .. Len(req)
  BY <1>1
<1>4. n \in 1 .. n /\ n \in Int /\ 1 .. Len(req) \subseteq 1 .. n
  BY <1>1
<1> SUFFICES ASSUME NEW p \in Planes
             PROVE  Configuration(Applied)[p] = IF p < depth + 1 THEN a[p] ELSE NULL
  BY SameSets DEF Configuration, Abstract!Prefix
<1> DEFINE entries == {i \in 1 .. n : Applied[i].plane = p}
<1>5. Configuration(Applied)[p] = IF entries = {} THEN NULL ELSE Applied[Max(entries)].layer
  BY <1>2 DEF Configuration
<1>6. p \in 1 .. NumPlanes /\ p \in Int
  BY DEF Planes
<1> HIDE DEF n
<1>7. ASSUME NEW i \in Int, entries = {i} PROVE Max(entries) = i
  BY <1>7 DEF Max
<1>8. CASE p = depth
  <2>1. entries = {n}
    BY <1>0, <1>1, <1>2, <1>3, <1>4, <1>8 DEF EntriesOfPath
  <2>2. Max(entries) = n
    BY <1>4, <1>7, <2>1
  <2> QED BY <1>1, <1>2, <1>5, <1>8, <2>1, <2>2
<1>9. CASE p > depth
  <2>1. entries = {}
    BY <1>0, <1>1, <1>2, <1>3, <1>6, <1>9 DEF EntriesOfPath
  <2> QED BY <1>1, <1>5, <1>6, <1>9, <2>1
<1>10. CASE p < depth
  <2>1. p \in 1 .. depth - 1 /\ p < depth + 1 /\ p # depth
    BY <1>1, <1>6, <1>10
  <2>2. CASE entries = {}
    <3>1. \A i \in 1 .. Len(req) : req[i].plane # p
      BY <1>2, <1>4, <2>2
    <3>2. a[p] = NULL
      BY <1>0, <2>1, <3>1 DEF PathCovered
    <3> QED BY <1>5, <2>1, <2>2, <3>2
  <2>3. ASSUME NEW i \in entries
        PROVE  Configuration(Applied)[p] = IF p < depth + 1 THEN a[p] ELSE NULL
    <3>1. i \in 1 .. Len(req) /\ req[i].plane = p /\ i \in Int
      BY <1>2, <1>3, <2>1, <2>3
    <3>2. \A j \in entries : j = i
      BY <1>0, <1>2, <1>3, <2>1, <3>1 DEF OneEntryPerPlane
    <3>3. Max(entries) = i
      BY <1>7, <2>3, <3>1, <3>2
    <3>4. Applied[i].layer = alloc[p]
      BY <1>0, <1>2, <3>1 DEF EntriesOfPath
    <3> QED BY <1>5, <2>1, <2>3, <3>3, <3>4
  <2> QED BY <2>2, <2>3
<1> QED BY <1>1, <1>6, <1>8, <1>9, <1>10

-----------------------------------------------------------------------------
(* The invariant                                                           *)

\* The assignment to plane p passes the checks and the test, after those before.
JustifiedAt(a, p) ==
    a[p] # NULL =>
        /\ PlaneUsable(scene, p)
        /\ LayerEligible(scene, a[p])
        /\ CheckLayerPlaneCompatible(scene, a, Abstract!StepBefore(scene, a, p), p, a[p])
        /\ a[p] \in scene.supports[p]
        /\ Accepts(scene, Abstract!Prefix(a, p + 1))

LEMMA JustifiedByPlane ==
    \A a : Abstract!Justified(scene, a) <=> \A p \in Planes : JustifiedAt(a, p)
BY SameSets, SameChecks, SameCompatible DEF Abstract!Justified, JustifiedAt

LEMMA JustifiedSame ==
    ASSUME NEW a, NEW b, NEW p \in Planes, \A q \in 1 .. p : a[q] = b[q]
    PROVE  JustifiedAt(a, p) <=> JustifiedAt(b, p)
<1>0. p \in 1 .. NumPlanes /\ p \in 1 .. NumPlanes + 1 /\ p + 1 \in 1 .. NumPlanes + 1
      /\ (p + 1) - 1 = p /\ p \in 1 .. p /\ 1 .. p - 1 \subseteq 1 .. p
  BY NumPlanesAssumption DEF Planes
<1>1. a[p] = b[p] /\ \A q \in 1 .. p - 1 : a[q] = b[q]
  BY <1>0
<1>2. Abstract!StepBefore(scene, a, p) = Abstract!StepBefore(scene, b, p)
  BY <1>0, <1>1, StepBeforeSame
<1>3. Abstract!Prefix(a, p + 1) = Abstract!Prefix(b, p + 1)
  BY <1>0, PrefixSame
<1> DEFINE step == Abstract!StepBefore(scene, a, p)
<1>4. CheckLayerPlaneCompatible(scene, a, step, p, a[p])
         <=> CheckLayerPlaneCompatible(scene, b, step, p, a[p])
  <2> HIDE DEF step
  <2> QED BY <1>1, CompatibleSame
<1> QED BY <1>1, <1>2, <1>3, <1>4 DEF JustifiedAt

\* Where an activation's loop comes to an allocation's choice for its plane.
Rank(layer) == IF layer = NULL THEN SKIP ELSE layer

LEMMA RankType ==
    /\ \A l \in Layers \union {NULL} : Rank(l) \in 1 .. SKIP
    /\ \A l, m \in Layers \union {NULL} : Rank(l) = Rank(m) => l = m
BY NumLayersAssumption DEF Rank, Layers, NULL, SKIP

\* The search comes to the allocation from the activation d: it shares the path
\* up to there, and that activation has its choice still to make.
Pending(a, d) ==
    /\ \A p \in 1 .. d - 1 : a[p] = alloc[p]
    /\ d <= NumPlanes =>
          IF d = depth THEN Rank(a[d]) >= frame[d].next ELSE Rank(a[d]) > frame[d].next

NothingMissed ==
    \A a \in Allocations :
        Abstract!Better(scene, a, best_score) => \E d \in 1 .. depth : Pending(a, d)

StepsFollowPath ==
    \A d \in 1 .. depth : frame[d].step = Abstract!StepBefore(scene, alloc, d)

PathJustified == \A p \in 1 .. depth - 1 : JustifiedAt(alloc, p)

LoopsUsable == \A d \in 1 .. depth : frame[d].next \in Layers => PlaneUsable(scene, d)

FindInv ==
    ret = "searching" => StepsFollowPath /\ PathJustified /\ LoopsUsable /\ NothingMissed

LEMMA FindInit == Init => FindInv
<1> SUFFICES ASSUME Init PROVE FindInv
  OBVIOUS
<1>1. /\ depth = 1 /\ \A d \in 1 .. depth : d = 1
      /\ frame[1] = NewFrame(FirstStep) /\ 1 .. 1 - 1 = {} /\ 1 \in 1 .. 1
  BY NumPlanesAssumption DEF Init
<1>2. frame[1].step = FirstStep /\ frame[1].next = 0
  BY <1>1 DEF NewFrame, ENTER
<1>3. StepsFollowPath
  BY <1>1, <1>2, StepBeforeFirst DEF StepsFollowPath
<1>4. PathJustified
  BY <1>1 DEF PathJustified
<1>5. LoopsUsable
  BY <1>1, <1>2 DEF LoopsUsable, Layers
<1>6. NothingMissed
  <2> SUFFICES ASSUME NEW a \in Allocations PROVE Pending(a, 1)
    BY <1>1 DEF NothingMissed
  <2>1. 1 <= NumPlanes => a[1] \in Layers \union {NULL}
    BY NumPlanesAssumption DEF Allocations, Planes
  <2>2. 1 <= NumPlanes => Rank(a[1]) \in 1 .. SKIP
    BY <2>1, RankType
  <2>3. 1 <= NumPlanes => Rank(a[1]) >= 0
    BY <2>2
  <2> QED BY <1>1, <1>2, <2>3 DEF Pending
<1> QED BY <1>3, <1>4, <1>5, <1>6 DEF FindInv

\* A score that grows makes nothing else better.
LEMMA BetterAntitone ==
    ASSUME NEW a, NEW x \in Int, NEW y \in Int, x <= y, Abstract!Better(scene, a, y)
    PROVE  Abstract!Better(scene, a, x)
BY ScoreType DEF Abstract!Better

\* A return leaves to the caller what was pending for it, if nothing was
\* pending for the activation that returns.
LEMMA FindReturn ==
    ASSUME TypeInv, FindInv, ret = "searching", Return, UNCHANGED <<scene, alloc>>,
           best_score' \in Int, best_score <= best_score',
           \A a \in Allocations :
              Abstract!Better(scene, a, best_score') => ~Pending(a, depth)
    PROVE  /\ FindInv'
           /\ ret' # "searching" =>
                 /\ ret' = "ok"
                 /\ ~\E a \in Allocations : Abstract!Better(scene, a, best_score')
<1>0. StepsFollowPath /\ PathJustified /\ LoopsUsable /\ NothingMissed
  BY DEF FindInv
<1>1. depth \in 1 .. NumPlanes + 1 /\ best_score \in Int /\ NumPlanes \in Nat
  BY NumPlanesAssumption DEF TypeInv, TypeOK
<1>2. ASSUME NEW a \in Allocations, Abstract!Better(scene, a, best_score')
      PROVE  \E d \in 1 .. depth - 1 : Pending(a, d)
  <2>1. Abstract!Better(scene, a, best_score)
    BY <1>1, <1>2, BetterAntitone
  <2>2. PICK d \in 1 .. depth : Pending(a, d)
    BY <1>0, <2>1 DEF NothingMissed
  <2>3. d # depth
    BY <1>2, <2>2
  <2> QED BY <1>1, <2>2, <2>3
<1>3. CASE depth = 1
  <2>1. ret' = "ok"
    BY <1>3 DEF Return
  <2>2. 1 .. depth - 1 = {}
    BY <1>3
  <2> QED BY <1>2, <2>1, <2>2 DEF FindInv
<1>4. CASE depth # 1
  <2> DEFINE e == depth - 1
  <2>1. e \in 1 .. NumPlanes /\ depth' = e /\ ret' = "searching" /\ e < depth /\ e \in Int
    BY <1>1, <1>4 DEF Return
  <2>2. frame[e] \in Frame /\ frame[e].next \in 1 .. SKIP
    BY <2>1, <1>1 DEF TypeInv, TypeOK, Activations
  <2>3. frame' = [frame EXCEPT ![e] = [frame[e] EXCEPT !.next = frame[e].next + 1]]
    BY <1>1, <1>4 DEF Return
  <2>4. /\ \A d \in 1 .. e : frame'[d].step = frame[d].step
        /\ frame'[e].next = frame[e].next + 1
        /\ \A d \in 1 .. e : d # e => frame'[d] = frame[d]
    BY <2>1, <2>2, <2>3, <1>1 DEF TypeInv, TypeOK, Frame
  <2>5. \A d \in 1 .. e : d \in 1 .. depth /\ (d # e => d < e) /\ d # depth
    BY <1>1, <2>1
  <2>6. StepsFollowPath'
    BY <1>0, <2>1, <2>4, <2>5 DEF StepsFollowPath
  <2>7. PathJustified'
    <3>1. \A p \in 1 .. e - 1 : p \in 1 .. depth - 1
      BY <1>1
    <3> QED BY <1>0, <2>1, <3>1 DEF PathJustified, JustifiedAt
  <2>8. LoopsUsable'
    <3>1. frame'[e].next \in Layers => PlaneUsable(scene, e)
      <4>1. frame[e].next + 1 \in 1 .. NumLayers => frame[e].next \in 1 .. NumLayers
        BY <2>2, NumLayersAssumption DEF SKIP
      <4> QED BY <1>0, <2>1, <2>4, <2>5, <4>1 DEF LoopsUsable, Layers
    <3>2. \A d \in 1 .. e : frame'[d].next \in Layers => PlaneUsable(scene, d)
      BY <1>0, <2>4, <2>5, <3>1 DEF LoopsUsable
    <3> QED BY <2>1, <3>2 DEF LoopsUsable, PlaneUsable
  <2>9. NothingMissed'
    <3> SUFFICES ASSUME NEW a \in Allocations, Abstract!Better(scene, a, best_score')
                 PROVE  \E d \in 1 .. e : Pending(a, d)'
      BY <2>1 DEF NothingMissed
    <3>1. PICK d \in 1 .. e : Pending(a, d)
      BY <1>2
    <3>2. d <= NumPlanes /\ d # depth /\ Rank(a[d]) > frame[d].next
      BY <1>1, <2>1, <2>5, <3>1 DEF Pending
    <3>3. CASE d = e
      <4>1. Rank(a[e]) \in Int
        <5>1. a[e] \in Layers \union {NULL}
          BY <2>1 DEF Allocations, Planes
        <5>2. Rank(a[e]) \in 1 .. SKIP
          BY <5>1, RankType
        <5> QED BY <5>2
      <4>2. Rank(a[e]) >= frame'[e].next
        BY <2>2, <2>4, <3>2, <3>3, <4>1
      <4> QED BY <2>1, <3>1, <3>3, <4>2 DEF Pending
    <3>4. CASE d # e
      BY <2>1, <2>4, <3>1, <3>2, <3>4 DEF Pending
    <3> QED BY <3>3, <3>4
  <2> QED BY <2>1, <2>6, <2>7, <2>8, <2>9 DEF FindInv
<1> QED BY <1>3, <1>4

\* A call takes with it what is pending for the layer it is made with.
LEMMA FindCall ==
    ASSUME TypeInv, FindInv, ret = "searching", depth <= NumPlanes,
           NEW layer \in Layers \union {NULL}, Call(layer),
           UNCHANGED <<scene, best_score, ret>>,
           Top.next = Rank(layer), JustifiedAt(alloc', depth)
    PROVE  FindInv'
<1>0. StepsFollowPath /\ PathJustified /\ LoopsUsable /\ NothingMissed
  BY DEF FindInv
<1>1. depth \in 1 .. NumPlanes /\ depth' = depth + 1 /\ depth \in Planes /\ depth \in Int
      /\ NumPlanes \in Nat
  BY NumPlanesAssumption DEF TypeInv, TypeOK, Call, Planes
<1>2. /\ alloc'[depth] = layer
      /\ \A p \in 1 .. depth - 1 : alloc'[p] = alloc[p]
  BY <1>1 DEF Call, TypeInv, TypeOK, Allocations, Planes
<1>3. \A d \in 1 .. depth : frame'[d] = frame[d]
  BY <1>1 DEF Call, TypeInv, TypeOK
<1>4. /\ frame'[depth + 1].step = NextStep(scene, Top.step, depth, layer)
      /\ frame'[depth + 1].next = 0
  BY <1>1 DEF Call, TypeInv, TypeOK, NewFrame, ENTER
<1>5. \A d \in 1 .. depth + 1 : d = depth + 1 \/ d \in 1 .. depth
  BY <1>1
<1>6. \A d \in 1 .. depth : Abstract!StepBefore(scene, alloc', d) = frame[d].step
  <2> TAKE d \in 1 .. depth
  <2>1. d \in 1 .. NumPlanes + 1 /\ \A p \in 1 .. d - 1 : alloc'[p] = alloc[p]
    BY <1>1, <1>2
  <2>2. Abstract!StepBefore(scene, alloc', d) = Abstract!StepBefore(scene, alloc, d)
    BY <2>1, StepBeforeSame
  <2> QED BY <1>0, <2>2 DEF StepsFollowPath
<1>7. StepsFollowPath'
  <2>1. depth \in 1 .. depth
    BY <1>1
  <2>2. Abstract!StepBefore(scene, alloc', depth + 1) = NextStep(scene, Top.step, depth, layer)
    BY <1>1, <1>2, <1>6, <2>1, StepBeforeNext DEF Top
  <2>3. \A d \in 1 .. depth + 1 : frame'[d].step = Abstract!StepBefore(scene, alloc', d)
    BY <1>3, <1>4, <1>5, <1>6, <2>2
  <2> QED BY <1>1, <2>3 DEF StepsFollowPath
<1>8. PathJustified'
  <2>1. ASSUME NEW p \in 1 .. depth PROVE JustifiedAt(alloc', p)
    <3>1. CASE p = depth
      BY <3>1
    <3>2. CASE p # depth
      <4>1. p \in 1 .. depth - 1 /\ p \in Planes /\ \A q \in 1 .. p : alloc'[q] = alloc[q]
        BY <1>1, <1>2, <3>2 DEF Planes
      <4>2. JustifiedAt(alloc, p)
        BY <1>0, <4>1 DEF PathJustified
      <4> QED BY <4>1, <4>2, JustifiedSame
    <3> QED BY <3>1, <3>2
  <2>2. depth' - 1 = depth
    BY <1>1
  <2> QED BY <2>1, <2>2 DEF PathJustified, JustifiedAt
<1>9. LoopsUsable'
  <2>1. \A d \in 1 .. depth + 1 : frame'[d].next \in Layers => PlaneUsable(scene, d)
    BY <1>0, <1>3, <1>4, <1>5 DEF LoopsUsable, Layers
  <2> QED BY <1>1, <2>1 DEF LoopsUsable, PlaneUsable
<1>10. NothingMissed'
  <2> SUFFICES ASSUME NEW a \in Allocations, Abstract!Better(scene, a, best_score)
               PROVE  \E d \in 1 .. depth + 1 : Pending(a, d)'
    BY <1>1 DEF NothingMissed
  <2>1. PICK d \in 1 .. depth : Pending(a, d)
    BY <1>0 DEF NothingMissed
  <2>2. \A p \in 1 .. NumPlanes : a[p] \in Layers \union {NULL} /\ Rank(a[p]) \in 1 .. SKIP
    BY RankType DEF Allocations, Planes
  <2>3. d \in 1 .. depth + 1 /\ d # depth + 1 /\ d <= NumPlanes
    BY <1>1
  <2>4. \A p \in 1 .. d - 1 : a[p] = alloc[p] /\ alloc'[p] = alloc[p]
    BY <1>1, <1>2, <2>1 DEF Pending
  <2>5. CASE Rank(a[d]) > frame[d].next
    <3>1. Pending(a, d)'
      BY <1>1, <1>3, <2>3, <2>4, <2>5 DEF Pending
    <3> QED BY <2>3, <3>1
  <2>6. CASE ~(Rank(a[d]) > frame[d].next)
    <3>1. d = depth /\ Rank(a[depth]) >= Top.next
      BY <2>1, <2>3, <2>6 DEF Pending, Top
    <3>2. Rank(a[depth]) = Rank(layer)
      <4>1. Rank(a[depth]) \in Int /\ Rank(layer) \in Int
        <5>1. Rank(layer) \in 1 .. SKIP /\ Rank(a[depth]) \in 1 .. SKIP
          BY <1>1, <2>2, RankType
        <5> QED BY <5>1
      <4> QED BY <2>6, <3>1, <4>1 DEF Top
    <3>3. a[depth] = layer
      BY <1>1, <2>2, <3>2, RankType
    <3>4. \A p \in 1 .. (depth + 1) - 1 : a[p] = alloc'[p]
      <4>1. \A p \in 1 .. (depth + 1) - 1 : p = depth \/ p \in 1 .. depth - 1
        BY <1>1
      <4> QED BY <1>2, <2>4, <3>1, <3>3, <4>1
    <3>5. depth + 1 <= NumPlanes => Rank(a[depth + 1]) >= 0
      <4> SUFFICES ASSUME depth + 1 <= NumPlanes PROVE Rank(a[depth + 1]) >= 0
        OBVIOUS
      <4>1. depth + 1 \in 1 .. NumPlanes
        BY <1>1
      <4>2. Rank(a[depth + 1]) \in 1 .. SKIP
        BY <2>2, <4>1
      <4> QED BY <4>2
    <3>6. PICK e \in 1 .. depth + 1 : e = depth + 1
      BY <1>1
    <3>7. Pending(a, e)'
      BY <1>1, <1>4, <3>4, <3>5, <3>6 DEF Pending
    <3> QED BY <3>7
  <2> QED BY <2>5, <2>6
<1> QED BY <1>7, <1>8, <1>9, <1>10 DEF FindInv

\* A loop may go on if what it passes over is no better, or rests with others.
LEMMA FindMove ==
    ASSUME TypeInv, FindInv, ret = "searching", depth <= NumPlanes,
           UNCHANGED <<scene, depth, alloc, best_score, ret>>,
           NEW f, NEW nxt \in Int, f.step = Top.step, f.next = nxt,
           frame' = [frame EXCEPT ![depth] = f],
           nxt \in Layers => PlaneUsable(scene, depth),
           \A a \in Allocations :
              /\ Abstract!Better(scene, a, best_score)
              /\ \A p \in 1 .. depth - 1 : a[p] = alloc[p]
              /\ Rank(a[depth]) >= Top.next
              => Rank(a[depth]) >= nxt
    PROVE  FindInv'
<1>0. StepsFollowPath /\ PathJustified /\ LoopsUsable /\ NothingMissed
  BY DEF FindInv
<1>1. depth \in 1 .. NumPlanes /\ depth \in 1 .. depth
  BY NumPlanesAssumption DEF TypeInv, TypeOK
<1>2. /\ frame'[depth].step = Top.step /\ frame'[depth].next = nxt
      /\ \A d \in 1 .. depth : d # depth => frame'[d] = frame[d]
  BY <1>1 DEF TypeInv, TypeOK
<1>3. StepsFollowPath'
  BY <1>0, <1>1, <1>2 DEF StepsFollowPath, Top
<1>4. PathJustified'
  BY <1>0 DEF PathJustified, JustifiedAt
<1>5. LoopsUsable'
  BY <1>0, <1>1, <1>2 DEF LoopsUsable, PlaneUsable
<1>6. NothingMissed'
  <2> SUFFICES ASSUME NEW a \in Allocations, Abstract!Better(scene, a, best_score)
               PROVE  \E d \in 1 .. depth : Pending(a, d)'
    BY DEF NothingMissed
  <2>1. PICK d \in 1 .. depth : Pending(a, d)
    BY <1>0 DEF NothingMissed
  <2>2. CASE d = depth
    <3>1. Rank(a[depth]) >= nxt
      BY <1>1, <2>1, <2>2 DEF Pending, Top
    <3> QED BY <1>1, <1>2, <2>1, <2>2, <3>1 DEF Pending
  <2>3. CASE d # depth
    BY <1>2, <2>1, <2>3 DEF Pending
  <2> QED BY <2>2, <2>3
<1> QED BY <1>3, <1>4, <1>5, <1>6 DEF FindInv

-----------------------------------------------------------------------------
(* Each step keeps the invariant and is a step of BestAllocation           *)

FindStep == FindInv' /\ [Abstract!Next]_(Abstract!vars)

\* The last activation has one allocation to look at: the path.
LEMMA PendingIsPath ==
    ASSUME TypeInv, depth = NumPlanes + 1, NEW a \in Allocations, Pending(a, depth)
    PROVE  a = alloc
<1>1. \A p \in Planes : p \in 1 .. depth - 1
  BY NumPlanesAssumption DEF Planes
<1>2. \A p \in Planes : a[p] = alloc[p]
  BY <1>1 DEF Pending
<1> QED BY <1>2 DEF TypeInv, TypeOK, Allocations

LEMMA FoundBetterStep == TypeInv /\ FindInv /\ FoundBetter => FindStep
<1> SUFFICES ASSUME TypeInv, FindInv, FoundBetter PROVE FindStep
  OBVIOUS
<1>0. StepsFollowPath /\ PathJustified /\ LoopsUsable /\ NothingMissed
  BY DEF FindInv, FoundBetter, Finished
<1>1. /\ ret = "searching" /\ depth = NumPlanes + 1 /\ depth \in 1 .. depth
      /\ Return /\ UNCHANGED <<scene, alloc>>
      /\ best' = alloc /\ best_score' = Top.step.score /\ IsBetter
  BY NumPlanesAssumption DEF FoundBetter, Finished
<1>2. Top.step = Abstract!StepBefore(scene, alloc, NumPlanes + 1)
  BY <1>0, <1>1 DEF StepsFollowPath, Top
<1>3. Abstract!Score(scene, alloc) \in Nat /\ Abstract!Score(scene, alloc) = best_score'
  BY <1>1, <1>2, ScoreType
<1>4. best_score \in Int /\ best_score < best_score'
  BY <1>1, <1>3 DEF TypeInv, TypeOK, IsBetter
<1>5. Abstract!Better(scene, alloc, best_score)
  <2>1. \A p \in Planes : p \in 1 .. depth - 1
    BY <1>1, NumPlanesAssumption DEF Planes
  <2>2. Abstract!Justified(scene, alloc)
    BY <1>0, <2>1, JustifiedByPlane DEF PathJustified
  <2>3. Abstract!CheckAllocValid(scene, Abstract!StepBefore(scene, alloc, NumPlanes + 1))
    BY <1>1, <1>2, SameChecks DEF IsBetter
  <2> QED BY <1>3, <1>4, <2>2, <2>3 DEF Abstract!Better
<1>6. Abstract!Improvement
  BY <1>1, <1>3, <1>5, SameSets DEF Abstract!Improvement, TypeInv, TypeOK
<1>7. ASSUME NEW a \in Allocations, Abstract!Better(scene, a, best_score')
      PROVE  ~Pending(a, depth)
  <2> SUFFICES ASSUME Pending(a, depth) PROVE FALSE
    OBVIOUS
  <2>1. a = alloc
    BY <1>1, PendingIsPath
  <2> QED BY <1>3, <1>7, <2>1 DEF Abstract!Better
<1>8. /\ FindInv'
      /\ ret' # "searching" =>
            ret' = "ok" /\ ~\E a \in Allocations : Abstract!Better(scene, a, best_score')
  BY <1>1, <1>3, <1>4, <1>7, FindReturn
<1>9. CASE ret' = "searching"
  BY <1>1, <1>6, <1>8, <1>9 DEF FindStep, Abstract!Next, Abstract!Improve
<1>10. CASE ret' # "searching"
  BY <1>1, <1>6, <1>8, <1>10, SameSets DEF FindStep, Abstract!Next, Abstract!Finish
<1> QED BY <1>9, <1>10

\* Any other return, of an activation for which nothing is pending.
LEMMA EmptyReturnStep ==
    ASSUME TypeInv, FindInv, ret = "searching", Return,
           UNCHANGED <<scene, alloc, best, best_score>>,
           \A a \in Allocations :
              Abstract!Better(scene, a, best_score) => ~Pending(a, depth)
    PROVE  FindStep
<1>1. best_score' = best_score /\ best_score \in Int /\ best_score <= best_score'
  BY DEF TypeInv, TypeOK
<1>2. /\ FindInv'
      /\ ret' # "searching" =>
            ret' = "ok" /\ ~\E a \in Allocations : Abstract!Better(scene, a, best_score')
  BY <1>1, FindReturn
<1>3. CASE ret' = "searching"
  BY <1>2, <1>3 DEF FindStep, Abstract!vars
<1>4. CASE ret' # "searching"
  BY <1>2, <1>4, SameSets DEF FindStep, Abstract!Next, Abstract!Finish
<1> QED BY <1>3, <1>4

LEMMA FoundNothingStep == TypeInv /\ FindInv /\ FoundNothing => FindStep
<1> SUFFICES ASSUME TypeInv, FindInv, FoundNothing PROVE FindStep
  OBVIOUS
<1>1. /\ ret = "searching" /\ depth = NumPlanes + 1 /\ depth \in 1 .. depth
      /\ Return /\ UNCHANGED <<scene, alloc, best, best_score>> /\ ~IsBetter
  BY NumPlanesAssumption DEF FoundNothing, Finished
<1>2. Top.step = Abstract!StepBefore(scene, alloc, NumPlanes + 1)
  BY <1>1 DEF FindInv, StepsFollowPath, Top
<1>3. ASSUME NEW a \in Allocations, Abstract!Better(scene, a, best_score)
      PROVE  ~Pending(a, depth)
  <2> SUFFICES ASSUME Pending(a, depth) PROVE FALSE
    OBVIOUS
  <2>1. a = alloc
    BY <1>1, PendingIsPath
  <2>2. Top.step.score > best_score
    BY <1>2, <1>3, <2>1, ScoreType DEF Abstract!Better
  <2>3. CheckAllocValid(scene, Top.step)
    BY <1>2, <1>3, <2>1, SameChecks DEF Abstract!Better
  <2> QED BY <1>1, <2>2, <2>3 DEF IsBetter
<1> QED BY <1>1, <1>3, EmptyReturnStep

\* Giving up loses nothing: the layers for the planes left would not suffice.
LEMMA GiveUpStep == TypeInv /\ FindInv /\ GiveUp => FindStep
<1> SUFFICES ASSUME TypeInv, FindInv, GiveUp PROVE FindStep
  OBVIOUS
<1>1. /\ ret = "searching" /\ depth \in 1 .. NumPlanes + 1 /\ depth \in 1 .. depth
      /\ Return /\ UNCHANGED <<scene, alloc, best, best_score>> /\ Hopeless
  BY NumPlanesAssumption DEF GiveUp, Entered, TypeInv, TypeOK
<1>2. Top.step = Abstract!StepBefore(scene, alloc, depth)
  BY <1>1 DEF FindInv, StepsFollowPath, Top
<1>3. ASSUME NEW a \in Allocations, Abstract!Better(scene, a, best_score)
      PROVE  ~Pending(a, depth)
  <2> SUFFICES ASSUME Pending(a, depth) PROVE FALSE
    OBVIOUS
  <2>1. Abstract!StepBefore(scene, a, depth) = Top.step
    BY <1>1, <1>2, StepBeforeSame DEF Pending
  <2>2. Top.step.score \in Nat
        /\ Abstract!Score(scene, a) <= Top.step.score + (NumPlanes - (depth - 1))
    BY <1>1, <2>1, ScoreBound
  <2>3. Abstract!Score(scene, a) \in Nat /\ best_score \in Int
    BY ScoreType DEF TypeInv, TypeOK
  <2>4. Abstract!Score(scene, a) > best_score
    BY <1>3 DEF Abstract!Better
  <2> QED BY <1>1, <2>2, <2>3, <2>4, NumPlanesAssumption DEF Hopeless
<1> QED BY <1>1, <1>3, EmptyReturnStep

LEMMA LeaveStep == TypeInv /\ FindInv /\ Leave => FindStep
<1> SUFFICES ASSUME TypeInv, FindInv, Leave PROVE FindStep
  OBVIOUS
<1>1. /\ ret = "searching" /\ depth \in 1 .. NumPlanes /\ Top.next = LEAVE
      /\ Return /\ UNCHANGED <<scene, alloc, best, best_score>>
  BY NumPlanesAssumption DEF Leave, TypeInv, TypeOK
<1>2. ASSUME NEW a \in Allocations PROVE ~Pending(a, depth)
  <2>1. Rank(a[depth]) \in 1 .. SKIP
    BY <1>1, RankType DEF Allocations, Planes
  <2>2. LEAVE = SKIP + 1 /\ SKIP \in Int
    BY NumLayersAssumption DEF LEAVE, SKIP
  <2> QED BY <1>1, <2>1, <2>2 DEF Pending, Top
<1> QED BY <1>1, <1>2, EmptyReturnStep

\* A plane that is not usable has no layer in any allocation of interest.
LEMMA EnterPlaneStep == TypeInv /\ FindInv /\ EnterPlane => FindStep
<1> SUFFICES ASSUME TypeInv, FindInv, EnterPlane PROVE FindStep
  OBVIOUS
<1> DEFINE nxt == IF PlaneUsable(scene, depth) THEN 1 ELSE SKIP
           f == [step |-> Top.step, cursor |-> Len(req), next |-> nxt]
<1>1. /\ ret = "searching" /\ depth <= NumPlanes /\ depth \in Planes
      /\ frame' = [frame EXCEPT ![depth] = f]
      /\ UNCHANGED <<scene, depth, alloc, best, best_score, ret>>
  BY NumPlanesAssumption DEF EnterPlane, Entered, TypeInv, TypeOK, Planes
<1>2. nxt \in Int /\ (nxt \in Layers => PlaneUsable(scene, depth))
  BY NumLayersAssumption DEF Layers, SKIP
<1>3. ASSUME NEW a \in Allocations, Abstract!Better(scene, a, best_score)
      PROVE  Rank(a[depth]) >= nxt
  <2>1. Rank(a[depth]) \in 1 .. SKIP
    BY <1>1, RankType DEF Allocations
  <2>2. CASE PlaneUsable(scene, depth)
    BY <2>1, <2>2
  <2>3. CASE ~PlaneUsable(scene, depth)
    <3>1. JustifiedAt(a, depth)
      BY <1>1, <1>3, JustifiedByPlane DEF Abstract!Better
    <3>2. a[depth] = NULL
      BY <2>3, <3>1 DEF JustifiedAt
    <3> QED BY <1>2, <2>3, <3>2 DEF Rank
  <2> QED BY <2>2, <2>3
<1>4. f.step = Top.step /\ f.next = nxt
  OBVIOUS
<1> HIDE DEF nxt, f
<1>5. FindInv'
  BY <1>1, <1>2, <1>3, <1>4, FindMove
<1> QED BY <1>1, <1>5 DEF FindStep, Abstract!vars

\* A layer that no allocation of interest puts on the plane is passed over.
LEMMA PassOver ==
    ASSUME TypeInv, FindInv, ret = "searching", AtLayer,
           UNCHANGED <<scene, depth, alloc, best, best_score, ret>>,
           frame' = [frame EXCEPT ![depth].next = @ + 1],
           \A a \in Allocations :
              /\ Abstract!Better(scene, a, best_score)
              /\ \A p \in 1 .. depth - 1 : a[p] = alloc[p]
              => a[depth] # Top.next
    PROVE  FindStep
<1>1. depth <= NumPlanes /\ depth \in Planes /\ depth \in 1 .. depth
  BY NumPlanesAssumption DEF AtLayer, TypeInv, TypeOK, Planes
<1>2. Top.next \in Layers /\ Top.next \in Int /\ Top \in Frame
  BY <1>1 DEF AtLayer, Layers, TypeInv, TypeOK, Top, Planes
<1> DEFINE nxt == Top.next + 1
           f == [Top EXCEPT !.next = nxt]
<1>3. f.step = Top.step /\ f.next = nxt /\ nxt \in Int
  BY <1>2 DEF Frame
<1>4. frame' = [frame EXCEPT ![depth] = f]
  BY <1>1 DEF Top, TypeInv, TypeOK
<1>5. nxt \in Layers => PlaneUsable(scene, depth)
  BY <1>1, <1>2 DEF FindInv, LoopsUsable, Top
<1>6. ASSUME NEW a \in Allocations, Abstract!Better(scene, a, best_score),
             \A p \in 1 .. depth - 1 : a[p] = alloc[p], Rank(a[depth]) >= Top.next
      PROVE  Rank(a[depth]) >= nxt
  <2>1. a[depth] \in Layers \union {NULL} /\ a[depth] # Top.next
    BY <1>1, <1>6 DEF Allocations
  <2>2. Rank(a[depth]) \in 1 .. SKIP /\ Rank(Top.next) = Top.next
    BY <1>2, <2>1, RankType DEF Rank, Layers, NULL
  <2>3. Rank(a[depth]) # Top.next
    BY <1>2, <2>1, <2>2, RankType
  <2> QED BY <1>2, <1>6, <2>2, <2>3
<1> HIDE DEF nxt, f
<1>7. FindInv'
  BY <1>1, <1>3, <1>4, <1>5, <1>6, FindMove
<1> QED BY <1>7 DEF FindStep, Abstract!vars

\* An allocation of interest that follows the path and goes on with the current
\* layer: the layer passes the search's own guards and the kernel's test.
LEMMA ChoiceAccepted ==
    ASSUME TypeInv, RequestInv, FindInv, ret = "searching", AtLayer,
           NEW a \in Allocations, Abstract!Better(scene, a, best_score),
           \A p \in 1 .. depth - 1 : a[p] = alloc[p], a[depth] = Top.next
    PROVE  Candidate /\ Top.next \in scene.supports[depth] /\ TestCommit(Applied)
<1>1. depth \in Planes /\ depth \in 1 .. depth /\ depth \in 1 .. NumPlanes + 1
  BY NumPlanesAssumption DEF AtLayer, TypeInv, TypeOK, Planes
<1>2. Top.next # NULL
  BY DEF AtLayer, Layers, NULL
<1>3. JustifiedAt(a, depth)
  BY <1>1, JustifiedByPlane DEF Abstract!Better
<1>4. Abstract!StepBefore(scene, a, depth) = Top.step
  <2>1. Abstract!StepBefore(scene, a, depth) = Abstract!StepBefore(scene, alloc, depth)
    BY <1>1, StepBeforeSame
  <2> QED BY <1>1, <2>1 DEF FindInv, StepsFollowPath, Top
<1>5. CheckLayerPlaneCompatible(scene, alloc, Top.step, depth, Top.next)
  <2>1. CheckLayerPlaneCompatible(scene, a, Top.step, depth, Top.next)
    BY <1>2, <1>3, <1>4 DEF JustifiedAt
  <2> QED BY <2>1, CompatibleSame
<1>6. Configuration(Applied) = Abstract!Prefix(a, depth + 1)
  BY AppliedConfiguration
<1> QED BY <1>2, <1>3, <1>5, <1>6 DEF JustifiedAt, Candidate, TestCommit

LEMMA RejectLayerStep == TypeInv /\ RequestInv /\ FindInv /\ RejectLayer => FindStep
BY ChoiceAccepted, PassOver DEF RejectLayer

LEMMA TestFailsStep == TypeInv /\ RequestInv /\ FindInv /\ TestFails => FindStep
BY ChoiceAccepted, PassOver DEF TestFails, AtCandidate

LEMMA TestSucceedsStep == TypeInv /\ RequestInv /\ FindInv /\ TestSucceeds => FindStep
<1> SUFFICES ASSUME TypeInv, RequestInv, FindInv, TestSucceeds PROVE FindStep
  OBVIOUS
<1>1. /\ ret = "searching" /\ AtLayer /\ depth <= NumPlanes /\ Candidate
      /\ Top.next \in scene.supports[depth] /\ TestCommit(Applied) /\ Call(Top.next)
      /\ UNCHANGED <<scene, best, best_score, ret>>
  BY DEF TestSucceeds, AtCandidate, AtLayer
<1>2. depth \in Planes /\ depth \in 1 .. depth /\ depth \in 1 .. NumPlanes + 1
  BY <1>1, NumPlanesAssumption DEF TypeInv, TypeOK, Planes
<1>3. Top.next \in Layers /\ Top.next = Rank(Top.next) /\ Top.next # NULL
  BY <1>1 DEF AtLayer, Layers, Rank, NULL
<1>4. /\ alloc'[depth] = Top.next
      /\ \A p \in 1 .. depth - 1 : alloc'[p] = alloc[p]
  BY <1>1, <1>2 DEF Call, TypeInv, TypeOK, Allocations, Planes
<1>5. PlaneUsable(scene, depth)
  BY <1>1, <1>2, <1>3 DEF FindInv, LoopsUsable, Top
<1>6. Abstract!StepBefore(scene, alloc', depth) = Top.step
  <2>1. Abstract!StepBefore(scene, alloc', depth) = Abstract!StepBefore(scene, alloc, depth)
    BY <1>2, <1>4, StepBeforeSame
  <2> QED BY <1>1, <1>2, <2>1 DEF FindInv, StepsFollowPath, Top
<1>7. CheckLayerPlaneCompatible(scene, alloc', Top.step, depth, Top.next)
  <2>1. CheckLayerPlaneCompatible(scene, alloc, Top.step, depth, Top.next)
    BY <1>1 DEF Candidate
  <2> QED BY <1>4, <2>1, CompatibleSame
<1>8. Configuration(Applied) = Abstract!Prefix(alloc', depth + 1)
  BY <1>1, <1>4, AppliedConfiguration
<1>9. JustifiedAt(alloc', depth)
  BY <1>1, <1>4, <1>5, <1>6, <1>7, <1>8 DEF JustifiedAt, Candidate, TestCommit
<1>10. FindInv'
  BY <1>1, <1>3, <1>9, FindCall
<1> QED BY <1>1, <1>10 DEF FindStep, Abstract!vars

LEMMA TrySkipStep == TypeInv /\ FindInv /\ TrySkip => FindStep
<1> SUFFICES ASSUME TypeInv, FindInv, TrySkip PROVE FindStep
  OBVIOUS
<1>1. /\ ret = "searching" /\ depth <= NumPlanes /\ Top.next = Rank(NULL) /\ Call(NULL)
      /\ UNCHANGED <<scene, best, best_score, ret>>
  BY DEF TrySkip, Rank
<1>2. alloc'[depth] = NULL
  BY <1>1, NumPlanesAssumption DEF Call, TypeInv, TypeOK, Allocations, Planes
<1>3. JustifiedAt(alloc', depth)
  BY <1>2 DEF JustifiedAt
<1>4. FindInv'
  BY <1>1, <1>3, FindCall
<1> QED BY <1>1, <1>4 DEF FindStep, Abstract!vars

LEMMA FindNext == TypeInv /\ RequestInv /\ FindInv /\ [Next]_vars => FindStep
<1> SUFFICES ASSUME TypeInv, RequestInv, FindInv, [Next]_vars PROVE FindStep
  OBVIOUS
<1>1. CASE Search
  BY <1>1, FoundBetterStep, FoundNothingStep, GiveUpStep, EnterPlaneStep, RejectLayerStep,
     TestSucceedsStep, TestFailsStep, TrySkipStep, LeaveStep DEF Search
<1>2. CASE Error
  BY <1>2 DEF Error, FindStep, FindInv, Abstract!Next, Abstract!Fail
<1>3. CASE UNCHANGED vars
  <2>1. FindInv'
    BY <1>3 DEF vars, FindInv, StepsFollowPath, PathJustified, LoopsUsable, NothingMissed,
                JustifiedAt, PlaneUsable, Pending
  <2> QED BY <1>3, <2>1 DEF vars, FindStep, Abstract!vars
<1> QED BY <1>1, <1>2, <1>3 DEF Next, Done

\* The search finds a best allocation, for any number of layers and planes and
\* any scene: each result it records is one that passes the checks and whose
\* every prefix the kernel accepted, and when it ends with success nothing with
\* a higher score was missed, although it gives up hopeless branches
\* (alloc.c:468-470), skips what is incompatible, and never looks again at what
\* the kernel refused.
THEOREM FindsBestAllocationHolds == Spec => FindsBestAllocation
<1>1. Init => RequestInv
  BY RequestInit
<1>2. Init => Abstract!Init
  BY SameSets DEF Init, Abstract!Init
<1>3. TypeInv /\ RequestInv /\ FindInv /\ [Next]_vars
         => FindInv' /\ [Abstract!Next]_(Abstract!vars)
  BY FindNext DEF FindStep
<1> QED
  BY <1>1, <1>2, <1>3, FindInit, TypeInit, TypeNext, RequestNext, PTL
  DEF Spec, FindsBestAllocation, Abstract!Spec

-----------------------------------------------------------------------------
(* The result is justified, like the path                                  *)

Result ==
    best_score >= 0 =>
        /\ best_score = Abstract!Score(scene, best)
        /\ Abstract!Justified(scene, best)
        /\ CheckAllocValid(scene, Abstract!StepBefore(scene, best, NumPlanes + 1))

\* Until then it is empty.
NoResult == best_score < 0 => best = EmptyAllocation

ResultInv == Result /\ NoResult

LEMMA ResultInit == Init => ResultInv
BY DEF Init, ResultInv, Result, NoResult

LEMMA ResultNext == TypeInv /\ ResultInv /\ [Abstract!Next]_(Abstract!vars) => ResultInv'
<1> SUFFICES ASSUME TypeInv, ResultInv, [Abstract!Next]_(Abstract!vars) PROVE ResultInv'
  OBVIOUS
<1>1. CASE Abstract!Improvement /\ UNCHANGED scene
  BY <1>1, SameChecks, ScoreType
  DEF Abstract!Improvement, Abstract!Better, ResultInv, Result, NoResult
<1>2. CASE UNCHANGED <<scene, best, best_score>>
  BY <1>2 DEF ResultInv, Result, NoResult
<1> QED
  BY <1>1, <1>2 DEF Abstract!Next, Abstract!Improve, Abstract!Finish, Abstract!Fail,
                    Abstract!vars

LEMMA ResultAlways == Spec => [](TypeInv /\ PathInv /\ FindInv /\ ResultInv)
<1>1. Init => RequestInv
  BY RequestInit
<1>2. TypeInv /\ RequestInv /\ FindInv /\ ResultInv /\ [Next]_vars => FindInv' /\ ResultInv'
  BY FindNext, ResultNext DEF FindStep
<1> QED
  BY <1>1, <1>2, FindInit, TypeInit, TypeNext, PathInit, PathNext, RequestNext, ResultInit,
     PTL DEF Spec

-----------------------------------------------------------------------------
(* Composition                                                             *)

\* With every layer once, the score counts the layers that have a plane.
LEMMA ScoreCountsLayers ==
    ASSUME NEW s, NEW a \in Allocations, LayersOnce(a, NumPlanes),
           NEW M, M = {a[p] : p \in Planes} \ {NULL, s.composition}
    PROVE  IsFiniteSet(M) /\ Cardinality(M) = Abstract!Score(s, a)
<1> DEFINE S == Abstract!Scored(s, a, NumPlanes + 1)
           f == [p \in S |-> a[p]]
<1>1. S = {p \in Planes : a[p] \notin {NULL, s.composition}}
  BY NumPlanesAssumption, SameSets DEF Abstract!Scored, Planes
<1>2. f \in Bijection(S, M)
  <2>1. f \in [S -> M]
    BY <1>1
  <2>2. \A p, q \in S : f[p] = f[q] => p = q
    BY <1>1 DEF LayersOnce, Planes
  <2>3. \A m \in M : \E p \in S : f[p] = m
    BY <1>1
  <2> HIDE DEF S, f
  <2> QED BY <2>1, <2>2, <2>3 DEF Bijection, Injection, Surjection, IsInjective
<1>3. IsFiniteSet(S)
  BY NumPlanesAssumption, ScoredFinite
<1>4. ExistsBijection(S, M)
  BY <1>2 DEF ExistsBijection
<1>5. Abstract!Score(s, a) = Cardinality(S)
  BY SameCardinality DEF Abstract!Score
<1> HIDE DEF S
<1> QED BY <1>3, <1>4, <1>5, FS_Bijection, FS_CardinalityType

\* Composition is never half used, for any scene: either the composition layer
\* is on a plane and some layer is not, or all layers have planes and it has
\* none (check_alloc_valid).
THEOREM CompositionAllOrNothingHolds == Spec => []CompositionAllOrNothing
<1>1. TypeInv /\ PathInv /\ ResultInv => CompositionAllOrNothing
  <2> SUFFICES ASSUME TypeInv, PathInv, ResultInv,
                      best_score >= 0, scene.composition # NULL
               PROVE  scene.composition \in MappedLayers
                         <=> ~(scene.visible \ {scene.composition} \subseteq MappedLayers)
    BY DEF CompositionAllOrNothing
  <2> DEFINE V == scene.visible \ {scene.composition}
             M == {best[p] : p \in Planes} \ {NULL, scene.composition}
             step == Abstract!StepBefore(scene, best, NumPlanes + 1)
  <2>1. Result /\ best \in Allocations /\ LayersOnce(best, NumPlanes)
    BY DEF ResultInv, TypeInv, TypeOK, PathInv
  <2>2. IsFiniteSet(M) /\ Cardinality(M) = step.score
    BY <2>1, ScoreCountsLayers, ScoreType
  <2>3. IsFiniteSet(V)
    <3>1. scene.visible \subseteq Layers /\ IsFiniteSet(Layers)
      BY NumLayersAssumption, FS_Interval DEF TypeInv, TypeOK, Scene, Layers
    <3> QED BY <3>1, FS_Subset
  <2>4. M \subseteq V
    <3> SUFFICES ASSUME NEW p \in Planes, best[p] # NULL PROVE best[p] \in scene.visible
      OBVIOUS
    <3> QED
      BY <2>1, JustifiedByPlane DEF Result, JustifiedAt, LayerEligible
  <2>5. V \subseteq MappedLayers <=> M = V
    BY <2>4, SameSets DEF MappedLayers
  <2>6. M = V <=> Cardinality(M) = Cardinality(V)
    BY <2>2, <2>3, <2>4, FS_Subset
  <2>7. step.composited <=> scene.composition \in MappedLayers
    <3>1. step.composited
             <=> \E p \in 1 .. (NumPlanes + 1) - 1 : best[p] # NULL /\ best[p] = scene.composition
      BY SameSets DEF Abstract!StepBefore
    <3>2. Planes = 1 .. (NumPlanes + 1) - 1
      BY NumPlanesAssumption DEF Planes
    <3> QED BY <3>1, <3>2 DEF MappedLayers
  <2>8. CheckAllocValid(scene, step)
    BY <2>1 DEF Result
  <2>9. step.composited <=> step.score # Cardinality(V)
    BY <2>8 DEF CheckAllocValid, NonCompositionLayersLength
  <2> QED BY <2>2, <2>5, <2>6, <2>7, <2>9
<1> QED BY <1>1, ResultAlways, PTL

-----------------------------------------------------------------------------
(* The result can be used                                                  *)

\* Once the search has ended well, nothing better is left.
NothingBetter ==
    ret = "ok" => ~\E a \in Allocations : Abstract!Better(scene, a, best_score)

LEMMA NothingBetterNext ==
    TypeInv /\ NothingBetter /\ [Abstract!Next]_(Abstract!vars) => NothingBetter'
<1> SUFFICES ASSUME TypeInv, NothingBetter, [Abstract!Next]_(Abstract!vars)
             PROVE  NothingBetter'
  OBVIOUS
<1>1. CASE Abstract!Finish
  BY <1>1, SameSets DEF Abstract!Finish, NothingBetter
<1>2. CASE Abstract!Improve
  BY <1>2 DEF Abstract!Improve, NothingBetter
<1>3. CASE Abstract!Fail
  BY <1>3 DEF Abstract!Fail, NothingBetter
<1>4. CASE UNCHANGED Abstract!vars
  BY <1>4 DEF Abstract!vars, NothingBetter
<1> QED BY <1>1, <1>2, <1>3, <1>4 DEF Abstract!Next

\* The composition layer alone is justified, with a score of zero.
LEMMA AloneJustified ==
    ASSUME scene \in Scene, scene.composition # NULL,
           LayerEligible(scene, scene.composition),
           NEW p \in scene.primary, PlaneUsable(scene, p),
           scene.composition \in scene.supports[p], Accepts(scene, Alone(p))
    PROVE  /\ Alone(p) \in Allocations
           /\ Abstract!Justified(scene, Alone(p))
           /\ Abstract!Score(scene, Alone(p)) = 0
           /\ Abstract!StepBefore(scene, Alone(p), NumPlanes + 1).composited
<1> DEFINE a == Alone(p)
           c == scene.composition
           step == Abstract!StepBefore(scene, a, p)
<1>1. p \in Planes /\ p \in 1 .. NumPlanes /\ p \in Int /\ c \in Layers
  BY DEF Scene, Planes
<1>2. a \in Allocations /\ a[p] = c /\ \A q \in Planes : q # p => a[q] = NULL
  BY <1>1 DEF Alone, EmptyAllocation, Allocations
<1>3. \A q \in 1 .. p - 1 : q \in Planes /\ a[q] = NULL
  BY <1>1, <1>2, NumPlanesAssumption DEF Planes
<1> HIDE DEF a
<1>4. AllocatedBefore(scene, a, p) = {}
  BY <1>3 DEF AllocatedBefore
<1>5. CheckLayerPlaneCompatible(scene, a, step, p, c)
  <2>1. ~IsLayerAllocated(a, p, c)
    BY <1>3 DEF IsLayerAllocated
  <2>2. ~HasAllocatedLayerOver(scene, a, p, c) /\ ~HasAllocatedPlaneUnder(scene, a, p, c)
    BY <1>4 DEF HasAllocatedLayerOver, HasAllocatedPlaneUnder
  <2> QED BY <2>1, <2>2 DEF CheckLayerPlaneCompatible, ZposCompatible
<1>6. Abstract!Prefix(a, p + 1) = a
  <2>1. \A q \in Planes : a[q] = IF q < p + 1 THEN a[q] ELSE NULL
    BY <1>1, <1>2 DEF Planes
  <2>2. a = [q \in Planes |-> a[q]]
    BY <1>2 DEF Allocations
  <2> QED BY <2>1, <2>2, SameSets DEF Abstract!Prefix
<1>7. \A q \in Planes : JustifiedAt(a, q)
  <2>1. JustifiedAt(a, p)
    BY <1>1, <1>2, <1>5, <1>6 DEF JustifiedAt, a
  <2>2. \A q \in Planes : q # p => JustifiedAt(a, q)
    BY <1>2 DEF JustifiedAt
  <2> QED BY <2>1, <2>2
<1>8. 1 .. (NumPlanes + 1) - 1 = Planes
  BY NumPlanesAssumption DEF Planes
<1>9. Abstract!Score(scene, a) = 0
  <2>1. Abstract!Scored(scene, a, NumPlanes + 1) = {}
    BY <1>2, <1>8, SameSets DEF Abstract!Scored
  <2> QED BY <2>1, SameCardinality, FS_EmptySet DEF Abstract!Score
<1>10. Abstract!StepBefore(scene, a, NumPlanes + 1).composited
  BY <1>1, <1>2, <1>8, SameSets DEF Abstract!StepBefore
<1> QED BY <1>2, <1>7, <1>9, <1>10, JustifiedByPlane DEF a

\* Where composition is possible, an empty result would leave something better:
\* the composition layer alone, or nothing at all if nothing else is displayed.
LEMMA FallBackFound ==
    ASSUME TypeInv, ResultInv, NothingBetter, ret = "ok", CanFallBack
    PROVE  best_score >= 0
<1> SUFFICES ASSUME ~(best_score >= 0) PROVE FALSE
  OBVIOUS
<1>1. best_score \in Int /\ best_score < 0 /\ scene \in Scene
  BY DEF TypeInv, TypeOK
<1> DEFINE end(a) == Abstract!StepBefore(scene, a, NumPlanes + 1)
<1>2. PICK p \in scene.primary :
         /\ PlaneUsable(scene, p)
         /\ scene.composition \in scene.supports[p]
         /\ Accepts(scene, Alone(p))
  BY DEF CanFallBack
<1>3. /\ Alone(p) \in Allocations /\ Abstract!Justified(scene, Alone(p))
      /\ Abstract!Score(scene, Alone(p)) = 0 /\ end(Alone(p)).composited
  BY <1>1, <1>2, AloneJustified DEF CanFallBack
<1>4. end(Alone(p)).score = 0
  BY <1>3, ScoreType
<1>5. CASE NonCompositionLayersLength(scene) # 0
  <2>1. CheckAllocValid(scene, end(Alone(p)))
    BY <1>3, <1>4, <1>5 DEF CheckAllocValid
  <2>2. Abstract!Better(scene, Alone(p), best_score)
    BY <1>1, <1>3, <2>1, SameChecks DEF Abstract!Better
  <2> QED BY <1>3, <2>2 DEF NothingBetter
<1>6. CASE NonCompositionLayersLength(scene) = 0
  <2> DEFINE a == EmptyAllocation
  <2>1. a \in Allocations /\ \A q \in Planes : a[q] = NULL
    BY DEF EmptyAllocation, Allocations
  <2> HIDE DEF a
  <2>2. Abstract!Justified(scene, a)
    BY <2>1, JustifiedByPlane DEF JustifiedAt
  <2>3. 1 .. (NumPlanes + 1) - 1 = Planes
    BY NumPlanesAssumption DEF Planes
  <2>4. Abstract!Score(scene, a) = 0
    <3>1. Abstract!Scored(scene, a, NumPlanes + 1) = {}
      BY <2>1, <2>3, SameSets DEF Abstract!Scored
    <3> QED BY <3>1, SameCardinality, FS_EmptySet DEF Abstract!Score
  <2>5. ~end(a).composited
    BY <2>1, <2>3, SameSets DEF Abstract!StepBefore
  <2>6. end(a).score = 0
    BY <2>4, ScoreType
  <2>7. CheckAllocValid(scene, end(a))
    BY <1>6, <2>5, <2>6 DEF CheckAllocValid
  <2>8. Abstract!Better(scene, a, best_score)
    BY <1>1, <2>2, <2>4, <2>7, SameChecks DEF Abstract!Better
  <2> QED BY <2>1, <2>8 DEF NothingBetter
<1> QED BY <1>5, <1>6

\* The result keeps what the callers of the search rely on, for any scene: the
\* planes may have their layers, and where the client can fall back to
\* composition no layer to display is lost.
THEOREM ResultUsableHolds == Spec => []ResultUsable
<1>1. TypeInv /\ PathInv /\ ResultInv /\ NothingBetter /\ CompositionAllOrNothing
         => ResultUsable
  <2> SUFFICES ASSUME TypeInv, ResultInv, NothingBetter, CompositionAllOrNothing, ret = "ok"
               PROVE  ResultUsable
    BY DEF ResultUsable
  <2>1. ASSUME NEW p \in Planes, best[p] # NULL
        PROVE  /\ PlaneUsable(scene, p)
               /\ LayerEligible(scene, best[p])
               /\ best[p] \in scene.supports[p]
               /\ best[p] = scene.composition => p \in scene.primary
    <3>1. best_score >= 0
      BY <2>1 DEF ResultInv, NoResult, EmptyAllocation, TypeInv, TypeOK
    <3>2. JustifiedAt(best, p)
      BY <3>1, JustifiedByPlane DEF ResultInv, Result
    <3> QED BY <2>1, <3>2 DEF JustifiedAt, CheckLayerPlaneCompatible
  <2>2. ASSUME CanFallBack
        PROVE  \/ scene.composition \in MappedLayers
               \/ scene.visible \ {scene.composition} \subseteq MappedLayers
    BY <2>2, FallBackFound DEF CanFallBack, CompositionAllOrNothing
  <2> QED BY <2>1, <2>2 DEF ResultUsable
<1>2. Init => NothingBetter
  BY DEF Init, NothingBetter
<1>3. TypeInv /\ RequestInv /\ FindInv /\ NothingBetter /\ [Next]_vars => NothingBetter'
  BY FindNext, NothingBetterNext DEF FindStep
<1>4. Init => RequestInv
  BY RequestInit
<1> QED
  BY <1>1, <1>2, <1>3, <1>4, TypeInit, TypeNext, RequestNext, ResultAlways,
     CompositionAllOrNothingHolds, PTL DEF Spec

-----------------------------------------------------------------------------
(* The order of the planes                                                 *)

\* Nothing that was put on plane q before is level with it or out of order.
InOrder(a, q) ==
    \A p \in 1 .. q - 1 :
        p \notin scene.primary /\ a[p] # NULL =>
            /\ scene.zpos[a[p]] >= scene.zpos[a[q]]
            /\ scene.zpos[a[p]] # scene.zpos[a[q]] => scene.pzpos[p] > scene.pzpos[q]

\* If all layers overlap, the zpos checks put each overlay in order with all
\* overlays before it: the last one is in order with those before, and the
\* layer is in order with the last.
LEMMA InOrderWithLast ==
    ASSUME scene \in Scenes, AllOverlap, NEW a \in Allocations, NEW n \in 0 .. NumPlanes,
           \A p \in 1 .. n : JustifiedAt(a, p)
    PROVE  \A q \in Overlays(a, n) : InOrder(a, q)
<1>0. scene \in Scene /\ NumPlanes \in Nat /\ n \in Nat /\ INT_MAX \in Nat
  BY ScenesAssumption, NumPlanesAssumption, IntMaxAssumption
<1> DEFINE V == {q \in Overlays(a, n) : ~InOrder(a, q)}
<1> SUFFICES ASSUME V # {} PROVE FALSE
  OBVIOUS
<1>1. V \subseteq 1 .. n
  BY DEF Overlays
<1>2. PICK q \in V : \A x \in V : q <= x
  <2> HIDE DEF V
  <2> QED BY <1>0, <1>1, HasMin
<1>3. /\ q \in 1 .. n /\ q \in Int /\ q \in Planes /\ q \notin scene.primary
      /\ a[q] \in Layers /\ a[q] # NULL
  BY <1>0 DEF Overlays, Planes, Allocations
<1>4. PICK p \in 1 .. q - 1 :
         /\ p \notin scene.primary /\ a[p] # NULL
         /\ ~ /\ scene.zpos[a[p]] >= scene.zpos[a[q]]
              /\ scene.zpos[a[p]] # scene.zpos[a[q]] => scene.pzpos[p] > scene.pzpos[q]
  BY DEF InOrder
<1>5. ASSUME NEW r \in 1 .. q - 1, r \notin scene.primary, a[r] # NULL
      PROVE  /\ r \in Overlays(a, n) /\ r \in Planes /\ InOrder(a, r)
             /\ a[r] \in Layers /\ r < q /\ r \in Int
  <2>1. r \in Overlays(a, n) /\ r \in Planes /\ r < q /\ r \in Int
    BY <1>0, <1>3, <1>5 DEF Overlays, Planes
  <2>2. InOrder(a, r)
    BY <1>2, <1>3, <2>1
  <2> QED BY <1>5, <2>1, <2>2 DEF Allocations
<1> HIDE DEF V
<1> DEFINE O == Abstract!Ordered(scene, a, q)
           m == Max(O)
<1>6. /\ \A l \in Layers : scene.zpos[l] \in Nat /\ scene.zpos[l] # NoProp
      /\ \A l \in Layers : AsInt(scene.zpos[l]) = scene.zpos[l]
  BY <1>0 DEF AllOverlap, AsInt, Scene
<1>7. O = {r \in 1 .. q - 1 : r \notin scene.primary /\ a[r] # NULL}
  <2>1. \A r \in 1 .. q - 1 : r \notin scene.primary /\ a[r] # NULL
                              => scene.zpos[a[r]] # NoProp
    BY <1>5, <1>6
  <2> QED BY <2>1, SameSets DEF Abstract!Ordered, Abstract!AllocatedBefore
<1>8. m \in O /\ \A r \in O : m >= r
  <2>1. O \subseteq 1 .. q - 1 /\ O # {} /\ q - 1 \in Nat
    BY <1>3, <1>4, <1>7
  <2> HIDE DEF O
  <2> QED BY <2>1, HasMax
<1>9. /\ m \in 1 .. q - 1 /\ m \notin scene.primary /\ a[m] # NULL /\ m \in Planes
      /\ InOrder(a, m) /\ a[m] \in Layers /\ m < q /\ m \in Int
  BY <1>5, <1>7, <1>8
<1>10. Abstract!StepBefore(scene, a, q).last_layer_zpos = scene.zpos[a[m]]
  <2>1. O # {} /\ Abstract!Max(O) = m
    BY <1>8, SameMax
  <2>2. Abstract!AsInt(scene.zpos[a[m]]) = scene.zpos[a[m]]
    BY <1>6, <1>9, SameAsInt
  <2> HIDE DEF m
  <2> QED BY <2>1, <2>2 DEF Abstract!StepBefore
<1> DEFINE step == Abstract!StepBefore(scene, a, q)
<1>11. ZposCompatible(scene, a, step, q, a[q])
  BY <1>3 DEF JustifiedAt, CheckLayerPlaneCompatible
<1>12. m \in AllocatedBefore(scene, a, q) /\ p \in AllocatedBefore(scene, a, q)
  BY <1>4, <1>9 DEF AllocatedBefore
<1>13. /\ scene.zpos[a[m]] \in Nat /\ scene.zpos[a[q]] \in Nat /\ scene.zpos[a[p]] \in Nat
       /\ scene.pzpos[p] \in Int /\ scene.pzpos[m] \in Int /\ scene.pzpos[q] \in Int
       /\ a[p] \in Layers /\ p \in Planes /\ p \in Int /\ p < q
  BY <1>0, <1>3, <1>4, <1>5, <1>6, <1>9 DEF Scene
<1>14. /\ AsInt(scene.zpos[a[q]]) = scene.zpos[a[q]]
       /\ scene.zpos[a[q]] # NoProp /\ scene.zpos[a[m]] # NoProp
       /\ Intersects(scene.rect[a[q]], scene.rect[a[m]])
       /\ Intersects(scene.rect[a[q]], scene.rect[a[p]])
  BY <1>3, <1>6, <1>9, <1>13 DEF AllOverlap
<1> HIDE DEF step, m, O
\* The layer is not above the last one, which would be on a plane above it.
<1>15. scene.zpos[a[q]] <= scene.zpos[a[m]]
  <2> SUFFICES ASSUME scene.zpos[a[q]] > scene.zpos[a[m]] PROVE FALSE
    BY <1>13
  <2>1. Over(scene, a[q], a[m])
    BY <1>14 DEF Over
  <2>2. HasAllocatedLayerOver(scene, a, q, a[q])
    BY <1>12, <2>1 DEF HasAllocatedLayerOver
  <2>3. AsInt(scene.zpos[a[q]]) > step.last_layer_zpos
    BY <1>10, <1>14 DEF step
  <2> QED BY <1>11, <1>14, <2>2, <2>3 DEF ZposCompatible
\* What is on p is not below the last one, nor level with it on a level plane.
<1>16. p < m \/ p = m
  BY <1>4, <1>7, <1>8, <1>9, <1>13
<1>17. scene.zpos[a[p]] >= scene.zpos[a[m]]
  BY <1>4, <1>9, <1>13, <1>16 DEF InOrder
<1>18. scene.zpos[a[p]] # scene.zpos[a[q]] /\ ~(scene.pzpos[p] > scene.pzpos[q])
  BY <1>4, <1>13, <1>15, <1>17
<1>19. CASE scene.zpos[a[q]] < scene.zpos[a[m]]
  <2>1. HasAllocatedPlaneUnder(scene, a, q, a[q])
    <3>1. scene.pzpos[q] >= scene.pzpos[p]
      BY <1>13, <1>18
    <3> QED BY <1>12, <1>14, <3>1 DEF HasAllocatedPlaneUnder
  <2>2. AsInt(scene.zpos[a[q]]) < step.last_layer_zpos
    BY <1>10, <1>14, <1>19 DEF step
  <2> QED BY <1>11, <1>14, <2>1, <2>2 DEF ZposCompatible
<1>20. CASE scene.zpos[a[q]] = scene.zpos[a[m]]
  <2>1. p < m /\ p \in 1 .. m - 1
    BY <1>4, <1>9, <1>13, <1>16, <1>18, <1>20
  <2>2. scene.pzpos[p] > scene.pzpos[m]
    BY <1>4, <1>9, <1>18, <1>20, <2>1 DEF InOrder
  <2>3. scene.pzpos[m] >= scene.pzpos[q]
    BY <1>3, <1>9, PlanesSortedAssumption
  <2> QED BY <1>13, <1>18, <2>2, <2>3
<1> QED BY <1>13, <1>15, <1>19, <1>20

LEMMA OrderDefinedWhenJustified ==
    ASSUME scene \in Scenes, AllOverlap, NEW a \in Allocations, NEW n \in 0 .. NumPlanes,
           \A p \in 1 .. n : JustifiedAt(a, p)
    PROVE  OrderDefined(a, n)
<1> SUFFICES ASSUME NEW p \in Overlays(a, n), NEW q \in Overlays(a, n),
                    Over(scene, a[p], a[q]), scene.pzpos[p] = scene.pzpos[q]
             PROVE  FALSE
  BY DEF OrderDefined
<1>1. /\ p \in 1 .. n /\ q \in 1 .. n /\ p \in Planes /\ q \in Planes
      /\ a[p] \in Layers /\ a[q] \in Layers
      /\ p \notin scene.primary /\ q \notin scene.primary /\ a[p] # NULL /\ a[q] # NULL
  BY NumPlanesAssumption DEF Overlays, Allocations, Planes
<1>2. /\ scene.zpos[a[p]] > scene.zpos[a[q]] /\ scene.zpos[a[p]] \in Nat
      /\ scene.zpos[a[q]] \in Nat /\ scene.pzpos[p] \in Int
  BY <1>1, ScenesAssumption DEF Over, AllOverlap, Scene
<1>3. InOrder(a, p) /\ InOrder(a, q)
  BY InOrderWithLast
<1>4. p # q
  BY <1>2
<1>5. CASE p < q
  <2>1. p \in 1 .. q - 1
    BY <1>1, <1>5
  <2> QED BY <1>1, <1>2, <1>3, <2>1 DEF InOrder
<1>6. CASE q < p
  <2>1. q \in 1 .. p - 1
    BY <1>1, <1>6
  <2> QED BY <1>1, <1>2, <1>3, <2>1 DEF InOrder
<1> QED BY <1>1, <1>4, <1>5, <1>6

\* Where all layers overlap, no two layers of different zpos end on planes
\* whose order is undefined: there has_allocated_plane_under makes up for
\* looking only at layers out of order with the last one (alloc.c:299-309).
THEOREM StackingDefinedHolds == Spec => []StackingDefinedWhenAllOverlap
<1>1. TypeInv /\ PathInv /\ FindInv /\ ResultInv => StackingDefinedWhenAllOverlap
  <2> SUFFICES ASSUME TypeInv, PathInv, FindInv, ResultInv, AllOverlap
               PROVE  /\ OrderDefined(best, NumPlanes)
                      /\ ret = "searching" => OrderDefined(alloc, depth - 1)
    BY DEF StackingDefinedWhenAllOverlap, HoldsThroughout
  <2>1. scene \in Scenes /\ best \in Allocations /\ alloc \in Allocations
    BY DEF PathInv, TypeInv, TypeOK
  <2>2. OrderDefined(best, NumPlanes)
    <3>1. \A p \in Planes : JustifiedAt(best, p)
      <4>1. CASE best_score >= 0
        BY <4>1, JustifiedByPlane DEF ResultInv, Result
      <4>2. CASE ~(best_score >= 0)
        <5>1. best = EmptyAllocation
          BY <4>2 DEF ResultInv, NoResult, TypeInv, TypeOK
        <5> QED BY <5>1 DEF JustifiedAt, EmptyAllocation
      <4> QED BY <4>1, <4>2
    <3>2. NumPlanes \in 0 .. NumPlanes
      BY NumPlanesAssumption
    <3> QED BY <2>1, <3>1, <3>2, OrderDefinedWhenJustified DEF Planes
  <2>3. ASSUME ret = "searching" PROVE OrderDefined(alloc, depth - 1)
    <3>1. depth - 1 \in 0 .. NumPlanes
      BY <2>3, NumPlanesAssumption DEF TypeInv, TypeOK
    <3>2. \A p \in 1 .. depth - 1 : JustifiedAt(alloc, p)
      BY <2>3 DEF FindInv, PathJustified
    <3> QED BY <2>1, <3>1, <3>2, OrderDefinedWhenJustified
  <2> QED BY <2>2, <2>3
<1> QED BY <1>1, ResultAlways, PTL
==============================================================================
