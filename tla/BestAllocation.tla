---------------------------- MODULE BestAllocation ----------------------------
(***************************************************************************)
(* What the plane allocation search promises, whatever order it explores:  *)
(* an allocation it can justify to the kernel plane by plane, and none     *)
(* better exists.  "We want to map as many layers as possible to planes"   *)
(* (alloc.c).                                                              *)
(***************************************************************************)
EXTENDS AllocConstraints, FiniteSetsExt

CONSTANT Scenes    \* a subset of Scene

VARIABLES
    scene,        \* the layers and planes at hand
    best,         \* the best allocation known
    best_score,   \* its score, -1 when there is none
    ret           \* "searching", or how the search ended

vars == <<scene, best, best_score, ret>>

-----------------------------------------------------------------------------
(* Which allocations the search may pick, said without a search            *)

\* The planes before `plane` as allocated, the others off.
Prefix(alloc, plane) ==
    [p \in Planes |-> IF p < plane THEN alloc[p] ELSE NULL]

\* The layers that count as allocated, on planes before `plane`.
Scored(s, alloc, plane) ==
    {p \in 1 .. plane - 1 : alloc[p] \notin {NULL, s.composition}}

\* The planes whose layer's zpos constrains `plane`.
Ordered(s, alloc, plane) ==
    {p \in AllocatedBefore(s, alloc, plane) : s.zpos[alloc[p]] # NoProp}

StepBefore(s, alloc, plane) ==
    [score           |-> Cardinality(Scored(s, alloc, plane)),
     last_layer_zpos |->
        LET ordered == Ordered(s, alloc, plane)
        IN  IF ordered = {} THEN INT_MAX ELSE AsInt(s.zpos[alloc[Max(ordered)]]),
     composited      |->
        \E p \in 1 .. plane - 1 : alloc[p] # NULL /\ alloc[p] = s.composition]

Score(s, alloc) == Cardinality(Scored(s, alloc, NumPlanes + 1))

\* Each plane that has a layer may have it, given the planes before it.
Justified(s, alloc) ==
    \A p \in Planes : alloc[p] # NULL =>
        /\ PlaneUsable(s, p)
        /\ LayerEligible(s, alloc[p])
        /\ CheckLayerPlaneCompatible(s, alloc, StepBefore(s, alloc, p), p, alloc[p])
        /\ alloc[p] \in s.supports[p]
        /\ Accepts(s, Prefix(alloc, p + 1))

Better(s, alloc, score) ==
    /\ Score(s, alloc) > score
    /\ Justified(s, alloc)
    /\ CheckAllocValid(s, StepBefore(s, alloc, NumPlanes + 1))

-----------------------------------------------------------------------------
Init ==
    /\ scene \in Scenes
    /\ best = EmptyAllocation
    /\ best_score = -1
    /\ ret = "searching"

\* A better allocation is recorded.
Improvement ==
    /\ best' \in Allocations
    /\ Better(scene, best', best_score)
    /\ best_score' = Score(scene, best')

Improve == ret = "searching" /\ Improvement /\ UNCHANGED <<scene, ret>>

\* The search may end only when nothing better is left, at the latest found now.
Finish ==
    /\ ret = "searching"
    /\ ret' = "ok"
    /\ Improvement \/ UNCHANGED <<best, best_score>>
    /\ ~\E alloc \in Allocations : Better(scene, alloc, best_score')
    /\ UNCHANGED scene

\* An error other than "configuration rejected" ends it early.
Fail ==
    /\ ret = "searching"
    /\ ret' = "error"
    /\ UNCHANGED <<scene, best, best_score>>

Next == Improve \/ Finish \/ Fail

Spec == Init /\ [][Next]_vars
=============================================================================
