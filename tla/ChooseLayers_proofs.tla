------------------------- MODULE ChooseLayers_proofs -------------------------
(***************************************************************************)
(* Proofs about the allocation search, for any number of layers and planes *)
(* and any scenes.                                                         *)
(***************************************************************************)
EXTENDS ChooseLayers, TLAPS

-----------------------------------------------------------------------------
(* Types                                                                   *)

LEMMA AsIntType ==
    ASSUME NEW v \in Nat
    PROVE  AsInt(v) \in Int
BY IntMaxAssumption DEF AsInt

LEMMA NextStepType ==
    ASSUME NEW s \in Scene, NEW step \in Step, NEW plane \in Planes,
           NEW layer \in Layers \union {NULL}
    PROVE  NextStep(s, step, plane, layer) \in Step
<1>1. step.score \in Nat /\ step.last_layer_zpos \in Int /\ step.composited \in BOOLEAN
  BY DEF Step
<1>2. ASSUME layer # NULL, s.zpos[layer] # NoProp
      PROVE  AsInt(s.zpos[layer]) \in Int
  BY <1>2, AsIntType DEF Scene
<1>3. (step.composited \/ (layer # NULL /\ layer = s.composition)) \in BOOLEAN
  OBVIOUS
<1> QED
  BY <1>1, <1>2, <1>3 DEF NextStep, Step

\* The live activations: each but the last is in a call, made from its loop or
\* from skip; their cursors are nested, and the last one's is where the request
\* ends.
Activations ==
    ret = "searching" =>
        /\ \A d \in 1 .. depth - 1 : frame[d].next \in 1 .. SKIP
        /\ \A d \in 1 .. depth : frame[d].next # ENTER => frame[d].cursor <= Len(req)
        /\ frame[depth].next # ENTER => frame[depth].cursor = Len(req)
        /\ \A c, d \in 1 .. depth :
              c < d /\ frame[d].next # ENTER => frame[c].cursor <= frame[d].cursor

TypeInv == TypeOK /\ Activations

LEMMA TypeInit == Init => TypeInv
<1> SUFFICES ASSUME Init PROVE TypeInv
  OBVIOUS
<1>1. FirstStep \in Step
  BY IntMaxAssumption DEF FirstStep, Step
<1>2. NewFrame(FirstStep) \in Frame
  BY <1>1, NumLayersAssumption DEF NewFrame, Frame, ENTER, LEAVE
<1>3. scene \in Scene
  BY ScenesAssumption DEF Init
<1>4. EmptyAllocation \in Allocations
  BY DEF EmptyAllocation, Allocations
<1>5. << >> \in Seq(Request)
  OBVIOUS
<1>6. TypeOK
  BY <1>2, <1>3, <1>4, <1>5, NumPlanesAssumption DEF Init, TypeOK
<1>7. Activations
  BY NumPlanesAssumption DEF Init, Activations, NewFrame
<1> QED
  BY <1>6, <1>7 DEF TypeInv

\* Taking the first n elements of a request.
LEMMA SubRequest ==
    ASSUME NEW r \in Seq(Request), NEW n \in Nat, n <= Len(r)
    PROVE  /\ SubSeq(r, 1, n) \in Seq(Request)
           /\ Len(SubSeq(r, 1, n)) = n
           /\ \A i \in 1 .. n : SubSeq(r, 1, n)[i] = r[i]
OBVIOUS

\* Rolling a request back to where it was before one entry was appended.
LEMMA RollBack ==
    ASSUME NEW r \in Seq(Request), NEW e
    PROVE  SubSeq(Append(r, e), 1, Len(r)) = r
OBVIOUS

\* What a return does to the stack of activations and to the request.
LEMMA ReturnType ==
    ASSUME TypeInv, ret = "searching", Return
    PROVE  /\ depth' \in 0 .. NumPlanes + 1
           /\ frame' \in [1 .. NumPlanes + 1 -> Frame]
           /\ req' \in Seq(Request)
           /\ ret' \in {"searching", "ok", "error"}
           /\ ret' = "searching" => depth' > 0
           /\ Activations'
<1>1. depth \in 1 .. NumPlanes + 1
  BY NumPlanesAssumption DEF TypeInv, TypeOK
<1>2. CASE depth = 1
  BY <1>1, <1>2, NumPlanesAssumption DEF TypeInv, TypeOK, Return, Activations
<1>3. CASE depth > 1
  <2> DEFINE d == depth - 1
             f == frame[d]
  <2>1. d \in 1 .. NumPlanes + 1 /\ depth' = d /\ ret' = ret
    BY <1>1, <1>3, NumPlanesAssumption DEF Return
  <2>2. f \in Frame /\ f.next \in 1 .. SKIP
    BY <2>1, <1>3 DEF TypeInv, TypeOK, Activations
  <2>3. f.cursor \in Nat /\ f.cursor <= Len(req)
    BY <2>1, <2>2, <1>1, NumPlanesAssumption DEF TypeInv, Activations, Frame, ENTER
  <2>4. frame' = [frame EXCEPT ![d] = [f EXCEPT !.next = f.next + 1]]
    BY <1>3, <1>1 DEF Return
  <2>5. [f EXCEPT !.next = f.next + 1] \in Frame
    BY <2>2, NumLayersAssumption DEF Frame, ENTER, SKIP, LEAVE
  <2>6. frame' \in [1 .. NumPlanes + 1 -> Frame]
    BY <2>1, <2>4, <2>5 DEF TypeInv, TypeOK
  <2>7. req' = SubSeq(req, 1, f.cursor)
    BY <1>3, <1>1 DEF Return
  <2>8. req' \in Seq(Request) /\ Len(req') = f.cursor
    BY <2>3, <2>7, SubRequest DEF TypeInv, TypeOK
  <2>9. \A c \in 1 .. NumPlanes + 1 : frame'[c].cursor = frame[c].cursor
    BY <2>1, <2>2, <2>4 DEF TypeInv, TypeOK, Frame
  <2>10. \A c \in 1 .. d - 1 : frame'[c] = frame[c]
    BY <2>1, <2>4 DEF TypeInv, TypeOK
  <2>11. \A c \in 1 .. d - 1 : frame[c].cursor <= f.cursor
    BY <2>1, <2>2, <1>1, NumPlanesAssumption DEF TypeInv, Activations, ENTER
  <2>12. \A c \in 1 .. d - 1 : frame[c].next \in 1 .. SKIP
    BY <2>1, <1>1 DEF TypeInv, Activations
  <2>13. \A c \in 1 .. d : frame'[c].next # ENTER => frame'[c].cursor <= Len(req')
    BY <2>1, <2>3, <2>8, <2>9, <2>11, <1>1, NumPlanesAssumption
  <2>14. \A c, e \in 1 .. d :
            c < e /\ frame'[e].next # ENTER => frame'[c].cursor <= frame'[e].cursor
    <3> TAKE c, e \in 1 .. d
    <3>1. CASE e = d
      BY <3>1, <2>1, <2>9, <2>11, <1>1, NumPlanesAssumption
    <3>2. CASE e < d
      BY <3>2, <2>1, <2>9, <2>10, <1>1, NumPlanesAssumption DEF TypeInv, Activations
    <3> QED
      BY <3>1, <3>2, <2>1
  <2>15. frame'[d].cursor = Len(req')
    BY <2>1, <2>8, <2>9
  <2>16. Activations'
    BY <2>1, <2>10, <2>12, <2>13, <2>14, <2>15 DEF Activations
  <2> QED
    BY <2>1, <2>6, <2>8, <2>16 DEF TypeInv, TypeOK
<1> QED
  BY <1>1, <1>2, <1>3

\* What a call does to the stack of activations, with the request r.
LEMMA CallType ==
    ASSUME TypeInv, ret = "searching", depth <= NumPlanes, Top.next \in 1 .. SKIP,
           NEW layer \in Layers \union {NULL}, Call(layer),
           req' \in Seq(Request), Len(req') >= Len(req), ret' = ret
    PROVE  /\ depth' \in 0 .. NumPlanes + 1
           /\ depth' > 0
           /\ frame' \in [1 .. NumPlanes + 1 -> Frame]
           /\ alloc' \in Allocations
           /\ Activations'
<1>1. depth \in 1 .. NumPlanes /\ depth' = depth + 1
  BY NumPlanesAssumption DEF TypeInv, TypeOK, Call
<1>2. Top \in Frame
  BY <1>1 DEF TypeInv, TypeOK, Top
<1> DEFINE step == NextStep(scene, Top.step, depth, layer)
<1>3. step \in Step
  BY <1>1, <1>2, NextStepType DEF TypeInv, TypeOK, Frame, Planes
<1>4. NewFrame(step) \in Frame
  BY <1>3, NumLayersAssumption DEF NewFrame, Frame, ENTER, LEAVE
<1>5. frame' = [frame EXCEPT ![depth + 1] = NewFrame(step)]
  BY DEF Call
<1>6. frame' \in [1 .. NumPlanes + 1 -> Frame]
  BY <1>1, <1>4, <1>5 DEF TypeInv, TypeOK
<1>7. \A c \in 1 .. depth : frame'[c] = frame[c]
  BY <1>1, <1>5 DEF TypeInv, TypeOK
<1>8. frame'[depth + 1].next = ENTER
  BY <1>1, <1>5, NumPlanesAssumption DEF TypeInv, TypeOK, NewFrame
<1>9. alloc' \in Allocations
  BY <1>1 DEF Call, TypeInv, TypeOK, Allocations, Planes
<1>10. Len(req) \in Nat /\ Len(req') \in Nat
  BY DEF TypeInv, TypeOK
<1>11. \A c \in 1 .. depth : frame[c].cursor \in Nat
  BY <1>1, NumPlanesAssumption DEF TypeInv, TypeOK, Frame
<1>12. \A c \in 1 .. depth : frame'[c].next \in 1 .. SKIP
  BY <1>1, <1>7 DEF TypeInv, Activations, Top
<1>13. \A c \in 1 .. depth + 1 : frame'[c].next # ENTER => frame'[c].cursor <= Len(req')
  <2>1. \A c \in 1 .. depth : frame[c].next # ENTER => frame[c].cursor <= Len(req)
    BY DEF TypeInv, Activations
  <2>2. \A c \in 1 .. depth : frame'[c].next # ENTER => frame'[c].cursor <= Len(req')
    BY <2>1, <1>7, <1>10, <1>11
  <2> QED
    BY <2>2, <1>1, <1>8
<1>14. \A c, e \in 1 .. depth + 1 :
          c < e /\ frame'[e].next # ENTER => frame'[c].cursor <= frame'[e].cursor
  BY <1>1, <1>7, <1>8 DEF TypeInv, Activations
<1>15. Activations'
  BY <1>1, <1>8, <1>12, <1>13, <1>14 DEF Activations
<1> QED
  BY <1>1, <1>6, <1>9, <1>15, NumPlanesAssumption

\* What moving the current activation on does: only its frame changes.
LEMMA MoveType ==
    ASSUME TypeInv, ret = "searching", depth <= NumPlanes,
           NEW next \in 1 .. LEAVE,
           frame' = [frame EXCEPT ![depth] =
               [step |-> Top.step, cursor |-> Len(req), next |-> next]],
           depth' = depth, req' = req, ret' = ret
    PROVE  /\ frame' \in [1 .. NumPlanes + 1 -> Frame]
           /\ Activations'
<1> DEFINE f == [step |-> Top.step, cursor |-> Len(req), next |-> next]
<1>1. depth \in 1 .. NumPlanes
  BY NumPlanesAssumption DEF TypeInv, TypeOK
<1>2. frame[depth] \in Frame
  BY <1>1 DEF TypeInv, TypeOK
<1>3. f \in Frame
  BY <1>2, NumLayersAssumption DEF Frame, Top, ENTER, LEAVE
<1>4. frame' \in [1 .. NumPlanes + 1 -> Frame]
  BY <1>1, <1>3 DEF TypeInv, TypeOK
<1>5. \A c \in 1 .. depth - 1 : frame'[c] = frame[c]
  BY <1>1 DEF TypeInv, TypeOK
<1>6. frame'[depth].cursor = Len(req) /\ frame'[depth].next = next
  BY <1>1 DEF TypeInv, TypeOK
<1>7. Len(req) \in Nat
  BY DEF TypeInv, TypeOK
<1>8. \A c \in 1 .. depth - 1 : frame[c].next \in 1 .. SKIP /\ frame[c].cursor <= Len(req)
  BY <1>1 DEF TypeInv, Activations, ENTER
<1>9. \A c \in 1 .. depth : frame'[c].cursor <= Len(req)
  BY <1>1, <1>5, <1>6, <1>7, <1>8
<1>10. \A c, d \in 1 .. depth :
          c < d /\ frame'[d].next # ENTER => frame'[c].cursor <= frame'[d].cursor
  <2> TAKE c, d \in 1 .. depth
  <2>1. CASE d = depth
    BY <2>1, <1>1, <1>6, <1>9
  <2>2. CASE d < depth
    BY <2>2, <1>1, <1>5 DEF TypeInv, Activations
  <2> QED
    BY <2>1, <2>2, <1>1
<1>11. Activations'
  BY <1>1, <1>5, <1>6, <1>8, <1>9, <1>10 DEF Activations
<1> QED
  BY <1>4, <1>11

\* One step keeps the types; the proof has a case per action.
LEMMA TypeNext == TypeInv /\ [Next]_vars => TypeInv'
<1> SUFFICES ASSUME TypeInv, [Next]_vars PROVE TypeInv'
  OBVIOUS
<1> USE DEF TypeInv
<1>1. ASSUME ret = "searching", depth <= NumPlanes
      PROVE  depth \in 1 .. NumPlanes /\ Top \in Frame
  BY <1>1, NumPlanesAssumption DEF TypeOK, Top
<1>2. CASE FoundBetter
  <2>1. Top.step.score \in Int /\ best_score' = Top.step.score
    BY <1>2, NumPlanesAssumption DEF FoundBetter, Finished, TypeOK, Top, Frame, Step
  <2> QED
    BY <1>2, <2>1, ReturnType DEF FoundBetter, Finished, TypeOK
<1>3. CASE FoundNothing
  BY <1>3, ReturnType DEF FoundNothing, Finished, TypeOK
<1>4. CASE GiveUp
  BY <1>4, ReturnType DEF GiveUp, Entered, TypeOK
<1>5. CASE EnterPlane
  <2> DEFINE next == IF PlaneUsable(scene, depth) THEN 1 ELSE SKIP
  <2>1. ret = "searching" /\ depth <= NumPlanes /\ Len(req) \in Nat
    BY <1>5 DEF EnterPlane, Entered, TypeOK
  <2>2. next \in 1 .. LEAVE
    BY NumLayersAssumption DEF SKIP, LEAVE
  <2>3. frame' = [frame EXCEPT ![depth] =
            [step |-> Top.step, cursor |-> Len(req), next |-> next]]
    BY <1>5 DEF EnterPlane
  <2>4. depth' = depth /\ req' = req /\ ret' = ret
    BY <1>5 DEF EnterPlane
  <2> HIDE DEF next
  <2>5. frame' \in [1 .. NumPlanes + 1 -> Frame] /\ Activations'
    BY <2>1, <2>2, <2>3, <2>4, MoveType
  <2> QED
    BY <1>5, <2>5 DEF EnterPlane, Entered, TypeOK
<1>6. ASSUME ret = "searching", AtLayer
      PROVE  /\ depth \in 1 .. NumPlanes
             /\ Top.next \in 1 .. NumLayers
             /\ Top.next + 1 \in 1 .. LEAVE
             /\ Top.cursor = Len(req)
             /\ [frame EXCEPT ![depth].next = @ + 1] = [frame EXCEPT ![depth] =
                   [step |-> Top.step, cursor |-> Len(req), next |-> Top.next + 1]]
  <2>1. depth \in 1 .. NumPlanes /\ Top \in Frame
    BY <1>1, <1>6 DEF AtLayer
  <2>2. Top.next \in 1 .. NumLayers /\ Top.next + 1 \in 1 .. LEAVE
    BY <1>6, NumLayersAssumption DEF AtLayer, Layers, LEAVE
  <2>3. Top.cursor = Len(req)
    BY <1>6, <2>2 DEF Activations, ENTER, Top
  <2>4. [frame[depth] EXCEPT !.next = frame[depth].next + 1] =
           [step |-> Top.step, cursor |-> Len(req), next |-> Top.next + 1]
    BY <2>1, <2>3 DEF Top, Frame
  <2> QED
    BY <2>1, <2>2, <2>3, <2>4 DEF Top
<1>7. CASE RejectLayer
  <2>1. ret = "searching" /\ depth <= NumPlanes /\ AtLayer
    BY <1>7 DEF RejectLayer, AtLayer
  <2>2. frame' = [frame EXCEPT ![depth] =
            [step |-> Top.step, cursor |-> Len(req), next |-> Top.next + 1]]
    BY <1>6, <1>7, <2>1 DEF RejectLayer
  <2>3. depth' = depth /\ req' = req /\ ret' = ret
    BY <1>7 DEF RejectLayer
  <2>4. frame' \in [1 .. NumPlanes + 1 -> Frame] /\ Activations'
    BY <1>6, <2>1, <2>2, <2>3, MoveType
  <2> QED
    BY <1>7, <2>4 DEF RejectLayer, TypeOK
<1>8. ASSUME ret = "searching", AtLayer
      PROVE  Applied \in Seq(Request) /\ Len(Applied) = Len(req) + 1
  BY <1>8, <1>6 DEF Applied, Request, Planes, Layers, TypeOK
<1>9. CASE TestSucceeds
  <2>1. ret = "searching" /\ AtLayer /\ depth <= NumPlanes
    BY <1>9 DEF TestSucceeds, AtCandidate, AtLayer
  <2>2. Top.next \in Layers \union {NULL} /\ Top.next \in 1 .. SKIP
    BY <2>1, <1>6, NumLayersAssumption DEF Layers, SKIP
  <2>3. req' \in Seq(Request) /\ Len(req') >= Len(req)
    BY <1>9, <2>1, <1>8 DEF TestSucceeds, TypeOK
  <2> QED
    BY <1>9, <2>1, <2>2, <2>3, CallType DEF TestSucceeds, TypeOK
<1>10. CASE TestFails
  <2>1. ret = "searching" /\ depth <= NumPlanes /\ AtLayer
    BY <1>10 DEF TestFails, AtCandidate, AtLayer
  <2>2. frame' = [frame EXCEPT ![depth] =
            [step |-> Top.step, cursor |-> Len(req), next |-> Top.next + 1]]
    BY <1>6, <1>10, <2>1 DEF TestFails
  <2>3. req' = SubSeq(Append(req, [plane |-> depth, layer |-> Top.next]), 1, Len(req))
    BY <1>6, <1>10, <2>1 DEF TestFails, Applied
  <2>4. req' = req
    BY <2>3, RollBack DEF TypeOK
  <2>5. depth' = depth /\ ret' = ret
    BY <1>10 DEF TestFails
  <2>6. frame' \in [1 .. NumPlanes + 1 -> Frame] /\ Activations'
    BY <1>6, <2>1, <2>2, <2>4, <2>5, MoveType
  <2> QED
    BY <1>10, <2>4, <2>6 DEF TestFails, TypeOK
<1>11. CASE Error
  <2>1. req' \in Seq(Request)
    BY <1>11, <1>8 DEF Error, TypeOK
  <2> QED
    BY <1>11, <2>1, NumPlanesAssumption DEF Error, TypeOK, Activations
<1>12. CASE TrySkip
  <2>1. Top.next \in 1 .. SKIP /\ NULL \in Layers \union {NULL}
    BY <1>12, NumLayersAssumption DEF TrySkip, SKIP
  <2> QED
    BY <1>12, <2>1, CallType DEF TrySkip, TypeOK
<1>13. CASE Leave
  BY <1>13, ReturnType DEF Leave, TypeOK
<1>14. CASE UNCHANGED vars
  BY <1>14 DEF vars, TypeOK, Activations
<1> QED
  BY <1>2, <1>3, <1>4, <1>5, <1>7, <1>9, <1>10, <1>11, <1>12, <1>13, <1>14
  DEF Next, Search, Done

\* The type invariant holds in every state of the search, for any numbers of
\* layers and planes: in particular no activation runs past its list of layers
\* or past the last plane (output_choose_layers).
THEOREM TypeCorrect == Spec => []TypeOK
<1>1. TypeInv => TypeOK
  BY DEF TypeInv
<1> QED
  BY <1>1, TypeInit, TypeNext, PTL DEF Spec

-----------------------------------------------------------------------------
(* The path: the planes decided so far and their layers                    *)

\* A layer that belongs above one on an overlay got its plane before it.  This
\* is what has_composited_layer_over achieves at each step, and what makes the
\* stacking come out right although later steps never look at it again.
UpperBefore(a, n) ==
    \A p \in Overlays(a, n), upper \in Layers :
        Over(scene, upper, a[p]) => \E q \in 1 .. p - 1 : a[q] = upper

\* Composition is marked as in use only where its layer has been allocated.
CompositionOnPath ==
    \A d \in 1 .. depth :
        frame[d].step.composited => IsLayerAllocated(alloc, d, scene.composition)

Path ==
    /\ LayersOnce(alloc, depth - 1)
    /\ UpperBefore(alloc, depth - 1)
    /\ CompositionOnPath

PathInv ==
    /\ scene \in Scenes
    /\ LayersOnce(best, NumPlanes)
    /\ UpperBefore(best, NumPlanes)
    /\ ret = "searching" => Path

LEMMA PathInit == Init => PathInv
<1> SUFFICES ASSUME Init PROVE PathInv
  OBVIOUS
<1>1. \A n \in Int : n <= NumPlanes =>
          LayersOnce(EmptyAllocation, n) /\ UpperBefore(EmptyAllocation, n)
  <2> SUFFICES ASSUME NEW n \in Int, n <= NumPlanes
               PROVE  LayersOnce(EmptyAllocation, n) /\ UpperBefore(EmptyAllocation, n)
    OBVIOUS
  <2>1. \A p \in 1 .. n : EmptyAllocation[p] = NULL
    BY NumPlanesAssumption DEF EmptyAllocation, Planes
  <2> QED
    BY <2>1 DEF LayersOnce, UpperBefore, Overlays
<1>2. CompositionOnPath
  BY NumPlanesAssumption DEF Init, CompositionOnPath, NewFrame, FirstStep
<1> QED
  BY <1>1, <1>2, NumPlanesAssumption DEF Init, PathInv, Path

\* The frames keep their steps, apart from a new activation's.
LEMMA PathReturn ==
    ASSUME TypeInv, PathInv, ret = "searching", Return, UNCHANGED <<scene, alloc>>
    PROVE  ret' = "searching" => Path'
<1> SUFFICES ASSUME ret' = "searching" PROVE Path'
  OBVIOUS
<1>1. depth \in 2 .. NumPlanes + 1 /\ depth' = depth - 1
  BY NumPlanesAssumption DEF Return, TypeInv, TypeOK
<1>2. \A d \in 1 .. NumPlanes + 1 : frame'[d].step = frame[d].step
  <2>1. frame \in [1 .. NumPlanes + 1 -> Frame]
    BY DEF TypeInv, TypeOK
  <2>2. frame' = [frame EXCEPT ![depth - 1].next = @ + 1]
    BY <1>1 DEF Return
  <2>3. ASSUME NEW d \in 1 .. NumPlanes + 1
        PROVE  frame'[d].step = frame[d].step
    BY <2>1, <2>2 DEF Frame
  <2> QED
    BY <2>3
<1>3. LayersOnce(alloc, depth' - 1)
  BY <1>1 DEF PathInv, Path, LayersOnce
<1>4. UpperBefore(alloc, depth' - 1)
  BY <1>1 DEF PathInv, Path, UpperBefore, Overlays
<1>5. CompositionOnPath'
  <2> SUFFICES ASSUME NEW d \in 1 .. depth', frame'[d].step.composited
               PROVE  IsLayerAllocated(alloc, d, scene.composition)
    BY DEF CompositionOnPath, IsLayerAllocated
  <2>1. d \in 1 .. depth /\ frame[d].step.composited
    BY <1>1, <1>2, NumPlanesAssumption
  <2> QED
    BY <2>1 DEF PathInv, Path, CompositionOnPath
<1> QED
  BY <1>3, <1>4, <1>5 DEF Path, LayersOnce, UpperBefore, Overlays

\* The path grows by a plane that gets no layer, or one that passed the checks.
LEMMA PathCall ==
    ASSUME TypeInv, PathInv, ret = "searching", depth <= NumPlanes,
           NEW layer \in Layers \union {NULL}, Call(layer), scene' = scene,
           layer # NULL => CheckLayerPlaneCompatible(scene, alloc, Top.step, depth, layer)
    PROVE  Path'
<1>1. depth \in 1 .. NumPlanes /\ depth' = depth + 1
  BY NumPlanesAssumption DEF TypeInv, TypeOK, Call
<1>2. /\ alloc'[depth] = layer
      /\ \A p \in 1 .. depth - 1 : alloc'[p] = alloc[p]
  BY <1>1 DEF Call, TypeInv, TypeOK, Allocations, Planes
<1>3. layer # NULL => \A p \in 1 .. depth - 1 : alloc[p] # layer
  BY DEF CheckLayerPlaneCompatible, IsLayerAllocated
<1>4. LayersOnce(alloc', depth)
  <2> SUFFICES ASSUME NEW p \in 1 .. depth, NEW q \in 1 .. depth,
                      alloc'[p] = alloc'[q], alloc'[p] # NULL
               PROVE  p = q
    BY DEF LayersOnce
  <2>1. CASE p < depth /\ q < depth
    BY <2>1, <1>1, <1>2 DEF PathInv, Path, LayersOnce
  <2>2. CASE p = depth \/ q = depth
    BY <2>2, <1>1, <1>2, <1>3
  <2> QED
    BY <2>1, <2>2, <1>1
<1>5. UpperBefore(alloc', depth)
  <2> SUFFICES ASSUME NEW p \in Overlays(alloc', depth), NEW upper \in Layers,
                      Over(scene, upper, alloc'[p])
               PROVE  \E q \in 1 .. p - 1 : alloc'[q] = upper
    BY DEF UpperBefore
  <2>1. CASE p < depth
    <3>1. p \in Overlays(alloc, depth - 1) /\ alloc'[p] = alloc[p]
      BY <2>1, <1>1, <1>2 DEF Overlays
    <3>2. PICK q \in 1 .. p - 1 : alloc[q] = upper
      BY <3>1 DEF PathInv, Path, UpperBefore
    <3> QED
      BY <3>1, <3>2, <2>1, <1>1, <1>2 DEF Overlays
  <2>2. CASE p = depth
    <3>1. p \notin scene.primary /\ layer # NULL
      BY <2>2, <1>2 DEF Overlays
    <3>2. ~HasCompositedLayerOver(scene, alloc, depth, layer)
      BY <3>1, <2>2 DEF CheckLayerPlaneCompatible
    <3>3. PICK q \in 1 .. depth - 1 : alloc[q] = upper
      BY <3>2, <2>2, <1>2 DEF HasCompositedLayerOver, IsLayerAllocated
    <3> QED
      BY <3>3, <2>2, <1>2
  <2> QED
    BY <2>1, <2>2, <1>1 DEF Overlays
<1>6. \A d \in 1 .. depth : frame'[d] = frame[d]
  BY <1>1 DEF Call, TypeInv, TypeOK
<1>7. frame'[depth + 1].step = NextStep(scene, Top.step, depth, layer)
  BY <1>1, NumPlanesAssumption DEF Call, TypeInv, TypeOK, NewFrame
<1>8. CompositionOnPath'
  <2> SUFFICES ASSUME NEW d \in 1 .. depth + 1, frame'[d].step.composited
               PROVE  \E p \in 1 .. d - 1 : alloc'[p] = scene.composition
    BY <1>1 DEF CompositionOnPath, IsLayerAllocated
  <2>1. CASE d <= depth
    <3>1. PICK p \in 1 .. d - 1 : alloc[p] = scene.composition
      BY <2>1, <1>6, <1>1 DEF PathInv, Path, CompositionOnPath, IsLayerAllocated
    <3> QED
      BY <3>1, <2>1, <1>1, <1>2
  <2>2. CASE d = depth + 1
    <3>1. Top.step.composited \/ layer = scene.composition
      <4>1. NextStep(scene, Top.step, depth, layer).composited
               = (Top.step.composited \/ (layer # NULL /\ layer = scene.composition))
        BY DEF NextStep
      <4> QED
        BY <4>1, <2>2, <1>7
    <3>2. CASE layer = scene.composition
      BY <3>2, <2>2, <1>1, <1>2
    <3>3. CASE Top.step.composited
      <4>1. PICK p \in 1 .. depth - 1 : alloc[p] = scene.composition
        BY <3>3, <1>1 DEF PathInv, Path, CompositionOnPath, IsLayerAllocated, Top
      <4> QED
        BY <4>1, <2>2, <1>1, <1>2
    <3> QED
      BY <3>1, <3>2, <3>3
  <2> QED
    BY <2>1, <2>2, <1>1
<1>9. depth' - 1 = depth
  BY <1>1
<1> QED
  BY <1>4, <1>5, <1>8, <1>9 DEF Path, LayersOnce, UpperBefore, Overlays

LEMMA PathNext == TypeInv /\ PathInv /\ [Next]_vars => PathInv'
<1> SUFFICES ASSUME TypeInv, PathInv, [Next]_vars PROVE PathInv'
  OBVIOUS
<1>1. ASSUME UNCHANGED <<scene, best>>, ret' = "searching" => Path'
      PROVE  PathInv'
  BY <1>1 DEF PathInv, LayersOnce, UpperBefore, Overlays
<1>2. ASSUME UNCHANGED <<scene, alloc, best, ret, depth>>, depth <= NumPlanes,
             NEW f, f.step = Top.step, frame' = [frame EXCEPT ![depth] = f]
      PROVE  PathInv'
  <2>1. depth \in 0 .. NumPlanes /\ (ret = "searching" => depth \in 1 .. NumPlanes)
    BY <1>2, NumPlanesAssumption DEF TypeInv, TypeOK
  <2>2. \A d \in 1 .. depth : frame'[d].step = frame[d].step
    BY <1>2, <2>1 DEF TypeInv, TypeOK, Top
  <2>3. ret' = "searching" => Path'
    BY <1>2, <2>2 DEF PathInv, Path, LayersOnce, UpperBefore, Overlays,
                      CompositionOnPath, IsLayerAllocated
  <2> QED
    BY <1>1, <1>2, <2>3
<1>3. ASSUME ret = "searching", depth <= NumPlanes
      PROVE  [frame EXCEPT ![depth].next = @ + 1] = [frame EXCEPT ![depth] =
                [step |-> Top.step, cursor |-> Top.cursor, next |-> Top.next + 1]]
  <2>1. Top \in Frame
    BY <1>3, NumPlanesAssumption DEF TypeInv, TypeOK, Top
  <2>2. [frame[depth] EXCEPT !.next = frame[depth].next + 1] =
           [step |-> Top.step, cursor |-> Top.cursor, next |-> Top.next + 1]
    BY <2>1 DEF Top, Frame
  <2> QED
    BY <2>2
<1>4. CASE FoundBetter
  <2>1. depth - 1 = NumPlanes /\ ret = "searching"
    BY <1>4, NumPlanesAssumption DEF FoundBetter, Finished
  <2>2. LayersOnce(alloc, NumPlanes) /\ UpperBefore(alloc, NumPlanes)
    BY <2>1 DEF PathInv, Path
  <2>3. ret' = "searching" => Path'
    BY <1>4, <2>1, PathReturn DEF FoundBetter
  <2> QED
    BY <1>4, <2>2, <2>3 DEF FoundBetter, PathInv, LayersOnce, UpperBefore, Overlays
<1>5. CASE FoundNothing
  BY <1>5, <1>1, PathReturn DEF FoundNothing, Finished
<1>6. CASE GiveUp
  BY <1>6, <1>1, PathReturn DEF GiveUp, Entered
<1>7. CASE EnterPlane
  <2> DEFINE f == [step   |-> Top.step,
                   cursor |-> Len(req),
                   next   |-> IF PlaneUsable(scene, depth) THEN 1 ELSE SKIP]
  <2>1. f.step = Top.step /\ frame' = [frame EXCEPT ![depth] = f]
    BY <1>7 DEF EnterPlane
  <2> HIDE DEF f
  <2> QED
    BY <1>7, <2>1, <1>2 DEF EnterPlane, Entered
<1>8. CASE RejectLayer \/ TestFails
  <2> DEFINE f == [step |-> Top.step, cursor |-> Top.cursor, next |-> Top.next + 1]
  <2>1. f.step = Top.step /\ frame' = [frame EXCEPT ![depth] = f]
    BY <1>8, <1>3 DEF RejectLayer, TestFails, AtCandidate, AtLayer
  <2> HIDE DEF f
  <2> QED
    BY <1>8, <2>1, <1>2 DEF RejectLayer, TestFails, AtCandidate, AtLayer
<1>9. CASE TestSucceeds
  <2>1. ret = "searching" /\ depth <= NumPlanes /\ Top.next \in Layers
    BY <1>9 DEF TestSucceeds, AtCandidate, AtLayer
  <2>2. CheckLayerPlaneCompatible(scene, alloc, Top.step, depth, Top.next)
    BY <1>9 DEF TestSucceeds, AtCandidate, Candidate
  <2> QED
    BY <1>9, <2>1, <2>2, <1>1, PathCall DEF TestSucceeds
<1>10. CASE Error
  BY <1>10, <1>1 DEF Error
<1>11. CASE TrySkip
  BY <1>11, <1>1, PathCall DEF TrySkip
<1>12. CASE Leave
  BY <1>12, <1>1, PathReturn DEF Leave
<1>13. CASE UNCHANGED vars
  BY <1>13 DEF vars, PathInv, Path, LayersOnce, UpperBefore, Overlays,
               CompositionOnPath, IsLayerAllocated
<1> QED
  BY <1>4, <1>5, <1>6, <1>7, <1>8, <1>9, <1>10, <1>11, <1>12, <1>13
  DEF Next, Search, Done

LEMMA Inductive == Spec => [](TypeInv /\ PathInv)
BY TypeInit, TypeNext, PathInit, PathNext, PTL DEF Spec

\* No layer gets two planes, for any scene: the assertions on plane->layer and
\* layer->plane in liftoff_output_apply (alloc.c:760-761) cannot fail because
\* of the search.
THEOREM BestMapsLayersOnceHolds == Spec => []BestMapsLayersOnce
<1>1. PathInv => BestMapsLayersOnce
  BY DEF PathInv, BestMapsLayersOnce
<1> QED
  BY <1>1, Inductive, PTL

\* The assertion of plane_step_init_next (alloc.c:114) never fails, for any
\* scene, however many primary planes there are.
THEOREM CompositionLayerOnceHolds == Spec => []CompositionLayerOnce
<1>1. TypeInv /\ PathInv => CompositionLayerOnce
  <2> SUFFICES ASSUME TypeInv, PathInv, ret = "searching", AtLayer, Candidate,
                      Top.next = scene.composition, Top.step.composited
               PROVE  FALSE
    BY DEF CompositionLayerOnce
  <2>1. depth \in 1 .. depth
    BY DEF TypeInv, TypeOK
  <2>2. IsLayerAllocated(alloc, depth, scene.composition)
    BY <2>1 DEF PathInv, Path, CompositionOnPath, Top
  <2> QED
    BY <2>2 DEF Candidate, CheckLayerPlaneCompatible
<1> QED
  BY <1>1, Inductive, PTL

\* In an order of allocation where whatever belongs above came first, on planes
\* in descending zpos order, nothing is stacked the wrong way around.
LEMMA OrderedPathNotReversed ==
    ASSUME NEW a, NEW n \in Int, n <= NumPlanes, scene \in Scenes,
           \A p \in 1 .. n : a[p] \in Layers \union {NULL},
           LayersOnce(a, n), UpperBefore(a, n)
    PROVE  NotReversed(a, n)
<1> SUFFICES ASSUME NEW p \in Overlays(a, n), NEW q \in Overlays(a, n),
                    Over(scene, a[p], a[q])
             PROVE  scene.pzpos[p] >= scene.pzpos[q]
  BY DEF NotReversed
<1>1. p \in 1 .. n /\ q \in 1 .. n /\ a[p] \in Layers
  BY DEF Overlays
<1>2. PICK r \in 1 .. q - 1 : a[r] = a[p]
  BY <1>1 DEF UpperBefore
<1>3. r \in 1 .. n /\ a[p] # NULL
  BY <1>1, <1>2 DEF Layers, NULL, Overlays
<1>4. r = p
  BY <1>1, <1>2, <1>3 DEF LayersOnce
<1>5. p < q
  BY <1>1, <1>2, <1>4
<1>6. p \in Planes \ scene.primary /\ q \in Planes \ scene.primary
  BY <1>1, NumPlanesAssumption DEF Overlays, Planes
<1> QED
  BY <1>5, <1>6, PlanesSortedAssumption

\* Layers that intersect are never stacked the wrong way around on planes that
\* are not primary, for any zpos values, geometry and planes: neither in the
\* result nor in anything the search tries on the way.
THEOREM StackingNotReversedHolds == Spec => []StackingNotReversed
<1>1. TypeInv /\ PathInv => StackingNotReversed
  <2> SUFFICES ASSUME TypeInv, PathInv PROVE StackingNotReversed
    OBVIOUS
  <2>1. NotReversed(best, NumPlanes)
    BY OrderedPathNotReversed, NumPlanesAssumption
    DEF PathInv, TypeInv, TypeOK, Allocations, Planes
  <2>2. ASSUME ret = "searching" PROVE NotReversed(alloc, depth - 1)
    <3>1. depth - 1 \in Int /\ depth - 1 <= NumPlanes
      BY NumPlanesAssumption DEF TypeInv, TypeOK
    <3>2. \A p \in 1 .. depth - 1 : alloc[p] \in Layers \union {NULL}
      BY <3>1, NumPlanesAssumption DEF TypeInv, TypeOK, Allocations, Planes
    <3> QED
      BY <2>2, <3>1, <3>2, OrderedPathNotReversed DEF PathInv, Path
  <2> QED
    BY <2>1, <2>2 DEF StackingNotReversed, HoldsThroughout
<1> QED
  BY <1>1, Inductive, PTL

\* Whatever has to be composited does not belong above a layer that is on an
\* overlay, in the result and all along the search, for any scene.
THEOREM NothingCompositedOnTopHolds == Spec => []NothingCompositedOnTop
<1>1. ASSUME NEW a, NEW n \in Int, UpperBefore(a, n)
      PROVE  UpperMapped(a, n)
  <2> SUFFICES ASSUME NEW p \in Overlays(a, n), NEW upper \in Layers,
                      Over(scene, upper, a[p])
               PROVE  \E q \in 1 .. n : a[q] = upper
    BY DEF UpperMapped
  <2>1. PICK q \in 1 .. p - 1 : a[q] = upper
    BY <1>1 DEF UpperBefore
  <2> QED
    BY <2>1 DEF Overlays
<1>2. TypeInv /\ PathInv => NothingCompositedOnTop
  BY <1>1, NumPlanesAssumption
  DEF TypeInv, TypeOK, PathInv, Path, NothingCompositedOnTop, HoldsThroughout
<1> QED
  BY <1>2, Inductive, PTL

-----------------------------------------------------------------------------
(* The request                                                             *)

\* The request has one entry per plane of the path that has a layer, and the
\* cursor of an activation separates the entries of earlier planes from the
\* entries of its own and later ones: this is why going back to the cursor
\* removes exactly what an abandoned branch has added.
EntriesOfPath ==
    \A i \in 1 .. Len(req) :
        /\ req[i].plane < depth
        /\ req[i].layer = alloc[req[i].plane]

OneEntryPerPlane ==
    \A i, j \in 1 .. Len(req) : req[i].plane = req[j].plane => i = j

PathCovered ==
    \A p \in 1 .. depth - 1 :
        alloc[p] # NULL => \E i \in 1 .. Len(req) : req[i].plane = p

CursorsSeparate ==
    \A d \in 1 .. depth, i \in 1 .. Len(req) :
        frame[d].next # ENTER => (i <= frame[d].cursor <=> req[i].plane < d)

RequestInv ==
    ret = "searching" =>
        EntriesOfPath /\ OneEntryPerPlane /\ PathCovered /\ CursorsSeparate

LEMMA RequestReturn ==
    ASSUME TypeInv, RequestInv, ret = "searching", Return, UNCHANGED alloc
    PROVE  RequestInv'
<1> SUFFICES ASSUME ret' = "searching" PROVE RequestInv'
  BY DEF RequestInv
<1> DEFINE d == depth - 1
<1>0. EntriesOfPath /\ OneEntryPerPlane /\ PathCovered /\ CursorsSeparate
  BY DEF RequestInv
<1>1. depth \in 2 .. NumPlanes + 1 /\ depth' = d /\ d \in 1 .. NumPlanes
  BY NumPlanesAssumption DEF Return, TypeInv, TypeOK
<1>2. frame[d] \in Frame /\ frame[d].next \in 1 .. SKIP
  BY <1>1, NumPlanesAssumption DEF TypeInv, TypeOK, Activations
<1>3. frame[d].next # ENTER /\ frame[d].cursor \in Nat /\ frame[d].cursor <= Len(req)
  BY <1>1, <1>2 DEF TypeInv, Activations, Frame, ENTER
<1>4. req' = SubSeq(req, 1, frame[d].cursor)
  BY <1>1 DEF Return
<1>5. Len(req') = frame[d].cursor /\ \A i \in 1 .. frame[d].cursor : req'[i] = req[i]
  BY <1>3, <1>4, SubRequest DEF TypeInv, TypeOK
<1>6. \A i \in 1 .. Len(req') : i \in 1 .. Len(req) /\ req[i].plane < d
  <2> TAKE i \in 1 .. Len(req')
  <2>1. i \in 1 .. Len(req) /\ i <= frame[d].cursor
    BY <1>3, <1>5 DEF TypeInv, TypeOK
  <2> QED
    BY <2>1, <1>0, <1>1, <1>3 DEF CursorsSeparate
<1>7. \A p \in 1 .. d - 1 :
         alloc[p] # NULL => \E i \in 1 .. Len(req') : req'[i].plane = p
  <2> TAKE p \in 1 .. d - 1
  <2> HAVE alloc[p] # NULL
  <2>1. PICK i \in 1 .. Len(req) : req[i].plane = p
    BY <1>0, <1>1 DEF PathCovered
  <2>2. i <= frame[d].cursor
    BY <2>1, <1>0, <1>1, <1>3 DEF CursorsSeparate
  <2> QED
    BY <2>1, <2>2, <1>3, <1>5
<1>8. \A c \in 1 .. d : frame'[c].cursor = frame[c].cursor
  <2>1. frame' = [frame EXCEPT ![d] = [frame[d] EXCEPT !.next = frame[d].next + 1]]
    BY <1>1 DEF Return
  <2>2. [frame[d] EXCEPT !.next = frame[d].next + 1].cursor = frame[d].cursor
    BY <1>2 DEF Frame
  <2> QED
    BY <1>1, <2>1, <2>2, NumPlanesAssumption DEF TypeInv, TypeOK
<1>9. \A c \in 1 .. d : frame[c].next # ENTER
  BY <1>1 DEF TypeInv, Activations, ENTER
<1>10. \A c \in 1 .. d, i \in 1 .. Len(req') :
          i <= frame'[c].cursor <=> req'[i].plane < c
  BY <1>0, <1>1, <1>5, <1>6, <1>8, <1>9 DEF CursorsSeparate
<1>11. EntriesOfPath'
  BY <1>0, <1>1, <1>5, <1>6 DEF EntriesOfPath
<1>12. OneEntryPerPlane'
  BY <1>0, <1>5, <1>6 DEF OneEntryPerPlane
<1>13. PathCovered'
  BY <1>1, <1>7 DEF PathCovered
<1>14. CursorsSeparate'
  BY <1>1, <1>10 DEF CursorsSeparate
<1> QED
  BY <1>11, <1>12, <1>13, <1>14 DEF RequestInv

LEMMA RequestInit == Init => RequestInv
<1> SUFFICES ASSUME Init PROVE RequestInv
  OBVIOUS
<1>1. req = << >> /\ Len(req) = 0 /\ depth = 1
  BY DEF Init
<1> QED
  BY <1>1 DEF RequestInv, EntriesOfPath, OneEntryPerPlane, PathCovered, CursorsSeparate

LEMMA RequestNext == TypeInv /\ RequestInv /\ [Next]_vars => RequestInv'
<1> SUFFICES ASSUME TypeInv, RequestInv, [Next]_vars PROVE RequestInv'
  OBVIOUS
<1>1. Len(req) \in Nat
  BY DEF TypeInv, TypeOK
<1>0. ret = "searching" =>
         EntriesOfPath /\ OneEntryPerPlane /\ PathCovered /\ CursorsSeparate
  BY DEF RequestInv
<1>2. CASE FoundBetter \/ FoundNothing \/ GiveUp \/ Leave
  BY <1>2, RequestReturn DEF FoundBetter, FoundNothing, GiveUp, Leave, Finished, Entered
<1>3. ASSUME ret = "searching", depth <= NumPlanes
      PROVE  depth \in 1 .. NumPlanes /\ Top \in Frame
  BY <1>3, NumPlanesAssumption DEF TypeInv, TypeOK, Top
<1>4. CASE EnterPlane
  <2>1. ret = "searching" /\ depth \in 1 .. NumPlanes
    BY <1>4, <1>3 DEF EnterPlane, Entered
  <2>2. \A d \in 1 .. depth - 1 : frame'[d] = frame[d]
    BY <1>4, <2>1 DEF EnterPlane, TypeInv, TypeOK
  <2>3. frame'[depth].cursor = Len(req)
    BY <1>4, <2>1 DEF EnterPlane, TypeInv, TypeOK
  <2>4. UNCHANGED <<depth, alloc, req, ret>>
    BY <1>4 DEF EnterPlane
  <2>5. \A d \in 1 .. depth, i \in 1 .. Len(req) :
           frame'[d].next # ENTER => (i <= frame'[d].cursor <=> req[i].plane < d)
    <3> TAKE d \in 1 .. depth, i \in 1 .. Len(req)
    <3>1. CASE d = depth
      BY <3>1, <2>1, <2>3, <1>0, <1>1 DEF EntriesOfPath
    <3>2. CASE d < depth
      BY <3>2, <2>1, <2>2, <1>0 DEF CursorsSeparate
    <3> QED
      BY <3>1, <3>2, <2>1
  <2>6. CursorsSeparate'
    BY <2>4, <2>5 DEF CursorsSeparate
  <2>7. EntriesOfPath' /\ OneEntryPerPlane' /\ PathCovered'
    BY <2>1, <2>4, <1>0 DEF EntriesOfPath, OneEntryPerPlane, PathCovered
  <2> QED
    BY <2>6, <2>7 DEF RequestInv
<1>5. CASE RejectLayer \/ TestFails
  <2>1. ret = "searching" /\ AtLayer /\ depth \in 1 .. NumPlanes /\ Top \in Frame
    BY <1>5, <1>3 DEF RejectLayer, TestFails, AtCandidate, AtLayer
  <2>2. Top.next # ENTER /\ Top.cursor = Len(req)
    BY <2>1 DEF TypeInv, Activations, AtLayer, Layers, ENTER, Top
  <2>3. req' = req
    <3>1. CASE RejectLayer
      BY <3>1 DEF RejectLayer
    <3>2. CASE TestFails
      <4>1. req' = SubSeq(Append(req, [plane |-> depth, layer |-> Top.next]), 1, Len(req))
        BY <3>2, <2>2 DEF TestFails, Applied
      <4> QED
        BY <4>1, RollBack DEF TypeInv, TypeOK
    <3> QED
      BY <1>5, <3>1, <3>2
  <2>4. \A d \in 1 .. depth : frame'[d].cursor = frame[d].cursor
    <3>1. frame' = [frame EXCEPT ![depth] = [Top EXCEPT !.next = Top.next + 1]]
      BY <1>5 DEF RejectLayer, TestFails, Top
    <3>2. [Top EXCEPT !.next = Top.next + 1].cursor = Top.cursor
      BY <2>1 DEF Frame
    <3> QED
      BY <2>1, <3>1, <3>2, NumPlanesAssumption DEF TypeInv, TypeOK, Top
  <2>5. \A d \in 1 .. depth : frame[d].next # ENTER
    BY <2>1, <2>2 DEF TypeInv, Activations, Top, ENTER
  <2>6. UNCHANGED <<depth, alloc, ret>>
    BY <1>5 DEF RejectLayer, TestFails
  <2>7. CursorsSeparate'
    BY <2>1, <2>3, <2>4, <2>5, <2>6, <1>0 DEF CursorsSeparate
  <2>8. EntriesOfPath' /\ OneEntryPerPlane' /\ PathCovered'
    BY <2>1, <2>3, <2>6, <1>0 DEF EntriesOfPath, OneEntryPerPlane, PathCovered
  <2> QED
    BY <2>7, <2>8 DEF RequestInv
<1>6. ASSUME ret = "searching", depth \in 1 .. NumPlanes,
             NEW layer \in Layers \union {NULL}, Call(layer)
      PROVE  /\ depth' = depth + 1
             /\ alloc'[depth] = layer
             /\ \A p \in 1 .. depth - 1 : alloc'[p] = alloc[p]
             /\ \A d \in 1 .. depth : frame'[d] = frame[d]
             /\ frame'[depth + 1].next = ENTER
             /\ \A i \in 1 .. Len(req) : req[i].plane \in 1 .. depth - 1
  <2>1. depth' = depth + 1 /\ \A d \in 1 .. depth : frame'[d] = frame[d]
    BY <1>6 DEF Call, TypeInv, TypeOK
  <2>2. frame'[depth + 1].next = ENTER
    BY <1>6, NumPlanesAssumption DEF Call, TypeInv, TypeOK, NewFrame
  <2>3. alloc'[depth] = layer /\ \A p \in 1 .. depth - 1 : alloc'[p] = alloc[p]
    BY <1>6 DEF Call, TypeInv, TypeOK, Allocations, Planes
  <2>4. \A i \in 1 .. Len(req) : req[i].plane \in 1 .. NumPlanes
    <3> TAKE i \in 1 .. Len(req)
    <3>1. req[i] \in Request
      BY DEF TypeInv, TypeOK
    <3> QED
      BY <3>1 DEF Request, Planes
  <2>5. \A i \in 1 .. Len(req) : req[i].plane < depth
    BY <1>0, <1>6 DEF EntriesOfPath
  <2> QED
    BY <2>1, <2>2, <2>3, <2>4, <2>5, <1>6
<1>7. CASE TestSucceeds
  <2>1. ret = "searching" /\ depth \in 1 .. NumPlanes /\ Top.next \in Layers
    BY <1>7, <1>3 DEF TestSucceeds, AtCandidate, AtLayer
  <2> DEFINE n == Len(req) + 1
  <2>2. /\ Len(req') = n
        /\ \A i \in 1 .. Len(req) : req'[i] = req[i]
        /\ req'[n].plane = depth /\ req'[n].layer = Top.next
    BY <1>7 DEF TestSucceeds, Applied, TypeInv, TypeOK
  <2>3. /\ depth' = depth + 1
        /\ alloc'[depth] = Top.next
        /\ \A p \in 1 .. depth - 1 : alloc'[p] = alloc[p]
        /\ \A d \in 1 .. depth : frame'[d] = frame[d]
        /\ frame'[depth + 1].next = ENTER
        /\ \A i \in 1 .. Len(req) : req[i].plane \in 1 .. depth - 1
    BY <1>7, <2>1, <1>6 DEF TestSucceeds
  <2>4. \A d \in 1 .. depth : frame[d].next # ENTER => frame[d].cursor < n
    <3>1. \A d \in 1 .. depth : frame[d].cursor \in Nat
      BY <2>1, NumPlanesAssumption DEF TypeInv, TypeOK, Frame
    <3>2. \A d \in 1 .. depth : frame[d].next # ENTER => frame[d].cursor <= Len(req)
      BY <2>1 DEF TypeInv, Activations
    <3> QED
      BY <3>1, <3>2, <1>1
  <2>5. \A i \in 1 .. n : req'[i].plane < depth + 1 /\ req'[i].layer = alloc'[req'[i].plane]
    <3> TAKE i \in 1 .. n
    <3>1. CASE i = n
      BY <3>1, <2>1, <2>2, <2>3
    <3>2. CASE i \in 1 .. Len(req)
      <4>1. req'[i] = req[i] /\ req[i].plane \in 1 .. depth - 1
        BY <3>2, <2>2, <2>3
      <4>2. req[i].layer = alloc[req[i].plane]
        BY <3>2, <2>1, <1>0 DEF EntriesOfPath
      <4> QED
        BY <4>1, <4>2, <2>1, <2>3
    <3> QED
      BY <3>1, <3>2, <1>1
  <2>6. \A i, j \in 1 .. n : req'[i].plane = req'[j].plane => i = j
    <3> TAKE i, j \in 1 .. n
    <3> HAVE req'[i].plane = req'[j].plane
    <3>1. \A k \in 1 .. Len(req) : req'[k].plane \in 1 .. depth - 1
      BY <2>2, <2>3
    <3>2. CASE i \in 1 .. Len(req) /\ j \in 1 .. Len(req)
      BY <3>2, <2>1, <2>2, <1>0 DEF OneEntryPerPlane
    <3>3. CASE i = n \/ j = n
      BY <3>1, <3>3, <2>1, <2>2, <1>1
    <3> QED
      BY <3>2, <3>3, <1>1
  <2>7. \A p \in 1 .. depth : alloc'[p] # NULL => \E i \in 1 .. n : req'[i].plane = p
    <3> TAKE p \in 1 .. depth
    <3> HAVE alloc'[p] # NULL
    <3>1. CASE p = depth
      BY <3>1, <2>2, <1>1
    <3>2. CASE p < depth
      <4>1. PICK i \in 1 .. Len(req) : req[i].plane = p
        BY <3>2, <2>1, <2>3, <1>0 DEF PathCovered
      <4> QED
        BY <4>1, <2>2, <1>1
    <3> QED
      BY <3>1, <3>2, <2>1
  <2>8. \A d \in 1 .. depth + 1, i \in 1 .. n :
           frame'[d].next # ENTER => (i <= frame'[d].cursor <=> req'[i].plane < d)
    <3> TAKE d \in 1 .. depth + 1, i \in 1 .. n
    <3> HAVE frame'[d].next # ENTER
    <3>1. d \in 1 .. depth /\ frame'[d] = frame[d]
      BY <2>1, <2>3
    <3>2. CASE i = n
      BY <3>1, <3>2, <2>1, <2>2, <2>4, <1>1, NumPlanesAssumption DEF TypeInv, TypeOK, Frame
    <3>3. CASE i < n
      BY <3>1, <3>3, <2>1, <2>2, <1>0, <1>1 DEF CursorsSeparate
    <3> QED
      BY <3>2, <3>3, <1>1
  <2>9. depth' - 1 = depth
    BY <2>1, <2>3
  <2>10. EntriesOfPath' /\ OneEntryPerPlane'
    BY <2>2, <2>3, <2>5, <2>6 DEF EntriesOfPath, OneEntryPerPlane
  <2>11. PathCovered'
    BY <2>2, <2>7, <2>9 DEF PathCovered
  <2>12. CursorsSeparate'
    BY <2>2, <2>3, <2>8 DEF CursorsSeparate
  <2> QED
    BY <2>10, <2>11, <2>12 DEF RequestInv
<1>8. CASE TrySkip
  <2>1. ret = "searching" /\ depth \in 1 .. NumPlanes /\ req' = req
    BY <1>8, <1>3 DEF TrySkip
  <2>2. /\ depth' = depth + 1
        /\ alloc'[depth] = NULL
        /\ \A p \in 1 .. depth - 1 : alloc'[p] = alloc[p]
        /\ \A d \in 1 .. depth : frame'[d] = frame[d]
        /\ frame'[depth + 1].next = ENTER
        /\ \A i \in 1 .. Len(req) : req[i].plane \in 1 .. depth - 1
    BY <1>8, <2>1, <1>6 DEF TrySkip
  <2>3. \A p \in 1 .. depth : alloc'[p] # NULL => \E i \in 1 .. Len(req) : req[i].plane = p
    BY <2>1, <2>2, <1>0 DEF PathCovered
  <2>4. \A d \in 1 .. depth + 1, i \in 1 .. Len(req) :
           frame'[d].next # ENTER => (i <= frame'[d].cursor <=> req[i].plane < d)
    <3> TAKE d \in 1 .. depth + 1, i \in 1 .. Len(req)
    <3> HAVE frame'[d].next # ENTER
    <3>1. d \in 1 .. depth /\ frame'[d] = frame[d]
      BY <2>1, <2>2
    <3> QED
      BY <3>1, <2>1, <1>0 DEF CursorsSeparate
  <2>5. depth' - 1 = depth
    BY <2>1, <2>2
  <2>6. EntriesOfPath'
    <3> SUFFICES ASSUME NEW i \in 1 .. Len(req)
                 PROVE  req[i].plane < depth + 1 /\ req[i].layer = alloc'[req[i].plane]
      BY <2>1, <2>2 DEF EntriesOfPath
    <3>1. req[i].plane \in 1 .. depth - 1 /\ req[i].layer = alloc[req[i].plane]
      BY <2>1, <2>2, <1>0 DEF EntriesOfPath
    <3> QED
      BY <3>1, <2>1, <2>2
  <2>7. OneEntryPerPlane'
    BY <2>1, <1>0 DEF OneEntryPerPlane
  <2>8. PathCovered'
    BY <2>1, <2>3, <2>5 DEF PathCovered
  <2>9. CursorsSeparate'
    BY <2>1, <2>2, <2>4 DEF CursorsSeparate
  <2> QED
    BY <2>6, <2>7, <2>8, <2>9 DEF RequestInv
<1>9. CASE Error
  BY <1>9 DEF Error, RequestInv
<1>10. CASE UNCHANGED vars
  <2>1. UNCHANGED <<ret, req, alloc, depth, frame>>
    BY <1>10 DEF vars
  <2>2. ret' = "searching" =>
          EntriesOfPath' /\ OneEntryPerPlane' /\ PathCovered' /\ CursorsSeparate'
    BY <2>1, <1>0 DEF EntriesOfPath, OneEntryPerPlane, PathCovered, CursorsSeparate
  <2> QED
    BY <2>2 DEF RequestInv
<1> QED
  BY <1>2, <1>4, <1>5, <1>7, <1>8, <1>9, <1>10 DEF Next, Search, Done

\* What the kernel is asked about is the path and nothing else, however often
\* the search went back before, for any scene: the result of a test is never
\* that of a configuration with leftovers of an abandoned branch.
THEOREM RequestFollowsPathHolds == Spec => []RequestFollowsPath
<1>1. Init => RequestInv
  BY RequestInit
<1>2. TypeInv /\ RequestInv => RequestFollowsPath
  <2> SUFFICES ASSUME TypeInv, RequestInv, ret = "searching", NEW p \in Planes
               PROVE  Configuration(req)[p] = IF p < depth THEN alloc[p] ELSE NULL
    BY DEF RequestFollowsPath
  <2>0. EntriesOfPath /\ OneEntryPerPlane /\ PathCovered
    BY DEF RequestInv
  <2> DEFINE entries == {i \in 1 .. Len(req) : req[i].plane = p}
  <2>1. Configuration(req)[p] = IF entries = {} THEN NULL ELSE req[Max(entries)].layer
    BY DEF Configuration
  <2>2. depth \in Int /\ p \in Int
    BY DEF TypeInv, TypeOK, Planes
  <2>3. CASE entries = {}
    <3>1. p < depth => alloc[p] = NULL
      BY <2>0, <2>2, <2>3 DEF PathCovered, Planes
    <3> QED
      BY <2>1, <2>3, <3>1
  <2>4. ASSUME NEW i \in entries
        PROVE  Configuration(req)[p] = IF p < depth THEN alloc[p] ELSE NULL
    <3>1. entries = {i} /\ i \in Int
      BY <2>0, <2>4 DEF OneEntryPerPlane
    <3>2. Max(entries) = i
      BY <3>1 DEF Max
    <3>3. req[i].plane = p /\ p < depth /\ req[i].layer = alloc[p]
      BY <2>0, <2>4 DEF EntriesOfPath
    <3> QED
      BY <2>1, <3>1, <3>2, <3>3
  <2> QED
    BY <2>3, <2>4
<1> QED
  BY <1>1, <1>2, TypeInit, TypeNext, RequestNext, PTL DEF Spec
====================
