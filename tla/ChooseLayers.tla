----------------------------- MODULE ChooseLayers -----------------------------
(***************************************************************************)
(* output_choose_layers (alloc.c): the depth-first search that builds an   *)
(* allocation one plane at a time, growing an atomic request as it goes    *)
(* and asking the kernel about every assignment, and rolling the request   *)
(* back when it backtracks.                                                *)
(*                                                                         *)
(* The C call stack is explicit: `depth` activations are live, and         *)
(* frame[d] is the activation for plane d (for d = NumPlanes + 1, the one  *)
(* that finds no plane left).  As in the code, the frames above share one  *)
(* array `alloc`, and frames and array entries beyond `depth` keep stale   *)
(* data.                                                                   *)
(***************************************************************************)
EXTENDS AllocConstraints, FiniteSetsExt, Sequences

CONSTANT Scenes
ASSUME ScenesAssumption == Scenes \subseteq Scene
\* liftoff_plane_create keeps the planes that are not primary in this order.
ASSUME PlanesSortedAssumption ==
    \A s \in Scenes : \A p, q \in Planes \ s.primary :
        p < q => s.pzpos[p] >= s.pzpos[q]

VARIABLES
    scene,        \* what the search reads
    depth,        \* number of live activations of output_choose_layers
    frame,        \* their local variables
    alloc,        \* step->alloc, shared by all of them
    best,         \* result->best
    best_score,   \* result->best_score
    req,          \* result->req: what plane_apply appended, per plane
    ret           \* "searching", then what the first call returned

vars == <<scene, depth, frame, alloc, best, best_score, req, ret>>

\* Where an activation is: just called, at a layer of its loop, after the loop
\* (at the skip: label), or about to return.
ENTER == 0
SKIP  == NumLayers + 1
LEAVE == NumLayers + 2

Frame == [step : Step, cursor : Nat, next : ENTER .. LEAVE]

NewFrame(step) == [step |-> step, cursor |-> 0, next |-> ENTER]

\* Property assignments for one plane, as plane_apply appends them.
Request == [plane : Planes, layer : Layers \union {NULL}]

\* The configuration a request asks for: the last entry of a plane counts, and
\* a plane without one has been disabled before the search.
Configuration(r) ==
    [p \in Planes |->
        LET entries == {i \in 1 .. Len(r) : r[i].plane = p}
        IN  IF entries = {} THEN NULL ELSE r[Max(entries)].layer]

\* device_test_commit, for a kernel that answers.
TestCommit(r) == Accepts(scene, Configuration(r))

Top == frame[depth]

\* The layer the loop of the current activation is at.
AtLayer == depth <= NumPlanes /\ Top.next \in Layers

-----------------------------------------------------------------------------
Init ==
    /\ scene \in Scenes
    /\ depth = 1
    /\ frame = [d \in 1 .. NumPlanes + 1 |-> NewFrame(FirstStep)]
    /\ alloc = EmptyAllocation       \* malloc: no entry is read before written
    /\ best = EmptyAllocation
    /\ best_score = -1
    /\ req = << >>
    /\ ret = "searching"

\* The current activation calls the next one, with `layer` on its plane.
Call(layer) ==
    /\ alloc' = [alloc EXCEPT ![depth] = layer]
    /\ frame' = [frame EXCEPT ![depth + 1] =
                    NewFrame(NextStep(scene, Top.step, depth, layer))]
    /\ depth' = depth + 1

\* A plausible slip: the caller does not roll its request back.
ReturnKeepingRequest ==
    /\ depth' = depth - 1
    /\ IF depth = 1
       THEN ret' = "ok" /\ UNCHANGED <<frame, req>>
       ELSE /\ frame' = [frame EXCEPT ![depth - 1].next = @ + 1]
            /\ UNCHANGED <<req, ret>>

\* The current activation returns 0.  Its caller sets the request's cursor
\* back and goes on with its next layer.
Return ==
    /\ depth' = depth - 1
    /\ IF depth = 1
       THEN ret' = "ok" /\ UNCHANGED <<frame, req>>
       ELSE /\ frame' = [frame EXCEPT ![depth - 1].next = @ + 1]
            /\ req' = SubSeq(req, 1, frame[depth - 1].cursor)
            /\ UNCHANGED ret

Finished == ret = "searching" /\ depth = NumPlanes + 1

\* A plausible slip: the best score starts at zero, which composition alone does
\* not beat.
IsBetterThanZero ==
    /\ Top.step.score > 0
    /\ Top.step.score > best_score
    /\ CheckAllocValid(scene, Top.step)

IsBetter == Top.step.score > best_score /\ CheckAllocValid(scene, Top.step)

\* "Allocation finished", and it is better than the best one so far.
FoundBetter ==
    /\ Finished
    /\ IsBetter
    /\ best_score' = Top.step.score
    /\ best' = alloc
    /\ Return
    /\ UNCHANGED <<scene, alloc>>

\* "Allocation finished", and it is not better, or not valid.
FoundNothing ==
    /\ Finished
    /\ ~IsBetter
    /\ Return
    /\ UNCHANGED <<scene, alloc, best, best_score>>

Entered == ret = "searching" /\ depth <= NumPlanes /\ Top.next = ENTER

\* A plausible slip: the current plane is not counted among the remaining.
HopelessOffByOne == best_score >= Top.step.score + (NumPlanes - depth)

\* Even a layer for each remaining plane would not beat the best allocation.
Hopeless == best_score >= Top.step.score + (NumPlanes - (depth - 1))

GiveUp ==
    /\ Entered
    /\ Hopeless
    /\ Return
    /\ UNCHANGED <<scene, alloc, best, best_score>>

\* The activation saves the cursor; a plane that is taken, or cannot be used
\* on this CRTC, goes straight to skip.
EnterPlane ==
    /\ Entered
    /\ ~Hopeless
    /\ frame' = [frame EXCEPT ![depth] =
          [step   |-> Top.step,
           cursor |-> Len(req),
           next   |-> IF PlaneUsable(scene, depth) THEN 1 ELSE SKIP]]
    /\ UNCHANGED <<scene, depth, alloc, best, best_score, req, ret>>

\* May the current layer be tried on the current plane?
Candidate ==
    /\ LayerEligible(scene, Top.next)
    /\ CheckLayerPlaneCompatible(scene, alloc, Top.step, depth, Top.next)

Applied == Append(req, [plane |-> depth, layer |-> Top.next])

AtCandidate ==
    ret = "searching" /\ AtLayer /\ Candidate /\ Top.next \in scene.supports[depth]

\* The layer is ruled out, or plane_apply rejects it and undoes its changes.
RejectLayer ==
    /\ ret = "searching"
    /\ AtLayer
    /\ ~Candidate \/ Top.next \notin scene.supports[depth]
    /\ frame' = [frame EXCEPT ![depth].next = @ + 1]
    /\ UNCHANGED <<scene, depth, alloc, best, best_score, req, ret>>

\* The kernel accepts the layer: go on with the next plane.
TestSucceeds ==
    /\ AtCandidate
    /\ TestCommit(Applied)
    /\ req' = Applied
    /\ Call(Top.next)
    /\ UNCHANGED <<scene, best, best_score, ret>>

\* -EINVAL, -ERANGE or -ENOSPC: the request is rolled back to the cursor.
TestFails ==
    /\ AtCandidate
    /\ ~TestCommit(Applied)
    /\ req' = SubSeq(Applied, 1, Top.cursor)
    /\ frame' = [frame EXCEPT ![depth].next = @ + 1]
    /\ UNCHANGED <<scene, depth, alloc, best, best_score, ret>>

\* Any other error, of the test commit or of plane_apply (which then undoes
\* its own part), ends the search: every activation returns it at once.
Error ==
    /\ ret = "searching"
    /\ AtLayer
    /\ Candidate
    /\ \/ UNCHANGED req
       \/ Top.next \in scene.supports[depth] /\ req' = Applied
    /\ ret' = "error"
    /\ depth' = 0
    /\ UNCHANGED <<scene, frame, alloc, best, best_score>>

\* "Try not to use the current plane".
TrySkip ==
    /\ ret = "searching"
    /\ depth <= NumPlanes
    /\ Top.next = SKIP
    /\ Call(NULL)
    /\ UNCHANGED <<scene, best, best_score, req, ret>>

\* A plausible slip: the activation starts its loop over.
LeaveRestarting ==
    /\ ret = "searching"
    /\ depth <= NumPlanes
    /\ Top.next = LEAVE
    /\ frame' = [frame EXCEPT ![depth].next = ENTER]
    /\ UNCHANGED <<scene, depth, alloc, best, best_score, req, ret>>

Leave ==
    /\ ret = "searching"
    /\ depth <= NumPlanes
    /\ Top.next = LEAVE
    /\ Return
    /\ UNCHANGED <<scene, alloc, best, best_score>>

Search ==
    \/ FoundBetter \/ FoundNothing
    \/ GiveUp \/ EnterPlane \/ RejectLayer
    \/ TestSucceeds \/ TestFails
    \/ TrySkip \/ Leave

\* The caller has the result; nothing more happens.
Done == ret # "searching" /\ UNCHANGED vars

Next == Search \/ Error \/ Done

\* The search is a single-threaded function: it runs until it returns.
Spec == Init /\ [][Next]_vars /\ WF_vars(Search \/ Error)

-----------------------------------------------------------------------------
(* Properties                                                              *)

TypeOK ==
    /\ scene \in Scene
    /\ depth \in 0 .. NumPlanes + 1
    /\ frame \in [1 .. NumPlanes + 1 -> Frame]
    /\ alloc \in Allocations
    /\ best \in Allocations
    /\ best_score \in Int
    /\ req \in Seq(Request)
    /\ ret \in {"searching", "ok", "error"}
    /\ ret = "searching" => depth > 0

\* No layer is on two of the first n planes.
LayersOnce(a, n) == \A p, q \in 1 .. n : a[p] = a[q] /\ a[p] # NULL => p = q

\* The result never puts one layer on two planes: liftoff_output_apply asserts
\* it when it turns the result into mappings (alloc.c:760-761).
BestMapsLayersOnce == LayersOnce(best, NumPlanes)

\* plane_step_init_next asserts that the composition layer is not allocated a
\* second time (alloc.c:114): when it passes the checks, composition is not in
\* use yet on the way to the current plane.
CompositionLayerOnce ==
    ret = "searching" /\ AtLayer /\ Candidate /\ Top.next = scene.composition
        => ~Top.step.composited

\* However the search backtracks, the request it tests asks for exactly the
\* layers on the current path: nothing of an abandoned branch is left in it
\* (the cursor handling of output_choose_layers and plane_apply).
RequestFollowsPath ==
    ret = "searching" =>
        \A p \in Planes :
            Configuration(req)[p] = IF p < depth THEN alloc[p] ELSE NULL

\* The layers that the result puts on a plane.
MappedLayers == {best[p] : p \in Planes} \ {NULL}

\* With a composition layer, either it is on a plane and some layer is not, or
\* it is not and every layer to display is: composition is never half used
\* ("If composition isn't used, we need to have allocated all layers. On the
\* other hand, if we manage to allocate all layers, we don't want to use
\* composition", check_alloc_valid).
CompositionAllOrNothing ==
    ret = "ok" /\ best_score >= 0 /\ scene.composition # NULL =>
        (scene.composition \in MappedLayers
            <=> ~(scene.visible \ {scene.composition} \subseteq MappedLayers))

\* The composition layer alone, on plane p.
Alone(p) == [EmptyAllocation EXCEPT ![p] = scene.composition]

\* The kernel takes the composition layer, alone, on a free primary plane.
CanFallBack ==
    /\ scene.composition # NULL
    /\ LayerEligible(scene, scene.composition)
    /\ \E p \in scene.primary :
          /\ PlaneUsable(scene, p)
          /\ scene.composition \in scene.supports[p]
          /\ Accepts(scene, Alone(p))

\* What the callers of output_choose_layers rely on.  Every plane of the result
\* may have the layer it gets.  And if composition is possible at all, no layer
\* to display is lost: it has a plane, or the composition layer has one and the
\* client draws the layer there.
ResultUsable ==
    ret = "ok" =>
        /\ \A p \in Planes : best[p] # NULL =>
              /\ PlaneUsable(scene, p)
              /\ LayerEligible(scene, best[p])
              /\ best[p] \in scene.supports[p]
              /\ best[p] = scene.composition => p \in scene.primary
        /\ CanFallBack =>
              \/ scene.composition \in MappedLayers
              \/ scene.visible \ {scene.composition} \subseteq MappedLayers

\* The planes among the first n that have a layer and are not primary.
Overlays(a, n) == {p \in 1 .. n : p \notin scene.primary /\ a[p] # NULL}

\* P holds of the result and of the path the search is on.
HoldsThroughout(P(_, _)) ==
    /\ P(best, NumPlanes)
    /\ ret = "searching" => P(alloc, depth - 1)

NotReversed(a, n) ==
    \A p, q \in Overlays(a, n) :
        Over(scene, a[p], a[q]) => scene.pzpos[p] >= scene.pzpos[q]

\* Of two layers that intersect, on planes that are not primary, the higher one
\* is on a plane that is not below ("their relative zpos needs to be
\* preserved", alloc.c): whatever the widths of the zpos values, and although
\* the two zpos checks only run when a layer is out of order with the last one.
StackingNotReversed == HoldsThroughout(NotReversed)

UpperMapped(a, n) ==
    \A p \in Overlays(a, n), upper \in Layers :
        Over(scene, upper, a[p]) => \E q \in 1 .. n : a[q] = upper

\* A layer that has to be composited never belongs above a layer that is on a
\* plane other than a primary one: it would be drawn below it
\* (has_composited_layer_over).
NothingCompositedOnTop == HoldsThroughout(UpperMapped)

\* All layers have a zpos that fits an int, and all intersect each other.
AllOverlap ==
    /\ \A l \in Layers : scene.zpos[l] # NoProp /\ scene.zpos[l] <= INT_MAX
    /\ \A l, m \in Layers : Intersects(scene.rect[l], scene.rect[m])

\* No two planes of the same zpos carry layers of which one belongs above.
OrderDefined(a, n) ==
    \A p, q \in Overlays(a, n) :
        Over(scene, a[p], a[q]) => scene.pzpos[p] # scene.pzpos[q]

\* If all layers overlap, two of different zpos never share a plane zpos, where
\* the order of the planes is undefined (has_allocated_plane_under).
StackingDefinedWhenAllOverlap == AllOverlap => HoldsThroughout(OrderDefined)

\* The search ends, for every scene.
Termination == <>(ret # "searching")

Abstract ==
    INSTANCE BestAllocation
    WITH scene <- scene, best <- best, best_score <- best_score, ret <- ret

\* The search is one way to find a best allocation: pruning loses none, the
\* recorded result is the one that was found, and every assignment in it was
\* accepted by the kernel on top of the ones before it.
FindsBestAllocation == Abstract!Spec

-----------------------------------------------------------------------------
(* What the documentation says and the search does not do                  *)

\* "If two layers intersect, their relative zpos needs to be preserved during
\* plane allocation" (alloc.c:62-63), for planes that are not primary: they
\* never share a plane zpos, where the order is undefined.
StackingDefined == OrderDefined(best, NumPlanes)

\* The scene in which the layers that are not visible constrain nothing.
WithoutDisabledLayers ==
    [scene EXCEPT !.zpos = [l \in Layers |->
        IF l \in scene.visible THEN scene.zpos[l] ELSE NoProp]]

\* "The layer will be ignored by libliftoff", of a layer whose FB_ID is zero
\* (doc/compositor.md:95): it does not make the allocation any worse.
DisabledLayersIgnored ==
    ret = "ok" =>
        ~\E a \in Allocations : Abstract!Better(WithoutDisabledLayers, a, best_score)
=============================================================================
