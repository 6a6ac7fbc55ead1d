--------------------------- MODULE AllocConstraints ---------------------------
(***************************************************************************)
(* The constraints of the plane allocation algorithm (alloc.c): which      *)
(* layer may go on which plane, given the planes already decided, and when *)
(* a complete allocation is acceptable.                                    *)
(*                                                                         *)
(* A scene `s` is what the algorithm reads and never writes while it       *)
(* searches: the layers of the output, in list order, and the planes of    *)
(* the device, in list order.  An allocation `alloc` gives each plane a    *)
(* layer or NULL; only the planes before the current one are valid.        *)
(***************************************************************************)
EXTENDS Geometry, FiniteSets

CONSTANTS NumLayers, NumPlanes

ASSUME NumLayersAssumption == NumLayers \in Nat
ASSUME NumPlanesAssumption == NumPlanes \in Nat

Layers == 1 .. NumLayers      \* output->layers, first to last
Planes == 1 .. NumPlanes      \* device->planes, first to last
NULL   == 0

Allocations == [Planes -> Layers \union {NULL}]

EmptyAllocation == [p \in Planes |-> NULL]

Scene == [
    zpos        : [Layers -> Nat \union {NoProp}],  \* a uint64_t, if it is set
    rect        : [Layers -> Rect],
    visible     : SUBSET Layers,             \* layer_is_visible
    forced      : SUBSET Layers,             \* force_composition
    composition : Layers \union {NULL},      \* output->composition_layer
    primary     : SUBSET Planes,
    pzpos       : [Planes -> Int],           \* plane->zpos
    busy        : SUBSET Planes,             \* plane->layer # NULL (another output's)
    reachable   : SUBSET Planes,             \* possible_crtcs has this output's bit
    supports    : [Planes -> SUBSET Layers], \* plane_apply does not return -EINVAL
    compat      : [Planes -> SUBSET Layers], \* layers whose FB the kernel takes
    limit       : Nat,                       \* planes the hardware can drive at once
    needs_primary : BOOLEAN ]                \* no plane lights up without a primary one

-----------------------------------------------------------------------------
(* struct alloc_step                                                       *)

Step == [score : Nat, last_layer_zpos : Int, composited : BOOLEAN]

FirstStep == [score |-> 0, last_layer_zpos |-> INT_MAX, composited |-> FALSE]

\* A plausible slip: the zpos of a layer is read although it was never set.
NextStepUnsetZpos(s, step, plane, layer) ==
    [score           |-> IF layer \notin {NULL, s.composition}
                         THEN step.score + 1 ELSE step.score,
     last_layer_zpos |-> IF layer # NULL /\ plane \notin s.primary
                         THEN s.zpos[layer] ELSE step.last_layer_zpos,
     composited      |-> step.composited \/ (layer # NULL /\ layer = s.composition)]

\* plane_step_init_next: the step after `plane` got `layer` (or NULL).
NextStep(s, step, plane, layer) ==
    [score           |-> IF layer \notin {NULL, s.composition}
                         THEN step.score + 1 ELSE step.score,
     last_layer_zpos |->
        IF layer # NULL /\ plane \notin s.primary /\ s.zpos[layer] # NoProp
        THEN AsInt(s.zpos[layer])
        ELSE step.last_layer_zpos,
     composited      |-> step.composited \/ (layer # NULL /\ layer = s.composition)]

-----------------------------------------------------------------------------
(* The checks on one layer and one plane                                   *)

\* A plausible slip: the search forgets the first plane.
IsLayerAllocatedButFirst(alloc, plane, layer) ==
    \E p \in 2 .. plane - 1 : alloc[p] = layer

\* Is the layer on one of the planes before `plane`?
IsLayerAllocated(alloc, plane, layer) ==
    \E p \in 1 .. plane - 1 : alloc[p] = layer

\* Both layers have a zpos and intersect, and `above` is the higher one.
Over(s, above, below) ==
    /\ s.zpos[above] # NoProp
    /\ s.zpos[below] # NoProp
    /\ s.zpos[above] > s.zpos[below]
    /\ Intersects(s.rect[above], s.rect[below])

\* A plausible slip: only layers the client asked to composite are looked at.
HasForcedLayerOver(s, alloc, plane, layer) ==
    \E other \in Layers : other \in s.forced /\ Over(s, other, layer)

\* Some layer not allocated so far belongs above `layer`.
HasCompositedLayerOver(s, alloc, plane, layer) ==
    \E other \in Layers :
        /\ ~IsLayerAllocated(alloc, plane, other)
        /\ Over(s, other, layer)

\* The non-primary planes before `plane` that have a layer.
AllocatedBefore(s, alloc, plane) ==
    {p \in 1 .. plane - 1 : p \notin s.primary /\ alloc[p] # NULL}

\* Some layer allocated on an earlier plane belongs under `layer`.
HasAllocatedLayerOver(s, alloc, plane, layer) ==
    \E p \in AllocatedBefore(s, alloc, plane) : Over(s, layer, alloc[p])

\* A plausible slip: planes of the same zpos are taken to be ordered.
HasAllocatedPlaneStrictlyUnder(s, alloc, plane, layer) ==
    \E p \in AllocatedBefore(s, alloc, plane) :
        /\ s.pzpos[plane] > s.pzpos[p]
        /\ Intersects(s.rect[layer], s.rect[alloc[p]])

\* Some earlier plane, with a layer that intersects, is not above `plane`.
HasAllocatedPlaneUnder(s, alloc, plane, layer) ==
    \E p \in AllocatedBefore(s, alloc, plane) :
        /\ s.pzpos[plane] >= s.pzpos[p]
        /\ Intersects(s.rect[layer], s.rect[alloc[p]])

\* The stacking constraints of a layer with a zpos: only looked at when it is
\* out of order with the layer allocated last on a non-primary plane.
ZposCompatible(s, alloc, step, plane, layer) ==
    s.zpos[layer] # NoProp =>
        /\ ~ /\ AsInt(s.zpos[layer]) > step.last_layer_zpos
             /\ HasAllocatedLayerOver(s, alloc, plane, layer)
        /\ ~ /\ AsInt(s.zpos[layer]) < step.last_layer_zpos
             /\ HasAllocatedPlaneUnder(s, alloc, plane, layer)

CheckLayerPlaneCompatible(s, alloc, step, plane, layer) ==
    /\ ~IsLayerAllocated(alloc, plane, layer)
    /\ ZposCompatible(s, alloc, step, plane, layer)
    /\ plane \notin s.primary =>
          /\ ~HasCompositedLayerOver(s, alloc, plane, layer)
          /\ layer # s.composition

-----------------------------------------------------------------------------
(* The checks on a complete allocation                                     *)

\* How many layers are to be displayed, the composition layer aside.
NonCompositionLayersLength(s) == Cardinality(s.visible \ {s.composition})

\* A plausible slip: composition is accepted also when it is useless.
CheckAllocComplete(s, step) ==
    s.composition # NULL /\ ~step.composited =>
        step.score = NonCompositionLayersLength(s)

\* Composition is used, or all layers have a plane; never both.
CheckAllocValid(s, step) ==
    /\ s.composition # NULL /\ ~step.composited =>
           step.score = NonCompositionLayersLength(s)
    /\ step.composited => step.score # NonCompositionLayersLength(s)

-----------------------------------------------------------------------------
(* The kernel                                                              *)

\* The planes a configuration enables.
Enabled(config) == {p \in Planes : config[p] # NULL}

\* The answer of an atomic commit to a configuration of this output's planes,
\* with the hardware limit that alloc.c says the search may run into.
Accepts(s, config) ==
    /\ \A p \in Enabled(config) : config[p] \in s.compat[p]
    /\ s.needs_primary /\ Enabled(config) # {} => Enabled(config) \cap s.primary # {}
    /\ Cardinality(Enabled(config)) <= s.limit

-----------------------------------------------------------------------------
(* The guards of output_choose_layers                                      *)

\* The plane is free and can be used on this output's CRTC.
PlaneUsable(s, plane) == plane \notin s.busy /\ plane \in s.reachable

\* The layer is to be displayed and may be scanned out.  Its `plane` is NULL:
\* liftoff_output_apply clears the output's mappings before it searches.
LayerEligible(s, layer) == layer \in s.visible /\ layer \notin s.forced
=============================================================================
