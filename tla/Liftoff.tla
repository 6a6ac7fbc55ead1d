------------------------------- MODULE Liftoff -------------------------------
(***************************************************************************)
(* The libliftoff API on one device: outputs, layers and planes, the       *)
(* mapping between layers and planes, and liftoff_output_apply with its    *)
(* two ways to a mapping (reuse the previous one, or search) and the       *)
(* points at which it gives up.                                            *)
(*                                                                         *)
(* The library is called from one thread, so each API call is one action;  *)
(* what a call leaves behind when it fails halfway is an action of its     *)
(* own.  The search is represented by what module ChooseLayers shows of    *)
(* its result, and the answers of the kernel are arbitrary.                *)
(***************************************************************************)
EXTENDS Integers, FiniteSets

CONSTANTS
    Planes, Outputs, Layers,
    NULL,
    NoProp,                    \* a property that was never set
    Props,                     \* the properties clients set, by KMS name
    Values,                    \* Values[l][name]: the values they set it to on layer l
    OPAQUE,                    \* 0xFFFF, an alpha
    ROTATE_0,                  \* DRM_MODE_ROTATE_0, a rotation
    Primary,                   \* the primary planes
    Supported,                 \* Supported[p]: the properties plane p has
    Crtcs,                     \* Crtcs[p]: the outputs plane p can be used on
    LIFTOFF_PRIORITY_PERIOD,
    MayFail,                   \* can an apply run out of memory or hit an I/O error?
    MayDestroyPlanes           \* does the client unregister planes?

ASSUME NullAssumption == NULL \notin Planes \union Outputs \union Layers
ASSUME PropsAssumption ==
    /\ NoProp \notin Nat
    /\ Values \in [Layers -> [Props -> SUBSET Nat]]
ASSUME PeriodAssumption == LIFTOFF_PRIORITY_PERIOD \in Nat \ {0}
ASSUME PlanesAssumption ==
    /\ Primary \subseteq Planes
    /\ Supported \in [Planes -> SUBSET Props]
    /\ Crtcs \in [Planes -> SUBSET Outputs]
ASSUME FaultsAssumption == MayFail \in BOOLEAN /\ MayDestroyPlanes \in BOOLEAN

VARIABLES
    planes,             \* device->planes
    outputs,            \* device->outputs
    owner,              \* layer->output, NULL when the layer does not exist
    plane_layer,        \* plane->layer
    layer_plane,        \* layer->plane
    layer,              \* the other members of each layer
    composition,        \* output->composition_layer
    layers_changed,     \* output->layers_changed
    page_flip_counter,  \* device->page_flip_counter
    result              \* history: what the last call was, if an apply

links == <<planes, outputs, owner, plane_layer, layer_plane>>
vars == <<links, layer, composition, layers_changed, page_flip_counter, result>>

-----------------------------------------------------------------------------
(* Layers                                                                  *)

PropValues == [Props -> Nat \union {NoProp}]

Layer == [value : PropValues, prev : [Props -> Nat], forced : BOOLEAN,
          changed : BOOLEAN, current : Nat, pending : Nat]

\* A layer as calloc makes it.
NewLayer == [value |-> [n \in Props |-> NoProp], prev |-> [n \in Props |-> 0],
             forced |-> FALSE, changed |-> FALSE, current |-> 0, pending |-> 0]

Get(l, name) == IF name \in Props THEN layer[l].value[name] ELSE NoProp

LayerHasFb(l) == Get(l, "FB_ID") \notin {NoProp, 0}

LayerIsVisible(l) == Get(l, "alpha") # 0 /\ (layer[l].forced \/ LayerHasFb(l))

LayersOf(o) == {l \in Layers : owner[l] = o}

\* liftoff_layer_needs_composition
LayerNeedsComposition(l) == LayerIsVisible(l) /\ layer_plane[l] = NULL

\* A plausible slip: only a change to zero counts.
FbNeedsReallocWhenCleared(new, old) == new = 0

\* A plausible slip: only a change from zero counts.
FbNeedsReallocWhenShown(new, old) == old = 0

\* A framebuffer that appears or disappears calls for a new allocation.
FbNeedsRealloc(new, old) == new = 0 \/ old = 0

\* A plausible slip: layers that are or become opaque are not looked at.
AlphaNeedsReallocWhenHidden(new, old) == new = 0 \/ old = 0

\* So does a layer that becomes or stops being transparent or opaque.
AlphaNeedsRealloc(new, old) == {new, old} \cap {0, OPAQUE} # {}

\* Does the change of a property from old to new call for a new allocation?
PropNeedsRealloc(name, new, old) ==
    CASE name = "FB_ID" -> FbNeedsRealloc(new, old)
      [] name = "alpha" -> AlphaNeedsRealloc(new, old)
      [] name \in {"IN_FENCE_FD", "FB_DAMAGE_CLIPS"} -> FALSE
      [] OTHER -> TRUE

LayerNeedsRealloc(l) ==
    \/ layer[l].changed
    \/ \E name \in Props :
          LET new == layer[l].value[name]
              old == layer[l].prev[name]
          IN  new # NoProp /\ new # old /\ PropNeedsRealloc(name, new, old)

\* plane_apply finds a place on the plane for every property of the layer, or
\* the property has the value that needs none.
Supports(p, l) ==
    \A name \in Props \ {"zpos"} :
        \/ layer[l].value[name] = NoProp
        \/ name \in Supported[p]
        \/ name = "alpha" /\ layer[l].value[name] = OPAQUE
        \/ name = "rotation" /\ layer[l].value[name] = ROTATE_0

-----------------------------------------------------------------------------
(* Results of the search                                                   *)

\* The composition layer of o could be put on a primary plane, alone, and no
\* other output is using that plane.
CanFallBack(o) ==
    LET c == composition[o]
    IN  /\ c # NULL
        /\ LayerIsVisible(c) /\ ~layer[c].forced
        /\ \E p \in Primary \cap planes :
              /\ o \in Crtcs[p]
              /\ Supports(p, c)
              /\ plane_layer[p] # NULL => owner[plane_layer[p]] = o

\* Either composition is used or all other layers to display have a plane.
Covered(o, mapped) ==
    \/ composition[o] \in mapped
    \/ {l \in LayersOf(o) : LayerIsVisible(l)} \ {composition[o]} \subseteq mapped

\* The mappings a search for o may end with, when `busy` are the planes in use
\* by other outputs.  As the compositor documentation asks, the composition
\* buffer fits the primary plane: a search always has that to fall back to.
\* (ResultUsable and BestMapsLayersOnce say this of ChooseLayers.)
SearchResults(o, busy) ==
    {m \in [planes \ busy -> LayersOf(o) \union {NULL}] :
        /\ \A p \in DOMAIN m : m[p] # NULL =>
              /\ o \in Crtcs[p]
              /\ LayerIsVisible(m[p]) /\ ~layer[m[p]].forced
              /\ Supports(p, m[p])
              /\ m[p] = composition[o] => p \in Primary
              /\ \A q \in DOMAIN m : m[p] = m[q] => p = q
        /\ CanFallBack(o) => Covered(o, {m[p] : p \in DOMAIN m})}

-----------------------------------------------------------------------------
TypeOK ==
    /\ planes \subseteq Planes
    /\ outputs \subseteq Outputs
    /\ owner \in [Layers -> Outputs \union {NULL}]
    /\ plane_layer \in [Planes -> Layers \union {NULL}]
    /\ layer_plane \in [Layers -> Planes \union {NULL}]
    /\ layer \in [Layers -> Layer]
    /\ composition \in [Outputs -> Layers \union {NULL}]
    /\ layers_changed \in [Outputs -> BOOLEAN]
    /\ page_flip_counter \in 0 .. LIFTOFF_PRIORITY_PERIOD - 1
    /\ result \in [output : Outputs \union {NULL}, ret : {"ok", "error", "abort"}]

NoResult == [output |-> NULL, ret |-> "ok"]

Init ==
    /\ planes = {}
    /\ outputs = {}
    /\ owner = [l \in Layers |-> NULL]
    /\ plane_layer = [p \in Planes |-> NULL]
    /\ layer_plane = [l \in Layers |-> NULL]
    /\ layer = [l \in Layers |-> NewLayer]
    /\ composition = [o \in Outputs |-> NULL]
    /\ layers_changed = [o \in Outputs |-> FALSE]
    /\ page_flip_counter = 0
    /\ result = NoResult

\* A failed assertion has ended the program.
Aborted == result.ret = "abort"

\* An API call other than an apply: nothing is known of a result any more.
Call == ~Aborted /\ result' = NoResult

-----------------------------------------------------------------------------
(* Planes and outputs                                                      *)

PlaneCreate(p) ==
    /\ Call
    /\ p \notin planes
    /\ planes' = planes \union {p}
    /\ UNCHANGED <<outputs, owner, plane_layer, layer_plane, layer, composition,
                   layers_changed, page_flip_counter>>

\* A plausible slip: the layer keeps pointing at the plane.
PlaneDestroyKeepingLink(p) ==
    /\ Call
    /\ MayDestroyPlanes
    /\ p \in planes
    /\ planes' = planes \ {p}
    /\ plane_layer' = [plane_layer EXCEPT ![p] = NULL]
    /\ UNCHANGED <<outputs, owner, layer_plane, layer, composition, layers_changed,
                   page_flip_counter>>

\* The freed plane's own link is gone with it.
PlaneDestroy(p) ==
    /\ Call
    /\ MayDestroyPlanes
    /\ p \in planes
    /\ planes' = planes \ {p}
    /\ plane_layer' = [plane_layer EXCEPT ![p] = NULL]
    /\ layer_plane' = IF plane_layer[p] = NULL THEN layer_plane
                      ELSE [layer_plane EXCEPT ![plane_layer[p]] = NULL]
    /\ UNCHANGED <<outputs, owner, layer, composition, layers_changed,
                   page_flip_counter>>

OutputCreate(o) ==
    /\ Call
    /\ o \notin outputs
    /\ outputs' = outputs \union {o}
    /\ composition' = [composition EXCEPT ![o] = NULL]
    /\ layers_changed' = [layers_changed EXCEPT ![o] = FALSE]
    /\ UNCHANGED <<planes, owner, plane_layer, layer_plane, layer, page_flip_counter>>

\* "The caller is expected to destroy the output's layers explicitly", and
\* while the output still exists: a layer refers to its output.
OutputDestroy(o) ==
    /\ Call
    /\ o \in outputs
    /\ LayersOf(o) = {}
    /\ outputs' = outputs \ {o}
    /\ UNCHANGED <<planes, owner, plane_layer, layer_plane, layer, composition,
                   layers_changed, page_flip_counter>>

\* A plausible slip: the change is not recorded.
SetCompositionLayerQuietly(o, l) ==
    /\ Call
    /\ o \in outputs
    /\ owner[l] = o
    /\ composition' = [composition EXCEPT ![o] = l]
    /\ UNCHANGED <<links, layer, layers_changed, page_flip_counter>>

\* Asserts that the layer is one of the output's.
SetCompositionLayer(o, l) ==
    /\ Call
    /\ o \in outputs
    /\ owner[l] = o
    /\ composition' = [composition EXCEPT ![o] = l]
    /\ layers_changed' =
          [layers_changed EXCEPT ![o] = @ \/ l # composition[o]]
    /\ UNCHANGED <<links, layer, page_flip_counter>>

-----------------------------------------------------------------------------
(* Layers                                                                  *)

LayerCreate(o, l) ==
    /\ Call
    /\ o \in outputs
    /\ owner[l] = NULL
    /\ owner' = [owner EXCEPT ![l] = o]
    /\ layer' = [layer EXCEPT ![l] = NewLayer]
    /\ layers_changed' = [layers_changed EXCEPT ![o] = TRUE]
    /\ UNCHANGED <<planes, outputs, plane_layer, layer_plane, composition,
                   page_flip_counter>>

\* The freed layer's own members are gone with it.
LayerDestroy(l) ==
    /\ Call
    /\ owner[l] # NULL
    /\ owner' = [owner EXCEPT ![l] = NULL]
    /\ layer' = [layer EXCEPT ![l] = NewLayer]
    /\ plane_layer' = IF layer_plane[l] = NULL THEN plane_layer
                      ELSE [plane_layer EXCEPT ![layer_plane[l]] = NULL]
    /\ layer_plane' = [layer_plane EXCEPT ![l] = NULL]
    /\ composition' =
          [composition EXCEPT ![owner[l]] = IF @ = l THEN NULL ELSE @]
    /\ layers_changed' = [layers_changed EXCEPT ![owner[l]] = TRUE]
    /\ UNCHANGED <<planes, outputs, page_flip_counter>>

\* A layer after liftoff_layer_set_property: a property that is new to it, and
\* a framebuffer for a layer that was to be composited, count as changes.
WithProperty(lay, name, v) ==
    LET unforces == name = "FB_ID" /\ lay.forced
    IN  [lay EXCEPT !.value[name] = v,
                    !.forced  = @ /\ ~unforces,
                    !.changed = @ \/ lay.value[name] = NoProp \/ unforces]

SetProperty(l, name, v) ==
    /\ Call
    /\ owner[l] # NULL
    /\ layer' = [layer EXCEPT ![l] = WithProperty(@, name, v)]
    /\ UNCHANGED <<links, composition, layers_changed, page_flip_counter>>

SetFbComposited(l) ==
    /\ Call
    /\ owner[l] # NULL
    /\ ~layer[l].forced
    /\ layer' = [layer EXCEPT ![l] =
          [WithProperty(@, "FB_ID", 0) EXCEPT !.forced = TRUE, !.changed = TRUE]]
    /\ UNCHANGED <<links, composition, layers_changed, page_flip_counter>>

-----------------------------------------------------------------------------
(* liftoff_output_apply                                                    *)

\* A plausible slip: the pending priority is carried over to the next period.
LayerUpdatePriorityCarrying(lay, make_current) ==
    LET fb      == IF "FB_ID" \in Props THEN lay.value["FB_ID"] ELSE NoProp
        bumped  == fb # NoProp /\ fb # lay.prev["FB_ID"]
        pending == IF bumped THEN lay.pending + 1 ELSE lay.pending
    IN  IF make_current
        THEN [lay EXCEPT !.current = pending, !.pending = pending]
        ELSE [lay EXCEPT !.pending = pending]

\* layer_update_priority
LayerUpdatePriority(lay, make_current) ==
    LET fb      == IF "FB_ID" \in Props THEN lay.value["FB_ID"] ELSE NoProp
        bumped  == fb # NoProp /\ fb # lay.prev["FB_ID"]
        pending == IF bumped THEN lay.pending + 1 ELSE lay.pending
    IN  IF make_current
        THEN [lay EXCEPT !.current = pending, !.pending = 0]
        ELSE [lay EXCEPT !.pending = pending]

\* A plausible slip: one page-flip too late.
PeriodElapsedLate == page_flip_counter + 1 > LIFTOFF_PRIORITY_PERIOD

PeriodElapsed == page_flip_counter + 1 >= LIFTOFF_PRIORITY_PERIOD

\* update_layers_priority goes over the layers of all outputs of the device.
PrioritizedLayers ==
    [l \in Layers |-> IF owner[l] \in outputs
                      THEN LayerUpdatePriority(layer[l], PeriodElapsed)
                      ELSE layer[l]]

\* Every apply starts like this.
ApplyStarts(o) ==
    /\ ~Aborted
    /\ o \in outputs
    /\ page_flip_counter' = IF PeriodElapsed THEN 0 ELSE page_flip_counter + 1
    /\ UNCHANGED <<planes, outputs, owner, composition>>

\* mark_layers_clean, on the layers as update_layers_priority left them.
CleanLayers(o, layers) ==
    [l \in Layers |->
        IF owner[l] = o
        THEN [layers[l] EXCEPT
                !.changed = FALSE,
                !.prev = [n \in Props |-> IF layers[l].value[n] = NoProp THEN @[n]
                                          ELSE layers[l].value[n]]]
        ELSE layers[l]]

\* apply_current puts every mapped layer of the device, this output's or not,
\* into the request, and asserts that each plane has what its layer needs.
Applicable(mapping) ==
    \A p \in planes : mapping[p] # NULL => Supports(p, mapping[p])

\* A plausible slip: layers that come and go are not looked at.
CanReuseLayersAside(o) == \A l \in LayersOf(o) : ~LayerNeedsRealloc(l)

\* Nothing has changed that asks for a new allocation.
CanReuse(o) ==
    /\ ~layers_changed[o]
    /\ \A l \in LayersOf(o) : ~LayerNeedsRealloc(l)

\* The previous mapping is kept, and the kernel accepts it.
Reuse(o) ==
    /\ ApplyStarts(o)
    /\ CanReuse(o)
    /\ Applicable(plane_layer)
    /\ layer' = PrioritizedLayers
    /\ result' = [output |-> o, ret |-> "ok"]
    /\ UNCHANGED <<plane_layer, layer_plane, layers_changed>>

ReuseAborts(o) ==
    /\ ApplyStarts(o)
    /\ CanReuse(o)
    /\ ~Applicable(plane_layer)
    /\ layer' = PrioritizedLayers
    /\ result' = [output |-> o, ret |-> "abort"]
    /\ UNCHANGED <<plane_layer, layer_plane, layers_changed>>

\* The previous mapping cannot be reused, the kernel does not accept it, or
\* memory fails its apply_current before a plane that would fail the assertion.
NoReuse(o) ==
    /\ ApplyStarts(o)
    /\ CanReuse(o) => Applicable(plane_layer) \/ MayFail

\* A plausible slip: the mappings of every output are unset.
MappedByAny(o, p) == plane_layer[p] # NULL

\* The plane has a layer of output o.
MappedBy(o, p) == plane_layer[p] # NULL /\ owner[plane_layer[p]] = o

\* The mapping once that of output o has been unset.
ClearedPlanes(o) ==
    [p \in Planes |-> IF p \in planes /\ MappedBy(o, p) THEN NULL ELSE plane_layer[p]]
ClearedLayers(o) ==
    [l \in Layers |-> IF \E p \in planes : MappedBy(o, p) /\ plane_layer[p] = l
                      THEN NULL ELSE layer_plane[l]]

\* The mapping with the result m of the search, whose planes and layers had none.
MapPlanes(o, m) ==
    [p \in Planes |-> IF p \in DOMAIN m /\ m[p] # NULL THEN m[p]
                      ELSE ClearedPlanes(o)[p]]
MapLayers(o, m) ==
    [l \in Layers |-> IF \E p \in DOMAIN m : m[p] = l
                      THEN CHOOSE p \in DOMAIN m : m[p] = l
                      ELSE ClearedLayers(o)[l]]

\* The planes that keep the layer of another output.
Busy(o) == {p \in planes : ClearedPlanes(o)[p] # NULL}

\* The search gives m, and the mapping becomes that.
Adopt(o, m) ==
    /\ plane_layer' = MapPlanes(o, m)
    /\ layer_plane' = MapLayers(o, m)

Realloc(o) ==
    /\ NoReuse(o)
    /\ \E m \in SearchResults(o, Busy(o)) :
          Adopt(o, m) /\ Applicable(MapPlanes(o, m))
    /\ layer' = CleanLayers(o, PrioritizedLayers)
    /\ layers_changed' = [layers_changed EXCEPT ![o] = FALSE]
    /\ result' = [output |-> o, ret |-> "ok"]

\* The assertion of the final apply_current, on a layer of another output.
ReallocAborts(o) ==
    /\ NoReuse(o)
    /\ \E m \in SearchResults(o, Busy(o)) :
          Adopt(o, m) /\ ~Applicable(MapPlanes(o, m))
    /\ layer' = PrioritizedLayers
    /\ result' = [output |-> o, ret |-> "abort"]
    /\ UNCHANGED layers_changed

\* Memory or the kernel fails the disabling of planes or the search: the old
\* mapping is gone and there is no new one.
ReallocFails(o) ==
    /\ MayFail
    /\ NoReuse(o)
    /\ plane_layer' = ClearedPlanes(o)
    /\ layer_plane' = ClearedLayers(o)
    /\ layer' = PrioritizedLayers
    /\ result' = [output |-> o, ret |-> "error"]
    /\ UNCHANGED layers_changed

\* Memory fails the final apply_current: the new mapping stays, the layers are
\* not marked clean.
ReallocFailsLate(o) ==
    /\ MayFail
    /\ NoReuse(o)
    /\ \E m \in SearchResults(o, Busy(o)) : Adopt(o, m)
    /\ layer' = PrioritizedLayers
    /\ result' = [output |-> o, ret |-> "error"]
    /\ UNCHANGED layers_changed

\* The applies that search, and have a result.
Search(o) == Realloc(o) \/ ReallocAborts(o) \/ ReallocFailsLate(o)

-----------------------------------------------------------------------------
\* An aborted program takes no step.
Stop == Aborted /\ UNCHANGED vars

\* The steps that do not search.
NoSearch ==
    \/ \E p \in Planes : PlaneCreate(p) \/ PlaneDestroy(p)
    \/ \E o \in Outputs : OutputCreate(o) \/ OutputDestroy(o)
    \/ \E o \in Outputs, l \in Layers :
          LayerCreate(o, l) \/ SetCompositionLayer(o, l)
    \/ \E l \in Layers : LayerDestroy(l) \/ SetFbComposited(l)
    \/ \E l \in Layers, name \in Props : \E v \in Values[l][name] :
          SetProperty(l, name, v)
    \/ \E o \in Outputs : Reuse(o) \/ ReuseAborts(o) \/ ReallocFails(o)
    \/ Stop

Next == NoSearch \/ \E o \in Outputs : Search(o)

Spec == Init /\ [][Next]_vars

\* Once planes and outputs are set up, as a compositor does at startup.
SetUp ==
    /\ planes = Planes
    /\ outputs = Outputs
    /\ owner = [l \in Layers |-> NULL]
    /\ plane_layer = [p \in Planes |-> NULL]
    /\ layer_plane = [l \in Layers |-> NULL]
    /\ layer = [l \in Layers |-> NewLayer]
    /\ composition = [o \in Outputs |-> NULL]
    /\ layers_changed = [o \in Outputs |-> FALSE]
    /\ page_flip_counter = 0
    /\ result = NoResult

SetUpSpec == SetUp /\ [][Next]_vars

-----------------------------------------------------------------------------
(* Properties                                                              *)

\* The two directions of the mapping agree, and neither they nor the
\* composition layers refer to a plane, a layer or an output that is gone,
\* whatever the client destroys and in whichever order, and wherever an apply
\* fails.
LinksConsistent ==
    /\ \A p \in Planes : plane_layer[p] # NULL =>
          /\ p \in planes
          /\ owner[plane_layer[p]] \in outputs
          /\ layer_plane[plane_layer[p]] = p
    /\ \A l \in Layers : layer_plane[l] # NULL => plane_layer[layer_plane[l]] = l
    /\ \A o \in outputs : composition[o] # NULL => owner[composition[o]] = o
    /\ \A l \in Layers : owner[l] # NULL => owner[l] \in outputs

AppliedOk(o) == result = [output |-> o, ret |-> "ok"]

\* After a successful apply, no plane shows a layer that is disabled, fully
\* transparent or to be composited: each change that makes it so was noticed
\* (layer_needs_realloc), however many applies reused the mapping before.
MappedLayersDisplayable ==
    \A o \in Outputs : AppliedOk(o) =>
        \A l \in LayersOf(o) : layer_plane[l] # NULL =>
            LayerIsVisible(l) /\ ~layer[l].forced

\* After a successful apply with a composition layer that fits a primary plane,
\* a layer that needs composition is composited on one that is displayed: nothing
\* visible gets lost ("If composition isn't used, we need to have allocated all
\* layers", alloc.c:339-340).
NothingLost ==
    \A o \in Outputs :
        /\ AppliedOk(o)
        /\ CanFallBack(o)
        /\ \E l \in LayersOf(o) \ {composition[o]} : LayerNeedsComposition(l)
        => layer_plane[composition[o]] # NULL

\* The assertion of apply_current never fails: no plane is incompatible with the
\* layer it already has (alloc.c:486).
NoAssertionFails == ~Aborted

\* An apply never touches the planes of another output's layers.
OtherOutputsUntouched ==
    [][\A o \in Outputs, l \in Layers :
          result'.output = o /\ owner[l] # o => layer_plane'[l] = layer_plane[l]]_vars

\* A layer is counted at most once per page-flip, so its priority never exceeds
\* the period, whichever outputs are applied how often (layer_update_priority).
PriorityBounded ==
    \A l \in Layers :
        /\ layer[l].pending <= page_flip_counter
        /\ layer[l].current <= LIFTOFF_PRIORITY_PERIOD

-----------------------------------------------------------------------------
(* What a client sees                                                      *)

\* Without what the library remembers of each layer.
ClientLayers ==
    [l \in Layers |-> [value |-> layer[l].value, forced |-> layer[l].forced]]

Api == INSTANCE AlwaysSearch WITH layer <- ClientLayers

\* To a client, every apply searches: a mapping that is reused is one that a
\* search for what there is now could have ended with (reuse_previous_alloc).
EveryApplySearches == Api!Spec
==============================================================================
