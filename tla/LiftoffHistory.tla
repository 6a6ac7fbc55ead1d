--------------------------- MODULE LiftoffHistory ---------------------------
(***************************************************************************)
(* Module Liftoff with a history variable: what the search behind the      *)
(* mapping of each output looked at.  The variable follows the steps of    *)
(* Liftoff and never restricts them.                                       *)
(***************************************************************************)
EXTENDS Liftoff

VARIABLE searched

hvars == <<vars, searched>>

\* What a search for output o depends on, as far as its layers are concerned.
SearchInput(o) ==
    [layers      |-> LayersOf(o),
     composition |-> composition[o],
     visible     |-> {l \in LayersOf(o) : LayerIsVisible(l)},
     forced      |-> {l \in LayersOf(o) : layer[l].forced},
     opaque      |-> {l \in LayersOf(o) : Get(l, "alpha") \in {NoProp, OPAQUE}},
     others      |-> [l \in LayersOf(o) |->
                        [n \in Props \ {"FB_ID", "alpha", "IN_FENCE_FD",
                                        "FB_DAMAGE_CLIPS"} |-> layer[l].value[n]]]]

\* Of an output that was never applied: a new one, too.
NothingSearched ==
    [layers |-> {}, composition |-> NULL, visible |-> {}, forced |-> {},
     opaque |-> {}, others |-> [l \in {} |-> l]]

HInit == Init /\ searched = [o \in Outputs |-> NothingSearched]

HNext ==
    \/ /\ NoSearch
       /\ searched' = [o \in Outputs |-> IF o \in outputs' \ outputs
                                         THEN NothingSearched ELSE searched[o]]
    \/ \E o \in Outputs :
          Search(o) /\ searched' = [searched EXCEPT ![o] = SearchInput(o)]

HSpec == HInit /\ [][HNext]_hvars

\* After a successful apply, the mapping is one that was searched for with just
\* the layers, the composition layer and the properties there are now: an apply
\* never reuses a mapping that some change to them has made obsolete
\* (layer_needs_realloc, output->layers_changed).
AllocationCurrent ==
    \A o \in Outputs : AppliedOk(o) => searched[o] = SearchInput(o)
=============================================================================
