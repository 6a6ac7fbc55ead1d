----------------------------- MODULE AlwaysSearch -----------------------------
(***************************************************************************)
(* The library as a compositor may think of it: it keeps no record of what *)
(* changed, and every apply searches anew for what there is to show now.   *)
(* Between two applies, a plane loses its layer only with the layer.       *)
(*                                                                         *)
(* This is an abstract specification, of a device whose planes stay and of *)
(* applies that do not run out of memory; it translates no code.  Module   *)
(* Liftoff shows that it implements this.                                  *)
(***************************************************************************)
CONSTANTS Planes, Outputs, Layers, NULL, NoProp, Props, OPAQUE, ROTATE_0,
          Primary, Supported, Crtcs

VARIABLES
    owner,        \* the output of each layer, NULL when there is no such layer
    layer,        \* layer[l].value, and layer[l].forced: is it to be composited?
    composition,  \* the composition layer of each output
    plane_layer,  \* the mapping
    result        \* what the last call was, if an apply

vars == <<owner, layer, composition, plane_layer, result>>

LayersOf(o) == {l \in Layers : owner[l] = o}

Get(l, name) == IF name \in Props THEN layer[l].value[name] ELSE NoProp

Visible(l) ==
    Get(l, "alpha") # 0 /\ (layer[l].forced \/ Get(l, "FB_ID") \notin {NoProp, 0})

Supports(p, l) ==
    \A name \in Props \ {"zpos"} :
        \/ layer[l].value[name] = NoProp
        \/ name \in Supported[p]
        \/ name = "alpha" /\ layer[l].value[name] = OPAQUE
        \/ name = "rotation" /\ layer[l].value[name] = ROTATE_0

\* What output o may do with plane p for layer l.
MayShow(o, p, l) ==
    o \in Crtcs[p] /\ Visible(l) /\ ~layer[l].forced /\ Supports(p, l)

\* The planes that no other output uses.
Free(o) == {p \in Planes : plane_layer[p] # NULL => owner[plane_layer[p]] = o}

CanFallBack(o) ==
    /\ composition[o] # NULL
    /\ \E p \in Primary \cap Free(o) : MayShow(o, p, composition[o])

\* Nothing visible is lost when the layers `mapped` have planes.
Covered(o, mapped) ==
    \/ composition[o] \in mapped
    \/ {l \in LayersOf(o) : Visible(l)} \ {composition[o]} \subseteq mapped

\* The mappings of its free planes that an output may end with.
Results(o) ==
    {m \in [Free(o) -> LayersOf(o) \union {NULL}] :
        /\ \A p \in Free(o) : m[p] # NULL =>
              /\ MayShow(o, p, m[p])
              /\ m[p] = composition[o] => p \in Primary
        /\ \A p, q \in Free(o) : m[p] # NULL /\ m[p] = m[q] => p = q
        /\ CanFallBack(o) => Covered(o, {m[p] : p \in Free(o)})}

-----------------------------------------------------------------------------
NoResult == [output |-> NULL, ret |-> "ok"]

Init == plane_layer = [p \in Planes |-> NULL] /\ result = NoResult

\* Any other call: no layer changes hands, and one that goes leaves its plane.
Change ==
    /\ result' = NoResult
    /\ \A l \in Layers : owner[l] # NULL => owner'[l] \in {owner[l], NULL}
    /\ plane_layer' =
          [p \in Planes |->
              IF plane_layer[p] # NULL /\ owner'[plane_layer[p]] = NULL
              THEN NULL ELSE plane_layer[p]]

\* An apply of output o searches.  It ends the program when a plane, in the end,
\* lacks what its layer needs; only another output's layer can.
Apply(o) ==
    /\ UNCHANGED <<owner, layer, composition>>
    /\ \E m \in Results(o) :
          plane_layer' = [p \in Planes |-> IF p \in Free(o) THEN m[p] ELSE plane_layer[p]]
    /\ result'.output = o
    /\ \/ result'.ret = "ok" /\ \A p \in Planes :
             plane_layer'[p] # NULL => Supports(p, plane_layer'[p])
       \/ result'.ret = "abort" /\ \E p \in Planes \ Free(o) :
             ~Supports(p, plane_layer[p])

Next == result.ret # "abort" /\ (Change \/ \E o \in Outputs : Apply(o))

Spec == Init /\ [][Next]_vars
==============================================================================
