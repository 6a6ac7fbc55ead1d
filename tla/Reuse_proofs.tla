----------------------------- MODULE Reuse_proofs -----------------------------
(***************************************************************************)
(* Proofs about mappings that are reused, for any planes, outputs, layers  *)
(* and properties, as long as no apply fails for lack of memory or an I/O  *)
(* error: a reused mapping was searched for with just what there is now,   *)
(* its planes take their layers, nothing visible is lost, and to a client  *)
(* every apply searches.                                                   *)
(***************************************************************************)
EXTENDS LiftoffHistory, Liftoff_proofs

-----------------------------------------------------------------------------
(* What a search looks at, for layers given by their members               *)

Val(lay, name) == IF name \in Props THEN lay.value[name] ELSE NoProp

Visible(lay) == Val(lay, "alpha") # 0 /\ (lay.forced \/ Val(lay, "FB_ID") \notin {NoProp, 0})

OtherProps == Props \ {"FB_ID", "alpha", "IN_FENCE_FD", "FB_DAMAGE_CLIPS"}

InputOf(ls, comp, f) ==
    [layers      |-> ls,
     composition |-> comp,
     visible     |-> {l \in ls : Visible(f[l])},
     forced      |-> {l \in ls : f[l].forced},
     opaque      |-> {l \in ls : Val(f[l], "alpha") \in {NoProp, OPAQUE}},
     others      |-> [l \in ls |-> [n \in OtherProps |-> f[l].value[n]]]]

\* Two layers that are the same to a search.
SameView(a, b) ==
    /\ Visible(a) <=> Visible(b)
    /\ a.forced <=> b.forced
    /\ Val(a, "alpha") \in {NoProp, OPAQUE} <=> Val(b, "alpha") \in {NoProp, OPAQUE}
    /\ \A n \in OtherProps : a.value[n] = b.value[n]

LEMMA InputSame ==
    ASSUME NEW ls, NEW comp, NEW f, NEW g, \A l \in ls : SameView(f[l], g[l])
    PROVE  InputOf(ls, comp, f) = InputOf(ls, comp, g)
<1>1. {l \in ls : Visible(f[l])} = {l \in ls : Visible(g[l])}
  BY DEF SameView
<1>2. {l \in ls : f[l].forced} = {l \in ls : g[l].forced}
  BY DEF SameView
<1>3. {l \in ls : Val(f[l], "alpha") \in {NoProp, OPAQUE}}
         = {l \in ls : Val(g[l], "alpha") \in {NoProp, OPAQUE}}
  BY DEF SameView
<1>4. \A l \in ls : [n \in OtherProps |-> f[l].value[n]]
                               = [n \in OtherProps |-> g[l].value[n]]
  BY DEF SameView
<1>5. [l \in ls |-> [n \in OtherProps |-> f[l].value[n]]]
         = [l \in ls |-> [n \in OtherProps |-> g[l].value[n]]]
  BY <1>4
<1> QED BY <1>1, <1>2, <1>3, <1>5 DEF InputOf

LEMMA SearchInputOf == \A o : SearchInput(o) = InputOf(LayersOf(o), composition[o], layer)
BY DEF SearchInput, InputOf, LayerIsVisible, LayerHasFb, Get, Visible, Val, OtherProps

\* The layer as it was when it was last marked clean, if nothing that sets
\* changed happened since: a property it has was set then.
Old(lay) ==
    [value  |-> [n \in Props |-> IF lay.value[n] = NoProp THEN NoProp ELSE lay.prev[n]],
     forced |-> lay.forced]

OldLayers == [l \in Layers |-> Old(layer[l])]

\* A layer that needs no new allocation is the same to a search as it was.
LEMMA OldSameView ==
    ASSUME TypedLayers, NEW l \in Layers, ~LayerNeedsRealloc(l)
    PROVE  SameView(Old(layer[l]), layer[l])
<1> DEFINE lay == layer[l]
           old == Old(lay)
<1>1. lay \in Layer /\ lay.value \in PropValues /\ lay.prev \in [Props -> Nat]
  BY DEF TypedLayers, Layer
<1>2. /\ old.forced = lay.forced
      /\ \A n \in Props : old.value[n] = IF lay.value[n] = NoProp THEN NoProp ELSE lay.prev[n]
  BY DEF Old
<1>3. \A n \in Props : lay.value[n] = old.value[n]
                       \/ /\ lay.value[n] # NoProp /\ old.value[n] # NoProp
                          /\ ~PropNeedsRealloc(n, lay.value[n], old.value[n])
  BY <1>1, <1>2, PropsAssumption DEF LayerNeedsRealloc
<1> HIDE DEF lay, old
<1>4. ASSUME NEW n \in OtherProps PROVE lay.value[n] = old.value[n]
  BY <1>3 DEF OtherProps, PropNeedsRealloc
<1>5. /\ Val(old, "alpha") = 0 <=> Val(lay, "alpha") = 0
      /\ Val(old, "alpha") \in {NoProp, OPAQUE} <=> Val(lay, "alpha") \in {NoProp, OPAQUE}
  <2>1. CASE "alpha" \in Props
    <3>1. \/ lay.value["alpha"] = old.value["alpha"]
          \/ /\ lay.value["alpha"] \notin {NoProp, 0, OPAQUE}
             /\ old.value["alpha"] \notin {NoProp, 0, OPAQUE}
      BY <1>3, <2>1 DEF PropNeedsRealloc, AlphaNeedsRealloc
    <3> QED BY <2>1, <3>1, PropsAssumption DEF Val
  <2>2. CASE "alpha" \notin Props
    BY <2>2 DEF Val
  <2> QED BY <2>1, <2>2
<1>6. Val(old, "FB_ID") \in {NoProp, 0} <=> Val(lay, "FB_ID") \in {NoProp, 0}
  <2>1. CASE "FB_ID" \in Props
    <3>1. \/ lay.value["FB_ID"] = old.value["FB_ID"]
          \/ /\ lay.value["FB_ID"] \notin {NoProp, 0}
             /\ old.value["FB_ID"] \notin {NoProp, 0}
      BY <1>3, <2>1 DEF PropNeedsRealloc, FbNeedsRealloc
    <3> QED BY <2>1, <3>1 DEF Val
  <2>2. CASE "FB_ID" \notin Props
    BY <2>2 DEF Val
  <2> QED BY <2>1, <2>2
<1>7. Visible(old) <=> Visible(lay)
  BY <1>2, <1>5, <1>6 DEF Visible
<1> QED BY <1>2, <1>4, <1>5, <1>7 DEF SameView, lay, old

\* Setting a property a layer has leaves it as it was.
LEMMA WithPropertyOld ==
    ASSUME NEW lay \in Layer, NEW name \in Props, NEW v \in Nat,
           NEW new, new = WithProperty(lay, name, v)
    PROVE  \/ new.changed
           \/ /\ Old(new) = Old(lay)
              /\ lay.changed => new.changed
<1> DEFINE unforces == name = "FB_ID" /\ lay.forced
<1>1. /\ lay.value \in PropValues /\ lay.forced \in BOOLEAN /\ lay.changed \in BOOLEAN
      /\ new.value = [lay.value EXCEPT ![name] = v]
      /\ new.prev = lay.prev
      /\ new.forced = (lay.forced /\ ~unforces)
      /\ new.changed = (lay.changed \/ lay.value[name] = NoProp \/ unforces)
  BY DEF WithProperty, Layer
<1>2. CASE lay.changed \/ lay.value[name] = NoProp \/ unforces
  BY <1>1, <1>2
<1>3. CASE ~unforces /\ lay.value[name] # NoProp
  <2>1. unforces = FALSE
    BY <1>3
  <2> HIDE DEF unforces
  <2>2. new.forced = lay.forced /\ (lay.changed => new.changed)
    BY <1>1, <2>1
  <2>3. \A n \in Props : new.value[n] = NoProp <=> lay.value[n] = NoProp
    BY <1>1, <1>3, PropsAssumption DEF PropValues
  <2> QED BY <1>1, <2>2, <2>3 DEF Old
<1> QED BY <1>2, <1>3

\* Marking a layer clean remembers its properties.
LEMMA CleanOld ==
    ASSUME TypedLayers, NEW o, NEW l \in Layers, owner[l] = o,
           NEW new, new = CleanLayers(o, PrioritizedLayers)[l]
    PROVE  /\ new.value = layer[l].value /\ new.forced = layer[l].forced
           /\ Old(new).value = layer[l].value /\ Old(new).forced = layer[l].forced
<1> DEFINE lay == PrioritizedLayers[l]
           prev == [n \in Props |-> IF lay.value[n] = NoProp THEN lay.prev[n] ELSE lay.value[n]]
<1>1. SameDisplay(layer[l], lay) /\ layer[l] \in Layer
  BY PrioritizedSame DEF TypedLayers
<1>2. new = [lay EXCEPT !.changed = FALSE, !.prev = prev]
  BY DEF CleanLayers
<1>3. PICK m, n : lay = [layer[l] EXCEPT !.current = m, !.pending = n]
  <2>1. layer[l] = [layer[l] EXCEPT !.current = layer[l].current, !.pending = layer[l].pending]
    BY <1>1 DEF Layer
  <2>2. \A n : [layer[l] EXCEPT !.pending = n]
                = [layer[l] EXCEPT !.current = layer[l].current, !.pending = n]
    BY <1>1 DEF Layer
  <2> QED BY <2>1, <2>2 DEF PrioritizedLayers, LayerUpdatePriority
<1> HIDE DEF lay, prev
<1>5. new.value = lay.value /\ new.forced = lay.forced /\ new.prev = prev
  BY <1>1, <1>2, <1>3 DEF Layer
<1> USE DEF prev
<1>4. layer[l].value \in [Props -> Nat \union {NoProp}]
  BY <1>1 DEF Layer, PropValues
<1> QED BY <1>1, <1>5, <1>4 DEF Old, SameDisplay

\* Equal members are the same to a search.
LEMMA EqualView ==
    ASSUME NEW a, NEW b, a.value = b.value, a.forced = b.forced
    PROVE  SameView(a, b)
BY DEF SameView, Visible, Val

-----------------------------------------------------------------------------
(* The invariant                                                           *)

OldInput(o) == InputOf(LayersOf(o), composition[o], OldLayers)

\* Something asks for a new allocation, or the last search looked at what there
\* was when the layers were marked clean.
Current(o) ==
    \/ layers_changed[o]
    \/ \E l \in LayersOf(o) : layer[l].changed
    \/ searched[o] = OldInput(o)

HistoryInv ==
    /\ searched = [o \in Outputs |-> searched[o]]
    /\ Aborted \/ \A o \in Outputs : Current(o)
    /\ AllocationCurrent

\* Nothing was searched for an output without layers and composition layer.
LEMMA NothingCurrent ==
    ASSUME NEW o, LayersOf(o) = {}, composition[o] = NULL, searched[o] = NothingSearched
    PROVE  Current(o)
<1>1. [l \in {} |-> l] = [l \in {} |-> [n \in OtherProps |-> OldLayers[l].value[n]]]
  OBVIOUS
<1> QED BY <1>1 DEF Current, OldInput, InputOf, NothingSearched

LEMMA HistoryInit == HInit => HistoryInv
<1> SUFFICES ASSUME HInit PROVE HistoryInv
  OBVIOUS
<1>1. /\ searched = [o \in Outputs |-> NothingSearched]
      /\ \A o \in Outputs : composition[o] = NULL /\ LayersOf(o) = {}
      /\ result = NoResult
  BY NullAssumption DEF HInit, Init, LayersOf
<1>2. \A o \in Outputs : Current(o)
  BY <1>1, NothingCurrent
<1> QED BY <1>1, <1>2, NullAssumption DEF HistoryInv, AllocationCurrent, AppliedOk, NoResult

\* Nothing an output's search depends on is forgotten by a step that keeps its
\* layers, and leaves each of them changed or as it was.
LEMMA CurrentSame ==
    ASSUME TypedLayers, NEW o, Current(o),
           layers_changed[o] => layers_changed'[o],
           LayersOf(o)' = LayersOf(o), composition'[o] = composition[o],
           searched'[o] = searched[o],
           \A l \in LayersOf(o) :
              \/ layer'[l].changed
              \/ /\ SameView(Old(layer[l]), Old(layer'[l]))
                 /\ layer[l].changed => layer'[l].changed
    PROVE  Current(o)'
<1> SUFFICES ASSUME ~layers_changed'[o], \A l \in LayersOf(o) : ~layer'[l].changed
             PROVE  searched'[o] = OldInput(o)'
  BY DEF Current
<1>1. searched[o] = OldInput(o)
  BY DEF Current
<1>2. \A l \in LayersOf(o) : SameView(OldLayers[l], OldLayers'[l])
  BY DEF OldLayers, LayersOf
<1>3. InputOf(LayersOf(o), composition[o], OldLayers)
         = InputOf(LayersOf(o), composition[o], OldLayers')
  BY <1>2, InputSame
<1>4. OldInput(o)' = InputOf(LayersOf(o), composition[o], OldLayers')
  BY DEF OldInput
<1> QED BY <1>1, <1>3, <1>4 DEF OldInput

\* Layers that did not change, priorities aside.
LEMMA OldSameDisplay ==
    ASSUME NEW a, NEW b, SameDisplay(a, b)
    PROVE  SameView(Old(a), Old(b)) /\ (a.changed <=> b.changed)
BY EqualView DEF SameDisplay, Old

-----------------------------------------------------------------------------
(* The steps                                                               *)

NoSearchHistory ==
    searched' = [o \in Outputs |-> IF o \in outputs' \ outputs
                                  THEN NothingSearched ELSE searched[o]]

\* Calls other than an apply leave every output's search in sight.
LEMMA HistoryCalls ==
    ASSUME LinksInv, PriorityInv, HistoryInv, NoSearch, NoSearchHistory,
           ~\E o \in Outputs : Reuse(o) \/ ReuseAborts(o) \/ ReallocFails(o)
    PROVE  HistoryInv'
<1>0. TypedLayers /\ LinksTypeOK
  BY Typed DEF LinksInv
<1>1. ASSUME Call, \A o \in Outputs : Current(o) => Current(o)'
      PROVE  HistoryInv'
  <2>1. \A o \in Outputs : Current(o)'
    BY <1>1 DEF HistoryInv, Call
  <2>2. result' = NoResult /\ searched' = [o \in Outputs |-> searched'[o]]
    BY <1>1 DEF Call, NoSearchHistory
  <2> QED BY <2>1, <2>2, NullAssumption DEF HistoryInv, AllocationCurrent, AppliedOk, NoResult
<1>2. ASSUME outputs' \subseteq outputs, NEW o \in Outputs PROVE searched'[o] = searched[o]
  BY <1>2 DEF NoSearchHistory
<1>3. \A l \in Layers : SameView(Old(layer[l]), Old(layer[l]))
  BY EqualView
<1>4. ASSUME UNCHANGED <<owner, layer, composition, layers_changed>>, outputs' \subseteq outputs,
             NEW o \in Outputs, Current(o)
      PROVE  Current(o)'
  BY <1>2, <1>4 DEF Current, OldInput, InputOf, OldLayers, LayersOf
<1>5. ASSUME NEW p \in Planes, PlaneCreate(p) \/ PlaneDestroy(p) PROVE HistoryInv'
  <2>1. /\ UNCHANGED <<owner, layer, composition, layers_changed>> /\ outputs' \subseteq outputs
        /\ Call
    BY <1>5 DEF PlaneCreate, PlaneDestroy
  <2> QED BY <1>1, <1>4, <2>1
<1>6. ASSUME NEW o \in Outputs, OutputDestroy(o) PROVE HistoryInv'
  <2>1. /\ UNCHANGED <<owner, layer, composition, layers_changed>> /\ outputs' \subseteq outputs
        /\ Call
    BY <1>6 DEF OutputDestroy
  <2> QED BY <1>1, <1>4, <2>1
<1>7. ASSUME NEW new \in Outputs, OutputCreate(new) PROVE HistoryInv'
  <2>1. /\ Call /\ UNCHANGED <<owner, layer>> /\ new \notin outputs
        /\ outputs' = outputs \union {new}
        /\ composition' = [composition EXCEPT ![new] = NULL]
        /\ layers_changed' = [layers_changed EXCEPT ![new] = FALSE]
    BY <1>7 DEF OutputCreate
  <2>2. LayersOf(new)' = {} /\ composition'[new] = NULL /\ searched'[new] = NothingSearched
    BY <1>0, <2>1, NullAssumption
    DEF LayersOf, LinksInv, LinksConsistent, LinksTypeOK, NoSearchHistory
  <2>3. Current(new)'
    BY <2>2 DEF NothingSearched, Current, OldInput, InputOf
  <2>4. ASSUME NEW o \in Outputs, o # new, Current(o) PROVE Current(o)'
    <3>1. /\ composition'[o] = composition[o] /\ layers_changed'[o] = layers_changed[o]
          /\ searched'[o] = searched[o] /\ LayersOf(o)' = LayersOf(o)
      BY <1>0, <2>1, <2>4 DEF LinksTypeOK, PriorityInv, TypeOK, NoSearchHistory, LayersOf
    <3> QED BY <2>1, <2>4, <3>1 DEF Current, OldInput, InputOf, OldLayers
  <2> QED BY <1>1, <2>1, <2>3, <2>4
<1>8. ASSUME NEW at \in Outputs, NEW l \in Layers, SetCompositionLayer(at, l) PROVE HistoryInv'
  <2>1. /\ Call /\ UNCHANGED <<owner, layer, outputs>>
        /\ composition' = [composition EXCEPT ![at] = l]
        /\ layers_changed' = [layers_changed EXCEPT ![at] = @ \/ l # composition[at]]
    BY <1>8 DEF SetCompositionLayer, links
  <2>2. ASSUME NEW o \in Outputs, Current(o) PROVE Current(o)'
    <3>1. searched'[o] = searched[o] /\ LayersOf(o)' = LayersOf(o) /\ OldLayers' = OldLayers
      BY <1>2, <2>1 DEF LayersOf, OldLayers
    <3>2. \/ layers_changed'[o] = TRUE
          \/ composition'[o] = composition[o] /\ layers_changed'[o] = layers_changed[o]
      BY <1>0, <2>1 DEF LinksTypeOK, PriorityInv, TypeOK
    <3> QED BY <2>1, <2>2, <3>1, <3>2 DEF Current, OldInput
  <2> QED BY <1>1, <2>1, <2>2
<1>9. ASSUME NEW at \in Outputs, NEW l \in Layers, LayerCreate(at, l) PROVE HistoryInv'
  <2>1. /\ Call /\ UNCHANGED <<outputs, composition>> /\ owner[l] = NULL
        /\ owner' = [owner EXCEPT ![l] = at]
        /\ layer' = [layer EXCEPT ![l] = NewLayer]
        /\ layers_changed' = [layers_changed EXCEPT ![at] = TRUE]
    BY <1>9 DEF LayerCreate
  <2>2. Current(at)'
    <3>1. layers_changed \in [Outputs -> BOOLEAN]
      BY DEF PriorityInv, TypeOK
    <3>2. layers_changed'[at] = TRUE
      BY <2>1, <3>1
    <3> QED BY <3>2 DEF Current
  <2>3. ASSUME NEW o \in Outputs, o # at, Current(o) PROVE Current(o)'
    <3>1. LayersOf(o)' = LayersOf(o) /\ l \notin LayersOf(o)
      BY <1>0, <2>1, <2>3, NullAssumption DEF LayersOf, LinksTypeOK
    <3>2. layers_changed'[o] = layers_changed[o] /\ searched'[o] = searched[o]
      BY <1>2, <2>1, <2>3 DEF PriorityInv, TypeOK
    <3>3. \A k \in LayersOf(o) : layer'[k] = layer[k] /\ k \in Layers
      BY <1>0, <2>1, <3>1 DEF LayersOf, TypedLayers
    <3> QED BY <1>0, <1>3, <2>1, <2>3, <3>1, <3>2, <3>3, CurrentSame
  <2> QED BY <1>1, <2>1, <2>2, <2>3
<1>10. ASSUME NEW l \in Layers, LayerDestroy(l) PROVE HistoryInv'
  <2>0. PICK at \in Outputs : at = owner[l]
    BY <1>0, <1>10 DEF LayerDestroy, LinksTypeOK
  <2>1. /\ Call /\ UNCHANGED outputs
        /\ owner' = [owner EXCEPT ![l] = NULL]
        /\ layer' = [layer EXCEPT ![l] = NewLayer]
        /\ composition' = [composition EXCEPT ![at] = IF @ = l THEN NULL ELSE @]
        /\ layers_changed' = [layers_changed EXCEPT ![at] = TRUE]
    BY <1>10, <2>0 DEF LayerDestroy
  <2>2. Current(at)'
    <3>1. layers_changed \in [Outputs -> BOOLEAN]
      BY DEF PriorityInv, TypeOK
    <3>2. layers_changed'[at] = TRUE
      BY <2>1, <3>1
    <3> QED BY <3>2 DEF Current
  <2>3. ASSUME NEW o \in Outputs, o # at, Current(o) PROVE Current(o)'
    <3>1. LayersOf(o)' = LayersOf(o) /\ l \notin LayersOf(o)
      BY <1>0, <2>0, <2>1, <2>3, NullAssumption DEF LayersOf, LinksTypeOK
    <3>2. /\ layers_changed'[o] = layers_changed[o] /\ searched'[o] = searched[o]
          /\ composition'[o] = composition[o]
      BY <1>0, <1>2, <2>1, <2>3 DEF PriorityInv, TypeOK, LinksTypeOK
    <3>3. \A k \in LayersOf(o) : layer'[k] = layer[k] /\ k \in Layers
      BY <1>0, <2>1, <3>1 DEF LayersOf, TypedLayers
    <3> QED BY <1>0, <1>3, <2>1, <2>3, <3>1, <3>2, <3>3, CurrentSame
  <2> QED BY <1>1, <2>1, <2>2, <2>3
\* What is set on one layer.
<1>11. ASSUME Call, NEW l \in Layers, NEW new, layer' = [layer EXCEPT ![l] = new],
              UNCHANGED <<links, composition, layers_changed>>,
              \/ new.changed
              \/ SameView(Old(layer[l]), Old(new)) /\ (layer[l].changed => new.changed)
       PROVE  HistoryInv'
  <2>1. ASSUME NEW o \in Outputs, Current(o) PROVE Current(o)'
    <3>1. LayersOf(o)' = LayersOf(o) /\ searched'[o] = searched[o]
      BY <1>2, <1>11 DEF links, LayersOf
    <3>2. \A k \in LayersOf(o) : IF k = l THEN layer'[k] = new ELSE layer'[k] = layer[k]
      BY <1>0, <1>11 DEF LayersOf, TypedLayers
    <3>3. \A k \in LayersOf(o) : SameView(Old(layer[k]), Old(layer[k]))
      BY <1>3 DEF LayersOf
    <3> QED BY <1>0, <1>11, <2>1, <3>1, <3>2, <3>3, CurrentSame
  <2> QED BY <1>1, <1>11, <2>1
<1>12. ASSUME NEW l \in Layers, NEW name \in Props, NEW v \in Values[l][name],
              SetProperty(l, name, v)
       PROVE  HistoryInv'
  <2> DEFINE new == WithProperty(layer[l], name, v)
  <2>1. /\ Call /\ layer' = [layer EXCEPT ![l] = new]
        /\ UNCHANGED <<links, composition, layers_changed>>
    BY <1>12 DEF SetProperty
  <2>2. layer[l] \in Layer /\ v \in Nat
    BY <1>0, PropsAssumption DEF TypedLayers
  <2>3. \/ new.changed
        \/ Old(new) = Old(layer[l]) /\ (layer[l].changed => new.changed)
    BY <2>2, WithPropertyOld
  <2> HIDE DEF new
  <2>4. SameView(Old(layer[l]), Old(layer[l]))
    BY EqualView
  <2> QED BY <1>11, <2>1, <2>3, <2>4
<1>13. ASSUME NEW l \in Layers, SetFbComposited(l) PROVE HistoryInv'
  <2> DEFINE new == [WithProperty(layer[l], "FB_ID", 0) EXCEPT !.forced = TRUE, !.changed = TRUE]
  <2>1. /\ Call /\ layer' = [layer EXCEPT ![l] = new]
        /\ UNCHANGED <<links, composition, layers_changed>>
    BY <1>13 DEF SetFbComposited
  <2>2. new.changed
    BY <1>0 DEF WithProperty, Layer, TypedLayers
  <2> HIDE DEF new
  <2> QED BY <1>11, <2>1, <2>2
<1>14. CASE Stop
  BY <1>14 DEF Stop, vars, links, HistoryInv, Aborted, AllocationCurrent, AppliedOk,
               NoSearchHistory, SearchInput, LayersOf, LayerIsVisible, LayerHasFb, Get
<1> QED
  BY <1>5, <1>6, <1>7, <1>8, <1>9, <1>10, <1>12, <1>13, <1>14 DEF NoSearch

\* A reuse finds that nothing has changed for the search.
LEMMA HistoryReuse ==
    ASSUME LinksInv, PriorityInv, HistoryInv, NEW at \in Outputs, Reuse(at), NoSearchHistory
    PROVE  HistoryInv'
<1>0. TypedLayers
  BY Typed
<1>1. /\ CanReuse(at) /\ layer' = PrioritizedLayers /\ result' = [output |-> at, ret |-> "ok"]
      /\ UNCHANGED <<outputs, owner, composition, layers_changed>> /\ ~Aborted
  BY DEF Reuse, ApplyStarts
<1>2. \A l \in Layers : SameDisplay(layer[l], layer'[l])
  BY <1>0, <1>1, PrioritizedSame
<1>3. \A o \in Outputs : searched'[o] = searched[o] /\ LayersOf(o)' = LayersOf(o)
  BY <1>1 DEF NoSearchHistory, LayersOf
<1>4. ASSUME NEW o \in Outputs PROVE Current(o)'
  <2>1. Current(o)
    BY <1>1 DEF HistoryInv
  <2>2. \A l \in LayersOf(o) : l \in Layers /\ SameDisplay(layer[l], layer'[l])
    BY <1>2 DEF LayersOf
  <2>3. \A l \in LayersOf(o) :
           \/ layer'[l].changed
           \/ /\ SameView(Old(layer[l]), Old(layer'[l]))
              /\ layer[l].changed => layer'[l].changed
    BY <2>2, OldSameDisplay
  <2>4. /\ layers_changed'[o] = layers_changed[o] /\ composition'[o] = composition[o]
        /\ searched'[o] = searched[o] /\ LayersOf(o)' = LayersOf(o)
    BY <1>1, <1>3
  <2> QED BY <1>0, <2>1, <2>3, <2>4, CurrentSame
<1>5. searched'[at] = SearchInput(at)'
  <2>1. \A l \in LayersOf(at) : l \in Layers /\ ~LayerNeedsRealloc(l)
    BY <1>1 DEF CanReuse, LayersOf
  <2>2. searched[at] = OldInput(at)
    BY <1>1, <2>1 DEF HistoryInv, Current, CanReuse, LayerNeedsRealloc
  <2>3. \A l \in LayersOf(at) : SameView(OldLayers[l], layer[l])
    BY <1>0, <2>1, OldSameView DEF OldLayers
  <2>4. \A l \in LayersOf(at) : SameView(layer[l], layer'[l])
    BY <1>2, <2>1, EqualView DEF SameDisplay
  <2>5. InputOf(LayersOf(at), composition[at], OldLayers)
           = InputOf(LayersOf(at), composition[at], layer)
    BY <2>3, InputSame
  <2>6. InputOf(LayersOf(at), composition[at], layer)
           = InputOf(LayersOf(at), composition[at], layer')
    BY <2>4, InputSame
  <2>7. SearchInput(at)' = InputOf(LayersOf(at), composition[at], layer')
    <3>1. SearchInput(at)' = InputOf(LayersOf(at), composition[at], layer)'
      BY DEF SearchInput, InputOf, LayersOf, LayerIsVisible, LayerHasFb, Get, Visible, Val, OtherProps
    <3> QED BY <1>1, <1>3, <3>1
  <2> QED BY <1>3, <2>2, <2>5, <2>6, <2>7 DEF OldInput
<1>6. AllocationCurrent'
  BY <1>1, <1>5 DEF AllocationCurrent, AppliedOk
<1> QED BY <1>4, <1>6 DEF HistoryInv, NoSearchHistory

\* A new allocation is the result of a search for what there is, and marking the
\* layers clean remembers that.
LEMMA HistoryRealloc ==
    ASSUME LinksInv, PriorityInv, HistoryInv, NEW at \in Outputs, Realloc(at),
           searched' = [searched EXCEPT ![at] = SearchInput(at)]
    PROVE  HistoryInv'
<1>0. TypedLayers
  BY Typed
<1>1. /\ layer' = CleanLayers(at, PrioritizedLayers) /\ result' = [output |-> at, ret |-> "ok"]
      /\ UNCHANGED <<outputs, owner, composition>> /\ ~Aborted
      /\ layers_changed' = [layers_changed EXCEPT ![at] = FALSE]
  BY DEF Realloc, NoReuse, ApplyStarts
<1>2. /\ searched' = [o \in Outputs |-> searched'[o]] /\ searched'[at] = SearchInput(at)
      /\ \A o \in Outputs \ {at} : searched'[o] = searched[o]
  BY DEF HistoryInv
<1>3. \A o \in Outputs : LayersOf(o)' = LayersOf(o)
  BY <1>1 DEF LayersOf
<1>4. ASSUME NEW o \in Outputs, o # at PROVE Current(o)'
  <2>1. Current(o)
    BY <1>1 DEF HistoryInv
  <2>2. \A l \in LayersOf(o) : l \in Layers /\ SameDisplay(layer[l], layer'[l])
    BY <1>0, <1>1, <1>4, PrioritizedSame DEF LayersOf, CleanLayers
  <2>3. \A l \in LayersOf(o) :
           \/ layer'[l].changed
           \/ /\ SameView(Old(layer[l]), Old(layer'[l]))
              /\ layer[l].changed => layer'[l].changed
    BY <2>2, OldSameDisplay
  <2>4. /\ layers_changed'[o] = layers_changed[o] /\ composition'[o] = composition[o]
        /\ searched'[o] = searched[o] /\ LayersOf(o)' = LayersOf(o)
    BY <1>1, <1>2, <1>3, <1>4 DEF PriorityInv, TypeOK
  <2> QED BY <1>0, <2>1, <2>3, <2>4, CurrentSame
<1>5. ASSUME NEW l \in LayersOf(at)
      PROVE  /\ SameView(layer[l], layer'[l])
             /\ SameView(layer[l], Old(layer'[l]))
  <2>1. l \in Layers /\ owner[l] = at
    BY DEF LayersOf
  <2> QED BY <1>0, <1>1, <2>1, CleanOld, EqualView
<1>6. SearchInput(at) = InputOf(LayersOf(at), composition[at], layer)
  BY SearchInputOf
<1>7. Current(at)'
  <2>1. \A l \in LayersOf(at) : SameView(layer[l], OldLayers'[l])
    BY <1>5 DEF OldLayers, LayersOf
  <2>2. InputOf(LayersOf(at), composition[at], layer)
           = InputOf(LayersOf(at), composition[at], OldLayers')
    BY <2>1, InputSame
  <2> QED BY <1>1, <1>2, <1>3, <1>6, <2>2 DEF Current, OldInput
<1>8. searched'[at] = SearchInput(at)'
  <2>1. InputOf(LayersOf(at), composition[at], layer)
           = InputOf(LayersOf(at), composition[at], layer')
    BY <1>5, InputSame
  <2>2. SearchInput(at)' = InputOf(LayersOf(at), composition[at], layer)'
    BY DEF SearchInput, InputOf, LayersOf, LayerIsVisible, LayerHasFb, Get, Visible, Val, OtherProps
  <2> QED BY <1>1, <1>2, <1>3, <1>6, <2>1, <2>2
<1>9. AllocationCurrent'
  BY <1>1, <1>8 DEF AllocationCurrent, AppliedOk
<1> QED BY <1>2, <1>4, <1>7, <1>9 DEF HistoryInv

LEMMA HistoryNext ==
    ~MayFail /\ LinksInv /\ PriorityInv /\ HistoryInv /\ [HNext]_hvars => HistoryInv'
<1> SUFFICES ASSUME ~MayFail, LinksInv, PriorityInv, HistoryInv, [HNext]_hvars
             PROVE  HistoryInv'
  OBVIOUS
<1>1. ASSUME NEW o \in Outputs, ReuseAborts(o) \/ ReallocAborts(o),
             searched' = [q \in Outputs |-> searched'[q]]
      PROVE  HistoryInv'
  <2>1. result' = [output |-> o, ret |-> "abort"]
    BY <1>1 DEF ReuseAborts, ReallocAborts
  <2> QED BY <1>1, <2>1 DEF HistoryInv, Aborted, AllocationCurrent, AppliedOk
<1>2. CASE NoSearch /\ NoSearchHistory
  <2>1. searched' = [q \in Outputs |-> searched'[q]]
    BY <1>2 DEF NoSearchHistory
  <2> QED BY <1>1, <1>2, <2>1, HistoryCalls, HistoryReuse DEF ReallocFails
<1>3. ASSUME NEW o \in Outputs, Search(o), searched' = [searched EXCEPT ![o] = SearchInput(o)]
      PROVE  HistoryInv'
  <2>1. searched' = [q \in Outputs |-> searched'[q]]
    BY <1>3 DEF HistoryInv
  <2> QED BY <1>1, <1>3, <2>1, HistoryRealloc DEF Search, ReallocFailsLate
<1>4. CASE UNCHANGED hvars
  <2>1. UNCHANGED <<owner, layer, composition, layers_changed, result, searched>>
    BY <1>4 DEF hvars, vars, links
  <2>2. \A o : LayersOf(o)' = LayersOf(o) /\ OldLayers' = OldLayers
    BY <2>1 DEF LayersOf, OldLayers
  <2>3. \A o : Current(o)' <=> Current(o)
    BY <2>1, <2>2 DEF Current, OldInput
  <2>4. \A o : SearchInput(o)' = SearchInput(o)
    BY <2>1 DEF SearchInput, LayersOf, LayerIsVisible, LayerHasFb, Get
  <2> QED BY <2>1, <2>3, <2>4 DEF HistoryInv, Aborted, AllocationCurrent, AppliedOk
<1> QED BY <1>2, <1>3, <1>4 DEF HNext, NoSearchHistory

\* As long as no apply fails, a successful apply leaves a mapping that was
\* searched for with just the layers, the composition layer and the properties
\* there are now, with any number of outputs and planes that come and go: no
\* change that a search would see escapes layer_needs_realloc and layers_changed.
THEOREM AllocationCurrentHolds == ~MayFail => (HSpec => []AllocationCurrent)
<1> SUFFICES ASSUME ~MayFail PROVE HSpec => []AllocationCurrent
  OBVIOUS
<1>1. HInit => Init /\ HistoryInv
  BY HistoryInit DEF HInit
<1>2. [HNext]_hvars => [Next]_vars
  BY DEF HNext, Next, hvars
<1>3. LinksInv /\ PriorityInv /\ HistoryInv /\ [HNext]_hvars => HistoryInv'
  BY HistoryNext
<1>4. HistoryInv => AllocationCurrent
  BY DEF HistoryInv
<1> QED
  BY <1>1, <1>2, <1>3, <1>4, LinksInit, LinksNext, PriorityInit, PriorityNext, PTL DEF HSpec

-----------------------------------------------------------------------------
(* Assertions                                                              *)

\* Supports, for a layer given by its members.
PlaneSupports(p, lay) ==
    \A name \in Props \ {"zpos"} :
        \/ lay.value[name] = NoProp
        \/ name \in Supported[p]
        \/ name = "alpha" /\ lay.value[name] = OPAQUE
        \/ name = "rotation" /\ lay.value[name] = ROTATE_0

\* A plane supports its layer as it was when it got it, or the layer has changed.
PlanesFit ==
    \A l \in Layers : layer_plane[l] # NULL =>
        layer[l].changed \/ PlaneSupports(layer_plane[l], Old(layer[l]))

\* What changes without a new allocation is no matter of the plane.
LEMMA StillSupports ==
    ASSUME TypedLayers, NEW l \in Layers, NEW p, PlaneSupports(p, Old(layer[l])),
           ~LayerNeedsRealloc(l)
    PROVE  Supports(p, l)
<1> DEFINE lay == layer[l]
           old == Old(lay)
<1>0. /\ lay.value \in PropValues /\ lay.prev \in [Props -> Nat]
      /\ \A n \in Props : old.value[n] = IF lay.value[n] = NoProp THEN NoProp ELSE lay.prev[n]
  BY DEF TypedLayers, Layer, Old
<1>1. \A n \in Props : lay.value[n] = old.value[n]
                       \/ /\ lay.value[n] # NoProp /\ old.value[n] # NoProp
                          /\ ~PropNeedsRealloc(n, lay.value[n], old.value[n])
  BY <1>0, PropsAssumption DEF LayerNeedsRealloc
<1> HIDE DEF lay, old
<1> SUFFICES ASSUME NEW name \in Props \ {"zpos"}
             PROVE  \/ lay.value[name] = NoProp
                    \/ name \in Supported[p]
                    \/ name = "alpha" /\ lay.value[name] = OPAQUE
                    \/ name = "rotation" /\ lay.value[name] = ROTATE_0
  BY DEF Supports, lay
<1>2. \/ old.value[name] = NoProp
      \/ name \in Supported[p]
      \/ name = "alpha" /\ old.value[name] = OPAQUE
      \/ name = "rotation" /\ old.value[name] = ROTATE_0
  BY DEF PlaneSupports, old, lay
<1>3. CASE lay.value[name] # old.value[name]
  <2>1. old.value[name] # NoProp /\ ~PropNeedsRealloc(name, lay.value[name], old.value[name])
    BY <1>1, <1>3
  <2> QED BY <1>2, <2>1 DEF PropNeedsRealloc, AlphaNeedsRealloc
<1> QED BY <1>2, <1>3

\* Steps that keep or unset planes, and leave each layer changed or as it was.
LEMMA PlanesFitSame ==
    ASSUME PlanesFit,
           \A l \in Layers : layer_plane'[l] # NULL =>
              /\ layer_plane'[l] = layer_plane[l]
              /\ \/ layer'[l].changed
                 \/ /\ Old(layer'[l]) = Old(layer[l])
                    /\ layer[l].changed => layer'[l].changed
    PROVE  PlanesFit'
BY DEF PlanesFit, PlaneSupports

LEMMA PlanesFitCalls ==
    ASSUME LinksInv, PriorityInv, PlanesFit, NoSearch,
           ~\E o \in Outputs : Reuse(o) \/ ReuseAborts(o) \/ ReallocFails(o)
    PROVE  PlanesFit'
<1>0. TypedLayers /\ LinksTypeOK
  BY Typed DEF LinksInv
<1>1. CASE UNCHANGED layer /\ \A l \in Layers : layer_plane'[l] \in {layer_plane[l], NULL}
  BY <1>1, PlanesFitSame
<1>2. ASSUME NEW p \in Planes, PlaneCreate(p) \/ PlaneDestroy(p) PROVE PlanesFit'
  BY <1>0, <1>1, <1>2 DEF PlaneCreate, PlaneDestroy, LinksTypeOK
<1>3. ASSUME NEW o \in Outputs,
             \/ OutputCreate(o) \/ OutputDestroy(o)
             \/ \E l \in Layers : SetCompositionLayer(o, l)
      PROVE  PlanesFit'
  BY <1>1, <1>3 DEF OutputCreate, OutputDestroy, SetCompositionLayer, links
<1>4. ASSUME NEW o \in Outputs, NEW l \in Layers, LayerCreate(o, l) PROVE PlanesFit'
  <2>1. /\ owner[l] = NULL /\ layer_plane' = layer_plane
        /\ layer' = [layer EXCEPT ![l] = NewLayer]
    BY <1>4 DEF LayerCreate
  <2>2. layer_plane[l] = NULL
    <3> SUFFICES ASSUME layer_plane[l] # NULL PROVE FALSE
      OBVIOUS
    <3>1. layer_plane[l] \in Planes /\ plane_layer[layer_plane[l]] = l
      BY <1>0 DEF LinksInv, LinksConsistent, LinksTypeOK
    <3>2. owner[l] \in outputs
      BY <3>1, NullAssumption DEF LinksInv, LinksConsistent
    <3> QED BY <1>0, <2>1, <3>2, NullAssumption DEF LinksTypeOK
  <2>3. \A k \in Layers \ {l} : layer'[k] = layer[k]
    BY <1>0, <2>1 DEF TypedLayers
  <2> QED BY <2>1, <2>2, <2>3, PlanesFitSame
<1>5. ASSUME NEW l \in Layers, LayerDestroy(l) PROVE PlanesFit'
  <2>1. layer_plane'[l] = NULL
    BY <1>0, <1>5 DEF LayerDestroy, LinksTypeOK
  <2>2. \A k \in Layers \ {l} : layer'[k] = layer[k] /\ layer_plane'[k] = layer_plane[k]
    BY <1>0, <1>5 DEF LayerDestroy, TypedLayers, LinksTypeOK
  <2> QED BY <2>1, <2>2, PlanesFitSame
<1>6. ASSUME NEW l \in Layers, NEW name \in Props, NEW v \in Values[l][name],
             SetProperty(l, name, v)
      PROVE  PlanesFit'
  <2>1. /\ layer_plane' = layer_plane /\ layer[l] \in Layer /\ v \in Nat
        /\ layer'[l] = WithProperty(layer[l], name, v)
        /\ \A k \in Layers \ {l} : layer'[k] = layer[k]
    BY <1>0, <1>6, PropsAssumption DEF SetProperty, links, TypedLayers
  <2>2. \/ layer'[l].changed
        \/ Old(layer'[l]) = Old(layer[l]) /\ (layer[l].changed => layer'[l].changed)
    BY <2>1, WithPropertyOld
  <2> QED BY <2>1, <2>2, PlanesFitSame
<1>7. ASSUME NEW l \in Layers, SetFbComposited(l) PROVE PlanesFit'
  <2>1. /\ layer_plane' = layer_plane /\ layer'[l].changed
        /\ \A k \in Layers \ {l} : layer'[k] = layer[k]
    BY <1>0, <1>7 DEF SetFbComposited, TypedLayers, WithProperty, Layer, links
  <2> QED BY <2>1, PlanesFitSame
<1>8. CASE Stop
  BY <1>1, <1>8 DEF Stop, vars, links
<1> QED BY <1>2, <1>3, <1>4, <1>5, <1>6, <1>7, <1>8 DEF NoSearch

OneOutput == \A o, q \in Outputs : o = q

\* Reusing the mapping: nothing has changed that its planes would not take.
LEMMA ReuseApplicable ==
    ASSUME LinksInv, PriorityInv, PlanesFit, OneOutput, NEW o \in Outputs, CanReuse(o)
    PROVE  Applicable(plane_layer)
<1>0. TypedLayers /\ LinksTypeOK
  BY Typed DEF LinksInv
<1> SUFFICES ASSUME NEW p \in planes, plane_layer[p] # NULL
             PROVE  Supports(p, plane_layer[p])
  BY DEF Applicable
<1>1. PICK l \in Layers : l = plane_layer[p]
  BY <1>0 DEF LinksTypeOK
<1>2. p \in Planes /\ layer_plane[l] = p /\ owner[l] \in Outputs
  BY <1>0, <1>1 DEF LinksInv, LinksConsistent, LinksTypeOK
<1>3. l \in LayersOf(o)
  BY <1>2 DEF OneOutput, LayersOf
<1>4. ~LayerNeedsRealloc(l) /\ ~layer[l].changed
  BY <1>3 DEF CanReuse, LayerNeedsRealloc
<1>5. p # NULL
  BY <1>2, NullAssumption
<1>6. PlaneSupports(p, Old(layer[l]))
  BY <1>2, <1>4, <1>5 DEF PlanesFit
<1> QED BY <1>0, <1>1, <1>4, <1>6, StillSupports

\* A new mapping: the search has asked each plane.
LEMMA ReallocApplicable ==
    ASSUME LinksInv, OneOutput, NEW o \in outputs, NEW m \in SearchResults(o, Busy(o))
    PROVE  Applicable(MapPlanes(o, m))
<1> SUFFICES ASSUME NEW p \in planes, MapPlanes(o, m)[p] # NULL
             PROVE  Supports(p, MapPlanes(o, m)[p])
  BY DEF Applicable
<1>0. LinksTypeOK /\ p \in Planes
  BY DEF LinksInv, LinksTypeOK
<1>1. ClearedPlanes(o)[p] = NULL
  <2> SUFFICES ASSUME ClearedPlanes(o)[p] # NULL PROVE FALSE
    OBVIOUS
  <2>1. plane_layer[p] # NULL /\ owner[plane_layer[p]] # o
    BY <1>0, ClearedLinks DEF ClearedPlanes
  <2>2. owner[plane_layer[p]] \in Outputs /\ o \in Outputs
    BY <1>0, <2>1 DEF LinksInv, LinksConsistent, LinksTypeOK
  <2> QED BY <2>1, <2>2 DEF OneOutput
<1>2. p \in DOMAIN m /\ m[p] # NULL /\ MapPlanes(o, m)[p] = m[p]
  BY <1>0, <1>1 DEF MapPlanes
<1> QED BY <1>2 DEF SearchResults

LEMMA PlanesFitRealloc ==
    ASSUME LinksInv, PriorityInv, PlanesFit, OneOutput, NEW o \in Outputs, Realloc(o)
    PROVE  PlanesFit'
<1>0. TypedLayers /\ LinksTypeOK
  BY Typed DEF LinksInv
<1>1. layer' = CleanLayers(o, PrioritizedLayers) /\ o \in outputs
  BY DEF Realloc, NoReuse, ApplyStarts
<1>2. PICK m \in SearchResults(o, Busy(o)) : layer_plane' = MapLayers(o, m)
  BY DEF Realloc, Adopt
<1> SUFFICES ASSUME NEW l \in Layers, layer_plane'[l] # NULL
             PROVE  PlaneSupports(layer_plane'[l], Old(layer'[l]))
  BY DEF PlanesFit, PlaneSupports
<1>3. ClearedLayers(o)[l] = NULL
  <2> SUFFICES ASSUME ClearedLayers(o)[l] # NULL PROVE FALSE
    OBVIOUS
  <2>1. layer_plane[l] # NULL /\ owner[l] # o
    BY <1>1, ClearedLinks
  <2>2. layer_plane[l] \in Planes /\ plane_layer[layer_plane[l]] = l
    BY <1>0, <2>1 DEF LinksInv, LinksConsistent, LinksTypeOK
  <2>3. owner[l] \in Outputs
    BY <1>0, <2>2, NullAssumption DEF LinksInv, LinksConsistent, LinksTypeOK
  <2> QED BY <2>1, <2>3 DEF OneOutput
<1>4. layer_plane'[l] \in DOMAIN m /\ m[layer_plane'[l]] = l
  <2>1. \E p \in DOMAIN m : m[p] = l
    BY <1>2, <1>3 DEF MapLayers
  <2>2. layer_plane'[l] = CHOOSE p \in DOMAIN m : m[p] = l
    BY <1>2, <2>1 DEF MapLayers
  <2> QED BY <2>1, <2>2
<1>5. l # NULL
  BY NullAssumption
<1>6. Supports(layer_plane'[l], l) /\ owner[l] = o
  BY <1>4, <1>5 DEF SearchResults, LayersOf
<1>7. Old(layer'[l]).value = layer[l].value
  BY <1>0, <1>1, <1>6, CleanOld
<1> QED BY <1>6, <1>7 DEF Supports, PlaneSupports

LEMMA NoAbortNext ==
    ~MayFail /\ OneOutput /\ LinksInv /\ PriorityInv /\ PlanesFit /\ ~Aborted /\ [Next]_vars
        => PlanesFit' /\ ~Aborted'
<1> SUFFICES ASSUME ~MayFail, OneOutput, LinksInv, PriorityInv, PlanesFit, ~Aborted, [Next]_vars
             PROVE  PlanesFit' /\ ~Aborted'
  OBVIOUS
<1>1. ASSUME NEW o \in Outputs, Reuse(o) PROVE PlanesFit' /\ ~Aborted'
  <2>1. /\ layer' = PrioritizedLayers /\ layer_plane' = layer_plane
        /\ result' = [output |-> o, ret |-> "ok"]
    BY <1>1 DEF Reuse
  <2>2. \A l \in Layers : SameDisplay(layer[l], layer'[l])
    BY <2>1, Typed, PrioritizedSame
  <2>3. \A l \in Layers : Old(layer'[l]) = Old(layer[l]) /\ (layer[l].changed => layer'[l].changed)
    BY <2>2 DEF SameDisplay, Old
  <2> QED BY <2>1, <2>3, PlanesFitSame DEF Aborted
<1>2. ASSUME NEW o \in Outputs PROVE ~ReuseAborts(o) /\ ~ReallocFails(o)
  BY ReuseApplicable DEF ReuseAborts, ReallocFails
<1>3. ASSUME NEW o \in Outputs PROVE ~ReallocAborts(o) /\ ~ReallocFailsLate(o)
  BY ReallocApplicable DEF ReallocAborts, ReallocFailsLate, NoReuse, ApplyStarts
<1>4. ASSUME NEW o \in Outputs, Realloc(o) PROVE PlanesFit' /\ ~Aborted'
  BY <1>4, PlanesFitRealloc DEF Realloc, Aborted
<1>5. CASE NoSearch /\ ~\E o \in Outputs : Reuse(o)
  <2>1. PlanesFit'
    BY <1>2, <1>5, PlanesFitCalls
  <2>2. ASSUME NEW p \in Planes, PlaneCreate(p) \/ PlaneDestroy(p) PROVE Call
    BY <2>2 DEF PlaneCreate, PlaneDestroy
  <2>3. ASSUME NEW o \in Outputs, OutputCreate(o) \/ OutputDestroy(o) PROVE Call
    BY <2>3 DEF OutputCreate, OutputDestroy
  <2>4. ASSUME NEW o \in Outputs, NEW l \in Layers,
               LayerCreate(o, l) \/ SetCompositionLayer(o, l)
        PROVE  Call
    BY <2>4 DEF LayerCreate, SetCompositionLayer
  <2>5. ASSUME NEW l \in Layers, LayerDestroy(l) \/ SetFbComposited(l) PROVE Call
    BY <2>5 DEF LayerDestroy, SetFbComposited
  <2>6. ASSUME NEW l \in Layers, NEW name \in Props, NEW v \in Values[l][name],
               SetProperty(l, name, v)
        PROVE  Call
    BY <2>6 DEF SetProperty
  <2>7. Call
    BY <1>2, <1>5, <2>2, <2>3, <2>4, <2>5, <2>6 DEF NoSearch, Stop
  <2> QED BY <2>1, <2>7 DEF Call, Aborted, NoResult
<1>6. CASE UNCHANGED vars
  <2>1. UNCHANGED <<layer, layer_plane, result>>
    BY <1>6 DEF vars, links
  <2> QED BY <2>1, PlanesFitSame DEF Aborted
<1> QED BY <1>1, <1>3, <1>4, <1>5, <1>6 DEF Next, Search

\* With one output, and as long as no apply fails, the assertion of apply_current
\* does not fail in any program that uses the library as intended: no plane ever
\* lacks what its layer has come to need (alloc.c:486).
THEOREM NoAssertionFailsHolds ==
    ~MayFail /\ OneOutput => (Spec => []NoAssertionFails)
<1> SUFFICES ASSUME ~MayFail, OneOutput PROVE Spec => []NoAssertionFails
  OBVIOUS
<1>1. Init => PlanesFit /\ ~Aborted
  BY DEF Init, PlanesFit, Aborted, NoResult
<1>2. LinksInv /\ PriorityInv /\ PlanesFit /\ ~Aborted /\ [Next]_vars => PlanesFit' /\ ~Aborted'
  BY NoAbortNext
<1>3. ~Aborted => NoAssertionFails
  BY DEF NoAssertionFails
<1> QED BY <1>1, <1>2, <1>3, PriorityAlways, PTL DEF Spec

-----------------------------------------------------------------------------
(* Nothing visible gets lost                                               *)

\* As on real hardware, a primary plane belongs to one output.
PrimaryPlanesApart == \A p \in Primary : \A o, q \in Crtcs[p] : o = q

\* A plane only has layers of the outputs it can be used on.
PlacedWell ==
    \A p \in Planes : plane_layer[p] # NULL => owner[plane_layer[p]] \in Crtcs[p]

\* The composition layer c of output o fits a primary plane, for layers given by
\* their members.
Fits(o, c, f) ==
    /\ c # NULL
    /\ Visible(f[c]) /\ ~f[c].forced
    /\ \E p \in Primary : o \in Crtcs[p] /\ PlaneSupports(p, f[c])

\* Of the layers ls, one of which may be the composition layer c, nothing visible
\* has neither a plane nor a displayed composition layer.
Shown(ls, c, f, at) ==
    \/ at[c] # NULL
    \/ \A l \in ls \ {c} : Visible(f[l]) => at[l] # NULL

\* The planes of output o may show their layers, and only a primary plane has the
\* composition layer.
PlacedAsFound(o, f) ==
    \A p \in Planes : MappedBy(o, p) =>
        LET l == plane_layer[p]
        IN  /\ Visible(f[l]) /\ ~f[l].forced
            /\ PlaneSupports(p, f[l])
            /\ l = composition[o] => p \in Primary

\* Something asks for a new allocation, or the planes could show what they have,
\* and nothing visible was lost, as the layers were when they were marked clean.
Kept(o) ==
    \/ layers_changed[o]
    \/ \E l \in LayersOf(o) : layer[l].changed
    \/ /\ PlacedAsFound(o, OldLayers)
       /\ Fits(o, composition[o], OldLayers)
             => Shown(LayersOf(o), composition[o], OldLayers, layer_plane)

LossInv ==
    /\ planes = Planes
    /\ Aborted \/ (PlacedWell /\ \A o \in Outputs : Kept(o))
    /\ NothingLost

LEMMA SetUpInv == SetUp => LinksInv /\ PriorityInv
<1> SUFFICES ASSUME SetUp PROVE LinksInv /\ PriorityInv
  OBVIOUS
<1>1. LinksInv
  BY NullAssumption DEF SetUp, LinksInv, LinksTypeOK, LinksConsistent
<1>2. \A l \in Layers : layer[l] = NewLayer
  BY DEF SetUp
<1>3. PriorityInv
  BY <1>2, NewLayerType, PeriodAssumption
  DEF SetUp, PriorityInv, TypeOK, LayerAt, NoResult
<1> QED BY <1>1, <1>3

\* The composition layer is one of the output's, if the output has any.
LEMMA OwnComposition ==
    ASSUME LinksInv, NEW o \in Outputs
    PROVE  composition[o] = NULL \/ composition[o] \in LayersOf(o) \/ LayersOf(o) = {}
<1>1. CASE o \in outputs
  BY <1>1 DEF LinksInv, LinksConsistent, LinksTypeOK, LayersOf
<1>2. CASE o \notin outputs
  BY <1>2, NullAssumption DEF LinksInv, LinksConsistent, LinksTypeOK, LayersOf
<1> QED BY <1>1, <1>2

\* A step that keeps an output's layers and their planes, and leaves each layer
\* changed or as it was, hides nothing.
LEMMA KeptSame ==
    ASSUME LinksInv, LinksInv', NEW o \in Outputs, Kept(o),
           layers_changed[o] => layers_changed'[o],
           LayersOf(o)' = LayersOf(o), composition'[o] = composition[o],
           \A l \in LayersOf(o) :
              /\ layer_plane'[l] = layer_plane[l]
              /\ \/ layer'[l].changed
                 \/ /\ Old(layer'[l]) = Old(layer[l])
                    /\ layer[l].changed => layer'[l].changed
    PROVE  Kept(o)'
<1> DEFINE c == composition[o]
<1> SUFFICES ASSUME ~layers_changed'[o], \A l \in LayersOf(o) : ~layer'[l].changed
             PROVE  /\ PlacedAsFound(o, OldLayers)'
                    /\ Fits(o, c, OldLayers') => Shown(LayersOf(o), c, OldLayers', layer_plane')
  BY DEF Kept, Fits, Shown
<1>1. \A l \in LayersOf(o) : /\ l \in Layers /\ ~layer[l].changed
                             /\ OldLayers'[l] = OldLayers[l]
                             /\ layer_plane'[l] = layer_plane[l]
  BY DEF OldLayers, LayersOf
<1>2. /\ PlacedAsFound(o, OldLayers)
      /\ Fits(o, c, OldLayers) => Shown(LayersOf(o), c, OldLayers, layer_plane)
  BY <1>1 DEF Kept
<1>3. PlacedAsFound(o, OldLayers)'
  <2> SUFFICES ASSUME NEW p \in Planes, MappedBy(o, p)',
                      NEW l, l = plane_layer'[p]
               PROVE  /\ Visible(OldLayers'[l]) /\ ~OldLayers'[l].forced
                      /\ PlaneSupports(p, OldLayers'[l])
                      /\ l = c => p \in Primary
    BY DEF PlacedAsFound
  <2>1. l \in LayersOf(o)' /\ layer_plane'[l] = p /\ p # NULL
    BY NullAssumption DEF MappedBy, LayersOf, LinksInv, LinksTypeOK, LinksConsistent
  <2>2. plane_layer[p] = l /\ l # NULL /\ owner[l] = o
    BY <1>1, <2>1, NullAssumption DEF LayersOf, LinksInv, LinksConsistent
  <2> QED BY <1>1, <1>2, <2>1, <2>2 DEF PlacedAsFound, MappedBy
<1>4. ASSUME Fits(o, c, OldLayers') PROVE Shown(LayersOf(o), c, OldLayers', layer_plane')
  <2>1. CASE LayersOf(o) = {}
    BY <2>1 DEF Shown
  <2>2. CASE c \in LayersOf(o)
    <3>1. Shown(LayersOf(o), c, OldLayers, layer_plane)
      BY <1>1, <1>2, <1>4, <2>2 DEF Fits
    <3> QED BY <1>1, <2>2, <3>1 DEF Shown
  <2> QED BY <1>4, <2>1, <2>2, OwnComposition DEF Fits
<1> QED BY <1>3, <1>4

\* A plane that keeps its layer, with its output, or loses it.
LEMMA PlacedSame ==
    ASSUME PlacedWell,
           \A p \in Planes : plane_layer'[p] # NULL =>
              /\ plane_layer'[p] = plane_layer[p]
              /\ owner'[plane_layer[p]] = owner[plane_layer[p]]
    PROVE  PlacedWell'
BY DEF PlacedWell

LEMMA LossCalls ==
    ASSUME LinksInv, LinksInv', PriorityInv, LossInv, NoSearch, ~MayDestroyPlanes,
           ~\E o \in Outputs : Reuse(o) \/ ReuseAborts(o) \/ ReallocFails(o)
    PROVE  LossInv'
<1>0. TypedLayers /\ LinksTypeOK /\ layers_changed \in [Outputs -> BOOLEAN]
  BY Typed DEF LinksInv, PriorityInv, TypeOK
<1>1. ASSUME Call, planes' = planes, PlacedWell => PlacedWell',
             \A o \in Outputs : Kept(o) => Kept(o)'
      PROVE  LossInv'
  <2>1. PlacedWell' /\ \A o \in Outputs : Kept(o)'
    BY <1>1 DEF LossInv, Call
  <2>2. result' = NoResult
    BY <1>1 DEF Call
  <2> QED BY <1>1, <2>1, <2>2, NullAssumption DEF LossInv, NothingLost, AppliedOk, NoResult
<1>2. ASSUME UNCHANGED <<owner, plane_layer>>, PlacedWell PROVE PlacedWell'
  BY <1>2 DEF PlacedWell
<1>3. ASSUME UNCHANGED <<owner, layer, layer_plane>>, NEW o \in Outputs,
             composition'[o] = composition[o], layers_changed'[o] = layers_changed[o], Kept(o)
      PROVE  Kept(o)'
  <2>1. LayersOf(o)' = LayersOf(o)
    BY <1>3 DEF LayersOf
  <2> QED BY <1>3, <2>1, KeptSame
<1>4. ASSUME NEW p \in Planes PROVE ~PlaneCreate(p) /\ ~PlaneDestroy(p)
  BY DEF LossInv, PlaneCreate, PlaneDestroy
<1>5. ASSUME NEW o \in Outputs, OutputDestroy(o) PROVE LossInv'
  <2>1. /\ UNCHANGED <<owner, plane_layer, layer, layer_plane, composition, layers_changed>>
        /\ planes' = planes /\ Call
    BY <1>5 DEF OutputDestroy
  <2> QED BY <1>1, <1>2, <1>3, <2>1
<1>6. ASSUME NEW new \in Outputs, OutputCreate(new) PROVE LossInv'
  <2>1. /\ Call /\ UNCHANGED <<planes, owner, plane_layer, layer, layer_plane>>
        /\ composition' = [composition EXCEPT ![new] = NULL]
        /\ layers_changed' = [layers_changed EXCEPT ![new] = FALSE]
    BY <1>6 DEF OutputCreate
  <2>2. composition'[new] = NULL
    BY <1>0, <2>1 DEF LinksTypeOK
  <2>3. Kept(new)'
    <3>1. new \notin outputs
      BY <1>6 DEF OutputCreate
    <3>2. \A p \in Planes : plane_layer[p] # NULL => owner[plane_layer[p]] # new
      BY <3>1 DEF LinksInv, LinksConsistent
    <3> QED BY <2>1, <2>2, <3>2 DEF Kept, Fits, PlacedAsFound, MappedBy
  <2>4. \A o \in Outputs \ {new} : /\ composition'[o] = composition[o]
                                   /\ layers_changed'[o] = layers_changed[o]
    BY <1>0, <2>1 DEF LinksTypeOK
  <2> QED BY <1>1, <1>2, <1>3, <2>1, <2>3, <2>4
<1>7. ASSUME NEW at \in Outputs, NEW l \in Layers, SetCompositionLayer(at, l) PROVE LossInv'
  <2>1. /\ Call /\ UNCHANGED <<planes, owner, plane_layer, layer, layer_plane>>
        /\ composition' = [composition EXCEPT ![at] = l]
        /\ layers_changed' = [layers_changed EXCEPT ![at] = @ \/ l # composition[at]]
    BY <1>7 DEF SetCompositionLayer, links
  <2>2. ASSUME NEW o \in Outputs
        PROVE  \/ layers_changed'[o] = TRUE
               \/ composition'[o] = composition[o] /\ layers_changed'[o] = layers_changed[o]
    BY <1>0, <2>1 DEF LinksTypeOK
  <2>3. ASSUME NEW o \in Outputs, layers_changed'[o] = TRUE PROVE Kept(o)'
    BY <2>3 DEF Kept
  <2> QED BY <1>1, <1>2, <1>3, <2>1, <2>2, <2>3
<1>8. ASSUME NEW at \in Outputs, NEW l \in Layers, LayerCreate(at, l) PROVE LossInv'
  <2>1. /\ Call /\ UNCHANGED <<planes, plane_layer, layer_plane, composition>> /\ owner[l] = NULL
        /\ owner' = [owner EXCEPT ![l] = at]
        /\ layer' = [layer EXCEPT ![l] = NewLayer]
        /\ layers_changed' = [layers_changed EXCEPT ![at] = TRUE]
    BY <1>8 DEF LayerCreate
  <2>2. Kept(at)'
    <3>1. layers_changed'[at] = TRUE
      BY <1>0, <2>1
    <3> QED BY <3>1 DEF Kept
  <2>3. ASSUME NEW o \in Outputs, o # at, Kept(o) PROVE Kept(o)'
    <3>1. LayersOf(o)' = LayersOf(o) /\ l \notin LayersOf(o)
      BY <1>0, <2>1, <2>3, NullAssumption DEF LayersOf, LinksTypeOK
    <3>2. layers_changed'[o] = layers_changed[o]
      BY <1>0, <2>1, <2>3
    <3>3. \A k \in LayersOf(o) : layer'[k] = layer[k]
      BY <1>0, <2>1, <3>1 DEF LayersOf, TypedLayers
    <3> QED BY <2>1, <2>3, <3>1, <3>2, <3>3, KeptSame
  <2>4. ASSUME NEW p \in Planes, plane_layer[p] # NULL
        PROVE  owner'[plane_layer[p]] = owner[plane_layer[p]]
    <3>1. owner[plane_layer[p]] \in outputs /\ plane_layer[p] \in Layers
      BY <1>0, <2>4 DEF LinksInv, LinksConsistent, LinksTypeOK
    <3>2. plane_layer[p] # l
      BY <1>0, <2>1, <3>1, NullAssumption DEF LinksTypeOK
    <3> QED BY <1>0, <2>1, <3>1, <3>2 DEF LinksTypeOK
  <2> QED BY <1>1, <2>1, <2>2, <2>3, <2>4, PlacedSame
<1>9. ASSUME NEW l \in Layers, LayerDestroy(l) PROVE LossInv'
  <2>0. PICK at \in Outputs : at = owner[l]
    BY <1>0, <1>9 DEF LayerDestroy, LinksTypeOK
  <2>1. /\ Call /\ UNCHANGED planes
        /\ owner' = [owner EXCEPT ![l] = NULL]
        /\ layer' = [layer EXCEPT ![l] = NewLayer]
        /\ plane_layer' = IF layer_plane[l] = NULL THEN plane_layer
                          ELSE [plane_layer EXCEPT ![layer_plane[l]] = NULL]
        /\ layer_plane' = [layer_plane EXCEPT ![l] = NULL]
        /\ composition' = [composition EXCEPT ![at] = IF @ = l THEN NULL ELSE @]
        /\ layers_changed' = [layers_changed EXCEPT ![at] = TRUE]
    BY <1>9, <2>0 DEF LayerDestroy
  <2>2. Kept(at)'
    <3>1. layers_changed'[at] = TRUE
      BY <1>0, <2>1
    <3> QED BY <3>1 DEF Kept
  <2>3. ASSUME NEW o \in Outputs, o # at, Kept(o) PROVE Kept(o)'
    <3>1. LayersOf(o)' = LayersOf(o) /\ l \notin LayersOf(o)
      BY <1>0, <2>0, <2>1, <2>3, NullAssumption DEF LayersOf, LinksTypeOK
    <3>2. layers_changed'[o] = layers_changed[o] /\ composition'[o] = composition[o]
      BY <1>0, <2>1, <2>3 DEF LinksTypeOK
    <3>3. \A k \in LayersOf(o) : layer'[k] = layer[k] /\ layer_plane'[k] = layer_plane[k]
      BY <1>0, <2>1, <3>1 DEF LayersOf, TypedLayers, LinksTypeOK
    <3> QED BY <2>3, <3>1, <3>2, <3>3, KeptSame
  <2>4. ASSUME NEW p \in Planes, plane_layer'[p] # NULL
        PROVE  /\ plane_layer'[p] = plane_layer[p]
               /\ owner'[plane_layer[p]] = owner[plane_layer[p]]
    <3>1. plane_layer'[p] = plane_layer[p] /\ (layer_plane[l] # NULL => p # layer_plane[l])
      BY <1>0, <2>1, <2>4 DEF LinksTypeOK
    <3>2. layer_plane[plane_layer[p]] = p /\ plane_layer[p] \in Layers /\ p # NULL
      BY <1>0, <2>4, <3>1, NullAssumption DEF LinksInv, LinksConsistent, LinksTypeOK
    <3>3. plane_layer[p] # l
      BY <3>1, <3>2
    <3> QED BY <1>0, <2>1, <3>1, <3>2, <3>3 DEF LinksTypeOK
  <2> QED BY <1>1, <2>1, <2>2, <2>3, <2>4, PlacedSame
\* What is set on one layer.
<1>10. ASSUME Call, NEW l \in Layers, NEW new, layer' = [layer EXCEPT ![l] = new],
              UNCHANGED <<links, composition, layers_changed>>,
              \/ new.changed
              \/ Old(new) = Old(layer[l]) /\ (layer[l].changed => new.changed)
       PROVE  LossInv'
  <2>1. UNCHANGED <<planes, owner, plane_layer, layer_plane>>
    BY <1>10 DEF links
  <2>2. ASSUME NEW o \in Outputs, Kept(o) PROVE Kept(o)'
    <3>1. LayersOf(o)' = LayersOf(o)
      BY <2>1 DEF LayersOf
    <3>2. \A k \in LayersOf(o) : IF k = l THEN layer'[k] = new ELSE layer'[k] = layer[k]
      BY <1>0, <1>10 DEF LayersOf, TypedLayers
    <3> QED BY <1>10, <2>1, <2>2, <3>1, <3>2, KeptSame
  <2> QED BY <1>1, <1>2, <1>10, <2>1, <2>2
<1>11. ASSUME NEW l \in Layers, NEW name \in Props, NEW v \in Values[l][name],
              SetProperty(l, name, v)
       PROVE  LossInv'
  <2> DEFINE new == WithProperty(layer[l], name, v)
  <2>1. /\ Call /\ layer' = [layer EXCEPT ![l] = new]
        /\ UNCHANGED <<links, composition, layers_changed>>
    BY <1>11 DEF SetProperty
  <2>2. layer[l] \in Layer /\ v \in Nat
    BY <1>0, PropsAssumption DEF TypedLayers
  <2>3. \/ new.changed
        \/ Old(new) = Old(layer[l]) /\ (layer[l].changed => new.changed)
    BY <2>2, WithPropertyOld
  <2> HIDE DEF new
  <2> QED BY <1>10, <2>1, <2>3
<1>12. ASSUME NEW l \in Layers, SetFbComposited(l) PROVE LossInv'
  <2> DEFINE new == [WithProperty(layer[l], "FB_ID", 0) EXCEPT !.forced = TRUE, !.changed = TRUE]
  <2>1. /\ Call /\ layer' = [layer EXCEPT ![l] = new]
        /\ UNCHANGED <<links, composition, layers_changed>>
    BY <1>12 DEF SetFbComposited
  <2>2. new.changed
    BY <1>0 DEF WithProperty, Layer, TypedLayers
  <2> HIDE DEF new
  <2> QED BY <1>10, <2>1, <2>2
<1>13. CASE Stop
  <2>1. /\ UNCHANGED <<planes, result>> /\ Aborted
    BY <1>13 DEF Stop, vars, links
  <2> QED BY <2>1 DEF LossInv, Aborted, NothingLost, AppliedOk
<1> QED BY <1>4, <1>5, <1>6, <1>7, <1>8, <1>9, <1>11, <1>12, <1>13 DEF NoSearch

\* A plane that takes a layer which needs no new allocation took it before.
LEMMA SupportedBefore ==
    ASSUME TypedLayers, NEW l \in Layers, NEW p, Supports(p, l), ~LayerNeedsRealloc(l)
    PROVE  PlaneSupports(p, Old(layer[l]))
<1> DEFINE lay == layer[l]
           old == Old(lay)
<1>0. /\ lay.value \in PropValues /\ lay.prev \in [Props -> Nat]
      /\ \A n \in Props : old.value[n] = IF lay.value[n] = NoProp THEN NoProp ELSE lay.prev[n]
  BY DEF TypedLayers, Layer, Old
<1>1. \A n \in Props : lay.value[n] = old.value[n]
                       \/ /\ lay.value[n] # NoProp /\ old.value[n] # NoProp
                          /\ ~PropNeedsRealloc(n, lay.value[n], old.value[n])
  BY <1>0, PropsAssumption DEF LayerNeedsRealloc
<1> HIDE DEF lay, old
<1> SUFFICES ASSUME NEW name \in Props \ {"zpos"}
             PROVE  \/ old.value[name] = NoProp
                    \/ name \in Supported[p]
                    \/ name = "alpha" /\ old.value[name] = OPAQUE
                    \/ name = "rotation" /\ old.value[name] = ROTATE_0
  BY DEF PlaneSupports, old, lay
<1>2. \/ lay.value[name] = NoProp
      \/ name \in Supported[p]
      \/ name = "alpha" /\ lay.value[name] = OPAQUE
      \/ name = "rotation" /\ lay.value[name] = ROTATE_0
  BY DEF Supports, lay
<1>3. CASE lay.value[name] # old.value[name]
  <2>1. lay.value[name] # NoProp /\ ~PropNeedsRealloc(name, lay.value[name], old.value[name])
    BY <1>1, <1>3
  <2> QED BY <1>2, <2>1 DEF PropNeedsRealloc, AlphaNeedsRealloc
<1> QED BY <1>2, <1>3

\* A mapping that is reused is as good now as when it was found: nothing has
\* changed for its planes, nor for what there is to show.
LEMMA ReuseFound ==
    ASSUME LinksInv, PriorityInv, LossInv, ~Aborted, NEW at \in Outputs, CanReuse(at)
    PROVE  /\ PlacedAsFound(at, layer)
           /\ Fits(at, composition[at], layer)
                 => Shown(LayersOf(at), composition[at], layer, layer_plane)
<1> DEFINE c == composition[at]
<1>0. TypedLayers
  BY Typed
<1>1. \A k \in LayersOf(at) : k \in Layers /\ ~LayerNeedsRealloc(k) /\ ~layer[k].changed
  BY DEF CanReuse, LayersOf, LayerNeedsRealloc
<1>2. \A k \in LayersOf(at) : SameView(OldLayers[k], layer[k])
  BY <1>0, <1>1, OldSameView DEF OldLayers
<1>3. ASSUME NEW k \in LayersOf(at), NEW p
      PROVE  PlaneSupports(p, OldLayers[k]) <=> PlaneSupports(p, layer[k])
  <2>1. k \in Layers /\ ~LayerNeedsRealloc(k) /\ OldLayers[k] = Old(layer[k])
    BY <1>1 DEF OldLayers
  <2>2. Supports(p, k) <=> PlaneSupports(p, layer[k])
    BY DEF Supports, PlaneSupports
  <2> QED BY <1>0, <2>1, <2>2, StillSupports, SupportedBefore
<1>4. /\ PlacedAsFound(at, OldLayers)
      /\ Fits(at, c, OldLayers) => Shown(LayersOf(at), c, OldLayers, layer_plane)
  BY <1>1 DEF LossInv, Kept, CanReuse
<1>5. PlacedAsFound(at, layer)
  <2> SUFFICES ASSUME NEW p \in Planes, MappedBy(at, p), NEW l, l = plane_layer[p]
               PROVE  /\ Visible(layer[l]) /\ ~layer[l].forced
                      /\ PlaneSupports(p, layer[l])
                      /\ l = c => p \in Primary
    BY DEF PlacedAsFound
  <2>1. l \in LayersOf(at)
    BY DEF MappedBy, LayersOf, LinksInv, LinksTypeOK
  <2> QED BY <1>2, <1>3, <1>4, <2>1 DEF PlacedAsFound, SameView
<1>6. ASSUME Fits(at, c, layer) PROVE Shown(LayersOf(at), c, layer, layer_plane)
  <2>1. CASE LayersOf(at) = {}
    BY <2>1 DEF Shown
  <2>2. CASE c \in LayersOf(at)
    <3>1. Fits(at, c, OldLayers)
      BY <1>2, <1>3, <1>6, <2>2 DEF Fits, SameView
    <3> QED BY <1>2, <1>4, <3>1 DEF Shown, SameView
  <2> QED BY <1>6, <2>1, <2>2, OwnComposition DEF Fits
<1> QED BY <1>5, <1>6

LEMMA LossReuse ==
    ASSUME LinksInv, LinksInv', PriorityInv, LossInv, NEW at \in Outputs, Reuse(at)
    PROVE  LossInv'
<1>0. TypedLayers
  BY Typed
<1>1. /\ CanReuse(at) /\ layer' = PrioritizedLayers /\ result' = [output |-> at, ret |-> "ok"]
      /\ UNCHANGED <<planes, outputs, owner, composition, layers_changed>> /\ ~Aborted
      /\ UNCHANGED <<plane_layer, layer_plane>>
  BY DEF Reuse, ApplyStarts
<1>2. \A l \in Layers : SameDisplay(layer[l], layer'[l])
  BY <1>0, <1>1, PrioritizedSame
<1>3. ASSUME NEW o \in Outputs PROVE Kept(o)'
  <2>1. Kept(o) /\ LayersOf(o)' = LayersOf(o)
    BY <1>1 DEF LossInv, LayersOf
  <2>2. \A l \in LayersOf(o) : Old(layer'[l]) = Old(layer[l])
                               /\ (layer[l].changed => layer'[l].changed)
    BY <1>2 DEF SameDisplay, Old, LayersOf
  <2> QED BY <1>1, <2>1, <2>2, KeptSame
<1>4. PlacedWell'
  BY <1>1 DEF LossInv, PlacedWell
<1>5. NothingLost'
  <2> DEFINE c == composition[at]
  <2> SUFFICES ASSUME CanFallBack(at)', layer_plane[c] = NULL,
                      NEW l \in LayersOf(at) \ {c}, LayerNeedsComposition(l)'
               PROVE  FALSE
    BY <1>1 DEF NothingLost, AppliedOk, LayersOf
  <2>1. \A k \in Layers : layer'[k].value = layer[k].value /\ layer'[k].forced = layer[k].forced
    BY <1>2 DEF SameDisplay
  <2>2. c \in LayersOf(at)
    <3>1. c # NULL
      BY <1>1 DEF CanFallBack
    <3>2. l \in LayersOf(at)
      OBVIOUS
    <3> QED BY <3>1, <3>2, OwnComposition
  <2>3. Visible(layer[c]) /\ ~layer[c].forced
    BY <1>1, <2>1, <2>2 DEF CanFallBack, LayerIsVisible, LayerHasFb, Get, Visible, Val, LayersOf
  <2>4. PICK p \in Primary : at \in Crtcs[p] /\ PlaneSupports(p, layer[c])
    BY <1>1, <2>1, <2>2 DEF CanFallBack, Supports, PlaneSupports, LayersOf
  <2>5. Fits(at, c, layer)
    BY <1>1, <2>3, <2>4 DEF Fits, CanFallBack
  <2>6. Visible(layer[l]) /\ layer_plane[l] = NULL
    BY <1>1, <2>1
    DEF LayerNeedsComposition, LayerIsVisible, LayerHasFb, Get, Visible, Val, LayersOf
  <2> QED BY <1>1, <2>5, <2>6, ReuseFound DEF Shown
<1> QED BY <1>1, <1>3, <1>4, <1>5 DEF LossInv

\* The planes a search maps have layers of its output.
LEMMA LossAdopt ==
    ASSUME LinksInv, PlacedWell, NEW o \in outputs, NEW m \in SearchResults(o, Busy(o)),
           Adopt(o, m), owner' = owner
    PROVE  /\ PlacedWell'
           /\ \A p \in Planes : MappedBy(o, p)' => p \in DOMAIN m /\ plane_layer'[p] = m[p]
           /\ \A p \in DOMAIN m : m[p] # NULL => layer_plane'[m[p]] # NULL
           /\ \A l \in Layers : owner[l] # o => layer_plane'[l] = layer_plane[l]
<1>0. LinksTypeOK
  BY DEF LinksInv
<1>1. plane_layer' = MapPlanes(o, m) /\ layer_plane' = MapLayers(o, m)
  BY DEF Adopt
<1>2. /\ DOMAIN m \subseteq Planes
      /\ \A p \in DOMAIN m : m[p] # NULL => o \in Crtcs[p] /\ m[p] \in Layers /\ owner[m[p]] = o
  BY <1>0 DEF SearchResults, LinksTypeOK, LayersOf
<1>3. PlacedWell'
  <2> SUFFICES ASSUME NEW p \in Planes, plane_layer'[p] # NULL
               PROVE  owner[plane_layer'[p]] \in Crtcs[p]
    BY DEF PlacedWell
  <2>1. CASE p \in DOMAIN m /\ m[p] # NULL
    <3>1. plane_layer'[p] = m[p]
      BY <1>1, <2>1 DEF MapPlanes
    <3> QED BY <1>2, <2>1, <3>1
  <2>2. CASE ~(p \in DOMAIN m /\ m[p] # NULL)
    <3>1. plane_layer'[p] = ClearedPlanes(o)[p]
      BY <1>1, <2>2 DEF MapPlanes
    <3>2. plane_layer'[p] = plane_layer[p]
      BY <2>2, <3>1, ClearedLinks
    <3> QED BY <3>2 DEF PlacedWell
  <2> QED BY <2>1, <2>2
<1>4. ASSUME NEW p \in DOMAIN m, m[p] # NULL PROVE layer_plane'[m[p]] # NULL
  <2> DEFINE l == m[p]
  <2>1. l \in Layers
    BY <1>2, <1>4
  <2>2. layer_plane'[l] = CHOOSE q \in DOMAIN m : m[q] = l
    BY <1>1, <2>1 DEF MapLayers
  <2>3. layer_plane'[l] \in DOMAIN m
    BY <2>2
  <2> QED BY <1>2, <2>3, NullAssumption
<1>5. ASSUME NEW p \in Planes, MappedBy(o, p)' PROVE p \in DOMAIN m /\ plane_layer'[p] = m[p]
  <2> SUFFICES ASSUME ~(p \in DOMAIN m /\ m[p] # NULL) PROVE FALSE
    BY <1>1 DEF MapPlanes
  <2>1. plane_layer'[p] = ClearedPlanes(o)[p]
    BY <1>1 DEF MapPlanes
  <2>2. plane_layer'[p] # NULL /\ owner[plane_layer'[p]] = o
    BY <1>5 DEF MappedBy
  <2> QED BY <2>1, <2>2, ClearedLinks
<1> QED BY <1>1, <1>3, <1>4, <1>5, MappedLinks

\* A search that has the composition layer to fall back to loses nothing.
LEMMA LossRealloc ==
    ASSUME LinksInv, LinksInv', PriorityInv, LossInv, PrimaryPlanesApart,
           NEW at \in Outputs, Realloc(at)
    PROVE  LossInv'
<1>0. TypedLayers /\ LinksTypeOK /\ PlacedWell
  BY Typed DEF LinksInv, LossInv, Realloc, NoReuse, ApplyStarts
<1>1. /\ layer' = CleanLayers(at, PrioritizedLayers) /\ result' = [output |-> at, ret |-> "ok"]
      /\ UNCHANGED <<planes, outputs, owner, composition>> /\ ~Aborted
      /\ layers_changed' = [layers_changed EXCEPT ![at] = FALSE] /\ at \in outputs
  BY DEF Realloc, NoReuse, ApplyStarts
<1>2. PICK m \in SearchResults(at, Busy(at)) : Adopt(at, m)
  BY DEF Realloc
<1>3. /\ PlacedWell'
      /\ \A p \in Planes : MappedBy(at, p)' => p \in DOMAIN m /\ plane_layer'[p] = m[p]
      /\ \A p \in DOMAIN m : m[p] # NULL => layer_plane'[m[p]] # NULL
      /\ \A l \in Layers : owner[l] # at => layer_plane'[l] = layer_plane[l]
  BY <1>0, <1>1, <1>2, LossAdopt
<1>4. \A o \in Outputs : LayersOf(o)' = LayersOf(o)
  BY <1>1 DEF LayersOf
<1>5. ASSUME NEW o \in Outputs, o # at PROVE Kept(o)'
  <2>1. Kept(o)
    BY <1>1 DEF LossInv
  <2>2. \A l \in LayersOf(o) : /\ l \in Layers /\ SameDisplay(layer[l], layer'[l])
                               /\ layer_plane'[l] = layer_plane[l]
    BY <1>0, <1>1, <1>3, <1>5, PrioritizedSame DEF LayersOf, CleanLayers
  <2>3. \A l \in LayersOf(o) : Old(layer'[l]) = Old(layer[l])
                               /\ (layer[l].changed => layer'[l].changed)
    BY <2>2 DEF SameDisplay, Old
  <2>4. layers_changed'[o] = layers_changed[o] /\ composition'[o] = composition[o]
    BY <1>1, <1>5 DEF PriorityInv, TypeOK
  <2> QED BY <1>4, <2>1, <2>2, <2>3, <2>4, KeptSame
<1> DEFINE c == composition[at]
<1>6. \A l \in LayersOf(at) :
         /\ layer'[l].value = layer[l].value /\ layer'[l].forced = layer[l].forced
         /\ OldLayers'[l].value = layer[l].value /\ OldLayers'[l].forced = layer[l].forced
  BY <1>0, <1>1, CleanOld DEF LayersOf, OldLayers
\* What the search promises, once the layer fits a primary plane.
<1>7. Fits(at, c, layer) => Shown(LayersOf(at), c, layer, layer_plane')
  <2> SUFFICES ASSUME Fits(at, c, layer) PROVE Shown(LayersOf(at), c, layer, layer_plane')
    OBVIOUS
  <2>1. PICK p \in Primary : at \in Crtcs[p] /\ PlaneSupports(p, layer[c])
    BY DEF Fits
  <2>2. plane_layer[p] # NULL => owner[plane_layer[p]] = at
    BY <1>0, <2>1, PlanesAssumption DEF PlacedWell, PrimaryPlanesApart
  <2>3. p \in Primary \cap planes /\ Supports(p, c)
    BY <2>1, PlanesAssumption DEF LossInv, Supports, PlaneSupports
  <2>4. c # NULL /\ LayerIsVisible(c) /\ ~layer[c].forced
    BY DEF Fits, LayerIsVisible, LayerHasFb, Get, Visible, Val
  <2>5. CanFallBack(at)
    BY <2>1, <2>2, <2>3, <2>4 DEF CanFallBack
  <2>6. Covered(at, {m[q] : q \in DOMAIN m})
    BY <2>5 DEF SearchResults
  <2>7. \A l \in LayersOf(at) : LayerIsVisible(l) <=> Visible(layer[l])
    BY DEF LayerIsVisible, LayerHasFb, Get, Visible, Val
  <2>8. \A l \in {m[q] : q \in DOMAIN m} : l # NULL => layer_plane'[l] # NULL
    BY <1>3
  <2>9. \A l \in LayersOf(at) : l # NULL
    BY NullAssumption DEF LayersOf
  <2> QED BY <2>4, <2>6, <2>7, <2>8, <2>9 DEF Covered, Shown
<1>8. c # NULL => c \in LayersOf(at)
  BY <1>0, <1>1 DEF LinksInv, LinksConsistent, LinksTypeOK, LayersOf
<1>9. \A l \in LayersOf(at) :
         /\ Visible(OldLayers'[l]) <=> Visible(layer[l])
         /\ \A p : PlaneSupports(p, OldLayers'[l]) <=> PlaneSupports(p, layer[l])
  BY <1>6 DEF Visible, Val, PlaneSupports
<1>10. Kept(at)'
  <2>1. ASSUME Fits(at, c, OldLayers') PROVE Shown(LayersOf(at), c, OldLayers', layer_plane')
    <3>1. Fits(at, c, layer)
      BY <1>6, <1>8, <1>9, <2>1 DEF Fits
    <3> QED BY <1>7, <1>9, <3>1 DEF Shown
  <2>2. PlacedAsFound(at, OldLayers)'
    <3> SUFFICES ASSUME NEW p \in Planes, MappedBy(at, p)',
                        NEW l, l = plane_layer'[p]
                 PROVE  /\ Visible(OldLayers'[l]) /\ ~OldLayers'[l].forced
                        /\ PlaneSupports(p, OldLayers'[l])
                        /\ l = c => p \in Primary
      BY <1>1 DEF PlacedAsFound
    <3>1. p \in DOMAIN m /\ l = m[p] /\ l # NULL
      BY <1>3 DEF MappedBy
    <3>2. /\ l \in LayersOf(at) /\ LayerIsVisible(l) /\ ~layer[l].forced /\ Supports(p, l)
          /\ l = c => p \in Primary
      BY <3>1 DEF SearchResults
    <3>3. Visible(layer[l]) /\ PlaneSupports(p, layer[l])
      BY <3>2 DEF LayerIsVisible, LayerHasFb, Get, Visible, Val, Supports, PlaneSupports
    <3> QED BY <1>6, <1>9, <3>2, <3>3
  <2> QED BY <1>1, <1>4, <2>1, <2>2 DEF Kept, Fits, Shown
<1>11. NothingLost'
  <2> SUFFICES ASSUME CanFallBack(at)', layer_plane'[c] = NULL,
                      NEW l \in LayersOf(at) \ {c}, LayerNeedsComposition(l)'
               PROVE  FALSE
    BY <1>1, <1>4 DEF NothingLost, AppliedOk
  <2>1. c # NULL /\ Visible(layer[c]) /\ ~layer[c].forced
    BY <1>1, <1>6, <1>8 DEF CanFallBack, LayerIsVisible, LayerHasFb, Get, Visible, Val
  <2>2. PICK p \in Primary : at \in Crtcs[p] /\ PlaneSupports(p, layer[c])
    BY <1>1, <1>6, <1>8 DEF CanFallBack, Supports, PlaneSupports
  <2>3. Fits(at, c, layer)
    BY <2>1, <2>2 DEF Fits
  <2>4. Visible(layer[l]) /\ layer_plane'[l] = NULL
    BY <1>6 DEF LayerNeedsComposition, LayerIsVisible, LayerHasFb, Get, Visible, Val
  <2> QED BY <1>7, <2>3, <2>4 DEF Shown
<1> QED BY <1>1, <1>3, <1>5, <1>10, <1>11 DEF LossInv

LEMMA SetUpLoss == SetUp => LossInv
<1> SUFFICES ASSUME SetUp PROVE LossInv
  OBVIOUS
<1>1. \A o \in Outputs : Kept(o)
  BY DEF SetUp, Kept, Fits, PlacedAsFound, MappedBy
<1> QED
  BY <1>1, NullAssumption DEF SetUp, LossInv, PlacedWell, NothingLost, AppliedOk, NoResult

LEMMA LossNext ==
    ~MayFail /\ ~MayDestroyPlanes /\ PrimaryPlanesApart
        /\ LinksInv /\ PriorityInv /\ LossInv /\ [Next]_vars => LossInv'
<1> SUFFICES ASSUME ~MayFail, ~MayDestroyPlanes, PrimaryPlanesApart,
                    LinksInv, PriorityInv, LossInv, [Next]_vars
             PROVE  LossInv'
  OBVIOUS
<1>1. ASSUME NEW o \in Outputs, ReuseAborts(o) \/ ReallocAborts(o) PROVE LossInv'
  <2>1. result' = [output |-> o, ret |-> "abort"] /\ planes' = planes
    BY <1>1 DEF ReuseAborts, ReallocAborts, NoReuse, ApplyStarts
  <2> QED BY <2>1 DEF LossInv, Aborted, NothingLost, AppliedOk
<1>2. CASE UNCHANGED vars
  <2>1. /\ UNCHANGED <<planes, owner, plane_layer, layer_plane, layer>>
        /\ UNCHANGED <<composition, layers_changed, result>>
    BY <1>2 DEF vars, links
  <2>2. PlacedWell' <=> PlacedWell
    BY <2>1 DEF PlacedWell
  <2>3. OldLayers' = OldLayers /\ \A o : LayersOf(o)' = LayersOf(o)
    BY <2>1 DEF OldLayers, LayersOf
  <2>4. \A o : Kept(o)' <=> Kept(o)
    BY <2>1, <2>3 DEF Kept, PlacedAsFound, MappedBy
  <2>5. NothingLost' <=> NothingLost
    BY <2>1, <2>3
    DEF NothingLost, AppliedOk, CanFallBack, LayerNeedsComposition, LayerIsVisible,
        LayerHasFb, Get, Supports
  <2> QED BY <2>1, <2>2, <2>4, <2>5 DEF LossInv, Aborted
<1> QED
  BY <1>1, <1>2, LinksNext, LossCalls, LossReuse, LossRealloc
  DEF Next, Search, ReallocFails, ReallocFailsLate

\* Once the planes are registered, and as long as they stay and no apply fails, a
\* successful apply never leaves a visible layer without a plane and without a
\* displayed composition layer to be composited on, with any number of outputs
\* that share no primary plane, and however many applies reused the mapping:
\* whatever makes a layer visible, or makes the composition layer fit, is noticed
\* (alloc.c:339-340).
THEOREM NothingLostHolds ==
    ~MayFail /\ ~MayDestroyPlanes /\ PrimaryPlanesApart => (SetUpSpec => []NothingLost)
<1> SUFFICES ASSUME ~MayFail, ~MayDestroyPlanes, PrimaryPlanesApart
             PROVE  SetUpSpec => []NothingLost
  OBVIOUS
<1>1. SetUp => LossInv
  BY SetUpLoss
<1>2. LinksInv /\ PriorityInv /\ LossInv /\ [Next]_vars => LossInv'
  BY LossNext
<1>3. LossInv => NothingLost
  BY DEF LossInv
<1> QED
  BY <1>1, <1>2, <1>3, SetUpInv, LinksNext, PriorityNext, PTL DEF SetUpSpec

-----------------------------------------------------------------------------
(* Every apply searches                                                    *)

\* What a client sees of layers and planes, by the definitions of AlwaysSearch.
LEMMA ApiOperators ==
    /\ \A l \in Layers : ClientLayers[l].forced = layer[l].forced
    /\ \A l \in Layers : Api!Visible(l) <=> Visible(layer[l])
    /\ \A l \in Layers : LayerIsVisible(l) <=> Visible(layer[l])
    /\ \A l \in Layers : \A p : Api!Supports(p, l) <=> PlaneSupports(p, layer[l])
    /\ \A l \in Layers : \A p : Supports(p, l) <=> PlaneSupports(p, layer[l])
    /\ \A o : Api!LayersOf(o) = LayersOf(o)
<1>1. \A l \in Layers : /\ ClientLayers[l].value = layer[l].value
                        /\ ClientLayers[l].forced = layer[l].forced
  BY DEF ClientLayers
<1>2. \A l \in Layers : Api!Visible(l) <=> Visible(layer[l])
  BY <1>1 DEF Api!Visible, Api!Get, Visible, Val
<1>3. \A l \in Layers : LayerIsVisible(l) <=> Visible(layer[l])
  BY DEF LayerIsVisible, LayerHasFb, Get, Visible, Val
<1>4. \A l \in Layers : \A p : Api!Supports(p, l) <=> PlaneSupports(p, layer[l])
  BY <1>1 DEF Api!Supports, PlaneSupports
<1>5. \A l \in Layers : \A p : Supports(p, l) <=> PlaneSupports(p, layer[l])
  BY DEF Supports, PlaneSupports
<1>6. \A o : Api!LayersOf(o) = LayersOf(o)
  BY DEF Api!LayersOf, LayersOf
<1> QED BY <1>1, <1>2, <1>3, <1>4, <1>5, <1>6

\* What an apply remembers of layers, a client does not see.
LEMMA ClientLayersKept ==
    ASSUME TypedLayers, NEW o,
           layer' = PrioritizedLayers \/ layer' = CleanLayers(o, PrioritizedLayers)
    PROVE  ClientLayers' = ClientLayers
<1>1. ASSUME NEW l \in Layers
      PROVE  layer'[l].value = layer[l].value /\ layer'[l].forced = layer[l].forced
  <2>1. /\ PrioritizedLayers[l].value = layer[l].value
        /\ PrioritizedLayers[l].forced = layer[l].forced
    BY PrioritizedSame DEF SameDisplay
  <2>2. CASE layer' = PrioritizedLayers
    BY <2>1, <2>2
  <2>3. CASE layer' = CleanLayers(o, PrioritizedLayers) /\ owner[l] = o
    BY <2>3, CleanOld
  <2>4. CASE layer' = CleanLayers(o, PrioritizedLayers) /\ owner[l] # o
    BY <2>1, <2>4 DEF CleanLayers
  <2> QED BY <2>2, <2>3, <2>4
<1> QED BY <1>1 DEF ClientLayers

\* An output's free planes are those that a search for it goes over.
LEMMA ApiFree ==
    ASSUME LinksInv, planes = Planes, NEW o \in outputs
    PROVE  /\ Api!Free(o) = planes \ Busy(o)
           /\ \A p \in Planes \ Api!Free(o) : /\ plane_layer[p] # NULL
                                              /\ ClearedPlanes(o)[p] = plane_layer[p]
           /\ \A p \in Api!Free(o) : ClearedPlanes(o)[p] = NULL
<1>1. \A p \in Planes : ClearedPlanes(o)[p] =
                          IF MappedBy(o, p) THEN NULL ELSE plane_layer[p]
  BY DEF ClearedPlanes
<1>2. \A p \in Planes : p \in Api!Free(o) <=> (plane_layer[p] # NULL => MappedBy(o, p))
  BY DEF Api!Free, MappedBy
<1>3. \A p \in Planes : p \in Api!Free(o) <=> ClearedPlanes(o)[p] = NULL
  BY <1>1, <1>2 DEF MappedBy
<1>4. Api!Free(o) \subseteq Planes
  BY DEF Api!Free
<1> QED BY <1>1, <1>2, <1>3, <1>4 DEF Busy, MappedBy

\* A reused mapping is one that a search could have ended with.
LEMMA ReuseApplies ==
    ASSUME LinksInv, PriorityInv, LossInv, NEW o \in Outputs, Reuse(o) \/ ReuseAborts(o)
    PROVE  Api!Apply(o)
<1> DEFINE free == Api!Free(o)
           c == composition[o]
           m == [p \in free |-> plane_layer[p]]
<1>0. TypedLayers /\ LinksTypeOK /\ planes = Planes
  BY Typed DEF LinksInv, LossInv
<1>1. /\ o \in outputs /\ ~Aborted /\ CanReuse(o) /\ layer' = PrioritizedLayers
      /\ UNCHANGED <<owner, composition, plane_layer>>
  BY DEF Reuse, ReuseAborts, ApplyStarts
<1>2. /\ PlacedAsFound(o, layer) /\ PlacedWell
      /\ Fits(o, c, layer) => Shown(LayersOf(o), c, layer, layer_plane)
  BY <1>1, ReuseFound DEF LossInv
<1>3. /\ free \subseteq Planes
      /\ \A p \in free : plane_layer[p] # NULL =>
            MappedBy(o, p) /\ plane_layer[p] \in LayersOf(o)
      /\ \A p \in Planes : MappedBy(o, p) => p \in free
  BY <1>0 DEF Api!Free, MappedBy, LayersOf, LinksTypeOK
<1>4. m \in Api!Results(o)
  <2>1. m \in [free -> Api!LayersOf(o) \union {NULL}]
    BY <1>3, ApiOperators
  <2>2. ASSUME NEW p \in free, m[p] # NULL
        PROVE  Api!MayShow(o, p, m[p]) /\ (m[p] = c => p \in Primary)
    <3>1. m[p] = plane_layer[p] /\ MappedBy(o, p) /\ m[p] \in Layers /\ p \in Planes
      BY <1>3, <2>2 DEF LayersOf
    <3>2. o \in Crtcs[p]
      BY <1>2, <3>1 DEF PlacedWell, MappedBy
    <3>3. /\ Visible(layer[m[p]]) /\ ~layer[m[p]].forced /\ PlaneSupports(p, layer[m[p]])
          /\ m[p] = c => p \in Primary
      BY <1>2, <3>1 DEF PlacedAsFound
    <3> HIDE DEF m
    <3> QED BY <3>1, <3>2, <3>3, ApiOperators DEF Api!MayShow
  <2>3. \A p, q \in free : m[p] # NULL /\ m[p] = m[q] => p = q
    BY <1>3 DEF LinksInv, LinksConsistent
  <2>4. ASSUME Api!CanFallBack(o) PROVE Api!Covered(o, {m[p] : p \in free})
    <3>1. c # NULL /\ c \in LayersOf(o)
      BY <1>0, <1>1, <2>4 DEF Api!CanFallBack, LinksInv, LinksConsistent, LinksTypeOK, LayersOf
    <3>2. PICK p \in Primary : Api!MayShow(o, p, c)
      BY <2>4 DEF Api!CanFallBack
    <3>3. Fits(o, c, layer)
      BY <3>1, <3>2, ApiOperators DEF Api!MayShow, Fits, LayersOf
    <3>4. ASSUME NEW l \in LayersOf(o), layer_plane[l] # NULL PROVE l \in {m[q] : q \in free}
      <4>1. /\ layer_plane[l] \in Planes /\ plane_layer[layer_plane[l]] = l
            /\ l # NULL /\ owner[l] = o
        BY <1>0, <3>4, NullAssumption DEF LinksInv, LinksConsistent, LinksTypeOK, LayersOf
      <4>2. layer_plane[l] \in free
        BY <1>3, <4>1 DEF MappedBy
      <4> QED BY <4>1, <4>2
    <3>5. \A l \in LayersOf(o) : Api!Visible(l) <=> Visible(layer[l])
      BY ApiOperators DEF LayersOf
    <3> HIDE DEF m
    <3> QED BY <1>2, <3>1, <3>3, <3>4, <3>5, ApiOperators DEF Shown, Api!Covered
  <2> HIDE DEF m
  <2> QED BY <2>1, <2>2, <2>3, <2>4 DEF Api!Results
<1>5. plane_layer' = [p \in Planes |-> IF p \in free THEN m[p] ELSE plane_layer[p]]
  BY <1>0, <1>1 DEF LinksTypeOK
<1>6. ClientLayers' = ClientLayers
  BY <1>0, <1>1, ClientLayersKept
<1>7. \A p \in Planes, l \in Layers : Api!Supports(p, l) <=> Supports(p, l)
  BY ApiOperators
<1>8. \A p \in free : plane_layer[p] # NULL => Supports(p, plane_layer[p])
  <2>1. \A p \in free : plane_layer[p] # NULL => plane_layer[p] \in Layers /\ p \in Planes
    BY <1>3 DEF LayersOf
  <2> QED BY <1>2, <1>3, <2>1, ApiOperators DEF PlacedAsFound
<1> HIDE DEF m
<1>9. \A p \in Planes : plane_layer[p] # NULL =>
         (Api!Supports(p, plane_layer[p]) <=> Supports(p, plane_layer[p]))
  BY <1>0, <1>7 DEF LinksTypeOK
<1>10. \/ result' = [output |-> o, ret |-> "ok"] /\ Applicable(plane_layer)
       \/ result' = [output |-> o, ret |-> "abort"] /\ ~Applicable(plane_layer)
  BY DEF Reuse, ReuseAborts
<1>11. CASE result' = [output |-> o, ret |-> "ok"] /\ Applicable(plane_layer)
  <2>1. \A p \in Planes : plane_layer'[p] # NULL => Api!Supports(p, plane_layer'[p])
    BY <1>0, <1>1, <1>9, <1>11 DEF Applicable
  <2>2. result'.output = o /\ result'.ret = "ok"
    BY <1>11
  <2> QED BY <1>1, <1>4, <1>5, <1>6, <2>1, <2>2 DEF Api!Apply
<1>12. CASE result' = [output |-> o, ret |-> "abort"] /\ ~Applicable(plane_layer)
  <2>1. PICK p \in Planes : plane_layer[p] # NULL /\ ~Supports(p, plane_layer[p])
    BY <1>0, <1>12 DEF Applicable
  <2>2. p \in Planes \ free /\ ~Api!Supports(p, plane_layer[p])
    BY <1>8, <1>9, <2>1
  <2>3. result'.output = o /\ result'.ret = "abort"
    BY <1>12
  <2> QED BY <1>1, <1>4, <1>5, <1>6, <2>2, <2>3 DEF Api!Apply
<1> QED BY <1>10, <1>11, <1>12

\* So is, of course, a mapping that was searched for.
LEMMA SearchApplies ==
    ASSUME LinksInv, PriorityInv, planes = Planes,
           NEW o \in Outputs, Realloc(o) \/ ReallocAborts(o)
    PROVE  Api!Apply(o)
<1> DEFINE free == Api!Free(o)
           c == composition[o]
<1>0. TypedLayers /\ LinksTypeOK
  BY Typed DEF LinksInv
<1>1. /\ o \in outputs /\ UNCHANGED <<owner, composition>>
      /\ layer' = PrioritizedLayers \/ layer' = CleanLayers(o, PrioritizedLayers)
  BY DEF Realloc, ReallocAborts, NoReuse, ApplyStarts
<1>2. PICK m \in SearchResults(o, Busy(o)) :
         /\ Adopt(o, m)
         /\ \/ result' = [output |-> o, ret |-> "ok"] /\ Applicable(MapPlanes(o, m))
            \/ result' = [output |-> o, ret |-> "abort"] /\ ~Applicable(MapPlanes(o, m))
  BY DEF Realloc, ReallocAborts
<1>3. /\ free = planes \ Busy(o)
      /\ \A p \in Planes \ free : plane_layer[p] # NULL /\ ClearedPlanes(o)[p] = plane_layer[p]
      /\ \A p \in free : ClearedPlanes(o)[p] = NULL
  BY <1>1, ApiFree
<1>4. m \in [free -> LayersOf(o) \union {NULL}] /\ DOMAIN m = free /\ free \subseteq Planes
  BY <1>3 DEF SearchResults
<1>5. m \in Api!Results(o)
  <2>1. m \in [free -> Api!LayersOf(o) \union {NULL}]
    BY <1>4, ApiOperators
  <2>2. ASSUME NEW p \in free, m[p] # NULL
        PROVE  Api!MayShow(o, p, m[p]) /\ (m[p] = c => p \in Primary)
    <3>1. m[p] \in Layers
      BY <1>4, <2>2 DEF LayersOf
    <3>2. /\ o \in Crtcs[p] /\ LayerIsVisible(m[p]) /\ ~layer[m[p]].forced /\ Supports(p, m[p])
          /\ m[p] = c => p \in Primary
      BY <1>4, <2>2 DEF SearchResults
    <3> QED BY <3>1, <3>2, ApiOperators DEF Api!MayShow
  <2>3. \A p, q \in free : m[p] # NULL /\ m[p] = m[q] => p = q
    BY <1>4 DEF SearchResults
  <2>4. ASSUME Api!CanFallBack(o) PROVE Api!Covered(o, {m[p] : p \in free})
    <3>1. c # NULL /\ c \in Layers
      BY <1>0, <2>4 DEF Api!CanFallBack, LinksTypeOK
    <3>2. PICK p \in Primary \cap free : Api!MayShow(o, p, c)
      BY <2>4 DEF Api!CanFallBack
    <3>3. /\ o \in Crtcs[p] /\ LayerIsVisible(c) /\ ~layer[c].forced /\ Supports(p, c)
          /\ p \in planes
          /\ plane_layer[p] # NULL => owner[plane_layer[p]] = o
      BY <1>4, <3>1, <3>2, ApiOperators DEF Api!MayShow, Api!Free
    <3>4. CanFallBack(o)
      BY <1>4, <3>1, <3>2, <3>3 DEF CanFallBack
    <3>5. Covered(o, {m[q] : q \in free})
      BY <1>4, <3>4 DEF SearchResults
    <3>6. {l \in Api!LayersOf(o) : Api!Visible(l)} = {l \in LayersOf(o) : LayerIsVisible(l)}
      BY ApiOperators DEF LayersOf
    <3> QED BY <3>5, <3>6 DEF Covered, Api!Covered
  <2> QED BY <2>1, <2>2, <2>3, <2>4 DEF Api!Results
<1>6. plane_layer' = [p \in Planes |-> IF p \in free THEN m[p] ELSE plane_layer[p]]
  <2>1. plane_layer' = MapPlanes(o, m)
    BY <1>2 DEF Adopt
  <2>2. ASSUME NEW p \in Planes
        PROVE  MapPlanes(o, m)[p] = IF p \in free THEN m[p] ELSE plane_layer[p]
    BY <1>3, <1>4 DEF MapPlanes
  <2>3. MapPlanes(o, m) = [p \in Planes |-> MapPlanes(o, m)[p]]
    BY DEF MapPlanes
  <2> QED BY <2>1, <2>2, <2>3
<1>7. ClientLayers' = ClientLayers
  BY <1>0, <1>1, ClientLayersKept
<1>8. plane_layer' = MapPlanes(o, m) /\ plane_layer' \in [Planes -> Layers \union {NULL}]
  BY <1>1, <1>2, MappedLinks DEF Adopt
<1>9. \A p \in Planes : plane_layer'[p] # NULL =>
         (Api!Supports(p, plane_layer'[p]) <=> Supports(p, plane_layer'[p]))
  BY <1>8, ApiOperators
<1>10. \A p \in free : plane_layer'[p] # NULL => Supports(p, plane_layer'[p])
  <2>1. \A p \in free : plane_layer'[p] = m[p]
    BY <1>4, <1>6
  <2> QED BY <1>4, <2>1 DEF SearchResults
<1>11. CASE result' = [output |-> o, ret |-> "ok"] /\ Applicable(MapPlanes(o, m))
  <2>1. \A p \in Planes : plane_layer'[p] # NULL => Api!Supports(p, plane_layer'[p])
    BY <1>8, <1>9, <1>11 DEF Applicable
  <2>2. result'.output = o /\ result'.ret = "ok"
    BY <1>11
  <2> QED BY <1>1, <1>5, <1>6, <1>7, <2>1, <2>2 DEF Api!Apply
<1>12. CASE result' = [output |-> o, ret |-> "abort"] /\ ~Applicable(MapPlanes(o, m))
  <2>1. PICK p \in Planes : plane_layer'[p] # NULL /\ ~Supports(p, plane_layer'[p])
    BY <1>8, <1>12 DEF Applicable
  <2>2. p \in Planes \ free /\ ~Api!Supports(p, plane_layer'[p])
    BY <1>9, <1>10, <2>1
  <2>3. plane_layer'[p] = plane_layer[p]
    BY <1>6, <2>2
  <2>4. result'.output = o /\ result'.ret = "abort"
    BY <1>12
  <2> QED BY <1>1, <1>5, <1>6, <1>7, <2>2, <2>3, <2>4 DEF Api!Apply
<1> QED BY <1>2, <1>11, <1>12

\* Other calls leave the mapping alone, but for the plane of a layer that goes.
LEMMA CallsChange ==
    ASSUME LinksInv, LinksInv', planes = Planes, NoSearch, ~MayDestroyPlanes,
           ~\E o \in Outputs : Reuse(o) \/ ReuseAborts(o) \/ ReallocFails(o)
    PROVE  (~Aborted /\ Api!Change) \/ UNCHANGED Api!vars
<1>0. LinksTypeOK /\ LinksTypeOK'
  BY DEF LinksInv
<1>1. ASSUME Call, UNCHANGED plane_layer,
             \A l \in Layers : owner[l] # NULL => owner'[l] = owner[l]
      PROVE  ~Aborted /\ Api!Change
  <2>1. \A p \in Planes : plane_layer[p] # NULL => owner'[plane_layer[p]] # NULL
    BY <1>0, <1>1, NullAssumption DEF LinksInv, LinksConsistent, LinksTypeOK
  <2>2. plane_layer' =
           [p \in Planes |->
               IF plane_layer[p] # NULL /\ owner'[plane_layer[p]] = NULL
               THEN NULL ELSE plane_layer[p]]
    BY <1>0, <1>1, <2>1 DEF LinksTypeOK
  <2> QED BY <1>1, <2>2 DEF Api!Change, Api!NoResult, NoResult, Call
<1>2. ASSUME NEW p \in Planes PROVE ~PlaneCreate(p) /\ ~PlaneDestroy(p)
  BY DEF PlaneCreate, PlaneDestroy
<1>3. ASSUME NEW o \in Outputs, OutputCreate(o) \/ OutputDestroy(o)
      PROVE  ~Aborted /\ Api!Change
  BY <1>1, <1>3 DEF OutputCreate, OutputDestroy
<1>4. ASSUME NEW o \in Outputs, NEW l \in Layers, SetCompositionLayer(o, l)
      PROVE  ~Aborted /\ Api!Change
  BY <1>1, <1>4 DEF SetCompositionLayer, links
<1>5. ASSUME NEW o \in Outputs, NEW l \in Layers, LayerCreate(o, l)
      PROVE  ~Aborted /\ Api!Change
  <2>1. /\ Call /\ UNCHANGED plane_layer /\ owner[l] = NULL
        /\ owner' = [owner EXCEPT ![l] = o]
    BY <1>5 DEF LayerCreate
  <2>2. \A k \in Layers : owner[k] # NULL => owner'[k] = owner[k]
    BY <1>0, <2>1 DEF LinksTypeOK
  <2> QED BY <1>1, <2>1, <2>2
<1>6. ASSUME NEW l \in Layers, LayerDestroy(l) PROVE ~Aborted /\ Api!Change
  <2>1. /\ Call /\ owner' = [owner EXCEPT ![l] = NULL]
        /\ plane_layer' = IF layer_plane[l] = NULL THEN plane_layer
                          ELSE [plane_layer EXCEPT ![layer_plane[l]] = NULL]
    BY <1>6 DEF LayerDestroy
  <2>2. \A k \in Layers : owner'[k] = IF k = l THEN NULL ELSE owner[k]
    BY <1>0, <2>1 DEF LinksTypeOK
  <2>3. ASSUME NEW p \in Planes
        PROVE  plane_layer'[p] = IF plane_layer[p] # NULL /\ owner'[plane_layer[p]] = NULL
                                 THEN NULL ELSE plane_layer[p]
    <3>1. CASE plane_layer[p] = l
      <4>1. layer_plane[l] = p /\ plane_layer[p] # NULL /\ p # NULL
        BY <3>1, NullAssumption DEF LinksInv, LinksConsistent
      <4>2. plane_layer'[p] = NULL
        BY <1>0, <2>1, <4>1 DEF LinksTypeOK
      <4> QED BY <2>2, <3>1, <4>1, <4>2
    <3>2. CASE plane_layer[p] # l
      <4>1. layer_plane[l] # NULL => layer_plane[l] # p
        BY <3>2 DEF LinksInv, LinksConsistent
      <4>2. plane_layer'[p] = plane_layer[p]
        BY <1>0, <2>1, <4>1 DEF LinksTypeOK
      <4>3. plane_layer[p] # NULL => owner'[plane_layer[p]] # NULL
        BY <1>0, <2>2, <3>2, NullAssumption DEF LinksInv, LinksConsistent, LinksTypeOK
      <4> QED BY <4>2, <4>3
    <3> QED BY <3>1, <3>2
  <2>4. plane_layer' = [p \in Planes |-> plane_layer'[p]]
    BY <1>0 DEF LinksTypeOK
  <2>5. plane_layer' =
           [p \in Planes |->
               IF plane_layer[p] # NULL /\ owner'[plane_layer[p]] = NULL
               THEN NULL ELSE plane_layer[p]]
    BY <2>3, <2>4
  <2> QED BY <2>1, <2>2, <2>5 DEF Api!Change, Api!NoResult, NoResult, Call
<1>7. ASSUME NEW l \in Layers, SetFbComposited(l) PROVE ~Aborted /\ Api!Change
  BY <1>1, <1>7 DEF SetFbComposited, links
<1>8. ASSUME NEW l \in Layers, NEW name \in Props, NEW v \in Values[l][name],
             SetProperty(l, name, v)
      PROVE  ~Aborted /\ Api!Change
  BY <1>1, <1>8 DEF SetProperty, links
<1>9. CASE Stop
  BY <1>9 DEF Stop, vars, links, Api!vars, ClientLayers
<1> QED BY <1>2, <1>3, <1>4, <1>5, <1>6, <1>7, <1>8, <1>9 DEF NoSearch

LEMMA ApiNext ==
    ~MayFail /\ ~MayDestroyPlanes /\ LinksInv /\ LinksInv' /\ PriorityInv /\ LossInv
        /\ [Next]_vars => [Api!Next]_(Api!vars)
<1> SUFFICES ASSUME ~MayFail, ~MayDestroyPlanes, LinksInv, LinksInv', PriorityInv, LossInv,
                    [Next]_vars
             PROVE  Api!Next \/ UNCHANGED Api!vars
  OBVIOUS
<1>1. ASSUME NEW o \in Outputs, Api!Apply(o), ~Aborted PROVE Api!Next
  BY <1>1 DEF Api!Next, Aborted
<1>2. ASSUME NEW o \in Outputs, Reuse(o) \/ ReuseAborts(o) PROVE Api!Next
  BY <1>1, <1>2, ReuseApplies DEF Reuse, ReuseAborts, ApplyStarts
<1>3. ASSUME NEW o \in Outputs, Realloc(o) \/ ReallocAborts(o) PROVE Api!Next
  BY <1>1, <1>3, SearchApplies DEF LossInv, Realloc, ReallocAborts, NoReuse, ApplyStarts
<1>4. ASSUME NEW o \in Outputs PROVE ~ReallocFails(o) /\ ~ReallocFailsLate(o)
  BY DEF ReallocFails, ReallocFailsLate
<1>5. CASE NoSearch /\ ~\E o \in Outputs : Reuse(o) \/ ReuseAborts(o)
  BY <1>4, <1>5, CallsChange DEF Api!Next, Aborted, LossInv
<1>6. CASE UNCHANGED vars
  BY <1>6 DEF vars, links, Api!vars, ClientLayers
<1> QED BY <1>2, <1>3, <1>4, <1>5, <1>6 DEF Next, Search

\* To a client, every apply searches: once the planes are registered, and as long
\* as they stay and no apply fails, the library, which reuses mappings by its record
\* of changes (reuse_previous_alloc, layer_needs_realloc), implements one that keeps
\* no record and searches each time, with any number of outputs that share no
\* primary plane.
THEOREM EveryApplySearchesHolds ==
    ~MayFail /\ ~MayDestroyPlanes /\ PrimaryPlanesApart => (SetUpSpec => EveryApplySearches)
<1> SUFFICES ASSUME ~MayFail, ~MayDestroyPlanes, PrimaryPlanesApart
             PROVE  SetUpSpec => EveryApplySearches
  OBVIOUS
<1>1. SetUp => LossInv
  BY SetUpLoss
<1>2. SetUp => Api!Init
  BY DEF SetUp, Api!Init, Api!NoResult, NoResult
<1>3. LinksInv /\ PriorityInv /\ LossInv /\ [Next]_vars => LossInv'
  BY LossNext
<1>4. LinksInv /\ LinksInv' /\ PriorityInv /\ LossInv /\ [Next]_vars => [Api!Next]_(Api!vars)
  BY ApiNext
<1> QED
  BY <1>1, <1>2, <1>3, <1>4, SetUpInv, LinksNext, PriorityNext, PTL
  DEF SetUpSpec, EveryApplySearches, Api!Spec
==============================================================================
