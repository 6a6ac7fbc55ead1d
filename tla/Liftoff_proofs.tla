---------------------------- MODULE Liftoff_proofs ----------------------------
(***************************************************************************)
(* Proofs about the API, for any planes, outputs, layers and properties,   *)
(* and any period.                                                         *)
(***************************************************************************)
EXTENDS Liftoff, TLAPS

-----------------------------------------------------------------------------
(* The links between planes, layers and outputs                            *)

LinksTypeOK ==
    /\ planes \subseteq Planes
    /\ outputs \subseteq Outputs
    /\ owner \in [Layers -> Outputs \union {NULL}]
    /\ plane_layer \in [Planes -> Layers \union {NULL}]
    /\ layer_plane \in [Layers -> Planes \union {NULL}]
    /\ composition \in [Outputs -> Layers \union {NULL}]

LinksInv == LinksTypeOK /\ LinksConsistent

\* Unsetting the mapping of an output leaves consistent links, in which none of
\* its layers has a plane, and leaves the layers of other outputs alone.
LEMMA ClearedLinks ==
    ASSUME LinksInv, NEW o \in outputs
    PROVE  /\ ClearedPlanes(o) \in [Planes -> Layers \union {NULL}]
           /\ ClearedLayers(o) \in [Layers -> Planes \union {NULL}]
           /\ \A p \in Planes : ClearedPlanes(o)[p] # NULL =>
                 /\ ClearedPlanes(o)[p] = plane_layer[p]
                 /\ owner[plane_layer[p]] # o
                 /\ ClearedLayers(o)[plane_layer[p]] = p
           /\ \A l \in Layers : ClearedLayers(o)[l] # NULL =>
                 /\ ClearedLayers(o)[l] = layer_plane[l]
                 /\ owner[l] # o
                 /\ ClearedPlanes(o)[layer_plane[l]] = l
           /\ \A l \in Layers : owner[l] # o => ClearedLayers(o)[l] = layer_plane[l]
<1> USE NullAssumption DEF LinksInv, LinksTypeOK
<1>1. /\ ClearedPlanes(o) \in [Planes -> Layers \union {NULL}]
      /\ ClearedLayers(o) \in [Layers -> Planes \union {NULL}]
  BY DEF ClearedPlanes, ClearedLayers
<1>2. ASSUME NEW p \in Planes, ClearedPlanes(o)[p] # NULL
      PROVE  /\ ClearedPlanes(o)[p] = plane_layer[p]
             /\ owner[plane_layer[p]] # o
             /\ ClearedLayers(o)[plane_layer[p]] = p
  <2>1. plane_layer[p] # NULL /\ ClearedPlanes(o)[p] = plane_layer[p]
    BY <1>2 DEF ClearedPlanes
  <2>2. p \in planes /\ plane_layer[p] \in Layers /\ layer_plane[plane_layer[p]] = p
    BY <2>1 DEF LinksConsistent
  <2>3. owner[plane_layer[p]] # o
    BY <1>2, <2>1, <2>2 DEF ClearedPlanes, MappedBy
  <2>4. ClearedLayers(o)[plane_layer[p]] = p
    BY <2>2, <2>3 DEF ClearedLayers, MappedBy
  <2> QED
    BY <2>1, <2>3, <2>4
<1>3. ASSUME NEW l \in Layers, ClearedLayers(o)[l] # NULL
      PROVE  /\ ClearedLayers(o)[l] = layer_plane[l]
             /\ owner[l] # o
             /\ ClearedPlanes(o)[layer_plane[l]] = l
  <2>1. /\ ClearedLayers(o)[l] = layer_plane[l]
        /\ layer_plane[l] # NULL
        /\ ~\E p \in planes : MappedBy(o, p) /\ plane_layer[p] = l
    BY <1>3 DEF ClearedLayers
  <2>2. layer_plane[l] \in Planes /\ plane_layer[layer_plane[l]] = l
    BY <2>1 DEF LinksConsistent
  <2>3. layer_plane[l] \in planes
    BY <2>2 DEF LinksConsistent
  <2>4. ~MappedBy(o, layer_plane[l])
    BY <2>1, <2>2, <2>3
  <2>5. owner[l] # o
    BY <2>2, <2>4 DEF MappedBy
  <2>6. ClearedPlanes(o)[layer_plane[l]] = l
    BY <2>2, <2>4 DEF ClearedPlanes
  <2> QED
    BY <2>1, <2>5, <2>6
<1>4. ASSUME NEW l \in Layers, owner[l] # o
      PROVE  ClearedLayers(o)[l] = layer_plane[l]
  BY <1>4 DEF ClearedLayers, MappedBy
<1> QED
  BY <1>1, <1>2, <1>3, <1>4

\* So does mapping the result of a search on top of that.
LEMMA MappedLinks ==
    ASSUME LinksInv, NEW o \in outputs, NEW m \in SearchResults(o, Busy(o))
    PROVE  /\ MapPlanes(o, m) \in [Planes -> Layers \union {NULL}]
           /\ MapLayers(o, m) \in [Layers -> Planes \union {NULL}]
           /\ \A p \in Planes : MapPlanes(o, m)[p] # NULL =>
                 /\ p \in planes
                 /\ owner[MapPlanes(o, m)[p]] \in outputs
                 /\ MapLayers(o, m)[MapPlanes(o, m)[p]] = p
           /\ \A l \in Layers : MapLayers(o, m)[l] # NULL =>
                 MapPlanes(o, m)[MapLayers(o, m)[l]] = l
           /\ \A l \in Layers : owner[l] # o => MapLayers(o, m)[l] = layer_plane[l]
<1> USE NullAssumption DEF LinksInv, LinksTypeOK
<1> DEFINE free == planes \ Busy(o)
           cp == ClearedPlanes(o)
           cl == ClearedLayers(o)
           mp == MapPlanes(o, m)
           ml == MapLayers(o, m)
<1>1. /\ m \in [free -> LayersOf(o) \union {NULL}]
      /\ DOMAIN m = free
      /\ \A p, q \in free : m[p] # NULL /\ m[p] = m[q] => p = q
  BY DEF SearchResults
<1>2. /\ free \subseteq planes
      /\ \A p \in free : cp[p] = NULL
  BY DEF Busy
<1>3. \A l \in LayersOf(o) : l \in Layers /\ owner[l] = o
  BY DEF LayersOf
<1>4. /\ cp \in [Planes -> Layers \union {NULL}]
      /\ cl \in [Layers -> Planes \union {NULL}]
      /\ \A p \in Planes : cp[p] # NULL =>
            cp[p] = plane_layer[p] /\ owner[cp[p]] # o /\ cl[cp[p]] = p
      /\ \A l \in Layers : cl[l] # NULL =>
            cl[l] = layer_plane[l] /\ owner[l] # o /\ cp[cl[l]] = l
      /\ \A l \in Layers : owner[l] # o => cl[l] = layer_plane[l]
  BY ClearedLinks
<1>5. \A p \in Planes :
        \/ p \in free /\ m[p] # NULL /\ mp[p] = m[p] /\ m[p] \in LayersOf(o)
        \/ (p \in free => m[p] = NULL) /\ mp[p] = cp[p]
  BY <1>1 DEF MapPlanes
<1>6. ASSUME NEW p \in free, m[p] # NULL
      PROVE  ml[m[p]] = p
  <2>1. m[p] \in Layers /\ \E q \in free : m[q] = m[p]
    BY <1>1, <1>3, <1>6
  <2>2. ml[m[p]] = CHOOSE q \in free : m[q] = m[p]
    BY <1>1, <2>1 DEF MapLayers
  <2>3. (CHOOSE q \in free : m[q] = m[p]) \in free
        /\ m[CHOOSE q \in free : m[q] = m[p]] = m[p]
    BY <2>1
  <2> QED
    BY <1>1, <1>6, <2>2, <2>3
<1>7. \A l \in Layers :
        \/ \E p \in free : m[p] = l
        \/ ml[l] = cl[l]
  BY <1>1 DEF MapLayers
<1>8. mp \in [Planes -> Layers \union {NULL}]
  <2>1. \A p \in Planes : mp[p] \in Layers \union {NULL}
    BY <1>3, <1>4, <1>5
  <2> QED
    BY <2>1 DEF MapPlanes
<1>9. ml \in [Layers -> Planes \union {NULL}]
  <2>1. \A l \in Layers : ml[l] \in Planes \union {NULL}
    BY <1>2, <1>4, <1>6, <1>7
  <2> QED
    BY <2>1 DEF MapLayers
<1>10. ASSUME NEW p \in Planes, mp[p] # NULL
       PROVE  p \in planes /\ owner[mp[p]] \in outputs /\ ml[mp[p]] = p
  <2>1. CASE p \in free /\ m[p] # NULL /\ mp[p] = m[p] /\ m[p] \in LayersOf(o)
    BY <1>2, <1>3, <1>6, <2>1
  <2>2. CASE (p \in free => m[p] = NULL) /\ mp[p] = cp[p]
    <3>1. cp[p] = plane_layer[p] /\ owner[cp[p]] # o /\ cl[cp[p]] = p /\ cp[p] \in Layers
      BY <1>4, <1>10, <2>2
    <3>2. p \in planes /\ owner[cp[p]] \in outputs
      BY <1>10, <2>2, <3>1 DEF LinksConsistent
    <3>3. ~\E q \in free : m[q] = cp[p]
      BY <1>1, <1>3, <3>1
    <3>4. ml[cp[p]] = p
      BY <1>7, <3>1, <3>3
    <3> QED
      BY <2>2, <3>2, <3>4
  <2> QED
    BY <1>5, <2>1, <2>2
<1>11. ASSUME NEW l \in Layers, ml[l] # NULL
       PROVE  mp[ml[l]] = l
  <2>1. CASE \E p \in free : m[p] = l
    <3>1. PICK p \in free : m[p] = l
      BY <2>1
    <3>2. ml[l] = p /\ p \in Planes
      BY <1>2, <1>6, <3>1
    <3> QED
      BY <1>5, <3>1, <3>2
  <2>2. CASE ~\E p \in free : m[p] = l
    <3>1. ml[l] = cl[l] /\ cl[l] # NULL
      BY <1>7, <1>11, <2>2
    <3>2. cl[l] \in Planes /\ cp[cl[l]] = l
      BY <1>4, <3>1
    <3>3. cl[l] \notin free
      BY <1>2, <3>2
    <3> QED
      BY <1>5, <3>1, <3>2, <3>3
  <2> QED
    BY <2>1, <2>2
<1>12. ASSUME NEW l \in Layers, owner[l] # o
       PROVE  ml[l] = layer_plane[l]
  BY <1>1, <1>3, <1>4, <1>7, <1>12
<1> QED
  BY <1>8, <1>9, <1>10, <1>11, <1>12

LEMMA LinksInit == Init => LinksInv
BY NullAssumption DEF Init, LinksInv, LinksTypeOK, LinksConsistent

\* Each step of the client, and each apply that does not search.
LEMMA LinksNoSearch == LinksInv /\ NoSearch => LinksInv'
<1> SUFFICES ASSUME LinksInv, NoSearch
             PROVE  LinksInv'
  OBVIOUS
<1> USE NullAssumption DEF LinksInv, LinksTypeOK
<1>1. ASSUME NEW p \in Planes, PlaneCreate(p)
      PROVE  LinksInv'
  BY <1>1 DEF PlaneCreate, LinksConsistent
<1>2. ASSUME NEW p \in Planes, PlaneDestroy(p)
      PROVE  LinksInv'
  <2>1. LinksTypeOK'
    BY <1>2 DEF PlaneDestroy
  <2>2. ASSUME NEW q \in Planes, plane_layer'[q] # NULL
        PROVE  /\ q \in planes'
               /\ owner'[plane_layer'[q]] \in outputs'
               /\ layer_plane'[plane_layer'[q]] = q
    <3>1. q # p /\ plane_layer'[q] = plane_layer[q] /\ plane_layer[q] # NULL
      BY <1>2, <2>2 DEF PlaneDestroy
    <3>2. q \in planes /\ owner[plane_layer[q]] \in outputs /\ layer_plane[plane_layer[q]] = q
      BY <3>1 DEF LinksConsistent
    <3>3. plane_layer[p] # NULL => plane_layer[p] # plane_layer[q]
      BY <3>1, <3>2 DEF LinksConsistent
    <3> QED
      BY <1>2, <3>1, <3>2, <3>3 DEF PlaneDestroy
  <2>3. ASSUME NEW l \in Layers, layer_plane'[l] # NULL
        PROVE  plane_layer'[layer_plane'[l]] = l
    <3>1. layer_plane'[l] = layer_plane[l] /\ layer_plane[l] # NULL
      BY <1>2, <2>3 DEF PlaneDestroy
    <3>2. plane_layer[layer_plane[l]] = l
      BY <3>1 DEF LinksConsistent
    <3>3. layer_plane[l] # p
      BY <1>2, <2>3, <3>1, <3>2 DEF PlaneDestroy
    <3> QED
      BY <1>2, <3>1, <3>2, <3>3 DEF PlaneDestroy
  <2> QED
    BY <1>2, <2>1, <2>2, <2>3 DEF PlaneDestroy, LinksConsistent
<1>3. ASSUME NEW o \in Outputs, OutputCreate(o)
      PROVE  LinksInv'
  BY <1>3 DEF OutputCreate, LinksConsistent
<1>4. ASSUME NEW o \in Outputs, OutputDestroy(o)
      PROVE  LinksInv'
  BY <1>4 DEF OutputDestroy, LayersOf, LinksConsistent
<1>5. ASSUME NEW o \in Outputs, NEW l \in Layers, LayerCreate(o, l)
      PROVE  LinksInv'
  BY <1>5 DEF LayerCreate, LinksConsistent
<1>6. ASSUME NEW o \in Outputs, NEW l \in Layers, SetCompositionLayer(o, l)
      PROVE  LinksInv'
  BY <1>6 DEF SetCompositionLayer, links, LinksConsistent
<1>7. ASSUME NEW l \in Layers, LayerDestroy(l)
      PROVE  LinksInv'
  <2>1. LinksTypeOK'
    BY <1>7 DEF LayerDestroy
  <2>2. ASSUME NEW p \in Planes, plane_layer'[p] # NULL
        PROVE  /\ p \in planes'
               /\ owner'[plane_layer'[p]] \in outputs'
               /\ layer_plane'[plane_layer'[p]] = p
    <3>1. plane_layer'[p] = plane_layer[p] /\ plane_layer[p] # NULL
      BY <1>7, <2>2 DEF LayerDestroy
    <3>2. p \in planes /\ owner[plane_layer[p]] \in outputs /\ layer_plane[plane_layer[p]] = p
      BY <3>1 DEF LinksConsistent
    <3>3. plane_layer[p] # l
      BY <1>7, <2>2, <3>1, <3>2 DEF LayerDestroy
    <3> QED
      BY <1>7, <3>1, <3>2, <3>3 DEF LayerDestroy
  <2>3. ASSUME NEW k \in Layers, layer_plane'[k] # NULL
        PROVE  plane_layer'[layer_plane'[k]] = k
    <3>1. k # l /\ layer_plane'[k] = layer_plane[k] /\ layer_plane[k] # NULL
      BY <1>7, <2>3 DEF LayerDestroy
    <3>2. plane_layer[layer_plane[k]] = k
      BY <3>1 DEF LinksConsistent
    <3>3. layer_plane[l] # NULL => layer_plane[l] # layer_plane[k]
      BY <3>1, <3>2 DEF LinksConsistent
    <3> QED
      BY <1>7, <3>1, <3>2, <3>3 DEF LayerDestroy
  <2>4. ASSUME NEW o \in outputs', composition'[o] # NULL
        PROVE  owner'[composition'[o]] = o
    BY <1>7, <2>4 DEF LayerDestroy, LinksConsistent
  <2>5. ASSUME NEW k \in Layers, owner'[k] # NULL
        PROVE  owner'[k] \in outputs'
    BY <1>7, <2>5 DEF LayerDestroy, LinksConsistent
  <2> QED
    BY <2>1, <2>2, <2>3, <2>4, <2>5 DEF LinksConsistent
<1>8. ASSUME UNCHANGED <<links, composition>>
      PROVE  LinksInv'
  BY <1>8 DEF links, LinksConsistent
<1>9. ASSUME NEW o \in Outputs, ReallocFails(o)
      PROVE  LinksInv'
  <2>1. o \in outputs /\ UNCHANGED <<planes, outputs, owner, composition>>
    BY <1>9 DEF ReallocFails, NoReuse, ApplyStarts
  <2>2. plane_layer' = ClearedPlanes(o) /\ layer_plane' = ClearedLayers(o)
    BY <1>9 DEF ReallocFails
  <2>3. LinksTypeOK'
    BY <2>1, <2>2, ClearedLinks
  <2>4. ASSUME NEW p \in Planes, plane_layer'[p] # NULL
        PROVE  /\ p \in planes'
               /\ owner'[plane_layer'[p]] \in outputs'
               /\ layer_plane'[plane_layer'[p]] = p
    <3>1. plane_layer'[p] = plane_layer[p] /\ layer_plane'[plane_layer[p]] = p
      BY <2>1, <2>2, <2>4, ClearedLinks
    <3> QED
      BY <2>1, <2>4, <3>1 DEF LinksConsistent
  <2>5. ASSUME NEW l \in Layers, layer_plane'[l] # NULL
        PROVE  plane_layer'[layer_plane'[l]] = l
    BY <2>1, <2>2, <2>5, ClearedLinks
  <2> QED
    BY <2>1, <2>3, <2>4, <2>5 DEF LinksConsistent
<1>10. ASSUME NEW o \in Outputs, Reuse(o) \/ ReuseAborts(o)
       PROVE  UNCHANGED <<links, composition>>
  BY <1>10 DEF Reuse, ReuseAborts, ApplyStarts, links
<1>11. ASSUME NEW l \in Layers, SetFbComposited(l)
       PROVE  UNCHANGED <<links, composition>>
  BY <1>11 DEF SetFbComposited, links
<1>12. ASSUME NEW l \in Layers, NEW name \in Props, NEW v \in Values[l][name],
              SetProperty(l, name, v)
       PROVE  UNCHANGED <<links, composition>>
  BY <1>12 DEF SetProperty, links
<1>13. ASSUME Stop
       PROVE  UNCHANGED <<links, composition>>
  BY <1>13 DEF Stop, vars, links
<1> QED
  BY <1>1, <1>2, <1>3, <1>4, <1>5, <1>6, <1>7, <1>8, <1>9, <1>10, <1>11, <1>12, <1>13
  DEF NoSearch

\* What a search leaves behind, however the apply then ends.
LEMMA SearchAdopts ==
    ASSUME NEW o \in Outputs, Search(o)
    PROVE  /\ o \in outputs
           /\ UNCHANGED <<planes, outputs, owner, composition>>
           /\ \E m \in SearchResults(o, Busy(o)) : Adopt(o, m)
<1>1. CASE Realloc(o)
  BY <1>1 DEF Realloc, NoReuse, ApplyStarts
<1>2. CASE ReallocAborts(o)
  BY <1>2 DEF ReallocAborts, NoReuse, ApplyStarts
<1>3. CASE ReallocFailsLate(o)
  BY <1>3 DEF ReallocFailsLate, NoReuse, ApplyStarts
<1> QED
  BY <1>1, <1>2, <1>3 DEF Search

LEMMA LinksSearch ==
    ASSUME LinksInv, NEW o \in Outputs, Search(o)
    PROVE  LinksInv'
<1>1. PICK m \in SearchResults(o, Busy(o)) : Adopt(o, m)
  BY SearchAdopts
<1>2. o \in outputs /\ UNCHANGED <<planes, outputs, owner, composition>>
  BY SearchAdopts
<1>3. plane_layer' = MapPlanes(o, m) /\ layer_plane' = MapLayers(o, m)
  BY <1>1 DEF Adopt
<1>4. LinksTypeOK'
  BY <1>2, <1>3, MappedLinks DEF LinksInv, LinksTypeOK
<1>5. LinksConsistent'
  BY <1>2, <1>3, MappedLinks DEF LinksInv, LinksConsistent
<1> QED
  BY <1>4, <1>5 DEF LinksInv

LEMMA LinksNext == LinksInv /\ [Next]_vars => LinksInv'
<1>1. ASSUME LinksInv, UNCHANGED vars
      PROVE  LinksInv'
  BY <1>1 DEF vars, links, LinksInv, LinksTypeOK, LinksConsistent
<1> QED
  BY <1>1, LinksNoSearch, LinksSearch DEF Next

\* The links between planes and layers always agree, and nothing refers to an
\* object that was destroyed, in every program that uses the API as intended,
\* with any number of objects, and wherever an apply fails.
THEOREM LinksConsistentHolds == Spec => []LinksConsistent
<1>1. LinksInv => LinksConsistent
  BY DEF LinksInv
<1> QED
  BY <1>1, LinksInit, LinksNext, PTL DEF Spec

-----------------------------------------------------------------------------
(* Outputs do not disturb each other                                       *)

\* Whether it reuses, searches or fails, an apply leaves the planes of another
\* output's layers to them.
THEOREM OtherOutputsUntouchedHolds == Spec => OtherOutputsUntouched
<1> DEFINE Untouched ==
      \A o \in Outputs, l \in Layers :
          result'.output = o /\ owner[l] # o => layer_plane'[l] = layer_plane[l]
<1>1. ASSUME LinksInv, NEW o \in Outputs, Search(o)
      PROVE  Untouched
  <2>1. PICK m \in SearchResults(o, Busy(o)) : Adopt(o, m)
    BY <1>1, SearchAdopts
  <2>2. o \in outputs /\ layer_plane' = MapLayers(o, m)
    BY <1>1, <2>1, SearchAdopts DEF Adopt
  <2>3. result'.output = o
    BY <1>1 DEF Search, Realloc, ReallocAborts, ReallocFailsLate
  <2> QED
    BY <1>1, <2>2, <2>3, MappedLinks
<1>2. ASSUME LinksInv, NEW o \in Outputs, ReallocFails(o)
      PROVE  Untouched
  <2>1. o \in outputs /\ layer_plane' = ClearedLayers(o) /\ result'.output = o
    BY <1>2 DEF ReallocFails, NoReuse, ApplyStarts
  <2> QED
    BY <1>2, <2>1, ClearedLinks
<1>3. ASSUME NEW o \in Outputs, Reuse(o) \/ ReuseAborts(o)
      PROVE  Untouched
  BY <1>3 DEF Reuse, ReuseAborts
<1>4. ASSUME Call
      PROVE  Untouched
  <2>1. result'.output = NULL
    BY <1>4 DEF Call, NoResult
  <2> QED
    BY <2>1, NullAssumption
<1>5. ASSUME NoSearch,
             ~\E o \in Outputs : Reuse(o) \/ ReuseAborts(o) \/ ReallocFails(o)
      PROVE  Call \/ Stop
  BY <1>5 DEF NoSearch, PlaneCreate, PlaneDestroy, OutputCreate, OutputDestroy,
              LayerCreate, SetCompositionLayer, LayerDestroy, SetFbComposited, SetProperty
<1>6. ASSUME UNCHANGED vars
      PROVE  Untouched
  BY <1>6 DEF vars, links
<1>7. LinksInv /\ [Next]_vars => [Untouched]_vars
  BY <1>1, <1>2, <1>3, <1>4, <1>5, <1>6 DEF Next, Stop
<1> QED
  BY <1>7, LinksInit, LinksNext, PTL DEF Spec, OtherOutputsUntouched

-----------------------------------------------------------------------------
(* Types, and the priorities                                               *)

\* What one layer may hold when the page flip counter is n: a priority counts
\* each page flip of its period once.
LayerAt(n) ==
    {lay \in Layer : lay.pending <= n /\ lay.current <= LIFTOFF_PRIORITY_PERIOD}

\* A layer that does not exist has no priority yet.  Outputs do not matter to
\* it: an existing layer's output exists.
PriorityInv ==
    /\ TypeOK
    /\ \A l \in Layers : layer[l] \in LayerAt(page_flip_counter)
    /\ \A l \in Layers : owner[l] = NULL => layer[l] = NewLayer

LEMMA NewLayerType ==
    ASSUME NEW n \in Nat
    PROVE  NewLayer \in LayerAt(n)
<1>1. NewLayer \in Layer
  BY DEF NewLayer, Layer, PropValues
<1> QED
  BY <1>1, PeriodAssumption DEF LayerAt, NewLayer

LEMMA WithPropertyType ==
    ASSUME NEW n \in Nat, NEW lay \in LayerAt(n), NEW name, NEW v \in Nat
    PROVE  /\ WithProperty(lay, name, v) \in LayerAt(n)
           /\ [WithProperty(lay, name, v) EXCEPT !.forced = TRUE, !.changed = TRUE]
                 \in LayerAt(n)
<1> DEFINE new == WithProperty(lay, name, v)
           unforces == name = "FB_ID" /\ lay.forced
<1>1. /\ lay.value \in PropValues /\ lay.prev \in [Props -> Nat]
      /\ lay.forced \in BOOLEAN /\ lay.changed \in BOOLEAN
      /\ lay.current \in Nat /\ lay.pending \in Nat
      /\ lay = [value |-> lay.value, prev |-> lay.prev, forced |-> lay.forced,
                changed |-> lay.changed, current |-> lay.current, pending |-> lay.pending]
      /\ lay.pending <= n /\ lay.current <= LIFTOFF_PRIORITY_PERIOD
  BY DEF LayerAt, Layer
<1>2. [lay.value EXCEPT ![name] = v] \in PropValues
  BY <1>1 DEF PropValues
<1>3. (lay.forced /\ ~unforces) \in BOOLEAN
      /\ (lay.changed \/ lay.value[name] = NoProp \/ unforces) \in BOOLEAN
  BY <1>1
<1>4. new = [value |-> [lay.value EXCEPT ![name] = v], prev |-> lay.prev,
             forced |-> lay.forced /\ ~unforces,
             changed |-> lay.changed \/ lay.value[name] = NoProp \/ unforces,
             current |-> lay.current, pending |-> lay.pending]
  <2>1. new = [lay EXCEPT !.value[name] = v,
                          !.forced = @ /\ ~unforces,
                          !.changed = @ \/ lay.value[name] = NoProp \/ unforces]
    BY DEF WithProperty
  <2> HIDE DEF new, unforces
  <2> QED
    BY <1>1, <2>1
<1> HIDE DEF new, unforces
<1>5. new \in Layer /\ new.pending <= n /\ new.current <= LIFTOFF_PRIORITY_PERIOD
  BY <1>1, <1>2, <1>3, <1>4 DEF Layer
<1>6. /\ [new EXCEPT !.forced = TRUE, !.changed = TRUE] \in Layer
      /\ [new EXCEPT !.forced = TRUE, !.changed = TRUE].pending = new.pending
      /\ [new EXCEPT !.forced = TRUE, !.changed = TRUE].current = new.current
  BY <1>5 DEF Layer
<1> QED
  BY <1>5, <1>6 DEF new, LayerAt

LEMMA UpdatePriorityType ==
    ASSUME NEW n \in Nat, n < LIFTOFF_PRIORITY_PERIOD, NEW lay \in LayerAt(n)
    PROVE  /\ LayerUpdatePriority(lay, TRUE) \in LayerAt(0)
           /\ LayerUpdatePriority(lay, FALSE) \in LayerAt(n + 1)
<1> DEFINE fb      == IF "FB_ID" \in Props THEN lay.value["FB_ID"] ELSE NoProp
           pending == IF fb # NoProp /\ fb # lay.prev["FB_ID"]
                      THEN lay.pending + 1 ELSE lay.pending
<1>1. /\ lay \in Layer /\ lay.pending \in Nat /\ lay.current \in Nat
      /\ lay.pending <= n /\ lay.current <= LIFTOFF_PRIORITY_PERIOD
  BY DEF LayerAt, Layer
<1>2. pending \in Nat /\ pending <= n + 1 /\ pending <= LIFTOFF_PRIORITY_PERIOD
  BY <1>1, PeriodAssumption
<1>3. /\ LayerUpdatePriority(lay, TRUE) = [lay EXCEPT !.current = pending, !.pending = 0]
      /\ LayerUpdatePriority(lay, FALSE) = [lay EXCEPT !.pending = pending]
  BY DEF LayerUpdatePriority
<1> HIDE DEF pending
<1>4. LayerUpdatePriority(lay, TRUE) \in LayerAt(0)
  <2> DEFINE new == [lay EXCEPT !.current = pending, !.pending = 0]
  <2>1. new \in Layer
    BY <1>1, <1>2 DEF Layer
  <2>2. new.pending = 0 /\ new.current = pending
    BY <1>1 DEF Layer
  <2> HIDE DEF new
  <2>3. new \in LayerAt(0)
    BY <1>2, <2>1, <2>2 DEF LayerAt
  <2> QED
    BY <1>3, <2>3 DEF new
<1>5. LayerUpdatePriority(lay, FALSE) \in LayerAt(n + 1)
  BY <1>1, <1>2, <1>3 DEF LayerAt, Layer
<1> QED
  BY <1>4, <1>5

LEMMA CleanLayersType ==
    ASSUME NEW n \in Nat, NEW o, NEW layers \in [Layers -> LayerAt(n)]
    PROVE  /\ CleanLayers(o, layers) \in [Layers -> LayerAt(n)]
           /\ \A l \in Layers : owner[l] # o => CleanLayers(o, layers)[l] = layers[l]
<1>1. ASSUME NEW l \in Layers
      PROVE  CleanLayers(o, layers)[l] \in LayerAt(n)
  <2> DEFINE lay  == layers[l]
             prev == [p \in Props |-> IF lay.value[p] = NoProp THEN lay.prev[p]
                                      ELSE lay.value[p]]
  <2>1. lay \in LayerAt(n) /\ lay \in Layer
    BY DEF LayerAt
  <2>2. lay.value \in PropValues /\ lay.prev \in [Props -> Nat]
    BY <2>1 DEF Layer
  <2>3. prev \in [Props -> Nat]
    BY <2>2 DEF PropValues
  <2>4. CASE owner[l] = o
    <3>1. CleanLayers(o, layers)[l] = [lay EXCEPT !.changed = FALSE, !.prev = prev]
      BY <2>4 DEF CleanLayers
    <3> HIDE DEF prev
    <3> QED
      BY <2>1, <2>3, <3>1 DEF Layer, LayerAt
  <2>5. CASE owner[l] # o
    BY <2>1, <2>5 DEF CleanLayers
  <2> QED
    BY <2>4, <2>5
<1> QED
  BY <1>1 DEF CleanLayers

\* An apply gives the layers of all outputs their priority.
LEMMA PrioritizedType ==
    ASSUME LinksInv, PriorityInv, NEW o \in Outputs, ApplyStarts(o)
    PROVE  /\ page_flip_counter' \in 0 .. LIFTOFF_PRIORITY_PERIOD - 1
           /\ PrioritizedLayers \in [Layers -> LayerAt(page_flip_counter')]
           /\ \A l \in Layers : owner[l] = NULL => PrioritizedLayers[l] = NewLayer
<1> DEFINE n == page_flip_counter
<1>1. n \in Nat /\ n < LIFTOFF_PRIORITY_PERIOD /\ LIFTOFF_PRIORITY_PERIOD \in Nat
  BY PeriodAssumption DEF PriorityInv, TypeOK
<1>2. \/ PeriodElapsed = TRUE /\ n' = 0
      \/ PeriodElapsed = FALSE /\ n' = n + 1 /\ n + 1 < LIFTOFF_PRIORITY_PERIOD
  BY <1>1 DEF ApplyStarts, PeriodElapsed
<1>3. n' \in 0 .. LIFTOFF_PRIORITY_PERIOD - 1
  BY <1>1, <1>2
<1>4. \A l \in Layers : owner[l] \in outputs \/ owner[l] = NULL
  BY DEF LinksInv, LinksConsistent
<1>5. ASSUME NEW l \in Layers
      PROVE  /\ PrioritizedLayers[l] \in LayerAt(n')
             /\ owner[l] = NULL => PrioritizedLayers[l] = NewLayer
  <2>1. CASE owner[l] \in outputs
    <3>1. PrioritizedLayers[l] = LayerUpdatePriority(layer[l], PeriodElapsed)
      BY <2>1 DEF PrioritizedLayers
    <3>2. layer[l] \in LayerAt(n)
      BY DEF PriorityInv
    <3>3. owner[l] # NULL
      BY <2>1, NullAssumption DEF LinksInv, LinksTypeOK
    <3>4. LayerUpdatePriority(layer[l], PeriodElapsed) \in LayerAt(n')
      BY <1>1, <1>2, <3>2, UpdatePriorityType
    <3> QED
      BY <3>1, <3>3, <3>4
  <2>2. CASE owner[l] = NULL
    <3>1. PrioritizedLayers[l] = layer[l] /\ layer[l] = NewLayer
      BY <2>2, NullAssumption DEF PrioritizedLayers, PriorityInv, LinksInv, LinksTypeOK
    <3>2. n' \in Nat
      BY <1>1, <1>2
    <3> QED
      BY <3>1, <3>2, NewLayerType
  <2> QED
    BY <1>4, <2>1, <2>2
<1> QED
  BY <1>3, <1>5 DEF PrioritizedLayers

\* What of TypeOK the links do not say.
OtherTypeOK ==
    /\ layer \in [Layers -> Layer]
    /\ layers_changed \in [Outputs -> BOOLEAN]
    /\ page_flip_counter \in 0 .. LIFTOFF_PRIORITY_PERIOD - 1
    /\ result \in [output : Outputs \union {NULL}, ret : {"ok", "error", "abort"}]

LEMMA LayerAtType ==
    ASSUME NEW f \in [Layers -> LayerAt(page_flip_counter)]
    PROVE  f \in [Layers -> Layer]
BY DEF LayerAt

LEMMA PriorityInit == Init => PriorityInv
<1> SUFFICES ASSUME Init PROVE PriorityInv
  OBVIOUS
<1>1. page_flip_counter = 0 /\ \A l \in Layers : layer[l] = NewLayer
  BY DEF Init
<1>2. \A l \in Layers : layer[l] \in LayerAt(page_flip_counter)
  BY <1>1, NewLayerType
<1>3. \A l \in Layers : layer[l] \in Layer
  BY <1>2 DEF LayerAt
<1>4. page_flip_counter \in 0 .. LIFTOFF_PRIORITY_PERIOD - 1
  BY <1>1, PeriodAssumption
<1>5. TypeOK
  BY <1>3, <1>4 DEF Init, TypeOK, NoResult
<1> QED
  BY <1>1, <1>2, <1>5 DEF PriorityInv

LEMMA PriorityNext == LinksInv /\ PriorityInv /\ [Next]_vars => PriorityInv'
<1> SUFFICES ASSUME LinksInv, PriorityInv, [Next]_vars
             PROVE  PriorityInv'
  OBVIOUS
<1> DEFINE n == page_flip_counter
           Others ==
             /\ layer' \in [Layers -> LayerAt(n')]
             /\ layers_changed' \in [Outputs -> BOOLEAN]
             /\ n' \in 0 .. LIFTOFF_PRIORITY_PERIOD - 1
             /\ result' \in [output : Outputs \union {NULL}, ret : {"ok", "error", "abort"}]
             /\ \A l \in Layers : owner'[l] = NULL => layer'[l] = NewLayer
<1>1. LinksInv'
  BY LinksNext
<1>2. /\ n \in Nat
      /\ layer \in [Layers -> LayerAt(n)]
      /\ OtherTypeOK
  BY PeriodAssumption DEF PriorityInv, TypeOK, OtherTypeOK
<1>3. NoResult \in [output : Outputs \union {NULL}, ret : {"ok", "error", "abort"}]
  BY DEF NoResult
\* It is enough to look at the members the links say nothing about.
<1>4. SUFFICES Others
  <2>1. ASSUME layer' \in [Layers -> LayerAt(n')]
        PROVE  layer' \in [Layers -> Layer]
    BY <2>1 DEF LayerAt
  <2> QED
    BY <1>1, <1>4, <2>1 DEF LinksInv, LinksTypeOK, PriorityInv, TypeOK
<1>5. CASE UNCHANGED <<layer, owner, layers_changed, page_flip_counter, result>>
  BY <1>2, <1>5 DEF PriorityInv, OtherTypeOK
<1>6. ASSUME NEW p \in Planes, PlaneCreate(p) \/ PlaneDestroy(p)
      PROVE  UNCHANGED <<layer, owner, layers_changed, page_flip_counter>> /\ result' = NoResult
  BY <1>6 DEF PlaneCreate, PlaneDestroy, Call
<1>7. CASE UNCHANGED <<layer, owner, layers_changed, page_flip_counter>> /\ result' = NoResult
  BY <1>2, <1>3, <1>7 DEF PriorityInv, OtherTypeOK
<1>8. ASSUME NEW o \in Outputs, OutputCreate(o) \/ OutputDestroy(o)
      PROVE  /\ UNCHANGED <<layer, owner, page_flip_counter>>
             /\ result' = NoResult
             /\ layers_changed' \in [Outputs -> BOOLEAN]
  BY <1>2, <1>8 DEF OutputCreate, OutputDestroy, Call, OtherTypeOK
<1>9. ASSUME NEW o \in Outputs, NEW l \in Layers, SetCompositionLayer(o, l)
      PROVE  /\ UNCHANGED <<layer, owner, page_flip_counter>>
             /\ result' = NoResult
             /\ layers_changed' \in [Outputs -> BOOLEAN]
  <2>1. (layers_changed[o] \/ l # composition[o]) \in BOOLEAN
    BY <1>2 DEF OtherTypeOK
  <2> QED
    BY <1>2, <1>9, <2>1 DEF SetCompositionLayer, Call, OtherTypeOK, links
<1>10. CASE /\ UNCHANGED <<layer, owner, page_flip_counter>>
            /\ result' = NoResult
            /\ layers_changed' \in [Outputs -> BOOLEAN]
  BY <1>2, <1>3, <1>10 DEF PriorityInv, OtherTypeOK
<1>11. ASSUME NEW o \in Outputs, NEW l \in Layers, LayerCreate(o, l)
       PROVE  Others
  <2>1. layer' \in [Layers -> LayerAt(n')]
    BY <1>2, <1>11, NewLayerType DEF LayerCreate
  <2>2. layers_changed' \in [Outputs -> BOOLEAN] /\ n' = n /\ result' = NoResult
    BY <1>2, <1>11 DEF LayerCreate, Call, OtherTypeOK
  <2>3. ASSUME NEW k \in Layers, owner'[k] = NULL
        PROVE  layer'[k] = NewLayer
    BY <1>2, <1>11, <2>3 DEF LayerCreate, PriorityInv, TypeOK
  <2> QED
    BY <1>2, <1>3, <2>1, <2>2, <2>3 DEF OtherTypeOK
<1>12. ASSUME NEW l \in Layers, LayerDestroy(l)
       PROVE  Others
  <2>1. layer' \in [Layers -> LayerAt(n')]
    BY <1>2, <1>12, NewLayerType DEF LayerDestroy
  <2>2. layers_changed' \in [Outputs -> BOOLEAN] /\ n' = n /\ result' = NoResult
    BY <1>2, <1>12 DEF LayerDestroy, Call, OtherTypeOK
  <2>3. ASSUME NEW k \in Layers, owner'[k] = NULL
        PROVE  layer'[k] = NewLayer
    BY <1>2, <1>12, <2>3 DEF LayerDestroy, PriorityInv, TypeOK
  <2> QED
    BY <1>2, <1>3, <2>1, <2>2, <2>3 DEF OtherTypeOK
<1>13. ASSUME NEW l \in Layers, NEW lay \in LayerAt(n), owner[l] # NULL,
              layer' = [layer EXCEPT ![l] = lay],
              UNCHANGED <<owner, layers_changed, page_flip_counter>>, result' = NoResult
       PROVE  Others
  <2>1. layer' \in [Layers -> LayerAt(n')]
    BY <1>2, <1>13
  <2>2. \A k \in Layers : owner'[k] = NULL => layer'[k] = NewLayer
    BY <1>2, <1>13 DEF PriorityInv
  <2> QED
    BY <1>2, <1>3, <1>13, <2>1, <2>2 DEF OtherTypeOK
<1>14. ASSUME NEW l \in Layers, NEW name \in Props, NEW v \in Values[l][name],
              SetProperty(l, name, v)
       PROVE  Others
  <2>1. v \in Nat
    BY PropsAssumption
  <2>2. WithProperty(layer[l], name, v) \in LayerAt(n)
    BY <1>2, <2>1, WithPropertyType
  <2>3. /\ owner[l] # NULL
        /\ layer' = [layer EXCEPT ![l] = WithProperty(layer[l], name, v)]
        /\ UNCHANGED <<owner, layers_changed, page_flip_counter>>
        /\ result' = NoResult
    BY <1>14 DEF SetProperty, Call, links
  <2> QED
    BY <1>13, <2>2, <2>3
<1>15. ASSUME NEW l \in Layers, SetFbComposited(l)
       PROVE  Others
  <2> DEFINE lay == [WithProperty(layer[l], "FB_ID", 0) EXCEPT !.forced = TRUE, !.changed = TRUE]
  <2>1. lay \in LayerAt(n)
    BY <1>2, WithPropertyType
  <2>2. /\ owner[l] # NULL
        /\ layer' = [layer EXCEPT ![l] = lay]
        /\ UNCHANGED <<owner, layers_changed, page_flip_counter>>
        /\ result' = NoResult
    BY <1>15 DEF SetFbComposited, Call, links
  <2> HIDE DEF lay
  <2> QED
    BY <1>13, <2>1, <2>2
<1>16. ASSUME NEW o \in Outputs, Reuse(o) \/ ReuseAborts(o) \/ ReallocFails(o)
                                 \/ ReallocAborts(o) \/ ReallocFailsLate(o)
       PROVE  Others
  <2>1. /\ ApplyStarts(o)
        /\ layer' = PrioritizedLayers
        /\ UNCHANGED layers_changed
        /\ result' \in [output : Outputs \union {NULL}, ret : {"ok", "error", "abort"}]
    BY <1>16 DEF Reuse, ReuseAborts, ReallocFails, ReallocAborts, ReallocFailsLate, NoReuse
  <2>2. UNCHANGED owner
    BY <2>1 DEF ApplyStarts
  <2> QED
    BY <1>2, <2>1, <2>2, PrioritizedType DEF OtherTypeOK
<1>17. ASSUME NEW o \in Outputs, Realloc(o)
       PROVE  Others
  <2>1. /\ ApplyStarts(o)
        /\ layer' = CleanLayers(o, PrioritizedLayers)
        /\ layers_changed' = [layers_changed EXCEPT ![o] = FALSE]
        /\ result' = [output |-> o, ret |-> "ok"]
    BY <1>17 DEF Realloc, NoReuse
  <2>2. UNCHANGED owner
    BY <2>1 DEF ApplyStarts
  <2>3. n' \in 0 .. LIFTOFF_PRIORITY_PERIOD - 1 /\ n' \in Nat
    BY <2>1, PrioritizedType, PeriodAssumption
  <2>4. layer' \in [Layers -> LayerAt(n')]
    BY <2>1, <2>3, PrioritizedType, CleanLayersType
  <2>5. ASSUME NEW l \in Layers, owner'[l] = NULL
        PROVE  layer'[l] = NewLayer
    BY <2>1, <2>2, <2>3, <2>5, PrioritizedType, CleanLayersType, NullAssumption
  <2> QED
    BY <1>2, <2>1, <2>3, <2>4, <2>5 DEF OtherTypeOK
<1>18. CASE Stop \/ UNCHANGED vars
  BY <1>5, <1>18 DEF Stop, vars, links
<1> QED
  BY <1>6, <1>7, <1>8, <1>9, <1>10, <1>11, <1>12, <1>14, <1>15, <1>16, <1>17, <1>18
  DEF Next, NoSearch, Search

LEMMA PriorityAlways == Spec => [](LinksInv /\ PriorityInv)
BY LinksInit, LinksNext, PriorityInit, PriorityNext, PTL DEF Spec

\* Every variable keeps its type.
THEOREM LiftoffTypeCorrect == Spec => []TypeOK
<1>1. PriorityInv => TypeOK
  BY DEF PriorityInv
<1> QED
  BY <1>1, PriorityAlways, PTL

\* The priority of a layer never exceeds the period, however many outputs the
\* device has and in whichever order they are applied.
THEOREM PriorityBoundedHolds == Spec => []PriorityBounded
<1>1. PriorityInv => PriorityBounded
  BY DEF PriorityInv, PriorityBounded, LayerAt
<1> QED
  BY <1>1, PriorityAlways, PTL

-----------------------------------------------------------------------------
(* A reused mapping shows nothing that is not to be shown, as long as no   *)
(* apply fails for lack of memory or an I/O error                          *)

\* A layer whose changes since it got its plane can all be told from prev: it
\* was displayed then.
AsAllocated(lay) ==
    /\ ~lay.forced
    /\ "FB_ID" \in Props /\ lay.value["FB_ID"] # NoProp /\ lay.prev["FB_ID"] # 0
    /\ "alpha" \in Props /\ lay.value["alpha"] # NoProp => lay.prev["alpha"] # 0

Tracked(lay) == lay.changed \/ AsAllocated(lay)

MappedTracked == \A l \in Layers : layer_plane[l] # NULL => Tracked(layer[l])

DisplayInv == (Aborted \/ MappedTracked) /\ MappedLayersDisplayable

TypedLayers == layer \in [Layers -> Layer]

LEMMA Typed == PriorityInv => TypedLayers
BY DEF PriorityInv, TypeOK, TypedLayers

\* A layer that needs no new allocation is as displayable as it was.
LEMMA TrackedDisplayable ==
    ASSUME TypedLayers, NEW l \in Layers, Tracked(layer[l]), ~LayerNeedsRealloc(l)
    PROVE  LayerIsVisible(l) /\ ~layer[l].forced
<1> DEFINE lay == layer[l]
<1>1. lay \in Layer /\ lay.value \in PropValues /\ lay.prev \in [Props -> Nat]
  BY DEF TypedLayers, Layer
<1>2. AsAllocated(lay)
  BY DEF Tracked, LayerNeedsRealloc
<1>3. LayerHasFb(l)
  <2>1. "FB_ID" \in Props /\ lay.value["FB_ID"] # NoProp /\ lay.prev["FB_ID"] # 0
    BY <1>2 DEF AsAllocated
  <2>2. ~ /\ lay.value["FB_ID"] # lay.prev["FB_ID"]
          /\ PropNeedsRealloc("FB_ID", lay.value["FB_ID"], lay.prev["FB_ID"])
    BY <2>1 DEF LayerNeedsRealloc
  <2>3. lay.value["FB_ID"] # 0
    BY <2>1, <2>2 DEF PropNeedsRealloc, FbNeedsRealloc
  <2> QED BY <2>1, <2>3 DEF LayerHasFb, Get
<1>4. Get(l, "alpha") # 0
  <2>1. CASE "alpha" \in Props /\ lay.value["alpha"] # NoProp
    <3>1. lay.prev["alpha"] # 0
      BY <1>2, <2>1 DEF AsAllocated
    <3>2. ~ /\ lay.value["alpha"] # lay.prev["alpha"]
            /\ PropNeedsRealloc("alpha", lay.value["alpha"], lay.prev["alpha"])
      BY <2>1 DEF LayerNeedsRealloc
    <3>3. lay.value["alpha"] # 0
      BY <3>1, <3>2 DEF PropNeedsRealloc, AlphaNeedsRealloc
    <3> QED BY <2>1, <3>3 DEF Get
  <2>2. CASE ~("alpha" \in Props /\ lay.value["alpha"] # NoProp)
    BY <2>2, PropsAssumption DEF Get
  <2> QED BY <2>1, <2>2
<1> QED BY <1>2, <1>3, <1>4 DEF LayerIsVisible, AsAllocated

\* Setting a property leaves a layer's changes in sight.
LEMMA WithPropertyTracked ==
    ASSUME NEW lay \in Layer, Tracked(lay), NEW name \in Props, NEW v \in Nat
    PROVE  Tracked(WithProperty(lay, name, v))
<1> DEFINE unforces == name = "FB_ID" /\ lay.forced
           new == WithProperty(lay, name, v)
<1>1. lay.value \in PropValues /\ lay.prev \in [Props -> Nat]
  BY DEF Layer
<1>2. /\ new.value = [lay.value EXCEPT ![name] = v]
      /\ new.prev = lay.prev
      /\ new.forced = (lay.forced /\ ~unforces)
      /\ new.changed = (lay.changed \/ lay.value[name] = NoProp \/ unforces)
  BY DEF WithProperty, Layer
<1> HIDE DEF new
<1>3. CASE lay.changed \/ lay.value[name] = NoProp
  BY <1>2, <1>3 DEF Tracked, new
<1>4. CASE ~lay.changed /\ lay.value[name] # NoProp
  <2>1. AsAllocated(lay)
    BY <1>4 DEF Tracked
  <2>2. \A n \in Props : n # name => new.value[n] = lay.value[n]
    BY <1>1, <1>2 DEF PropValues
  <2>3. new.value[name] # NoProp
    BY <1>1, <1>2, PropsAssumption DEF PropValues
  <2>4. AsAllocated(new)
    BY <1>2, <1>4, <2>1, <2>2, <2>3 DEF AsAllocated
  <2> QED BY <2>4 DEF Tracked, new
<1> QED BY <1>3, <1>4

\* Priorities say nothing about display.
SameDisplay(lay, new) ==
    /\ new.value = lay.value /\ new.prev = lay.prev
    /\ new.forced = lay.forced /\ new.changed = lay.changed

LEMMA PrioritizedSame ==
    ASSUME TypedLayers, NEW l \in Layers
    PROVE  SameDisplay(layer[l], PrioritizedLayers[l])
BY DEF TypedLayers, PrioritizedLayers, LayerUpdatePriority, SameDisplay, Layer

LEMMA SameDisplayTracked ==
    ASSUME NEW lay, NEW new, SameDisplay(lay, new), Tracked(lay)
    PROVE  Tracked(new)
BY DEF SameDisplay, Tracked, AsAllocated

\* A layer found displayable when it is mapped is tracked once marked clean.
LEMMA CleanTracked ==
    ASSUME TypedLayers, NEW o, NEW l \in Layers, owner[l] = o,
           LayerIsVisible(l), ~layer[l].forced
    PROVE  /\ Tracked(CleanLayers(o, PrioritizedLayers)[l])
           /\ CleanLayers(o, PrioritizedLayers)[l].value = layer[l].value
           /\ CleanLayers(o, PrioritizedLayers)[l].forced = layer[l].forced
<1> DEFINE lay == PrioritizedLayers[l]
           prev == [n \in Props |-> IF lay.value[n] = NoProp THEN lay.prev[n] ELSE lay.value[n]]
           new == [lay EXCEPT !.changed = FALSE, !.prev = prev]
<1>1. CleanLayers(o, PrioritizedLayers)[l] = new
  BY DEF CleanLayers
<1>2. SameDisplay(layer[l], lay) /\ layer[l] \in Layer
  BY PrioritizedSame DEF TypedLayers
<1>3. new.value = lay.value /\ new.forced = lay.forced /\ new.prev = prev
  BY DEF PrioritizedLayers, LayerUpdatePriority, TypedLayers, Layer
<1>4. AsAllocated(new)
  <2>1. "FB_ID" \in Props /\ layer[l].value["FB_ID"] \notin {NoProp, 0}
    BY DEF LayerIsVisible, LayerHasFb, Get
  <2>2. "alpha" \in Props => layer[l].value["alpha"] # 0
    BY DEF LayerIsVisible, Get
  <2> HIDE DEF lay, new
  <2> QED BY <1>2, <1>3, <2>1, <2>2 DEF AsAllocated, SameDisplay
<1> HIDE DEF new
<1> QED BY <1>1, <1>2, <1>3, <1>4 DEF Tracked, SameDisplay

-----------------------------------------------------------------------------
(* The steps                                                               *)

LEMMA DisplayInit == Init => DisplayInv
BY NullAssumption DEF Init, DisplayInv, MappedTracked, MappedLayersDisplayable, AppliedOk, NoResult

\* After a call other than an apply, nothing is claimed of a result.
LEMMA DisplayCall ==
    ASSUME result' = NoResult, MappedTracked'
    PROVE  DisplayInv'
BY NullAssumption DEF DisplayInv, MappedLayersDisplayable, AppliedOk, NoResult

LEMMA DisplayCalls ==
    ASSUME LinksInv, PriorityInv, DisplayInv, NoSearch,
           ~\E o \in Outputs : Reuse(o) \/ ReuseAborts(o) \/ ReallocFails(o)
    PROVE  DisplayInv'
<1>0. TypedLayers /\ LinksTypeOK
  BY Typed DEF LinksInv
<1> USE DEF MappedTracked
<1>1. ASSUME Call PROVE MappedTracked /\ result' = NoResult
  BY <1>1 DEF Call, DisplayInv
<1>2. ASSUME NEW p \in Planes, PlaneCreate(p) \/ PlaneDestroy(p) PROVE DisplayInv'
  <2>1. Call /\ layer' = layer
    BY <1>2 DEF PlaneCreate, PlaneDestroy
  <2>2. \A l \in Layers : layer_plane'[l] # NULL => layer_plane[l] # NULL
    BY <1>0, <1>2 DEF PlaneCreate, PlaneDestroy, LinksTypeOK
  <2> QED BY <1>1, <2>1, <2>2, DisplayCall
<1>3. ASSUME NEW o \in Outputs,
             \/ OutputCreate(o) \/ OutputDestroy(o)
             \/ \E l \in Layers : SetCompositionLayer(o, l)
      PROVE  DisplayInv'
  <2>1. Call /\ UNCHANGED <<layer, layer_plane>>
    BY <1>3 DEF OutputCreate, OutputDestroy, SetCompositionLayer, links
  <2> QED BY <1>1, <2>1, DisplayCall
<1>4. ASSUME NEW o \in Outputs, NEW l \in Layers, LayerCreate(o, l) PROVE DisplayInv'
  <2>1. /\ Call /\ owner[l] = NULL /\ layer_plane' = layer_plane
        /\ layer' = [layer EXCEPT ![l] = NewLayer]
    BY <1>4 DEF LayerCreate
  <2>2. layer_plane[l] = NULL
    <3> SUFFICES ASSUME layer_plane[l] # NULL PROVE FALSE
      OBVIOUS
    <3>1. layer_plane[l] \in Planes /\ plane_layer[layer_plane[l]] = l
      BY <1>0 DEF LinksInv, LinksConsistent, LinksTypeOK
    <3>2. owner[l] \in outputs
      BY <3>1, NullAssumption DEF LinksInv, LinksConsistent
    <3> QED BY <1>0, <2>1, <3>2, NullAssumption DEF LinksTypeOK
  <2>3. \A k \in Layers \ {l} : layer'[k] = layer[k]
    BY <1>0, <2>1 DEF TypedLayers
  <2> QED BY <1>1, <2>1, <2>2, <2>3, DisplayCall
<1>5. ASSUME NEW l \in Layers, LayerDestroy(l) PROVE DisplayInv'
  <2>1. Call /\ layer_plane'[l] = NULL
    BY <1>0, <1>5 DEF LayerDestroy, LinksTypeOK
  <2>2. \A k \in Layers \ {l} : layer'[k] = layer[k] /\ layer_plane'[k] = layer_plane[k]
    BY <1>0, <1>5 DEF LayerDestroy, TypedLayers, LinksTypeOK
  <2> QED BY <1>1, <2>1, <2>2, DisplayCall
<1>6. ASSUME NEW l \in Layers, NEW name \in Props, NEW v \in Values[l][name],
             SetProperty(l, name, v)
      PROVE  DisplayInv'
  <2>1. Call /\ layer' = [layer EXCEPT ![l] = WithProperty(layer[l], name, v)]
        /\ layer_plane' = layer_plane
    BY <1>6 DEF SetProperty, links
  <2>2. /\ layer'[l] = WithProperty(layer[l], name, v)
        /\ \A k \in Layers \ {l} : layer'[k] = layer[k]
        /\ layer[l] \in Layer /\ v \in Nat
    BY <1>0, <2>1, PropsAssumption DEF TypedLayers
  <2>3. Tracked(layer[l]) => Tracked(layer'[l])
    BY <2>2, WithPropertyTracked
  <2> QED BY <1>1, <2>1, <2>2, <2>3, DisplayCall
<1>7. ASSUME NEW l \in Layers, SetFbComposited(l) PROVE DisplayInv'
  <2>1. Call /\ layer_plane' = layer_plane
    BY <1>7 DEF SetFbComposited, links
  <2>2. /\ layer'[l].changed
        /\ \A k \in Layers \ {l} : layer'[k] = layer[k]
    BY <1>0, <1>7 DEF SetFbComposited, TypedLayers, WithProperty, Layer
  <2> QED BY <1>1, <2>1, <2>2, DisplayCall DEF Tracked
<1>8. CASE Stop
  BY <1>8 DEF Stop, vars, links, DisplayInv, Aborted, MappedLayersDisplayable, AppliedOk,
              LayersOf, LayerIsVisible, LayerHasFb, Get
<1> QED
  BY <1>2, <1>3, <1>4, <1>5, <1>6, <1>7, <1>8 DEF NoSearch

\* Reuse: nothing needs a new allocation, so what is mapped is displayable.
LEMMA DisplayReuse ==
    ASSUME LinksInv, PriorityInv, DisplayInv, NEW o \in Outputs, Reuse(o)
    PROVE  DisplayInv'
<1>0. TypedLayers
  BY Typed
<1>1. /\ MappedTracked /\ CanReuse(o) /\ layer' = PrioritizedLayers
      /\ UNCHANGED <<owner, layer_plane>> /\ result' = [output |-> o, ret |-> "ok"]
  BY DEF Reuse, ApplyStarts, DisplayInv
<1>2. \A l \in Layers : SameDisplay(layer[l], layer'[l])
  BY <1>0, <1>1, PrioritizedSame
<1>3. MappedTracked'
  BY <1>1, <1>2, SameDisplayTracked DEF MappedTracked
<1>4. ASSUME NEW l \in Layers, owner[l] = o, layer_plane[l] # NULL
      PROVE  (LayerIsVisible(l) /\ ~layer[l].forced)'
  <2>1. Tracked(layer[l]) /\ ~LayerNeedsRealloc(l)
    BY <1>1, <1>4 DEF MappedTracked, CanReuse, LayersOf
  <2>2. LayerIsVisible(l) /\ ~layer[l].forced
    BY <1>0, <2>1, TrackedDisplayable
  <2> QED BY <1>2, <2>2 DEF SameDisplay, LayerIsVisible, LayerHasFb, Get
<1>5. MappedLayersDisplayable'
  BY <1>1, <1>4 DEF MappedLayersDisplayable, AppliedOk, LayersOf
<1> QED BY <1>3, <1>5 DEF DisplayInv

\* A new allocation maps layers that are displayable, and marks them clean.
LEMMA DisplayRealloc ==
    ASSUME LinksInv, PriorityInv, DisplayInv, NEW o \in Outputs, Realloc(o)
    PROVE  DisplayInv'
<1>0. TypedLayers
  BY Typed
<1>1. /\ MappedTracked /\ layer' = CleanLayers(o, PrioritizedLayers) /\ o \in outputs
      /\ owner' = owner /\ result' = [output |-> o, ret |-> "ok"]
  BY DEF Realloc, NoReuse, ApplyStarts, DisplayInv
<1>2. PICK m \in SearchResults(o, Busy(o)) : layer_plane' = MapLayers(o, m)
  BY DEF Realloc, Adopt
<1>3. ASSUME NEW l \in Layers, owner[l] # o, layer_plane'[l] # NULL
      PROVE  Tracked(layer'[l])
  <2>1. layer_plane[l] # NULL
    BY <1>1, <1>2, <1>3, MappedLinks
  <2>2. layer'[l] = PrioritizedLayers[l]
    BY <1>1, <1>3 DEF CleanLayers
  <2> QED
    BY <1>0, <1>1, <2>1, <2>2, PrioritizedSame, SameDisplayTracked DEF MappedTracked
<1>4. ASSUME NEW l \in Layers, owner[l] = o, layer_plane'[l] # NULL
      PROVE  Tracked(layer'[l]) /\ (LayerIsVisible(l) /\ ~layer[l].forced)'
  <2>1. ClearedLayers(o)[l] = NULL
    BY <1>1, <1>4, ClearedLinks
  <2>2. PICK p \in DOMAIN m : m[p] = l
    BY <1>2, <1>4, <2>1 DEF MapLayers
  <2>3. LayerIsVisible(l) /\ ~layer[l].forced
    BY <2>2, NullAssumption DEF SearchResults
  <2>4. /\ Tracked(layer'[l]) /\ layer'[l].value = layer[l].value
        /\ layer'[l].forced = layer[l].forced
    BY <1>0, <1>1, <1>4, <2>3, CleanTracked
  <2> QED BY <2>3, <2>4 DEF LayerIsVisible, LayerHasFb, Get
<1>5. MappedTracked'
  BY <1>3, <1>4 DEF MappedTracked
<1>6. MappedLayersDisplayable'
  BY <1>1, <1>4 DEF MappedLayersDisplayable, AppliedOk, LayersOf
<1> QED BY <1>5, <1>6 DEF DisplayInv

LEMMA DisplayNext ==
    ~MayFail /\ LinksInv /\ PriorityInv /\ DisplayInv /\ [Next]_vars => DisplayInv'
<1> SUFFICES ASSUME ~MayFail, LinksInv, PriorityInv, DisplayInv, [Next]_vars
             PROVE  DisplayInv'
  OBVIOUS
<1>1. ASSUME NEW o \in Outputs, ReuseAborts(o) \/ ReallocAborts(o) PROVE DisplayInv'
  <2>1. result' = [output |-> o, ret |-> "abort"]
    BY <1>1 DEF ReuseAborts, ReallocAborts
  <2> QED BY <2>1 DEF DisplayInv, Aborted, MappedLayersDisplayable, AppliedOk
<1>2. ASSUME NEW o \in Outputs, Search(o) PROVE DisplayInv'
  BY <1>1, <1>2, DisplayRealloc DEF Search, ReallocFailsLate
<1>3. CASE NoSearch
  BY <1>1, <1>3, DisplayCalls, DisplayReuse DEF ReallocFails
<1>4. CASE UNCHANGED vars
  BY <1>4 DEF vars, links, DisplayInv, MappedTracked, Aborted, MappedLayersDisplayable,
              AppliedOk, LayersOf, LayerIsVisible, LayerHasFb, Get
<1> QED BY <1>2, <1>3, <1>4 DEF Next

\* As long as no apply fails, no plane shows a layer that is disabled, fully
\* transparent or to be composited after a successful apply, with any number of
\* outputs, planes coming and going, and however many applies reused the mapping:
\* prev_value and changed together do not forget any change that matters.
THEOREM MappedLayersDisplayableHolds ==
    ~MayFail => (Spec => []MappedLayersDisplayable)
<1> SUFFICES ASSUME ~MayFail PROVE Spec => []MappedLayersDisplayable
  OBVIOUS
<1>1. LinksInv /\ PriorityInv /\ DisplayInv /\ [Next]_vars => DisplayInv'
  BY DisplayNext
<1>2. DisplayInv => MappedLayersDisplayable
  BY DEF DisplayInv
<1> QED BY <1>1, <1>2, DisplayInit, PriorityAlways, PTL DEF Spec
==============================================================================
