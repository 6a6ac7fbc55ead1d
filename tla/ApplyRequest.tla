----------------------------- MODULE ApplyRequest -----------------------------
(***************************************************************************)
(* The atomic request of liftoff_output_apply, property by property: what  *)
(* plane_apply appends and takes back, what is tested, and what is left to *)
(* the client to commit (alloc.c, plane.c, device.c).                      *)
(*                                                                         *)
(* Applies of one output, whose layers are all visible; planes may be held *)
(* by layers of other outputs.  Which layers may go on which planes, and   *)
(* when the previous mapping may be reused, is left open here:             *)
(* modules ChooseLayers and Liftoff tell.  The search goes over planes and *)
(* layers in the order of the code, and any layer may be ruled out, any    *)
(* activation given up, and any complete allocation found to be better.    *)
(***************************************************************************)
EXTENDS Naturals, FiniteSets, Sequences, FiniteSetsExt, Functions

CONSTANTS
    NumPlanes, NumLayers,
    NoProp,
    Names,          \* the properties of layers
    LayerProps,     \* LayerProps[l]: those of layer l, in the order it got them
    Values,         \* Values[l][name]: the values clients give them
    Defaults,       \* Defaults[name]: the value a plane without the property has
    Has,            \* Has[p]: the properties of plane p
    Holdings,       \* which planes may have layers of other outputs
    ClientRequests  \* what may be in a request already

Planes == 1 .. NumPlanes
Layers == 1 .. NumLayers
NULL == 0
CRTC == 1           \* output->crtc_id
OTHER_CRTC == 2     \* that of another output
Mapping == [Planes -> Layers \union {NULL}]

PlaneProps == {"CRTC_ID"} \union Names
Entry == [plane : Planes \union {NULL}, name : PlaneProps, value : Nat]

ASSUME ApplyRequestAssumption ==
    /\ NumPlanes \in Nat \ {0} /\ NumLayers \in Nat
    /\ "FB_ID" \in Names /\ "CRTC_ID" \notin Names /\ NoProp \notin Nat
    /\ LayerProps \in [Layers -> Seq(Names)]
    /\ \A l \in Layers : "FB_ID" \in Range(LayerProps[l])
    /\ Values \in [Layers -> [Names -> SUBSET (Nat \union {NoProp})]]
    /\ \A l \in Layers : Values[l]["FB_ID"] \subseteq Nat \ {0}
    /\ \A l \in Layers : \A name \in Names \ Range(LayerProps[l]) :
          Values[l][name] \subseteq {NoProp}
    /\ Has \in [Planes -> SUBSET PlaneProps]
    /\ \A p \in Planes : {"FB_ID", "CRTC_ID"} \subseteq Has[p]
    /\ Holdings \subseteq Mapping
    /\ \A m \in Holdings : \A p, q \in Planes : m[p] = m[q] /\ m[p] # NULL => p = q
    /\ ClientRequests \subseteq Seq(Entry)
    /\ \A r \in ClientRequests : \A i \in DOMAIN r : r[i].plane = NULL

VARIABLES
    value,     \* the properties of the layers
    held,      \* the planes' layers of other outputs, which are not applied
    hw,        \* the properties of the planes, as committed last
    mapping,   \* plane->layer
    req,       \* the request
    client,    \* history: what it held when apply was called
    accepted,  \* history: the configurations this apply saw accepted
    pc,        \* what apply is doing
    plane,     \* the plane its loop is at
    prop,      \* plane_apply: how far it is
    cursor,    \* plane_apply: its cursor
    outer,     \* apply_current, reuse_previous_alloc: their cursor
    frame,     \* output_choose_layers: its activations
    best       \* result->best

locals == <<plane, prop, cursor, outer, frame, best>>
vars == <<value, held, hw, mapping, req, client, accepted, pc, locals>>

Frame == [layer : Layers \union {NULL}, next : 1 .. NumLayers + 2, cursor : Nat]

NoMapping == [p \in Planes |-> NULL]

OwnLayers == Layers \ Range(held)
CrtcOf(l) == IF l \in OwnLayers THEN CRTC ELSE OTHER_CRTC

-----------------------------------------------------------------------------
(* Requests                                                                *)

\* The properties of plane p that a commit of r would give it.
PlaneConfig(r, p) ==
    [name \in PlaneProps |->
        LET entries == {i \in DOMAIN r : r[i].plane = p /\ r[i].name = name}
        IN  IF entries = {} THEN hw[p][name] ELSE r[Max(entries)].value]

Config(r) == [p \in Planes |-> PlaneConfig(r, p)]

\* drmModeAtomicSetCursor
SetCursor(r, c) == SubSeq(r, 1, c)

-----------------------------------------------------------------------------
(* plane_apply                                                             *)

\* The properties it goes through for a layer, or to disable the plane.
Work(l) ==
    IF l = NULL
    THEN << <<"FB_ID", 0>>, <<"CRTC_ID", 0>> >>
    ELSE << <<"CRTC_ID", CrtcOf(l)>> >> \o
         [i \in DOMAIN LayerProps[l] |->
             <<LayerProps[l][i], value[l][LayerProps[l][i]]>>]

\* The current activation of the search.
Top == frame[Len(frame)]

\* The layer that plane_apply is called with.
Target ==
    CASE pc \in {"reuse", "final"} -> mapping[plane]
      [] pc = "disable" -> NULL
      [] pc = "try" -> Top.next

Applying == pc \in {"reuse", "disable", "try", "final"}

\* A plane that has a layer is not disabled.
Spared == pc = "disable" /\ held[plane] # NULL

Todo == ~Spared /\ prop <= Len(Work(Target))
Name == Work(Target)[prop][1]
Value == Work(Target)[prop][2]

\* Nothing to append: the layer lacks the property, or the property is zpos, or
\* plane p lacks it and has the value anyway.
NeedlessOn(p, name, v) ==
    \/ v = NoProp
    \/ name = "zpos"
    \/ name \notin Has[p] /\ name \in DOMAIN Defaults /\ Defaults[name] = v

Needless == NeedlessOn(plane, Name, Value)

AppendProp ==
    /\ Applying /\ Todo
    /\ prop' = prop + 1
    /\ \/ Needless /\ UNCHANGED req
       \/ /\ ~Needless
          /\ Name \in Has[plane]
          /\ req' = Append(req, [plane |-> plane, name |-> Name, value |-> Value])
    /\ UNCHANGED <<value, held, hw, mapping, client, accepted, pc, plane, cursor, outer,
                   frame, best>>

\* plane_apply returns -EINVAL for the current property.
Unsupported == Todo /\ ~Needless /\ Name \notin Has[plane]

\* A plausible slip: what was appended for the layer stays.
UndoneNot == req

\* The request after plane_apply failed: it takes back what it appended for a
\* layer, but not what it appended to disable a plane.
Undone == IF Target = NULL THEN req ELSE SetCursor(req, cursor)

Returns == ~Todo

-----------------------------------------------------------------------------
(* The loops over planes that call plane_apply                             *)

\* plane_apply is called for plane p.
CallPlaneApply(p, r) == plane' = p /\ prop' = 1 /\ cursor' = Len(r)

\* Every loop over planes: go on with the next one, or with what comes after.
LoopOver(after) ==
    /\ CallPlaneApply(plane + 1, req)
    /\ pc' = IF plane = NumPlanes THEN after ELSE pc

\* This output's mapping is unset and its planes are disabled, on top of
\* request r.
StartOver(r) ==
    /\ req' = r
    /\ pc' = "disable"
    /\ mapping' = held
    /\ CallPlaneApply(1, r)

\* reuse_previous_alloc: apply_current has put the mapping in the request.
ReuseApplied ==
    /\ pc = "reuse" /\ Returns
    /\ LoopOver("reuse_test")
    /\ UNCHANGED <<value, held, hw, mapping, req, client, accepted, outer, frame, best>>

\* A plausible slip: apply_current takes back the last plane only.
ReuseFailsHalfUndone ==
    /\ pc = "reuse" /\ Todo /\ ~Needless
    /\ StartOver(Undone)
    /\ UNCHANGED <<value, held, hw, client, accepted, outer, frame, best>>

\* Memory fails apply_current; it takes all back, and the search follows.
ReuseFails ==
    /\ pc = "reuse" /\ Todo /\ ~Needless
    /\ StartOver(SetCursor(req, outer))
    /\ UNCHANGED <<value, held, hw, client, accepted, outer, frame, best>>

PlaneDisabled ==
    /\ pc = "disable" /\ Returns
    /\ LoopOver("search")
    /\ frame' = IF plane = NumPlanes
                THEN << [layer |-> NULL, next |-> 1, cursor |-> Len(req)] >>
                ELSE frame
    /\ UNCHANGED <<value, held, hw, mapping, req, client, accepted, outer, best>>

\* Memory fails in the middle of disabling a plane, or after.
DisableFails ==
    /\ \/ pc = "disable" /\ Todo
       \/ pc = "search" /\ Len(frame) = 1 /\ Top.next = 1
    /\ pc' = "error"
    /\ UNCHANGED <<value, held, hw, mapping, req, client, accepted, locals>>

FinalApplied ==
    /\ pc = "final" /\ Returns
    /\ LoopOver("ok")
    /\ UNCHANGED <<value, held, hw, mapping, req, client, accepted, outer, frame, best>>

FinalFails ==
    /\ pc = "final" /\ Todo /\ ~Needless
    /\ req' = SetCursor(req, outer)
    /\ pc' = "error"
    /\ UNCHANGED <<value, held, hw, mapping, client, accepted, locals>>

-----------------------------------------------------------------------------
(* output_choose_layers                                                    *)

Depth == Len(frame)

\* The layers on the planes before the d-th.
OnPath(d) == [p \in Planes |-> IF p < d THEN frame[p].layer ELSE NULL]

\* The loop of the current activation goes on, in request r.
NextLayer(r) ==
    /\ frame' = [frame EXCEPT ![Depth].next = @ + 1]
    /\ req' = r
    /\ pc' = "search"

\* The current activation calls the next one, with layer l on its plane.
Call(l) ==
    frame' = Append([frame EXCEPT ![Depth].layer = l],
                    [layer |-> NULL, next |-> 1, cursor |-> Len(req)])

\* The current activation returns; its caller sets the cursor back.  The first
\* one returns to liftoff_output_apply, which maps the result.
Return ==
    IF Depth > 1
    THEN /\ frame' = [SubSeq(frame, 1, Depth - 1) EXCEPT ![Depth - 1].next = @ + 1]
         /\ req' = SetCursor(req, frame[Depth - 1].cursor)
         /\ UNCHANGED <<mapping, pc, plane, prop, cursor, outer>>
    ELSE /\ frame' = << >>
         /\ mapping' = [p \in Planes |-> IF held[p] # NULL THEN held[p] ELSE best'[p]]
         /\ outer' = Len(req)
         /\ pc' = "final"
         /\ CallPlaneApply(1, req)
         /\ UNCHANGED req

\* No plane is left; the allocation may be the best so far.
Finished ==
    /\ pc = "search" /\ Depth = NumPlanes + 1
    /\ best' \in {best, OnPath(Depth)}
    /\ Return
    /\ UNCHANGED <<value, held, hw, client, accepted>>

\* Hopeless when it was entered, or at its end.
Leave ==
    /\ pc = "search" /\ Depth <= NumPlanes
    /\ Top.next \in {1, NumLayers + 2}
    /\ UNCHANGED best
    /\ Return
    /\ UNCHANGED <<value, held, hw, client, accepted>>

\* A plausible slip: the loop over layers misses its end.
RuleOutPastEnd ==
    /\ pc = "search" /\ Depth <= NumPlanes
    /\ NextLayer(req)
    /\ UNCHANGED <<value, held, hw, mapping, client, accepted, plane, prop, cursor, outer, best>>

RuleOut ==
    /\ pc = "search" /\ Depth <= NumPlanes
    /\ Top.next \in Layers
    /\ NextLayer(req)
    /\ UNCHANGED <<value, held, hw, mapping, client, accepted, plane, prop, cursor, outer, best>>

\* A plane of another output's layer is passed over.
TryLayer ==
    /\ pc = "search" /\ Depth <= NumPlanes
    /\ held[Depth] = NULL
    /\ Top.next \in OwnLayers \ Range(OnPath(Depth))
    /\ pc' = "try"
    /\ CallPlaneApply(Depth, req)
    /\ UNCHANGED <<value, held, hw, mapping, req, client, accepted, outer, frame, best>>

\* plane_apply returns -EINVAL: the search goes on with the next layer.
PlaneRejects ==
    /\ pc = "try" /\ Unsupported
    /\ NextLayer(Undone)
    /\ UNCHANGED <<value, held, hw, mapping, client, accepted, plane, prop, cursor, outer, best>>

\* It runs out of memory, and so does apply.
TryFails ==
    /\ pc = "try" /\ Todo /\ ~Needless
    /\ req' = Undone
    /\ pc' = "error"
    /\ UNCHANGED <<value, held, hw, mapping, client, accepted, locals>>

Tried ==
    /\ pc = "try" /\ Returns
    /\ pc' = "test"
    /\ UNCHANGED <<value, held, hw, mapping, req, client, accepted, locals>>

Skip ==
    /\ pc = "search" /\ Depth <= NumPlanes
    /\ Top.next = NumLayers + 1
    /\ Call(NULL)
    /\ UNCHANGED <<value, held, hw, mapping, req, client, accepted, pc, plane, prop, cursor,
                   outer, best>>

-----------------------------------------------------------------------------
(* device_test_commit                                                      *)

Testing == pc \in {"test", "reuse_test"}

\* -EINTR or -EAGAIN: the commit is repeated.
TestInterrupted == Testing /\ UNCHANGED vars

TestAccepts ==
    /\ Testing
    /\ accepted' = accepted \union {Config(req)}
    /\ IF pc = "test" THEN Call(Top.next) /\ pc' = "search"
                      ELSE pc' = "ok" /\ UNCHANGED frame
    /\ UNCHANGED <<value, held, hw, mapping, req, client, plane, prop, cursor, outer, best>>

\* A plausible slip: the cursor is not set back.
RejectedRequestKept == req

\* The request after the kernel rejected the current layer.
RejectedRequest == SetCursor(req, Top.cursor)

\* A plausible slip: the layer is tried again.
TestRejectsAgain ==
    /\ pc = "test"
    /\ pc' = "search"
    /\ req' = RejectedRequest
    /\ UNCHANGED <<value, held, hw, mapping, client, accepted, locals>>

TestRejects ==
    /\ pc = "test"
    /\ NextLayer(RejectedRequest)
    /\ UNCHANGED <<value, held, hw, mapping, client, accepted, plane, prop, cursor, outer, best>>

TestFails ==
    /\ pc = "test"
    /\ pc' = "error"
    /\ UNCHANGED <<value, held, hw, mapping, req, client, accepted, locals>>

\* Rejected or failed, the mapping is given up and a new one is searched.
ReuseRejected ==
    /\ pc = "reuse_test"
    /\ StartOver(SetCursor(req, outer))
    /\ UNCHANGED <<value, held, hw, client, accepted, outer, frame, best>>

-----------------------------------------------------------------------------
(* The client                                                              *)

PropValues == [Names -> UNION {Values[l][name] : l \in Layers, name \in Names}]

LayersValues ==
    {v \in [Layers -> PropValues] :
        \A l \in Layers, name \in Names : v[l][name] \in Values[l][name]}

\* The planes have all that their layers need.
Fits(m) ==
    \A p \in Planes : m[p] # NULL =>
        \A name \in Names :
            name \in Has[p] \/ NeedlessOn(p, name, value[m[p]][name])

\* What plane p has when layer l is shown on it first.
FirstShows(p, l) ==
    [name \in PlaneProps |->
        CASE l = NULL -> 0
          [] l # NULL /\ name = "CRTC_ID" -> CrtcOf(l)
          [] l # NULL /\ name # "CRTC_ID" ->
                IF name \in Has[p] \ {"zpos"} /\ value[l][name] # NoProp
                THEN value[l][name] ELSE 0]

\* Layers with a framebuffer, planes that are off or another output's.
Init ==
    /\ value \in LayersValues
    /\ held \in {m \in Holdings : Fits(m)}
    /\ hw = [p \in Planes |-> FirstShows(p, held[p])]
    /\ mapping = held
    /\ req = << >> /\ client = << >> /\ accepted = {}
    /\ pc = "client"
    /\ plane = 1 /\ prop = 1 /\ cursor = 0 /\ outer = 0
    /\ frame = << >> /\ best = NoMapping

SetProperty(l, name, v) ==
    /\ pc = "client"
    /\ v # NoProp
    /\ value' = [value EXCEPT ![l][name] = v]
    /\ UNCHANGED <<held, hw, mapping, req, client, accepted, pc, locals>>

\* liftoff_output_apply is called; it may reuse the mapping.  The layers of other
\* outputs still fit their planes, otherwise the assertion of apply_current fails;
\* if a layer of this one does not, it has changed in a way that asks for a new
\* mapping (Liftoff!NoAssertionFails).
Apply(r) ==
    /\ pc = "client"
    /\ Fits(held)
    /\ client' = r
    /\ accepted' = {}
    /\ best' = NoMapping
    /\ outer' = Len(r)
    /\ \/ StartOver(r)
       \/ /\ Fits(mapping)
          /\ pc' = "reuse"
          /\ req' = r
          /\ CallPlaneApply(1, r)
          /\ UNCHANGED mapping
    /\ UNCHANGED <<value, held, hw, frame>>

\* The client goes on, with a new request.
Forget ==
    /\ pc' = "client"
    /\ req' = << >> /\ client' = << >> /\ accepted' = {}
    /\ plane' = 1 /\ prop' = 1 /\ cursor' = 0 /\ outer' = 0
    /\ frame' = << >> /\ best' = NoMapping
    /\ UNCHANGED <<value, held, mapping>>

Commit == pc = "ok" /\ hw' = Config(req) /\ Forget

Drop == pc \in {"ok", "error"} /\ UNCHANGED hw /\ Forget

-----------------------------------------------------------------------------
Step ==
    \/ AppendProp
    \/ ReuseApplied \/ ReuseFails \/ ReuseRejected
    \/ PlaneDisabled \/ DisableFails
    \/ Finished \/ Leave \/ RuleOut \/ Skip
    \/ TryLayer \/ PlaneRejects \/ TryFails \/ Tried
    \/ TestAccepts \/ TestRejects \/ TestFails
    \/ FinalApplied \/ FinalFails

ClientActs ==
    \/ \E l \in Layers, name \in Names : \E v \in Values[l][name] : SetProperty(l, name, v)
    \/ \E r \in ClientRequests : Apply(r)
    \/ Commit \/ Drop

Next == Step \/ TestInterrupted \/ ClientActs

\* Apply runs until it returns, and the kernel is not interrupted forever: a
\* step other than TestInterrupted, which changes nothing, is taken at last.
Spec == Init /\ [][Next]_vars /\ WF_vars(Step)

-----------------------------------------------------------------------------
(* Properties                                                              *)

TypeOK ==
    /\ value \in LayersValues
    /\ hw \in [Planes -> [PlaneProps -> Nat]]
    /\ held \in Holdings
    /\ mapping \in Mapping
    /\ req \in Seq(Entry) /\ client \in Seq(Entry)
    /\ accepted \subseteq [Planes -> [PlaneProps -> Nat]]
    /\ pc \in {"client", "reuse", "reuse_test", "disable", "search", "try", "test",
               "final", "ok", "error"}
    /\ plane \in 1 .. NumPlanes + 1
    /\ prop \in Nat /\ cursor \in Nat /\ outer \in Nat
    /\ frame \in Seq(Frame) /\ Len(frame) <= NumPlanes + 1
    /\ best \in Mapping

\* What plane p has when it shows layer l, or is off: a property that is not set
\* keeps the value committed last.
Shows(p, l) ==
    [name \in PlaneProps |->
        CASE name = "CRTC_ID" -> IF l = NULL THEN 0 ELSE CrtcOf(l)
          [] name = "FB_ID"   -> IF l = NULL THEN 0 ELSE value[l]["FB_ID"]
          [] name \notin {"CRTC_ID", "FB_ID"} ->
                IF l # NULL /\ name \in Has[p] \ {"zpos"} /\ value[l][name] # NoProp
                THEN value[l][name] ELSE hw[p][name]]

ShowsMapping(m) == [p \in Planes |-> Shows(p, m[p])]

\* The layers on the planes so far, and the one being tried; the planes of other
\* outputs stay as they are.
Tentative == [OnPath(Depth) EXCEPT ![Depth] = Top.next]

ShowsTentative ==
    [p \in Planes |-> IF held[p] # NULL THEN hw[p] ELSE Shows(p, Tentative[p])]

\* Each test commit is about exactly the configuration that apply has in mind,
\* in every property of every plane, and so is the request it returns: nothing is
\* left over of a layer that was rejected halfway, of an abandoned branch or of
\* the previous mapping, and planes of other outputs show their layers.
RequestIsWhatIsMeant ==
    /\ pc = "test" => Config(req) = ShowsTentative
    /\ pc \in {"reuse_test", "ok"} => Config(req) = ShowsMapping(mapping)

\* Plane p has another output's layer, with changes that were not committed yet.
PendingElsewhere(p) == held[p] # NULL /\ Shows(p, held[p]) # hw[p]

\* What apply leaves in the request is what a test commit accepted, although it
\* was built again after the last test, or it just disables the planes; pending
\* changes of other outputs' layers, which apply_current adds, aside.
FinalConfigurationTested ==
    pc = "ok" =>
        \/ mapping = held
        \/ \E config \in accepted : \A p \in Planes :
              Config(req)[p] = config[p] \/ PendingElsewhere(p)

\* Whatever fails, what the client had put in the request before is still there,
\* and a reuse that fails leaves nothing behind.
ClientEntriesKept ==
    /\ Len(client) <= Len(req) /\ SubSeq(req, 1, Len(client)) = client
    /\ pc = "disable" /\ plane = 1 /\ prop = 1 => req = client

\* Apply returns, if the kernel does not interrupt test commits forever
\* (device.c:101-105).
ApplyReturns == [](pc # "client" => <>(pc \in {"ok", "error"}))
=============================================================================
