--------------------------- MODULE MCChooseLayers ---------------------------
(***************************************************************************)
(* The scenes on which TLC runs the allocation search: small screens, with *)
(* everything that one question does not vary held fixed.                  *)
(***************************************************************************)
EXTENDS ChooseLayers

Pixels(x, width) == [x |-> x, y |-> 0, width |-> width, height |-> 1]
Left  == Pixels(0, 1)
Right == Pixels(1, 1)
Whole == Pixels(0, 2)

\* A free primary plane below overlays of decreasing zpos, planes and layers
\* that fit each other, and nothing special about any layer.
Plain == [
    zpos        |-> [l \in Layers |-> NoProp],
    rect        |-> [l \in Layers |-> Whole],
    visible     |-> Layers,
    forced      |-> {},
    composition |-> NULL,
    primary     |-> {1} \cap Planes,
    pzpos       |-> [p \in Planes |-> IF p = 1 THEN 0 ELSE NumPlanes + 1 - p],
    busy        |-> {},
    reachable   |-> Planes,
    supports    |-> [p \in Planes |-> Layers],
    compat      |-> [p \in Planes |-> Layers],
    limit       |-> NumPlanes,
    needs_primary |-> FALSE ]

\* The circumstances under which the search has to find out what fits where:
\* with a composition layer; with a layer that must be composited; with fewer
\* planes at once than there are; with a primary plane that must be lit; with
\* two primary planes; with a plane in use elsewhere; with planes that lack a property or the CRTC; with
\* a disabled layer.
Circumstances ==
    LET Composed == [Plain EXCEPT !.composition = 1]
    IN  { Plain,
          [Plain EXCEPT !.limit = 2, !.needs_primary = TRUE],
          Composed,
          [Composed EXCEPT !.forced = {2}],
          [Composed EXCEPT !.limit = 2, !.needs_primary = TRUE],
          [Composed EXCEPT !.primary = {1, 2}],
          [Composed EXCEPT !.busy = {2}],
          [Composed EXCEPT !.supports[2] = {1, 3}, !.reachable = {1, 2}],
          [Composed EXCEPT !.visible = {1, 3}] }

\* Every compatibility of planes and layers in each of these circumstances.
FitScenes ==
    {[scn EXCEPT !.compat = fit] :
        scn \in Circumstances, fit \in [Planes -> SUBSET Layers]}

\* zpos values, one of which (7) is negative once it is stored in an int.
ZposValues == {NoProp, 1, 2, 3, 7}

\* Layers of three shapes, up to a reflection of the screen: the first one that
\* does not fill it is on the left.
Shapes ==
    {r \in [Layers -> {Left, Right, Whole}] :
        \A l \in Layers : r[l] = Right => \E m \in 1 .. l : r[m] = Left}

\* Every stacking of such layers, on planes of which the first is or is not
\* primary and the others do or do not have the same zpos.
StackScenes ==
    {[Plain EXCEPT !.zpos = z, !.rect = r, !.primary = prim, !.pzpos = pz] :
        z \in [Layers -> ZposValues], r \in Shapes,
        prim \in {{}, {1}}, pz \in {<<3, 2, 1>>, <<2, 1, 1>>, <<1, 1, 1>>}}

\* What fits where, and what is above what.
SearchScenes == FitScenes \union StackScenes

\* Those in which every zpos is set, to a value an int holds.
OrdinaryStackScenes ==
    {scn \in StackScenes : \A l \in Layers : scn.zpos[l] \in 0 .. INT_MAX}

\* Overlapping layers of any zpos, some of them disabled.
DisabledScenes ==
    {[Plain EXCEPT !.zpos = z, !.visible = v] :
        z \in [Layers -> ZposValues], v \in SUBSET Layers}
=============================================================================
