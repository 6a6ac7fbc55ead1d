------------------------------ MODULE Geometry ------------------------------
(***************************************************************************)
(* The geometry of layers: how the CRTC_X, CRTC_Y, CRTC_W and CRTC_H       *)
(* properties of a layer become a rectangle, and when two layers           *)
(* intersect (layer.c).  Property values are uint64_t; the rectangle's     *)
(* members are C ints, so a value is reduced to the width of int.          *)
(***************************************************************************)
EXTENDS Integers

CONSTANTS
    INT_MAX,    \* largest value of a C int
    NoProp      \* stands for a property the client never set

ASSUME IntMaxAssumption == INT_MAX \in Nat
ASSUME NoPropAssumption == NoProp \notin Nat

\* The value of a C int after the assignment of the uint64_t v to it.
AsInt(v) ==
    LET width == 2 * (INT_MAX + 1)
        low   == v % width
    IN  IF low > INT_MAX THEN low - width ELSE low

GeometryProps == {"CRTC_X", "CRTC_Y", "CRTC_W", "CRTC_H"}

\* struct liftoff_rect, with members of any size.
Rect == [x : Int, y : Int, width : Int, height : Int]

\* The rectangle of a layer with the given properties; an unset one counts 0.
LayerGetRect(props) ==
    LET value(name) == IF props[name] = NoProp THEN 0 ELSE AsInt(props[name])
    IN  [x     |-> value("CRTC_X"), y      |-> value("CRTC_Y"),
         width |-> value("CRTC_W"), height |-> value("CRTC_H")]

\* A plausible slip: rectangles that merely touch are taken to intersect.
TouchingIntersects(ra, rb) ==
    /\ ra.x <= rb.x + rb.width
    /\ ra.y <= rb.y + rb.height
    /\ ra.x + ra.width > rb.x
    /\ ra.y + ra.height > rb.y

\* layer_intersects on the rectangles of its two layers.
Intersects(ra, rb) ==
    /\ ra.x < rb.x + rb.width
    /\ ra.y < rb.y + rb.height
    /\ ra.x + ra.width > rb.x
    /\ ra.y + ra.height > rb.y

-----------------------------------------------------------------------------
(* Reference definition: the pixels of a rectangle.                        *)

Covers(r, px, py) ==
    /\ r.x <= px /\ px < r.x + r.width
    /\ r.y <= py /\ py < r.y + r.height

SharePixel(ra, rb) ==
    \E px, py \in Int : Covers(ra, px, py) /\ Covers(rb, px, py)
=============================================================================
