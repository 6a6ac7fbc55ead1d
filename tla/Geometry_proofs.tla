--------------------------- MODULE Geometry_proofs ---------------------------
(***************************************************************************)
(* Proofs about the geometry of layers, for coordinates of any size.       *)
(***************************************************************************)
EXTENDS Geometry, TLAPS

\* The assignment of a uint64_t to an int gives an int, and keeps a value that
\* is one.
LEMMA AsIntRange ==
    ASSUME NEW v \in Nat
    PROVE  /\ AsInt(v) \in -(INT_MAX + 1) .. INT_MAX
           /\ v <= INT_MAX => AsInt(v) = v
<1> DEFINE width == 2 * (INT_MAX + 1)
           low   == v % width
<1>1. width \in Nat /\ width > 0 /\ INT_MAX \in Nat /\ width = INT_MAX + INT_MAX + 2
  BY IntMaxAssumption
<1> HIDE DEF width
<1>2. low \in 0 .. width - 1 /\ (v < width => low = v)
  BY <1>1
<1>3. AsInt(v) = IF low > INT_MAX THEN low - width ELSE low
  BY DEF AsInt, width
<1> HIDE DEF low
<1> QED
  BY <1>1, <1>2, <1>3

\* Every layer has a rectangle, whatever properties the client set or left out.
LEMMA LayerGetRectType ==
    ASSUME NEW props \in [GeometryProps -> Nat \union {NoProp}]
    PROVE  LayerGetRect(props) \in Rect
<1>1. ASSUME NEW name \in GeometryProps, props[name] # NoProp
      PROVE  AsInt(props[name]) \in Int
  BY <1>1, AsIntRange, IntMaxAssumption
<1> QED
  BY <1>1 DEF LayerGetRect, Rect, GeometryProps

\* layer_intersects decides whether two rectangles of positive size share a
\* pixel: the top left corner of their intersection is one.
THEOREM IntersectsIffSharePixel ==
    ASSUME NEW ra \in Rect, NEW rb \in Rect,
           ra.width > 0, ra.height > 0, rb.width > 0, rb.height > 0
    PROVE  Intersects(ra, rb) <=> SharePixel(ra, rb)
<1>1. /\ ra.x \in Int /\ ra.y \in Int /\ ra.width \in Int /\ ra.height \in Int
      /\ rb.x \in Int /\ rb.y \in Int /\ rb.width \in Int /\ rb.height \in Int
  BY DEF Rect
<1>2. ASSUME Intersects(ra, rb)
      PROVE  SharePixel(ra, rb)
  <2> DEFINE px == IF ra.x > rb.x THEN ra.x ELSE rb.x
             py == IF ra.y > rb.y THEN ra.y ELSE rb.y
  <2>1. px \in Int /\ py \in Int
    BY <1>1
  <2>2. Covers(ra, px, py) /\ Covers(rb, px, py)
    BY <1>1, <1>2 DEF Intersects, Covers
  <2> QED
    BY <2>1, <2>2 DEF SharePixel
<1>3. ASSUME NEW px \in Int, NEW py \in Int, Covers(ra, px, py), Covers(rb, px, py)
      PROVE  Intersects(ra, rb)
  BY <1>1, <1>3 DEF Intersects, Covers
<1> QED
  BY <1>2, <1>3 DEF SharePixel

\* It does not matter which of the two layers comes first.
THEOREM IntersectsSymmetric ==
    ASSUME NEW ra \in Rect, NEW rb \in Rect
    PROVE  Intersects(ra, rb) <=> Intersects(rb, ra)
BY DEF Intersects, Rect
==============================================================================
