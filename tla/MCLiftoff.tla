------------------------------ MODULE MCLiftoff ------------------------------
(***************************************************************************)
(* Small devices for module Liftoff.                                       *)
(***************************************************************************)
EXTENDS Liftoff

\* alpha 2 stands for 0xFFFF, rotation 1 for DRM_MODE_ROTATE_0.
Opaque == 2
Rotate0 == 1

FbTwo == [l \in Layers |-> [FB_ID |-> {1, 2}]]
FbAlways == [l \in Layers |-> [FB_ID |-> {1}]]
\* The composition layer always has a framebuffer; others come and go.
FbOnly ==
    [l \in Layers |-> [FB_ID |-> IF l = "comp" THEN {1} ELSE {0, 1}]]
FbAlphaValues ==
    [l \in Layers |-> IF l = "comp"
                      THEN [FB_ID |-> {1}, alpha |-> {}]
                      ELSE [FB_ID |-> {0, 1, 2}, alpha |-> {0, 1, Opaque}]]
FbRotation ==
    [l \in Layers |-> [FB_ID |-> {1}, rotation |-> IF l = "l1" THEN {2} ELSE {}]]

\* A primary plane with nothing but the basics, an overlay that has more.
Basic == {"primary", "overlay"}
BasicSupported ==
    [p \in Basic |-> IF p = "primary" THEN {"FB_ID"} ELSE Props]
BasicCrtcs == [p \in Basic |-> Outputs]

\* The primary plane of one output, and an overlay that either can use.
Shared == {"primary", "overlay"}
SharedSupported == [p \in Shared |-> IF p = "primary" THEN {"FB_ID"} ELSE Props]
SharedCrtcs == [p \in Shared |-> IF p = "primary" THEN {"o1"} ELSE Outputs]
=============================================================================
