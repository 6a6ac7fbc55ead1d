---------------------------- MODULE MCApplyRequest ----------------------------
(***************************************************************************)
(* Two planes, of which the first lacks the alpha property, and two layers.      *)
(***************************************************************************)
EXTENDS ApplyRequest

Opaque == 2     \* 0xFFFF

AlphaNames == {"FB_ID", "alpha"}

\* One layer got its framebuffer first, the other one last.
TwoLayerProps == << <<"FB_ID", "alpha">>, <<"alpha", "FB_ID">> >>

AlphaValues ==
    [l \in Layers |-> [name \in AlphaNames |->
        IF name = "FB_ID" THEN {l} ELSE {NoProp, 1, Opaque}]]

AlphaDefaults == [name \in {"alpha"} |-> Opaque]

TwoPlanes == << {"CRTC_ID", "FB_ID"}, {"CRTC_ID", "FB_ID", "alpha"} >>

\* The second layer may be on either plane for another output.
TwoHoldings == { <<NULL, NULL>>, <<2, NULL>>, <<NULL, 2>> }

\* A property of the CRTC.
Requests == { << [plane |-> NULL, name |-> "FB_ID", value |-> 0] >> }
=============================================================================
