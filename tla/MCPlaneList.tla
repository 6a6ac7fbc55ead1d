----------------------------- MODULE MCPlaneList -----------------------------
(***************************************************************************)
(* Cards with few planes, for TLC.                                         *)
(***************************************************************************)
EXTENDS PlaneList

\* A zpos that ties with a guess, and one that is negative once
\* it is stored in an int.
ZposValues == {NoProp, 1, 7}

\* Every type and zpos of each plane.
AllCards ==
    [type : [Ids -> {"primary", "overlay", "cursor", NoProp}],
     zpos : [Ids -> ZposValues]]

\* One primary plane among overlays, none of which has a zpos.
GuessedCards ==
    {[type |-> [id \in Ids |-> IF id = prim THEN "primary" ELSE "overlay"],
      zpos |-> [id \in Ids |-> NoProp]] : prim \in Ids}
=============================================================================
