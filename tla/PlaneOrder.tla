------------------------------ MODULE PlaneOrder ------------------------------
(***************************************************************************)
(* What the list of planes promises to the plane allocation: planes come   *)
(* and go one at a time, none is listed twice, none changes its place      *)
(* among the others, and "primary planes need to be filled first, then     *)
(* planes far from the primary planes, then planes closer and closer to    *)
(* the primary plane" (plane.c).                                           *)
(***************************************************************************)
EXTENDS Integers, SequencesExt

VARIABLE stack    \* the registered planes, in the order they are filled

\* May plane a be filled before plane b?
InOrder(a, b) ==
    \/ a.type = "primary"
    \/ b.type # "primary" /\ a.zpos >= b.zpos

Sorted(s) == \A i, j \in DOMAIN s : i < j => InOrder(s[i], s[j])

EachOnce(s) == \A i, j \in DOMAIN s : s[i].id = s[j].id => i = j

Init == stack = << >>

\* A plane gets a place between the others.
Register ==
    /\ \E i \in DOMAIN stack' : RemoveAt(stack', i) = stack
    /\ Sorted(stack')
    /\ EachOnce(stack')

Unregister == \E i \in DOMAIN stack : stack' = RemoveAt(stack, i)

Next == Register \/ Unregister

Spec == Init /\ [][Next]_stack
=============================================================================
