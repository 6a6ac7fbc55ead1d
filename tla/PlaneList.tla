------------------------------ MODULE PlaneList ------------------------------
(***************************************************************************)
(* The list of planes of a device: liftoff_plane_create with its sorted    *)
(* insertion and its guess of a missing zpos, liftoff_plane_destroy,       *)
(* liftoff_device_register_all_planes and liftoff_device_destroy           *)
(* (plane.c, device.c), on the doubly linked list of list.c.               *)
(*                                                                         *)
(* A call is a sequence of steps, one per iteration of its loops; the      *)
(* client makes the next call when it has returned.                        *)
(***************************************************************************)
EXTENDS Geometry, SequencesExt

CONSTANTS
    NumPlanes,
    Cards          \* what the kernel may say of its planes

ASSUME NumPlanesAssumption == NumPlanes \in Nat

Ids  == 1 .. NumPlanes     \* KMS object ids, in the order the kernel lists them
HEAD == 0                  \* &device->planes
NULL == -1
Nodes == {HEAD} \union Ids

Types == {"primary", "overlay", "cursor"}

\* A plane without a type cannot be registered; one without a zpos can.
Card == [type : [Ids -> Types \union {NoProp}], zpos : [Ids -> Nat \union {NoProp}]]

ASSUME CardsAssumption == Cards \subseteq Card

\* The values of a C int, which the guesses are among.
CInt == -(INT_MAX + 1) .. INT_MAX
ASSUME GuessesAssumption == INT_MAX >= 2

VARIABLES
    card,     \* the planes of the card, which do not change
    next,     \* link.next of each node, NULL outside the list
    prev,     \* link.prev
    zpos,     \* plane->zpos
    pc,       \* what the library is doing
    todo,     \* the planes the current call has yet to register
    cur,      \* the node its loop is at
    result,   \* what the call returns, if it does not fail later
    asked,    \* history: the planes the last call was to register
    order     \* history: the planes in the list, from where they were inserted

list == <<next, prev, order>>
vars == <<card, list, zpos, pc, todo, cur, result, asked>>

new == Head(todo)     \* the plane being created

Primary(id) == card.type[id] = "primary"

Registered == {id \in Ids : next[id] # NULL}

-----------------------------------------------------------------------------
(* list.c                                                                  *)

\* The place of a node in the list.
PositionOf(node) ==
    IF node = HEAD THEN 0 ELSE CHOOSE i \in DOMAIN order : order[i] = node

\* A plausible slip: the node that follows keeps its link back.
ListInsertHalf(node, elm) ==
    /\ prev' = [prev EXCEPT ![elm] = node]
    /\ next' = [next EXCEPT ![elm] = next[node], ![node] = elm]
    /\ order' = InsertAt(order, PositionOf(node) + 1, elm)

\* liftoff_list_insert: elm goes after node.
ListInsert(node, elm) ==
    /\ prev' = [prev EXCEPT ![elm] = node, ![next[node]] = elm]
    /\ next' = [next EXCEPT ![elm] = next[node], ![node] = elm]
    /\ order' = InsertAt(order, PositionOf(node) + 1, elm)

\* liftoff_list_remove
ListRemove(elm) ==
    /\ next' = [next EXCEPT ![prev[elm]] = next[elm], ![elm] = NULL]
    /\ prev' = [prev EXCEPT ![next[elm]] = prev[elm], ![elm] = NULL]
    /\ order' = RemoveAt(order, PositionOf(elm))

-----------------------------------------------------------------------------
Init ==
    /\ card \in Cards
    /\ next = [n \in Nodes |-> IF n = HEAD THEN HEAD ELSE NULL]
    /\ prev = next
    /\ zpos = [id \in Ids |-> 0]
    /\ pc = "idle"
    /\ todo = << >>
    /\ cur = HEAD
    /\ result = "ok"
    /\ asked = {}
    /\ order = << >>

(* Calls of the client                                                     *)

PlaneCreate(id) ==
    /\ pc = "idle"
    /\ pc' = "create"
    /\ todo' = <<id>>
    /\ asked' = {id}
    /\ result' = "ok"
    /\ UNCHANGED <<card, list, zpos, cur>>

\* liftoff_device_register_all_planes, when the kernel lists its planes.
RegisterAllPlanes ==
    /\ pc = "idle"
    /\ Ids # {}
    /\ pc' = "create"
    /\ todo' = [id \in Ids |-> id]
    /\ asked' = Ids
    /\ result' = "ok"
    /\ UNCHANGED <<card, list, zpos, cur>>

PlaneDestroy(id) ==
    /\ pc = "idle"
    /\ id \in Registered
    /\ ListRemove(id)
    /\ asked' = {}
    /\ UNCHANGED <<card, zpos, pc, todo, cur, result>>

DeviceDestroy ==
    /\ pc = "idle"
    /\ pc' = "destroy"
    /\ cur' = next[HEAD]
    /\ asked' = {}
    /\ UNCHANGED <<card, list, zpos, todo, result>>

-----------------------------------------------------------------------------
(* Steps of the library                                                    *)

\* guess_plane_zpos_from_type
GuessPlaneZpos(id) ==
    CASE card.type[id] = "primary" -> 0
      [] card.type[id] = "cursor"  -> 2
      [] card.type[id] = "overlay" ->
            IF next[HEAD] = HEAD THEN 0 ELSE IF id < next[HEAD] THEN -1 ELSE 1

\* A plausible slip: plane->zpos is taken to be as wide as the property.
WideZpos(id) ==
    IF card.zpos[id] = NoProp THEN GuessPlaneZpos(id) ELSE card.zpos[id]

ZposOf(id) ==
    IF card.zpos[id] = NoProp THEN GuessPlaneZpos(id) ELSE AsInt(card.zpos[id])

\* A plane was inserted: go on with the next one, or return.
Created ==
    /\ todo' = Tail(todo)
    /\ pc' = IF Tail(todo) = << >> THEN "idle" ELSE "create"
    /\ UNCHANGED result

\* A plausible slip: a plane that fails is passed over.
CreateFailsSilently ==
    /\ pc = "create"
    /\ Created
    /\ UNCHANGED <<card, list, zpos, cur, asked>>

\* The plane is registered already or has no type, or memory or the kernel
\* fails: no later plane is tried, and the earlier ones stay.
CreateFails ==
    /\ pc = "create"
    /\ pc' = "idle"
    /\ todo' = << >>
    /\ result' = "error"
    /\ UNCHANGED <<card, list, zpos, cur, asked>>

\* The plane is read from the kernel.  A primary one goes first; for another
\* one the loop over the planes starts.
CreateStarts ==
    /\ pc = "create"
    /\ new \notin Registered
    /\ card.type[new] # NoProp
    /\ zpos' = [zpos EXCEPT ![new] = ZposOf(new)]
    /\ IF Primary(new)
       THEN ListInsert(HEAD, new) /\ Created /\ UNCHANGED cur
       ELSE pc' = "scan" /\ cur' = next[HEAD] /\ UNCHANGED <<list, todo, result>>
    /\ UNCHANGED <<card, asked>>

\* A plausible slip: primary planes are compared like others.
FitsBeforeAny == zpos[new] >= zpos[cur]

\* The new plane belongs before the current one.
FitsBefore == ~Primary(cur) /\ zpos[new] >= zpos[cur]

\* A plausible slip: the loop goes on from the head.
ScanOver ==
    /\ pc = "scan"
    /\ cur # HEAD
    /\ ~FitsBefore
    /\ cur' = next[HEAD]
    /\ UNCHANGED <<card, list, zpos, pc, todo, result, asked>>

ScanOn ==
    /\ pc = "scan"
    /\ cur # HEAD
    /\ ~FitsBefore
    /\ cur' = next[cur]
    /\ UNCHANGED <<card, list, zpos, pc, todo, result, asked>>

\* A plausible slip: the plane is inserted on the wrong side.
InsertAfter ==
    /\ pc = "scan"
    /\ cur # HEAD
    /\ FitsBefore
    /\ ListInsert(cur, new)
    /\ Created
    /\ UNCHANGED <<card, zpos, cur, asked>>

InsertBefore ==
    /\ pc = "scan"
    /\ cur # HEAD
    /\ FitsBefore
    /\ ListInsert(prev[cur], new)
    /\ Created
    /\ UNCHANGED <<card, zpos, cur, asked>>

\* "not inserted"
InsertLast ==
    /\ pc = "scan"
    /\ cur = HEAD
    /\ ListInsert(prev[HEAD], new)
    /\ Created
    /\ UNCHANGED <<card, zpos, cur, asked>>

\* The loop of liftoff_device_destroy, which reads a link before it frees it.
DestroyNext ==
    /\ pc = "destroy"
    /\ cur # HEAD
    /\ cur' = next[cur]
    /\ ListRemove(cur)
    /\ UNCHANGED <<card, zpos, pc, todo, result, asked>>

DeviceDestroyed ==
    /\ pc = "destroy"
    /\ cur = HEAD
    /\ pc' = "gone"
    /\ UNCHANGED <<card, list, zpos, todo, cur, result, asked>>

-----------------------------------------------------------------------------
Step ==
    \/ CreateFails \/ CreateStarts
    \/ ScanOn \/ InsertBefore \/ InsertLast
    \/ DestroyNext \/ DeviceDestroyed

ClientCalls ==
    \/ \E id \in Ids : PlaneCreate(id) \/ PlaneDestroy(id)
    \/ RegisterAllPlanes
    \/ DeviceDestroy

Gone == pc = "gone" /\ UNCHANGED vars

Next == ClientCalls \/ Step \/ Gone

\* A call runs until it returns; the client need not make another one.
Spec == Init /\ [][Next]_vars /\ WF_vars(Step)

-----------------------------------------------------------------------------
(* Properties                                                              *)

\* In particular a zpos is an int, whatever the kernel reports.
TypeOK ==
    /\ card \in Card
    /\ next \in [Nodes -> Nodes \union {NULL}]
    /\ prev \in [Nodes -> Nodes \union {NULL}]
    /\ zpos \in [Ids -> CInt]
    /\ pc \in {"idle", "create", "scan", "destroy", "gone"}
    /\ todo \in Seq(Ids)
    /\ cur \in Nodes
    /\ result \in {"ok", "error"}
    /\ asked \subseteq Ids
    /\ order \in Seq(Ids)

\* The i-th node of the list, which begins and ends with its head.
NodeAt(i) == IF i \in DOMAIN order THEN order[i] ELSE HEAD

\* The links in both directions go through the planes in the order in which
\* they were inserted, each once, and planes that are not in the list have none
\* (liftoff_list_insert and liftoff_list_remove).
ListIntact ==
    /\ \A i, j \in DOMAIN order : order[i] = order[j] => i = j
    /\ \A i \in 0 .. Len(order) :
          /\ next[NodeAt(i)] = NodeAt(i + 1)
          /\ prev[NodeAt(i + 1)] = NodeAt(i)
    /\ \A id \in Ids :
          (\A i \in DOMAIN order : order[i] # id) => next[id] = NULL /\ prev[id] = NULL

\* What the rest of the library sees of the list.
Stack == [i \in DOMAIN order |->
            [id |-> order[i], type |-> card.type[order[i]], zpos |-> zpos[order[i]]]]

Abstract == INSTANCE PlaneOrder WITH stack <- Stack

\* In whichever order planes are registered and unregistered, with ties, with
\* several primary planes and with zpos values that wrap, primary planes come
\* first and the others by descending zpos: the allocation relies on it
\* ("Since plane zpos is descending", alloc.c:228).
PlanesSorted == Abstract!Sorted(Stack)

\* Each step registers one plane, unregisters one, or leaves all where they are.
ImplementsPlaneOrder == Abstract!Spec

\* A call that registers planes and returns 0 has registered all of them, though
\* it stops at the first failure and has no way back (device.c:82-86).
SuccessRegistersAll == pc = "idle" /\ result = "ok" => asked \subseteq Registered

\* Every call returns: the loops over the list end.
CallsReturn == [](pc \notin {"idle", "gone"} => <>(pc \in {"idle", "gone"}))

-----------------------------------------------------------------------------
(* What a comment says and the guess does not do                           *)

Guessed(id) == id \in Registered /\ card.zpos[id] = NoProp

\* "From far to close to the eye: primary, overlay, cursor. Unless the overlay
\* ID < primary ID." (plane.c:14-15): whichever planes are registered, a guessed
\* zpos puts an overlay below a primary plane exactly when its id is lower.
GuessFollowsId ==
    \A over, prim \in Registered :
        /\ Guessed(over) /\ card.type[over] = "overlay"
        /\ Guessed(prim) /\ Primary(prim)
        => IF over < prim THEN zpos[over] < zpos[prim] ELSE zpos[over] > zpos[prim]
=============================================================================
